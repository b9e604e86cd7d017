SPECIFICATION Spec
CONSTANTS
  Configs <- MCConfigs
  KeysOf <- MCKeysOf
  Texts <- MCTexts
  MaxKeys <- MCMaxKeys
  MaxBack = 1
INVARIANT SpellFlagFresh
INVARIANT RawKept
INVARIANT ToneOnTarget
PROPERTY TwiceIsLiteral
PROPERTY CircumflexKeepsSyllable
