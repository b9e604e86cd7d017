SPECIFICATION Spec
CONSTANTS
  Configs <- MCConfigs
  KeysOf <- MCKeysOf
  Texts <- MCTexts
  MaxKeys <- MCMaxKeys
  MaxBack = 1
INVARIANT EmptiedForgets
CHECK_DEADLOCK FALSE
