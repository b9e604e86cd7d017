SPECIFICATION Spec
CONSTANTS
  Configs <- MCConfigs
  KeysOf <- MCKeysOf
  Texts <- MCTexts
  MaxKeys <- MCMaxKeys
  MaxBack = 1
PROPERTY ToneSettlesHorn
CHECK_DEADLOCK FALSE
