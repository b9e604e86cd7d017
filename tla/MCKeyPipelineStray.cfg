SPECIFICATION Spec
CONSTANTS
  Letters = {"i"}
  Tones = {"s"}
  Chars = {"i", "s", "acute", " ", "enter"}
  Show <- MCShow
  Committed <- MCCommitted
  Raw <- MCRaw
  Quick <- MCQuick
  MaxStack = 2
  MaxKeys = 6
  MaxSpecial = 1
  GoOn = TRUE
INVARIANT PrimedBehindWord
CHECK_DEADLOCK FALSE
