SPECIFICATION Spec
CONSTANTS
  Letters = {"i"}
  Tones = {"s"}
  Chars = {"i", "s", "acute", " ", "enter"}
  Show <- MCShow
  Committed <- MCCommitted
  Raw <- MCRaw
  Quick <- MCQuick
  MaxStack = 2
  MaxKeys = 8
  MaxSpecial = 1
  GoOn = FALSE
INVARIANT WordOnScreen
INVARIANT UndoSound
PROPERTY KeysKeepOrder
CHECK_DEADLOCK FALSE
