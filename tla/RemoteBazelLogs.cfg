CONSTANTS
  LogLen = 3
  MaxChunks = 3
SPECIFICATION Spec
INVARIANT TypeOK
INVARIANT ScreenIsLogPrefix
CHECK_DEADLOCK FALSE
