CONSTANTS
  LogLen = 3
  MaxChunks = 3
SPECIFICATION Spec
INVARIANT ScreenShowsWholeLogOnReturn
CHECK_DEADLOCK FALSE
