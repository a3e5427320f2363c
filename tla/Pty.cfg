SPECIFICATION FairSpec
CHECK_DEADLOCK FALSE
CONSTANTS
  Lines <- Ascii
  BufferSize = 2
  MaxRuns = 2
  MaxPrinted = 3
  MaxTyped = 1
INVARIANTS NothingLost OneReader
PROPERTY ImplementsTerminal
