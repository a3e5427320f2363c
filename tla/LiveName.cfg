SPECIFICATION Spec
CONSTANTS
  Cap = 3
  WordSize = 2
  MaxLen = 8
  Byte <- Utf8
INVARIANTS
  OverrunIsOneWord
  NameOrPrefix
CHECK_DEADLOCK FALSE
