SPECIFICATION Spec
CONSTANTS
  LastByte = 18
  WordSize = 3
  Insn  <- WideInsn
  Len   <- WideLen
  Succ  <- WideSucc
  Sites <- WideSites
  Start = 2
  DialogOpen = TRUE
  ActBeforeReset = FALSE
  Signals = FALSE
  MaxResets = 2
PROPERTIES
  GoodInstructionRestored
