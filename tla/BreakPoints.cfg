SPECIFICATION FairSpec
CONSTANTS
  LastByte = 18
  WordSize = 3
  Insn  <- PrologueInsn
  Len   <- PrologueLen
  Succ  <- PrologueSucc
  Sites <- PrologueSites
  Start = 2
  DialogOpen = FALSE
  ActBeforeReset = TRUE
  Signals = TRUE
  MaxResets = 4
INVARIANTS
  TypeOK
  SavedIsOriginal
  TextIntegrity
  AllArmed
  NeverWild
  SettledNotTrapped
PROPERTIES
  NoMissedBreakpoint
  HitIsSteppedOver
  ImplementsTransparent
