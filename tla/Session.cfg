SPECIFICATION FairSpec
CONSTANTS
  MaxProcs = 2
  MaxEvents = 2
  Events = {"bp", "ignored", "cont", "fatal", "quit", "exited"}
CHECK_DEADLOCK FALSE
INVARIANTS
  TypeOK
  HandlerBound
  FreedOnlyInRestart
  ButtonsMatchStatus
  NoneLeftBehind
PROPERTIES
  StopNotOverwritten
  WaitsReturn
