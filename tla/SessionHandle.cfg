SPECIFICATION Spec
CONSTANTS
  MaxProcs = 2
  MaxEvents = 1
  Events = {"exited"}
PROPERTIES
  HandleThreadSafe
CHECK_DEADLOCK FALSE
