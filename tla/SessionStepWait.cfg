SPECIFICATION FairSpec
CONSTANTS
  MaxProcs = 1
  MaxEvents = 1
  Events = {"bp"}
CHECK_DEADLOCK FALSE
PROPERTIES
  ResetFinishes
