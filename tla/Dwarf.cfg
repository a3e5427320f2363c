SPECIFICATION Spec
CONSTANTS
  Programs <- Files
  Symbols <- Named
INVARIANTS
  TypesAreRight
  TypesAreComplete
  FilesAreRight
CHECK_DEADLOCK FALSE
