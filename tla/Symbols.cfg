SPECIFICATION Spec
CONSTANTS
  exe = exe
  libc = libc
  vdso = vdso
  Exe = exe
  Libs = {libc, vdso}
  Parsable = {libc}
  Builds <- Mixed
  Static = TRUE
  Bases = {20, 40}
  Texts <- SearchTexts
INVARIANTS
  TableMatchesProcess
  FoundInItsFile
  RowsAreSymbols
  SteadyKeepBreakpoints
  RestartSurvives
  TabsShowTable

CHECK_DEADLOCK FALSE
