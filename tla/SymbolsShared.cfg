SPECIFICATION Spec
CONSTANTS
  exe = exe
  libc = libc
  vdso = vdso
  Exe = exe
  Libs = {libc}
  Parsable = {libc}
  Builds <- Shared
  Static = FALSE
  Bases = {20, 40}
  Texts <- NoSearch
INVARIANT
  RestartKeepsBreakpoints
