---------------------------- MODULE MCSymbolResolution ----------------------------
(***************************************************************************)
(* Small programs for TLC: an executable and up to two libraries, one of   *)
(* which (the vdso) cannot be parsed.  Every load address is far enough    *)
(* from the others that no two files overlap.                              *)
(***************************************************************************)
EXTENDS SymbolResolution

CONSTANTS exe, libc, vdso

Fun(n, a) == [name |-> n, addr |-> a]

\* A rebuild moves a function and renames another; a function of libc has two names, and
\* every object its own _init.
Mixed ==
  exe  :> {<<Fun("_init", 1), Fun("main", 2), Fun("work", 4)>>,
           <<Fun("_init", 1), Fun("job", 2), Fun("main", 5)>>}
  @@ libc :> {<<Fun("_init", 1), Fun("write", 3), Fun("__write", 3)>>}
  @@ vdso :> {<<Fun("clock", 1)>>}

\* Every object has an _init of its own.
Shared == exe :> {<<Fun("main", 2), Fun("_init", 4)>>} @@ libc :> {<<Fun("_init", 1)>>}

\* The search bar: empty, or a "w".
NoSearch    == {SymbolNames}
SearchTexts == {SymbolNames, {"work", "write", "__write"}}

\* The instance of the Symbols run meets the hypotheses of the theorems about
\* SymbolResolution, and has functions of every sort.
ASSUME InstanceAssumption ==
  Builds = Mixed =>
    /\ NoPrelinked /\ Apart
    /\ Steady = {<<exe, "main">>, <<libc, "write">>, <<libc, "__write">>}
=============================================================================
