---------------------------- MODULE MCBreakPointHandler ----------------------------
(***************************************************************************)
(* Programs small enough for TLC.  A ptrace word is three bytes.           *)
(*                                                                         *)
(* prologue  _start at 2 and f at 8 begin with instructions of one byte,   *)
(*           so that others start inside the word a breakpoint replaces;   *)
(*           g at 12 and h at 15 are thunks, and g, h and f may be entered *)
(*           one after the other at once.                                  *)
(* wide      f at 8 may jump straight to g at 14 (a thunk) or go on at 11. *)
(*           The first instruction of each symbol fills its word.          *)
(***************************************************************************)
EXTENDS BreakPointHandler

ASSUME InstanceAssumption == SpacedSites /\ EnteredAtTop

F(a, l, s) == [at |-> a, len |-> l, succ |-> s]
LenOf(prog)  == [a \in {i.at : i \in prog} |-> (CHOOSE i \in prog : i.at = a).len]
SuccOf(prog) == [a \in {i.at : i \in prog} |-> (CHOOSE i \in prog : i.at = a).succ]
InsnOf(prog) == {i.at : i \in prog}

Prologue == { F(2, 1, {3}), F(3, 2, {5}), F(5, 1, {8, 12}),
              F(8, 1, {9}), F(9, 1, {10}), F(10, 1, {8, 5, 12}),
              F(12, 3, {15}), F(15, 3, {8, 5}) }
PrologueInsn  == InsnOf(Prologue)
PrologueLen   == LenOf(Prologue)
PrologueSucc  == SuccOf(Prologue)
PrologueSites == {2, 8, 12, 15}

Wide == { F(2, 3, {5}), F(5, 1, {8, 14}),
          F(8, 3, {11, 14}), F(11, 2, {8, 5}),
          F(14, 3, {17}), F(17, 1, {17, 5, 8}) }
WideInsn  == InsnOf(Wide)
WideLen   == LenOf(Wide)
WideSucc  == SuccOf(Wide)
WideSites == {2, 8, 14}
=============================================================================
