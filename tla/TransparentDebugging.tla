---------------------------- MODULE TransparentDebugging ----------------------------
(***************************************************************************)
(* What the breakpoints of LDB promise: a debugger that is transparent to  *)
(* the program.  The program counter moves along the program's own control *)
(* flow, one whole instruction at a time; the user's breakpoints change    *)
(* only by the user's toggles and survive a relaunch; and a program that   *)
(* runs freely does not execute the instruction of a breakpoint: it is     *)
(* held there first.                                                       *)
(***************************************************************************)
CONSTANTS Succ, Sites, Start

VARIABLES pc, mode, breakpoints

vars == <<pc, mode, breakpoints>>

Init == pc = Start /\ mode = "held" /\ breakpoints = {}

Advance ==
  /\ mode = "free" => pc \notin breakpoints
  /\ pc' \in Succ[pc]
  /\ UNCHANGED <<mode, breakpoints>>

Hold    == mode = "free" /\ mode' = "held" /\ UNCHANGED <<pc, breakpoints>>
Release == mode = "held" /\ mode' = "free" /\ UNCHANGED <<pc, breakpoints>>

Toggle ==
  /\ mode = "held"
  /\ \E s \in Sites : breakpoints' = (breakpoints \ {s}) \cup ({s} \ breakpoints)
  /\ UNCHANGED <<pc, mode>>

\* A new process of the same program, held at its entry point.
Relaunch == pc' = Start /\ mode' = "held" /\ UNCHANGED breakpoints

Next == Advance \/ Hold \/ Release \/ Toggle \/ Relaunch

Spec == Init /\ [][Next]_vars
=============================================================================
