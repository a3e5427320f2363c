----------------------------- MODULE Terminal -----------------------------
(***************************************************************************)
(* What the Input/Output tab promises: a terminal that is connected to one *)
(* process at a time and shows what that process prints, each character    *)
(* once, in the order of printing, and in the end.  When it is connected   *)
(* to another process it begins with a clean display; what is not shown of *)
(* a process when its execution ends may never be.                         *)
(*                                                                         *)
(* Characters are numbered in the order of printing.                       *)
(***************************************************************************)
EXTENDS Naturals, Sequences

CONSTANTS
  Process,   \* the processes that may be connected
  None       \* none of them

VARIABLES
  connected,  \* the process the terminal is connected to, or None
  printed,    \* how many characters it has printed
  shown       \* those of them that are on the display

vars == <<connected, printed, shown>>

Init == connected = None /\ printed = 0 /\ shown = <<>>

PutChar ==
  /\ connected # None
  /\ printed' = printed + 1
  /\ UNCHANGED <<connected, shown>>

Unshown == Len(shown) < printed
Show ==
  /\ connected # None /\ Unshown
  /\ \E n \in Len(shown) + 1 .. printed : shown' = [i \in 1 .. n |-> i]
  /\ UNCHANGED <<connected, printed>>

\* A process may have printed before the terminal is connected to it.
Connect(p) ==
  /\ connected' = p /\ p # connected
  /\ printed' \in Nat /\ shown' = <<>>

Disconnect == connected' = None /\ printed' = 0 /\ shown' = <<>>

Next == PutChar \/ Show \/ Disconnect \/ \E p \in Process : Connect(p)

\* Weak fairness of Show, which can be taken as long as something is left to show.
Fairness == []<>~Unshown \/ []<><<Show>>_vars

\* What a terminal never does wrong; and with it, that it goes on.
Safety == Init /\ [][Next]_vars
Spec   == Safety /\ Fairness
=============================================================================
