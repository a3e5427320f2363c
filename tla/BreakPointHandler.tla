---------------------------- MODULE BreakPointHandler ----------------------------
(***************************************************************************)
(* Software breakpoints in the text of the tracee: BreakPointTable,        *)
(* BreakPointHandler, the launch sequence of ProcessTracer (readSymbols,   *)
(* restart) and the reset that QtSignalHandler queues to the GUI thread.   *)
(*                                                                         *)
(* Memory is modelled byte by byte, because ptrace pokes whole words: the  *)
(* original byte of address a is the value a itself, so that a byte that   *)
(* was copied elsewhere is recognised.  The tracee executes one            *)
(* instruction per step along the control flow graph Succ.  It is          *)
(* `wild' once it has executed anything but an original instruction, and   *)
(* what it does after that is not followed: it ends there.                 *)
(***************************************************************************)
EXTENDS Integers

CONSTANTS
  LastByte,        \* the text is the bytes 0..LastByte
  WordSize,        \* bytes of a ptrace word (8 on x86-64)
  Insn,            \* addresses at which an instruction of the program starts
  Len,             \* its length in bytes
  Succ,            \* the instructions that may follow it
  Sites,           \* addresses of the symbols: where a breakpoint may be put
  Start,           \* the address of _start
  DialogOpen,      \* the breakpoints dialog is used while the tracee is not stopped
  ActBeforeReset,  \* the user acts before the queued resets have run
  Signals,         \* other signals stop the tracee also while it is stepped
  MaxResets        \* bound on the resets waiting in the GUI's event queue

Code    == 0 .. LastByte
Offsets == 0 .. WordSize - 1

ASSUME GeometryAssumption ==
  /\ LastByte \in Nat /\ WordSize \in Nat \ {0, 1} /\ MaxResets \in Nat \ {0, 1}
  /\ Insn \subseteq Code /\ Len \in [Insn -> Nat \ {0}]
  /\ \A a \in Insn : a + Len[a] - 1 \in Code
  /\ Succ \in [Insn -> SUBSET Insn]
  /\ Sites \subseteq Insn /\ Start \in Sites
  /\ \A s \in Sites : s + WordSize - 1 \in Code
  /\ {DialogOpen, ActBeforeReset, Signals} \subseteq BOOLEAN

\* What programs look like, for the properties that need it: symbols are a word apart.
SpacedSites == \A s, t \in Sites : s # t => s + WordSize <= t \/ t + WordSize <= s

\* Instructions do not overlap the start of a symbol, and those that start inside the word
\* a breakpoint replaces are reached from inside that word only; if one starts right
\* behind the first byte, from the symbol's first instruction only.
EnteredAtTop ==
  \A s \in Sites, a \in Insn :
    /\ a < s => a + Len[a] <= s
    /\ a \in s + 1 .. s + WordSize - 1 =>
         \A b \in Insn : a \in Succ[b] => b \in s .. s + WordSize - 1 /\ (a = s + 1 => b = s)

Int3  == -1                        \* 0xCC
Alien == -2                        \* a byte that belongs nowhere in this text
Byte  == Code \cup {Int3, Alien}
Word  == [Offsets -> Byte]
NoAddr == -1                       \* std::nullopt
Unset  == [i \in {} |-> 0]         \* the function-local static before its first use

VARIABLES
  text,           \* the tracee's text: Code -> Byte
  rip,            \* its program counter
  run,            \* "stopped", "running", "stepping" (PTRACE_SINGLESTEP) or "dead"
  trapped,        \* rip stands just after an int3 whose instruction was not executed
  wild,           \* the tracee executed something else than an original instruction
  breakPoints,    \* BreakPointTable::breakPoints, address -> saved word
  bpInstruction,  \* the static of BreakPointTable::add
  currentAddr,    \* BreakPointHandler::currentAddr
  resetsDue,      \* QtSignalHandler::resetBreakpoint calls in the event queue
  hpc,            \* where the GUI thread is
  toAdd,          \* the symbols saved over a restart and not yet added again
  disturbed       \* history: what became of this process that two resets cannot make good

tracee  == <<rip, run, trapped, wild>>
table   == <<text, breakPoints, bpInstruction>>
vars    == <<tracee, table, currentAddr, resetsDue, hpc, toAdd, disturbed>>

Launching == {"starting", "startExec", "adding"}
Control   == Launching \cup {"none", "idle", "executing", "beyond"}

WordAt(t, a)  == [i \in Offsets |-> t[a + i]]
Original(a)   == [i \in Offsets |-> a + i]
Pristine      == [x \in Code |-> x]
AlienWord     == [i \in Offsets |-> Alien]         \* the -1 of a failed PEEKTEXT
WithTrap(w)   == [w EXCEPT ![0] = Int3]            \* (w & ~0xFF) | 0xCC
Poke(t, a, w) == [x \in Code |-> IF x - a \in Offsets THEN w[x - a] ELSE t[x]]

isBreakPoint(a) == a \in DOMAIN breakPoints

\* The tracee stands behind the first byte of the word at a.
Inside(a) == rip \in a + 1 .. a + WordSize - 1

\* What disturbs a process: its state when a breakpoint is set, when the user acts, and
\* when the second step of a reset ends.
Disturb(how) == disturbed' = (disturbed \/ how)

(***************************************************************************)
(* BreakPointTable::add and remove on text t.  The trap word is computed   *)
(* by the first call of the program's life only; an address already in     *)
(* the table keeps the word it has.  ptrace fails on a tracee that is not  *)
(* stopped: the word read is then -1 and nothing is written.               *)
(***************************************************************************)
Add(t, probeable, a) ==
  LET word == IF probeable THEN WordAt(t, a) ELSE AlienWord
      bp   == IF bpInstruction = Unset THEN WithTrap(word) ELSE bpInstruction
  IN  /\ bpInstruction' = bp
      /\ text' = IF probeable THEN Poke(t, a, bp) ELSE t
      /\ breakPoints' = [x \in DOMAIN breakPoints \cup {a} |->
                           IF isBreakPoint(x) THEN breakPoints[x] ELSE word]

\* Mutant: the table forgets the breakpoint, the text keeps it.
RemoveFromTable(probeable, a) ==
  /\ isBreakPoint(a)
  /\ breakPoints' = [x \in DOMAIN breakPoints \ {a} |-> breakPoints[x]]
  /\ UNCHANGED <<text, bpInstruction>>

Remove(probeable, a) ==
  /\ isBreakPoint(a)
  /\ text' = IF probeable THEN Poke(text, a, breakPoints[a]) ELSE text
  /\ breakPoints' = [x \in DOMAIN breakPoints \ {a} |-> breakPoints[x]]
  /\ UNCHANGED bpInstruction

Init ==
  /\ text = Pristine /\ rip = Start /\ run = "dead"
  /\ trapped = FALSE /\ wild = FALSE
  /\ breakPoints = [a \in {} |-> AlienWord]
  /\ bpInstruction \in {Unset, WithTrap(AlienWord)}  \* unset, or left by another program
  /\ currentAddr = NoAddr /\ resetsDue = 0 /\ hpc = "none" /\ toAdd = {}
  /\ disturbed = FALSE

-----------------------------------------------------------------------------
\* The tracee.

\* A stop: one that the worker collects queues two resets, one from the handleEvent
\* of waitEvent and one from that of workerLoop; a stop the GUI thread waits for
\* itself queues none.
QueueNone   == UNCHANGED resetsDue      \* a mutant: SIGTRAP is not passed on
QueueResets == resetsDue' = IF hpc = "idle" THEN resetsDue + 2 ELSE resetsDue

Genuine(a) == a \in Insn /\ \A x \in a .. a + Len[a] - 1 : text[x] = x

HitTrap ==
  /\ run \in {"running", "stepping"} /\ ~trapped /\ text[rip] = Int3
  /\ rip' = rip + 1 /\ trapped' = TRUE /\ run' = "stopped"
  /\ QueueResets
  /\ Disturb(hpc = "beyond" /\ resetsDue = 0)
  /\ UNCHANGED <<wild, table, currentAddr, hpc, toAdd>>

ExecuteInsn ==
  /\ run \in {"running", "stepping"} /\ ~trapped /\ Genuine(rip)
  /\ rip' \in Succ[rip]
  /\ \/ run = "running" /\ UNCHANGED <<run, resetsDue>>
     \/ run = "stepping" /\ run' = "stopped" /\ QueueResets
  /\ UNCHANGED <<trapped, wild, table, currentAddr, hpc, toAdd, disturbed>>

Misfetch ==
  /\ run \in {"running", "stepping"}
  /\ trapped \/ (text[rip] # Int3 /\ ~Genuine(rip))
  /\ wild' = TRUE /\ run' = "dead"
  /\ UNCHANGED <<rip, trapped, table, currentAddr, resetsDue, hpc, toAdd, disturbed>>

\* Stopped by SIGSTOP (Process::pause or the outside), or by a signal that comes before the
\* step is made, which executeInstruction takes for its end: no reset is queued.
Interrupt ==
  /\ \/ run = "running" /\ hpc = "idle"
     \/ Signals /\ run = "stepping" /\ hpc \notin Launching
  /\ run' = "stopped"
  /\ Disturb(hpc \in {"executing", "beyond"})
  /\ UNCHANGED <<rip, trapped, wild, table, currentAddr, resetsDue, hpc, toAdd>>

\* Exited or killed, at any point but during a launch.
Exit ==
  /\ run \in {"running", "stepping"} /\ hpc \notin Launching
  /\ run' = "dead"
  /\ UNCHANGED <<rip, trapped, wild, table, currentAddr, resetsDue, hpc, toAdd, disturbed>>

-----------------------------------------------------------------------------
\* The user, through the tool bar and the breakpoints dialog.

UserTurn == hpc = "idle" /\ (resetsDue = 0 \/ ActBeforeReset)

ToggleBreakpoint(a) ==
  /\ UserTurn /\ (run = "stopped" \/ DialogOpen)
  /\ IF isBreakPoint(a) THEN Remove(run = "stopped", a) ELSE Add(text, run = "stopped", a)
  /\ Disturb(resetsDue > 0 \/ run # "stopped" \/ (~isBreakPoint(a) /\ Inside(a)))
  /\ UNCHANGED <<tracee, currentAddr, resetsDue, hpc, toAdd>>

Continue(how) ==
  /\ UserTurn /\ run = "stopped" /\ resetsDue + 2 <= MaxResets
  /\ run' = how
  /\ Disturb(resetsDue > 0)
  /\ UNCHANGED <<rip, trapped, wild, table, currentAddr, resetsDue, hpc, toAdd>>

Resume     == Continue("running")
SingleStep == Continue("stepping")

\* ProcessTracer's constructor and restart(): a new process, the names of the old
\* breakpoints saved, _start planted and the process resumed towards it.
Launch ==
  /\ hpc \in {"none", "idle"}
  /\ toAdd' = DOMAIN breakPoints
  /\ Add(Pristine, TRUE, Start)
  /\ rip' = Start /\ run' = "running" /\ trapped' = FALSE /\ wild' = FALSE
  /\ hpc' = "starting" /\ disturbed' = FALSE
  /\ UNCHANGED <<currentAddr, resetsDue>>

-----------------------------------------------------------------------------
\* The GUI thread.

\* BreakPointHandler::resetBreakpoint up to the waitpid of executeInstruction.
\* Mutant: the program counter is taken for the address of the breakpoint.
StartResetAtRip ==
  /\ run = "stopped" /\ isBreakPoint(rip - 1) /\ rip > 1 /\ currentAddr = NoAddr
  /\ currentAddr' = rip
  /\ text' = Poke(text, rip - 1, breakPoints[rip - 1])
  /\ rip' = rip - 1 /\ trapped' = FALSE
  /\ run' = "stepping"
  /\ UNCHANGED <<wild, breakPoints, bpInstruction, toAdd, disturbed>>

StartReset ==
  /\ run = "stopped" /\ isBreakPoint(rip - 1) /\ rip > 1 /\ currentAddr = NoAddr
  /\ currentAddr' = rip - 1
  /\ text' = Poke(text, rip - 1, breakPoints[rip - 1])
  /\ rip' = rip - 1 /\ trapped' = FALSE
  /\ run' = "stepping"
  /\ UNCHANGED <<wild, breakPoints, bpInstruction, toAdd, disturbed>>

\* restoreBreakpoint, after that waitpid.
RearmNot == text' = text            \* a mutant: the breakpoint is stepped over for good
Rearm ==
  text' = IF run = "stopped"
          THEN Poke(text, currentAddr, WithTrap(breakPoints[currentAddr])) ELSE text

\* A queued QtSignalHandler::resetBreakpoint is run.
ResetBreakpoint ==
  /\ hpc = "idle" /\ resetsDue > 0
  /\ resetsDue' = resetsDue - 1
  /\ \/ StartReset /\ hpc' = "executing"
     \/ /\ ~(run = "stopped" /\ isBreakPoint(rip - 1))
        /\ UNCHANGED <<tracee, table, currentAddr, hpc, toAdd, disturbed>>

\* ... re-arms the breakpoint and steps once more.
RestoreBreakpoint ==
  /\ hpc = "executing" /\ run \in {"stopped", "dead"}
  /\ Rearm
  /\ currentAddr' = NoAddr
  /\ run' = IF run = "stopped" THEN "stepping" ELSE run
  /\ hpc' = "beyond"
  /\ UNCHANGED <<rip, trapped, wild, breakPoints, bpInstruction, resetsDue, toAdd, disturbed>>

ResetReturns ==
  /\ hpc = "beyond" /\ run \in {"stopped", "dead"}
  /\ hpc' = "idle"
  /\ UNCHANGED <<tracee, table, currentAddr, resetsDue, toAdd, disturbed>>

\* readSymbols, after the wait for _start.
ReachStart ==
  /\ hpc = "starting" /\ StartReset
  /\ hpc' = "startExec"
  /\ UNCHANGED resetsDue

\* The end of readSymbols and removeAll of refreshBreakPoint: _start is restored,
\* its breakpoint removed, the table emptied.
\* Mutant: the table is emptied without writing the words back.
ClearTable ==
  /\ hpc = "startExec" /\ run \in {"stopped", "dead"}
  /\ text' = IF run = "stopped" THEN Poke(text, Start, WithTrap(breakPoints[Start])) ELSE text
  /\ breakPoints' = [a \in {} |-> AlienWord]
  /\ currentAddr' = NoAddr
  /\ hpc' = "adding"
  /\ UNCHANGED <<tracee, bpInstruction, resetsDue, toAdd, disturbed>>

RemoveStart ==
  /\ hpc = "startExec" /\ run \in {"stopped", "dead"}
  /\ text' = IF run = "stopped" THEN Poke(text, Start, breakPoints[Start]) ELSE text
  /\ breakPoints' = [a \in {} |-> AlienWord]
  /\ currentAddr' = NoAddr
  /\ hpc' = "adding"
  /\ UNCHANGED <<tracee, bpInstruction, resetsDue, toAdd, disturbed>>

\* One turn of the loop of refreshBreakPoint, in the order of the old table.
AddSaved ==
  /\ hpc = "adding"
  /\ \E a \in toAdd : /\ \A b \in toAdd : a <= b
                      /\ Add(text, run = "stopped", a)
                      /\ toAdd' = toAdd \ {a} /\ Disturb(Inside(a))
  /\ UNCHANGED <<tracee, currentAddr, resetsDue, hpc>>

\* Mutant: the loop ends before the last name.
LaunchReturnsEarly ==
  /\ hpc = "adding"
  /\ hpc' = "idle" /\ toAdd' = {}
  /\ UNCHANGED <<tracee, table, currentAddr, resetsDue, disturbed>>

LaunchReturns ==
  /\ hpc = "adding" /\ toAdd = {}
  /\ hpc' = "idle"
  /\ UNCHANGED <<tracee, table, currentAddr, resetsDue, toAdd, disturbed>>

-----------------------------------------------------------------------------
Tracee  == HitTrap \/ ExecuteInsn \/ Misfetch
Handler == \/ ResetBreakpoint \/ RestoreBreakpoint \/ ResetReturns
           \/ ReachStart \/ RemoveStart \/ AddSaved \/ LaunchReturns
User    == Resume \/ SingleStep \/ Launch \/ \E a \in Sites : ToggleBreakpoint(a)
Next    == Tracee \/ Handler \/ User \/ Interrupt \/ Exit

Spec == Init /\ [][Next]_vars

\* The kernel runs a tracee that is not stopped, and the event loop runs what is
\* queued; nothing makes the user act.
FairSpec == Spec /\ WF_vars(Tracee) /\ WF_vars(Handler)

-----------------------------------------------------------------------------
\* Every variable has its type; the queue stays within its bound.
TypeOK ==
  /\ text \in [Code -> Byte]
  /\ rip \in Code \cup {LastByte + 1}
  /\ run \in {"stopped", "running", "stepping", "dead"}
  /\ trapped \in BOOLEAN /\ wild \in BOOLEAN
  /\ DOMAIN breakPoints \subseteq Sites
  /\ breakPoints \in [DOMAIN breakPoints -> Word]
  /\ bpInstruction \in Word \cup {Unset}
  /\ currentAddr \in Sites \cup {NoAddr}
  /\ resetsDue \in 0 .. MaxResets
  /\ hpc \in Control
  /\ toAdd \subseteq Sites /\ disturbed \in BOOLEAN

\* A live process whose table is its own (not the one a restart is about to refresh).
OwnTable == run # "dead" /\ hpc \notin {"starting", "startExec"}

\* Whatever was toggled, hit, stepped over or re-added after a restart, the word the
\* table saved for an address is the program's own: removing or stepping over the
\* breakpoint gives the program back (BreakPointTable::add, refreshBreakPoint).
SavedIsOriginal ==
  OwnTable => \A a \in DOMAIN breakPoints : breakPoints[a] = Original(a)

\* Every byte outside the words of the armed breakpoints is the program's own, and
\* during a reset so are those of the breakpoint being stepped over: nothing is left
\* behind by a remove, a reset or a launch.
Planted == (IF hpc \in {"starting", "startExec"} THEN {Start} ELSE DOMAIN breakPoints)
             \ {currentAddr}
TextIntegrity ==
  run # "dead" =>
    \A x \in Code : (\A a \in Planted : x \notin a .. a + WordSize - 1) => text[x] = x

\* No breakpoint is lost: whenever the GUI thread is back in its event loop, each
\* address of the table carries its int3.
AllArmed ==
  (hpc = "idle" /\ run # "dead") => \A a \in DOMAIN breakPoints : text[a] = Int3

\* The debugger is transparent: the tracee never executes anything but its own
\* instructions, however breakpoints are set and stepped over.
NeverWild == ~disturbed => ~wild

\* When the queued resets have all run, the tracee does not stand behind an int3
\* with its instruction still to execute.
SettledNotTrapped ==
  (hpc = "idle" /\ resetsDue = 0 /\ run = "stopped" /\ ~disturbed) => ~trapped

\* No int3 is skipped: a tracee running freely never gets past the address of a
\* breakpoint (outside a launch, when none but _start is planted).
NoMissedBreakpoint ==
  [][(run = "running" /\ hpc = "idle" /\ ExecuteInsn) => ~isBreakPoint(rip)]_vars

\* "By default, the breakpoint handler jump to the next instruction when restoring a
\* breakpoint" (ProcessTracer::singlestep): a step of the user never starts behind an
\* int3 that has not been undone.
StepStartsSettled == [][SingleStep => ~trapped]_vars

\* "Restore the good instruction of breakpoint" (restoreInstruction): what is written
\* back at the start of a reset is the program's own word.
GoodInstructionRestored ==
  [][StartReset => WordAt(text', rip') = Original(rip')]_vars

\* A breakpoint that was hit is stepped over, unless the tracee dies.
HitIsSteppedOver == trapped ~> (~trapped \/ run = "dead" \/ disturbed)

\* The handler implements a transparent debugger: an int3 that was executed but not yet
\* undone counts as not executed, a launch is over when the event loop is back, and the
\* breakpoints a restart still has to add again are in force.
Transparent == INSTANCE TransparentDebugging WITH
  pc          <- IF trapped THEN rip - 1 ELSE rip,
  mode        <- IF run = "running" /\ hpc = "idle" THEN "free" ELSE "held",
  breakpoints <- IF hpc \in {"starting", "startExec"} THEN toAdd
                 ELSE DOMAIN breakPoints \cup toAdd

ImplementsTransparent ==
  Transparent!Init /\ [][~disturbed' => [Transparent!Next]_(Transparent!vars)]_vars
=============================================================================
