------------------------- MODULE TracerSession_proofs -------------------------
(***************************************************************************)
(* Theorems about TracerSession, for every number of processes and events  *)
(* and every kind of event.                                                *)
(***************************************************************************)
EXTENDS TracerSession, TLAPS, FiniteSetTheorems, SequenceTheorems

-----------------------------------------------------------------------------
(* The invariants.  Where the GUI thread is decides which process the      *)
(* panel and the handler name, and whether a worker may be running.        *)

\* The panel and the handler name the same process, which is not freed.
Bound == /\ hproc = cur /\ asking # "close"
         /\ cur # 0 => ~freed[cur]

Steady     == {"loop", "resumed", "resumedByUser", "refresh", "stepWait1", "stepWait2",
               "killWait"}
NeedTracer == {"resumed", "resumedByUser", "refresh", "stepWait1", "stepWait2", "killWait",
               "stopThread", "join", "stopped", "destroyWait"}

\* A start and the closing end the handler before the process, a restart the process
\* before it stops the worker.
PhaseInv ==
  /\ gpc \in Steady => Bound
  /\ gpc \in NeedTracer => cur # 0 /\ ~freed[cur]
  /\ asking \in {"abort", "restart"} => cur # 0
  /\ gpc \in {"stopThread", "join", "stopped"} =>
       /\ \/ asking = "restart" /\ hproc # 0
          \/ asking \in {"start", "close"} /\ hproc = cur
  /\ gpc = "destroyWait" =>
       /\ tstate[cur] \in {"dead", "reaped"}
       /\ \/ asking = "restart" /\ hproc = cur
          \/ asking \in {"start", "close"} /\ hproc = 0
  /\ gpc = "launch" =>
       /\ \/ asking = "restart" /\ hproc # 0
          \/ asking = "start" /\ hproc = 0
       /\ cur # 0 => freed[cur]
  /\ gpc = "closed" => hproc = 0 /\ (cur # 0 => freed[cur])
  /\ gpc = "aborted" => asking = "restart"

\* The worker is told to stop while the GUI thread joins it and at no other time; no
\* worker runs for no handler, or where the GUI thread has joined it.
WorkerInv ==
  /\ worker_exit <=> gpc = "join"
  /\ is_muted <=> gpc = "join"
  /\ gpc = "stopped" => wpc = "none"
  /\ hproc = 0 => wpc = "none"

\* The mutex is held over the two steps of resume and the wait of kill.
LockInv == locked <=> gpc \in {"resumed", "resumedByUser", "killWait"}

\* A process that was freed is reaped, one that was the tracer's and is no longer is freed,
\* and one that died holds its last status until it is reaped.
NotYet == {"unborn", "starting"}
ProcessInv ==
  \A p \in Procs : /\ freed[p] => tstate[p] = "reaped"
                   /\ tstate[p] \notin NotYet /\ p # cur => freed[p]
                   /\ tstate[p] = "dead" => notice[p] # ""

\* Only a restart has forked a process that is not the tracer's yet, and only one.
StartingInv ==
  \A p \in Procs : tstate[p] = "starting" =>
    /\ gpc \in {"destroyWait", "launch", "aborted"} /\ asking = "restart"
    /\ \A q \in Procs : tstate[q] = "starting" => q = p

StepWaits == {"stepWait1", "stepWait2"}
Resumes   == {"resumed", "resumedByUser"}
Paired(q) == \A i \in 1 .. Len(q) : q[i] = "reset" => i < Len(q) /\ q[i + 1] = "signal"

\* A slot of the handler is in the queue only while there is a handler; a reset has the
\* signal it was posted with behind it.
QueueInv ==
  /\ hproc = 0 => \A i \in 1 .. Len(queue) : queue[i] = "signal"
  /\ Paired(queue)
  /\ gpc \in StepWaits => Len(queue) > 0 /\ queue[1] = "signal"

SessionInv == PhaseInv /\ WorkerInv /\ LockInv /\ ProcessInv /\ StartingInv /\ QueueInv

\* While resume holds the mutex the tracee it continued runs, or its next stop is not
\* yet recorded.
ResumeInv ==
  gpc \in Resumes
    => tstate[cur] = "running" \/ notice[cur] # "" \/ wpc = "update"

SignalQueued == \E i \in 1 .. Len(queue) : queue[i] = "signal"

\* The points of the worker on its way from a wait status to the end of handleEvent.
Handling == {"update", "check1", "set1", "check2", "set2"}

\* Something is under way that ends in an update of the buttons or in a resume.
Pending ==
  \/ SignalQueued
  \/ notice[cur] # "" \/ stopping[cur]
  \/ wpc \in Handling

ButtonsInv ==
  InLoop /\ cur # 0 /\ wpc # "none" => status[cur] \in {shown, "kRunning"} \/ Pending

-----------------------------------------------------------------------------
(* The operations keep the types.                                          *)

Slots == {"reset", "resume", "signal"}

\* The part of TypeOK about the kernel.
KernelOK ==
  /\ tstate \in [Procs -> {"unborn", "starting", "stopped", "running", "stepping", "dead", "reaped"}]
  /\ notice \in [Procs -> Signals \cup {""}]
  /\ stopping \in [Procs -> BOOLEAN] /\ trapped \in [Procs -> BOOLEAN]

\* A system call on any process keeps the types of the kernel's state.
LEMMA CallTypes ==
  ASSUME KernelOK, NEW p,
         \/ \E how \in {"running", "stepping"} : Ptrace(p, how, FALSE)
         \/ KillAll(p, tstate)
         \/ Waited(p)
  PROVE  KernelOK' /\ events' = events
<1>1. CASE \E how \in {"running", "stepping"} : Ptrace(p, how, FALSE)
  BY <1>1 DEF KernelOK, Ptrace, kernel
<1>2. CASE KillAll(p, tstate)
  BY <1>2 DEF KernelOK, KillAll, Signals
<1>3. CASE Waited(p)
  BY <1>3 DEF KernelOK, Waited
<1> QED
  BY <1>1, <1>2, <1>3

\* So does the killing of a restart, with a process forked or without.
LEMMA RestartTypes ==
  ASSUME KernelOK, AnswerRestart
  PROVE  KernelOK' /\ events' = events
<1>1. CASE UNCHANGED kernel
  BY <1>1 DEF KernelOK, kernel
<1>2. CASE ~UNCHANGED kernel
  <2>1. PICK before \in {tstate} \cup {[tstate EXCEPT ![p] = "starting"] : p \in NextBorn} :
          KillAll(cur, before)
    BY <1>2 DEF AnswerRestart
  <2>2. before \in [Procs -> {"unborn", "starting", "stopped", "running", "stepping", "dead",
                              "reaped"}]
    BY <2>1 DEF KernelOK, NextBorn, Unborn
  <2> QED
    BY <2>1, <2>2 DEF KernelOK, KillAll, Signals
<1> QED
  BY <1>1, <1>2

\* An event that is spent leaves a count in range.
LEMMA SpendTypes ==
  ASSUME events \in 0 .. MaxEvents, Spend
  PROVE  events' \in 0 .. MaxEvents
BY SessionAssumption DEF Spend

\* Whatever a tracee does keeps the types too.
LEMMA TraceeTypes ==
  ASSUME KernelOK, events \in 0 .. MaxEvents, NEW p \in Procs, Tracee(p)
  PROVE  KernelOK' /\ events' \in 0 .. MaxEvents
<1>1. CASE HitBreakpoint(p)
  <2>1. events' \in 0 .. MaxEvents
    BY <1>1, SpendTypes DEF HitBreakpoint
  <2> QED
    BY <1>1, <2>1 DEF KernelOK, HitBreakpoint, Halt, Signals
<1>2. CASE ReceiveSignal(p)
  <2>1. events' \in 0 .. MaxEvents
    BY <1>2, SpendTypes DEF ReceiveSignal
  <2> QED
    BY <1>2, <2>1 DEF KernelOK, ReceiveSignal, Halt, Signals
<1>3. CASE End(p)
  <2>1. events' \in 0 .. MaxEvents
    BY <1>3, SpendTypes DEF End
  <2> QED
    BY <1>3, <2>1 DEF KernelOK, End, Halt, Signals
<1>4. CASE DeliverStop(p)
  BY <1>4 DEF KernelOK, DeliverStop, Halt, Signals
<1>5. CASE FinishStep(p)
  BY <1>5 DEF KernelOK, FinishStep, Halt, Signals
<1> QED
  BY <1>1, <1>2, <1>3, <1>4, <1>5 DEF Tracee

\* Posting appends slots to the queue.
LEMMA PostTypes ==
  ASSUME queue \in Seq(Slots), NEW s \in Seq(Slots), Post(s)
  PROVE  /\ queue' \in Seq(Slots) /\ Len(queue') = Len(queue) + Len(s)
         /\ \A i \in 1 .. Len(queue) : queue'[i] = queue[i]
         /\ \A i \in 1 .. Len(s) : queue'[Len(queue) + i] = s[i]
BY DEF Post

\* What the worker posts.
LEMMA PostedSlots ==
  /\ <<>> \in Seq(Slots)
  /\ <<"resume">> \in Seq(Slots)
  /\ <<>> \o <<"signal">> = <<"signal">> /\ <<"signal">> \in Seq(Slots)
  /\ <<"reset">> \o <<"signal">> = <<"reset", "signal">>
  /\ <<"reset", "signal">> \in Seq(Slots)
<1>1. <<"resume">> \in Seq(Slots) /\ <<"signal">> \in Seq(Slots) /\ <<"reset">> \in Seq(Slots)
  BY DEF Slots
<1>2. <<>> \o <<"signal">> = <<"signal">>
  BY <1>1, ConcatEmptySeq
<1>3. <<"reset">> \o <<"signal">> = <<"reset", "signal">>
  <2> DEFINE a == <<"reset">> \o <<"signal">>
             b == <<"reset", "signal">>
  <2>1. /\ a \in Seq(Slots) /\ Len(a) = 2
        /\ \A i \in 1 .. 2 : a[i] = IF i <= 1 THEN "reset" ELSE <<"signal">>[i - 1]
    BY <1>1, ConcatProperties
  <2>2. b \in Seq(Slots) /\ Len(b) = 2
    BY DEF Slots
  <2>3. \A i \in 1 .. 2 : a[i] = b[i]
    BY <2>1
  <2> QED
    BY <2>1, <2>2, <2>3, SeqEqual
<1>4. <<"reset", "signal">> \in Seq(Slots)
  BY DEF Slots
<1> QED
  BY <1>1, <1>2, <1>3, <1>4

\* An event that is ignored posts nothing before the process is resumed; every other one
\* posts a signal, a SIGTRAP a reset in front of it.
LEMMA HandlePosts ==
  ASSUME queue \in Seq(Slots), HandleEvent
  PROVE  \/ /\ wpc' = IF wpc = "check1" THEN "set1" ELSE "set2"
            /\ queue' = queue
         \/ /\ wpc' = Passed(wpc)
            /\ Post(<<"signal">>) \/ Post(<<"reset", "signal">>)
<1> DEFINE reset == IF event.signal = "SIGTRAP" THEN <<"reset">> ELSE <<>>
<1>1. PICK s \in (IF freed[hproc] THEN Status ELSE {status[hproc]}),
           ign \in Ignored(event.signal) :
        IF s = "kStopped" /\ ign
        THEN wpc' = (IF wpc = "check1" THEN "set1" ELSE "set2") /\ Post(reset)
        ELSE wpc' = Passed(wpc) /\ Post(reset \o <<"signal">>)
  BY DEF HandleEvent
<1>2. CASE s = "kStopped" /\ ign
  <2>1. event.signal # "SIGTRAP"
    BY <1>2 DEF Ignored
  <2>2. Post(<<>>)
    BY <1>1, <1>2, <2>1
  <2> QED
    BY <1>1, <1>2, <2>2, ConcatEmptySeq DEF Post
<1>3. CASE ~(s = "kStopped" /\ ign)
  BY <1>1, <1>3, PostedSlots
<1> QED
  BY <1>2, <1>3

\* Delivering takes the first slot and keeps the order of the others.
LEMMA PopTypes ==
  ASSUME queue \in Seq(Slots), NEW slot, Pop(slot)
  PROVE  /\ queue' \in Seq(Slots)
         /\ Len(queue') = Len(queue) - 1 /\ Len(queue) > 0 /\ queue[1] = slot
         /\ \A i \in 1 .. Len(queue') : queue'[i] = queue[i + 1]
  BY DEF Pop

\* What is left of the queue when the handler goes.
LEMMA SignalsTypes ==
  ASSUME queue \in Seq(Slots)
  PROVE  SignalsPosted \in Nat
<1> DEFINE I == {i \in 1 .. Len(queue) : queue[i] = "signal"}
<1>1. IsFiniteSet(1 .. Len(queue))
  BY FS_Interval
<1>2. IsFiniteSet(I)
  BY <1>1, FS_Subset, I \subseteq 1 .. Len(queue)
<1> QED
  BY <1>2, FS_CardinalityType DEF SignalsPosted

\* The other parts of TypeOK, one for each group of variables.
CountOK   == events \in 0 .. MaxEvents
HandlesOK == status \in [Procs -> Status] /\ freed \in [Procs -> BOOLEAN] /\ locked \in BOOLEAN
GuiOK     == /\ cur \in Procs \cup {0} /\ gpc \in GuiPoints
             /\ asking \in {"", "abort", "restart", "start", "close"}
             /\ shown \in Status
QueueOK   == queue \in Seq(Slots)
WorkerOK  == /\ hproc \in Procs \cup {0} /\ wpc \in WorkerPoints
             /\ event \in [signal : Signals, status : Status]
FlagsOK   == worker_exit \in BOOLEAN /\ is_muted \in BOOLEAN
PartsOK   == KernelOK /\ CountOK /\ HandlesOK /\ GuiOK /\ QueueOK /\ WorkerOK /\ FlagsOK

\* TypeOK is its parts.
LEMMA TypeParts == TypeOK <=> PartsOK
<1>1. 0 .. MaxProcs = Procs \cup {0}
  BY SessionAssumption DEF Procs
<1> QED
  BY <1>1, Zenon DEF TypeOK, PartsOK, KernelOK, CountOK, HandlesOK, GuiOK, QueueOK,
                     WorkerOK, FlagsOK, Slots

\* A part none of whose variables changes stays as it is.
LEMMA Kept ==
  /\ UNCHANGED kernel /\ KernelOK /\ CountOK => KernelOK' /\ CountOK'
  /\ UNCHANGED events /\ CountOK => CountOK'
  /\ UNCHANGED handles /\ HandlesOK => HandlesOK'
  /\ UNCHANGED gui /\ GuiOK => GuiOK'
  /\ UNCHANGED queue /\ QueueOK => QueueOK'
  /\ UNCHANGED worker /\ WorkerOK => WorkerOK'
  /\ UNCHANGED flags /\ FlagsOK => FlagsOK'
BY DEF kernel, handles, gui, worker, flags, KernelOK, CountOK, HandlesOK, GuiOK, QueueOK,
       WorkerOK, FlagsOK

\* Every step keeps the types.  Rebind reads the status of the tracer's process, which
\* exists then by PhaseInv.
LEMMA TypeStep ==
  ASSUME PartsOK, PhaseInv, [Next]_vars
  PROVE  PartsOK'
<1> USE DEF PartsOK
<1>0. 0 \notin Procs
  BY SessionAssumption DEF Procs
<1>1. CASE LoopTest
  BY <1>1, Kept DEF LoopTest, WorkerOK, WorkerPoints, worker
<1>2. CASE PollMuted
  BY <1>2, Kept DEF PollMuted, NoEvent, WorkerOK, WorkerPoints, Signals, Status, worker
<1>3. CASE PollTakes
  BY <1>3, Kept, CallTypes DEF PollTakes, Touch, WorkerOK, WorkerPoints, KernelOK,
       StatusOf, Status, CountOK, worker
<1>4. CASE PollFails
  BY <1>4, Kept DEF PollFails, WorkerOK, WorkerPoints, Signals, Status, worker
<1>5. CASE UpdateStatus
  BY <1>5, Kept DEF UpdateStatus, HandlesOK, WorkerOK, WorkerPoints, handles, worker
<1>6. CASE HandleEvent
  <2>1. QueueOK'
    BY <1>6, HandlePosts, PostTypes, PostedSlots DEF QueueOK
  <2>2. WorkerOK'
    BY <1>6 DEF HandleEvent, Passed, WorkerOK, WorkerPoints
  <2> QED
    BY <1>6, <2>1, <2>2, Kept DEF HandleEvent
<1>7. CASE ResumeIgnored
  <2>1. QueueOK'
    BY <1>7, PostTypes, PostedSlots DEF ResumeIgnored, QueueOK
  <2>2. WorkerOK' /\ HandlesOK'
    BY <1>7 DEF ResumeIgnored, Passed, WorkerOK, WorkerPoints, HandlesOK, Status
  <2> QED
    BY <1>7, <2>1, <2>2, Kept DEF ResumeIgnored
<1>8. CASE DeliverSignal
  BY <1>8, Kept, PopTypes, <1>0 DEF DeliverSignal, StatusShown, HandlesOK, GuiOK, Status,
       QueueOK, handles, gui
<1>9. CASE DeliverResume
  BY <1>9, Kept, PopTypes, CallTypes DEF DeliverResume, Resume, HandlesOK, GuiOK,
       GuiPoints, CountOK, QueueOK, handles, gui
<1>10. CASE ResumeEnds
  BY <1>10, Kept DEF ResumeEnds, HandlesOK, GuiOK, GuiPoints, Status, handles, gui
<1>11. CASE Refresh
  BY <1>11, Kept, <1>0 DEF Refresh, StatusShown, HandlesOK, GuiOK, GuiPoints, Status,
       handles, gui
<1>12. CASE DeliverReset
  BY <1>12, Kept, PopTypes, CallTypes DEF DeliverReset, GuiOK, GuiPoints, CountOK,
       QueueOK, gui
<1>13. CASE StepWait1
  BY <1>13, Kept, CallTypes DEF StepWait1, GuiOK, GuiPoints, CountOK, gui
<1>14. CASE StepWait2
  BY <1>14, Kept, CallTypes DEF StepWait2, GuiOK, GuiPoints, CountOK, gui
<1>15. CASE KillReturns
  BY <1>15, Kept, CallTypes DEF KillReturns, HandlesOK, GuiOK, GuiPoints, Status, CountOK,
       handles, gui
<1>16. CASE StopThread
  BY <1>16, Kept DEF StopThread, GuiOK, GuiPoints, FlagsOK, gui, flags
<1>17. CASE Join
  BY <1>17, Kept DEF Join, GuiOK, GuiPoints, FlagsOK, gui, flags
<1>18. CASE Rebind
  BY <1>18, Kept, <1>0 DEF Rebind, PhaseInv, NeedTracer, HandlesOK, GuiOK, GuiPoints,
       WorkerOK, WorkerPoints, handles, gui, worker
<1>19. CASE DestroyHandler
  <2>1. QueueOK'
    BY <1>19, SignalsTypes DEF DestroyHandler, QueueOK, Slots
  <2>2. KernelOK' /\ CountOK'
    BY <1>19, CallTypes, Kept DEF DestroyHandler
  <2>3. GuiOK' /\ WorkerOK'
    BY <1>19 DEF DestroyHandler, GuiOK, GuiPoints, WorkerOK
  <2> QED
    BY <1>19, <2>1, <2>2, <2>3, Kept DEF DestroyHandler
<1>20. CASE ProcessDestroyed
  BY <1>20, Kept, CallTypes DEF ProcessDestroyed, HandlesOK, GuiOK, GuiPoints, CountOK,
       handles, gui
<1>21. CASE Launch
  <2>1. KernelOK' /\ CountOK'
    BY <1>21, Kept DEF Launch, NewProcess, NextBorn, Unborn, KernelOK
  <2>2. HandlesOK'
    BY <1>21 DEF Launch, HandlesOK, Status
  <2>3. GuiOK' /\ WorkerOK'
    BY <1>21 DEF Launch, NewProcess, NextBorn, Unborn, GuiOK, GuiPoints, WorkerOK,
       WorkerPoints, Status
  <2> QED
    BY <1>21, <2>1, <2>2, <2>3, Kept DEF Launch
<1>22. CASE LaunchFails
  BY <1>22, Kept DEF LaunchFails, GuiOK, GuiPoints, Status, CountOK, gui
<1>23. CASE RestartThrows
  BY <1>23, Kept DEF RestartThrows, NewProcess, KernelOK, GuiOK, GuiPoints, CountOK, gui
<1>24. CASE ToggleExecution
  <2>1. CASE Resume(cur, "resumedByUser", "refresh")
    BY <1>24, <2>1, CallTypes, Kept DEF ToggleExecution, Resume, HandlesOK, GuiOK, GuiPoints
  <2>2. CASE ~Resume(cur, "resumedByUser", "refresh")
    BY <1>24, <2>2, SpendTypes, Kept
       DEF ToggleExecution, KernelOK, CountOK, HandlesOK, Status
  <2> QED
    BY <2>1, <2>2
<1>25. CASE Singlestep
  BY <1>25, Kept, SpendTypes DEF Singlestep, KernelOK, CountOK
<1>26. CASE AnswerNo
  BY <1>26, Kept DEF AnswerNo, GuiOK, gui
<1>27. CASE AnswerAbort
  BY <1>27, Kept, CallTypes DEF AnswerAbort, HandlesOK, GuiOK, GuiPoints, CountOK,
       handles, gui
<1>28. CASE AnswerRestart
  <2>1. GuiOK'
    BY <1>28 DEF AnswerRestart, GuiOK, GuiPoints
  <2> QED
    BY <1>28, <2>1, Kept, RestartTypes DEF AnswerRestart, CountOK
<1>29. CASE AnswerStart
  BY <1>29, Kept DEF AnswerStart, GuiOK, GuiPoints, gui
<1>30. CASE Close
  BY <1>30, Kept DEF Close, GuiOK, GuiPoints, gui
<1>31. CASE \E what \in {"abort", "restart", "start"} : Ask(what)
  BY <1>31, Kept DEF Ask, GuiOK
<1>32. CASE \E p \in Procs : Tracee(p)
  BY <1>32, Kept, TraceeTypes DEF Tracee, CountOK
<1>33. CASE UNCHANGED vars
  BY <1>33, Kept DEF vars
<1> QED
  BY <1>1, <1>2, <1>3, <1>4, <1>5, <1>6, <1>7, <1>8, <1>9, <1>10, <1>11, <1>12, <1>13,
     <1>14, <1>15, <1>16, <1>17, <1>18, <1>19, <1>20, <1>21, <1>22, <1>23, <1>24, <1>25,
     <1>26, <1>27, <1>28, <1>29, <1>30, <1>31, <1>32, <1>33 DEF Next, Worker, Gui, User


-----------------------------------------------------------------------------
(* What a step does to the processes and which steps change what.          *)

\* A process that ended stays so, keeps its last status until it is reaped, is forked by a
\* restart at most and comes to life only as the tracer's.
Evolves(p) ==
  /\ tstate[p] = "reaped" => tstate'[p] = "reaped"
  /\ tstate[p] = "dead" => tstate'[p] \in {"dead", "reaped"}
  /\ tstate[p] \in NotYet /\ p # cur' => tstate'[p] \in NotYet
  /\ tstate'[p] = "starting" => tstate[p] = "starting" \/ AnswerRestart
  /\ (tstate[p] = "dead" => notice[p] # "") => (tstate'[p] = "dead" => notice'[p] # "")

\* A system call lets every process evolve, if what it kills is the tracer's.
LEMMA CallEvolves ==
  ASSUME KernelOK, NEW q,
         \/ \E how \in {"running", "stepping"} : Ptrace(q, how, FALSE)
         \/ KillAll(q, tstate) /\ q = cur'
         \/ Waited(q),
         NEW p \in Procs
  PROVE  Evolves(p)
<1> USE DEF NotYet
<1>1. CASE \E how \in {"running", "stepping"} : Ptrace(q, how, FALSE)
  BY <1>1 DEF KernelOK, Ptrace, kernel, Evolves
<1>2. CASE KillAll(q, tstate) /\ q = cur'
  BY <1>2 DEF KernelOK, KillAll, Evolves
<1>3. CASE Waited(q)
  BY <1>3 DEF KernelOK, Waited, Evolves
<1> QED
  BY <1>1, <1>2, <1>3

\* So does a tracee: only a live one acts.
LEMMA TraceeEvolves ==
  ASSUME KernelOK, NEW q \in Procs, Tracee(q), NEW p \in Procs
  PROVE  Evolves(p)
<1> USE DEF NotYet
<1>1. CASE HitBreakpoint(q)
  BY <1>1 DEF KernelOK, HitBreakpoint, Halt, Evolves
<1>2. CASE ReceiveSignal(q)
  BY <1>2 DEF KernelOK, ReceiveSignal, Live, Halt, Evolves
<1>3. CASE End(q)
  BY <1>3 DEF KernelOK, End, Live, Halt, Evolves
<1>4. CASE DeliverStop(q)
  BY <1>4 DEF KernelOK, DeliverStop, Live, Halt, Evolves
<1>5. CASE FinishStep(q)
  BY <1>5 DEF KernelOK, FinishStep, Halt, Evolves
<1> QED
  BY <1>1, <1>2, <1>3, <1>4, <1>5 DEF Tracee

\* Who changes what.
LEMMA Frames ==
  ASSUME [Next]_vars
  PROVE  /\ UNCHANGED <<cur, freed>> \/ ProcessDestroyed \/ Launch \/ LaunchFails \/
               RestartThrows
         /\ UNCHANGED queue \/ HandleEvent \/ ResumeIgnored \/ DeliverSignal \/
               DeliverResume \/ DeliverReset \/ DestroyHandler
         /\ UNCHANGED hproc \/ Rebind \/ DestroyHandler \/ Launch
         /\ gpc' \in StepWaits => gpc \in StepWaits \/ DeliverReset
         /\ gpc' \in Resumes => gpc \in Resumes \/ DeliverResume \/ ToggleExecution
<1> USE DEF StepWaits, Resumes
<1>1. CASE LoopTest
  BY <1>1 DEF LoopTest, gui, handles, worker
<1>2. CASE PollMuted
  BY <1>2 DEF PollMuted, gui, handles, worker
<1>3. CASE PollTakes
  BY <1>3 DEF PollTakes, gui, handles, worker
<1>4. CASE PollFails
  BY <1>4 DEF PollFails, gui, handles, worker
<1>5. CASE UpdateStatus
  BY <1>5 DEF UpdateStatus, gui, handles, worker
<1>6. CASE HandleEvent
  BY <1>6 DEF HandleEvent, gui, handles, worker
<1>7. CASE ResumeIgnored
  BY <1>7 DEF ResumeIgnored, gui, handles, worker
<1>8. CASE DeliverSignal
  BY <1>8 DEF DeliverSignal, gui, handles, worker
<1>9. CASE DeliverResume
  BY <1>9 DEF DeliverResume, Resume, gui, handles, worker
<1>10. CASE ResumeEnds
  BY <1>10 DEF ResumeEnds, gui, handles, worker
<1>11. CASE Refresh
  BY <1>11 DEF Refresh, gui, handles, worker
<1>12. CASE DeliverReset
  BY <1>12 DEF DeliverReset, gui, handles, worker
<1>13. CASE StepWait1
  BY <1>13 DEF StepWait1, gui, handles, worker
<1>14. CASE StepWait2
  BY <1>14 DEF StepWait2, gui, handles, worker
<1>15. CASE KillReturns
  BY <1>15 DEF KillReturns, gui, handles, worker
<1>16. CASE StopThread
  BY <1>16 DEF StopThread, gui, handles, worker
<1>17. CASE Join
  BY <1>17 DEF Join, gui, handles, worker
<1>18. CASE Rebind
  BY <1>18 DEF Rebind, gui, handles
<1>19. CASE DestroyHandler
  BY <1>19 DEF DestroyHandler, gui, handles
<1>20. CASE ProcessDestroyed
  BY <1>20 DEF ProcessDestroyed, worker
<1>21. CASE Launch
  BY <1>21 DEF Launch
<1>22. CASE LaunchFails
  BY <1>22 DEF LaunchFails, worker
<1>23. CASE RestartThrows
  BY <1>23 DEF RestartThrows, worker
<1>24. CASE ToggleExecution
  BY <1>24 DEF ToggleExecution, Resume, gui, handles, worker
<1>25. CASE Singlestep
  BY <1>25 DEF Singlestep, gui, handles, worker
<1>26. CASE AnswerNo
  BY <1>26 DEF AnswerNo, gui, handles, worker
<1>27. CASE AnswerAbort
  BY <1>27 DEF AnswerAbort, gui, handles, worker
<1>28. CASE AnswerRestart
  BY <1>28 DEF AnswerRestart, gui, handles, worker
<1>29. CASE AnswerStart
  BY <1>29 DEF AnswerStart, gui, handles, worker
<1>30. CASE Close
  BY <1>30 DEF Close, gui, handles, worker
<1>31. CASE \E what \in {"abort", "restart", "start"} : Ask(what)
  BY <1>31 DEF Ask, handles, worker
<1>32. CASE \E p \in Procs : Tracee(p)
  BY <1>32 DEF Tracee, gui, handles, worker
<1>33. CASE UNCHANGED vars
  BY <1>33 DEF vars, gui, handles, worker
<1> QED
  BY <1>1, <1>2, <1>3, <1>4, <1>5, <1>6, <1>7, <1>8, <1>9, <1>10, <1>11, <1>12, <1>13,
     <1>14, <1>15, <1>16, <1>17, <1>18, <1>19, <1>20, <1>21, <1>22, <1>23, <1>24, <1>25,
     <1>26, <1>27, <1>28, <1>29, <1>30, <1>31, <1>32, <1>33 DEF Next, Worker, Gui, User

\* So does every step.
LEMMA KernelStep ==
  ASSUME KernelOK, [Next]_vars, NEW p \in Procs
  PROVE  Evolves(p)
<1> USE DEF NotYet
<1>0. UNCHANGED kernel => Evolves(p)
  BY DEF kernel, Evolves
<1>1. CASE LoopTest
  BY <1>1, <1>0 DEF LoopTest
<1>2. CASE PollMuted
  BY <1>2, <1>0 DEF PollMuted
<1>3. CASE PollTakes
  BY <1>3, CallEvolves, <1>0 DEF PollTakes
<1>4. CASE PollFails
  BY <1>4, <1>0 DEF PollFails
<1>5. CASE UpdateStatus
  BY <1>5, <1>0 DEF UpdateStatus
<1>6. CASE HandleEvent
  BY <1>6, <1>0 DEF HandleEvent
<1>7. CASE ResumeIgnored
  BY <1>7, <1>0 DEF ResumeIgnored
<1>8. CASE DeliverSignal
  BY <1>8, <1>0 DEF DeliverSignal
<1>9. CASE DeliverResume
  BY <1>9, CallEvolves, <1>0 DEF DeliverResume, Resume
<1>10. CASE ResumeEnds
  BY <1>10, <1>0 DEF ResumeEnds
<1>11. CASE Refresh
  BY <1>11, <1>0 DEF Refresh
<1>12. CASE DeliverReset
  BY <1>12, CallEvolves, <1>0 DEF DeliverReset
<1>13. CASE StepWait1
  BY <1>13, CallEvolves, <1>0 DEF StepWait1
<1>14. CASE StepWait2
  BY <1>14, CallEvolves, <1>0 DEF StepWait2
<1>15. CASE KillReturns
  BY <1>15, CallEvolves, <1>0 DEF KillReturns
<1>16. CASE StopThread
  BY <1>16, <1>0 DEF StopThread
<1>17. CASE Join
  BY <1>17, <1>0 DEF Join
<1>18. CASE Rebind
  BY <1>18, <1>0 DEF Rebind
<1>19. CASE DestroyHandler
  BY <1>19, CallEvolves, <1>0 DEF DestroyHandler, gui
<1>20. CASE ProcessDestroyed
  BY <1>20, CallEvolves, <1>0 DEF ProcessDestroyed
<1>21. CASE Launch
  <2>1. PICK q \in Procs : /\ tstate[q] \in NotYet /\ cur' = q
                           /\ tstate' = [tstate EXCEPT ![q] = "stopped"] /\ UNCHANGED notice
    BY <1>21 DEF Launch, NewProcess, NextBorn, Unborn
  <2> QED
    BY <2>1 DEF KernelOK, Evolves
<1>22. CASE LaunchFails
  BY <1>22, <1>0 DEF LaunchFails
<1>23. CASE RestartThrows
  BY <1>23 DEF RestartThrows, NewProcess, KernelOK, Evolves
<1>24. CASE ToggleExecution
  BY <1>24, CallEvolves, <1>0 DEF ToggleExecution, Resume, Evolves
<1>25. CASE Singlestep
  BY <1>25 DEF Singlestep, KernelOK, Evolves
<1>26. CASE AnswerNo
  BY <1>26, <1>0 DEF AnswerNo
<1>27. CASE AnswerAbort
  BY <1>27, CallEvolves, <1>0 DEF AnswerAbort, gui
<1>28. CASE AnswerRestart
  <2>1. CASE ~UNCHANGED kernel
    <3>1. PICK before \in {tstate} \cup {[tstate EXCEPT ![q] = "starting"] : q \in NextBorn} :
            KillAll(cur, before) /\ UNCHANGED cur
      BY <1>28, <2>1 DEF AnswerRestart
    <3>2. \A q \in Procs : \/ before[q] = tstate[q]
                           \/ tstate[q] = "unborn" /\ before[q] = "starting"
      <4>1. CASE before = tstate
        BY <4>1
      <4>2. CASE before # tstate
        <5>1. PICK n \in NextBorn : before = [tstate EXCEPT ![n] = "starting"]
          BY <3>1, <4>2
        <5> QED
          BY <5>1 DEF KernelOK, NextBorn, Unborn
      <4> QED
        BY <4>1, <4>2
    <3>3. before \in [Procs -> {"unborn", "starting", "stopped", "running", "stepping", "dead",
                                "reaped"}]
      BY <3>1 DEF KernelOK, NextBorn, Unborn
    <3> QED
      BY <1>28, <3>1, <3>2, <3>3 DEF KernelOK, KillAll, Evolves
  <2> QED
    BY <1>0, <2>1
<1>29. CASE AnswerStart
  BY <1>29, <1>0 DEF AnswerStart
<1>30. CASE Close
  BY <1>30, <1>0 DEF Close
<1>31. CASE \E what \in {"abort", "restart", "start"} : Ask(what)
  BY <1>31, <1>0 DEF Ask
<1>32. CASE \E q \in Procs : Tracee(q)
  BY <1>32, TraceeEvolves
<1>33. CASE UNCHANGED vars
  BY <1>33, <1>0 DEF vars
<1> QED
  BY <1>1, <1>2, <1>3, <1>4, <1>5, <1>6, <1>7, <1>8, <1>9, <1>10, <1>11, <1>12, <1>13,
     <1>14, <1>15, <1>16, <1>17, <1>18, <1>19, <1>20, <1>21, <1>22, <1>23, <1>24, <1>25,
     <1>26, <1>27, <1>28, <1>29, <1>30, <1>31, <1>32, <1>33 DEF Next, Worker, Gui, User

-----------------------------------------------------------------------------
(* The session's invariants are kept.                                      *)

\* The phases of the GUI thread, the requests to the worker and the mutex.
LEMMA ControlStep ==
  ASSUME PartsOK, SessionInv, [Next]_vars
  PROVE  PhaseInv' /\ WorkerInv' /\ LockInv'
<1> USE DEF PhaseInv, WorkerInv, LockInv, Bound, Steady, NeedTracer
<1>a. PartsOK' /\ 0 \notin Procs
  BY TypeStep, SessionAssumption DEF SessionInv, Procs
<1>b. PhaseInv /\ WorkerInv /\ LockInv
  BY DEF SessionInv
<1>c. cur # 0 /\ tstate[cur] \in {"dead", "reaped"} => tstate'[cur] \in {"dead", "reaped"}
  BY KernelStep DEF PartsOK, GuiOK, Evolves
<1>1. CASE LoopTest
  BY <1>1, <1>a, <1>b, <1>c DEF LoopTest, handles, gui, worker, flags
<1>2. CASE PollMuted
  BY <1>2, <1>a, <1>b, <1>c DEF PollMuted, handles, gui, worker, flags
<1>3. CASE PollTakes
  BY <1>3, <1>a, <1>b, <1>c DEF PollTakes, Touch, handles, gui, worker, flags
<1>4. CASE PollFails
  BY <1>4, <1>a, <1>b, <1>c DEF PollFails, handles, gui, worker, flags
<1>5. CASE UpdateStatus
  BY <1>5, <1>a, <1>b, <1>c DEF UpdateStatus, handles, gui, worker, flags
<1>6. CASE HandleEvent
  BY <1>6, <1>a, <1>b, <1>c DEF HandleEvent, Passed, handles, gui, worker, flags
<1>7. CASE ResumeIgnored
  BY <1>7, <1>a, <1>b, <1>c DEF ResumeIgnored, Passed, handles, gui, worker, flags
<1>8. CASE DeliverSignal
  BY <1>8, <1>a, <1>b, <1>c DEF DeliverSignal, InLoop, handles, gui, worker, flags
<1>9. CASE DeliverResume
  <2>1. hproc # 0
    BY <1>9, PopTypes DEF DeliverResume, SessionInv, QueueInv, PartsOK, QueueOK
  <2> QED
    BY <1>9, <1>a, <1>b, <2>1 DEF DeliverResume, Resume, InLoop, handles, gui, worker, flags
<1>10. CASE ResumeEnds
  BY <1>10, <1>a, <1>b, <1>c DEF ResumeEnds, handles, gui, worker, flags
<1>11. CASE Refresh
  BY <1>11, <1>a, <1>b, <1>c DEF Refresh, handles, gui, worker, flags
<1>12. CASE DeliverReset
  <2>1. hproc # 0
    BY <1>12, PopTypes DEF DeliverReset, SessionInv, QueueInv, PartsOK, QueueOK
  <2> QED
    BY <1>12, <1>a, <1>b, <2>1 DEF DeliverReset, InLoop, handles, gui, worker, flags
<1>13. CASE StepWait1
  BY <1>13, <1>a, <1>b, <1>c DEF StepWait1, handles, gui, worker, flags
<1>14. CASE StepWait2
  BY <1>14, <1>a, <1>b, <1>c DEF StepWait2, handles, gui, worker, flags
<1>15. CASE KillReturns
  BY <1>15, <1>a, <1>b, <1>c DEF KillReturns, handles, gui, worker, flags
<1>16. CASE StopThread
  BY <1>16, <1>a, <1>b, <1>c DEF StopThread, handles, gui, worker, flags
<1>17. CASE Join
  BY <1>17, <1>a, <1>b, <1>c DEF Join, handles, gui, worker, flags
<1>18. CASE Rebind
  BY <1>18, <1>a, <1>b, <1>c DEF Rebind, handles, gui, worker, flags
<1>19. CASE DestroyHandler
  BY <1>19, <1>a, <1>b, <1>c DEF DestroyHandler, KillAll, KernelOK, handles, gui, worker,
     flags, PartsOK, GuiOK, SessionInv
<1>20. CASE ProcessDestroyed
  BY <1>20, <1>a, <1>b, <1>c DEF ProcessDestroyed, HandlesOK, handles, gui, worker, flags,
     PartsOK, GuiOK, SessionInv
<1>21. CASE Launch
  <2>1. cur' # 0 /\ ~freed[cur']
    BY <1>21, <1>a DEF Launch, NewProcess, NextBorn, Unborn, SessionInv, ProcessInv
  <2>2. /\ gpc = "launch" /\ UNCHANGED <<freed, locked, worker_exit, is_muted>>
        /\ asking = "restart" =>
             gpc' = "stopThread" /\ UNCHANGED <<asking, hproc, wpc>>
        /\ asking # "restart" =>
             gpc' = "loop" /\ asking' = "" /\ hproc' = cur' /\ wpc' = "test"
    BY <1>21 DEF Launch, flags
  <2> QED
    BY <1>b, <2>1, <2>2
<1>22. CASE LaunchFails
  BY <1>22, <1>a, <1>b, <1>c DEF LaunchFails, handles, gui, worker, flags
<1>23. CASE RestartThrows
  <2>1. /\ gpc = "launch" /\ gpc' = "aborted" /\ asking = "restart" /\ cur' # 0
        /\ UNCHANGED <<handles, asking, worker, flags>>
    BY <1>23, <1>a, <1>b DEF RestartThrows, NewProcess
  <2> QED
    BY <1>b, <2>1 DEF handles, worker, flags
<1>24. CASE ToggleExecution
  <2>1. cur # 0 /\ gpc = "loop" /\ UNCHANGED <<freed, cur, asking, worker, flags>>
    BY <1>24 DEF ToggleExecution, MayPress, InLoop, Resume, gui
  <2>2. \/ locked' = TRUE /\ gpc' = "resumedByUser"
        \/ UNCHANGED locked /\ gpc' \in {"loop", "refresh"}
    BY <1>24, <2>1 DEF ToggleExecution, Resume, gui
  <2> QED
    BY <1>b, <2>1, <2>2 DEF worker, flags
<1>25. CASE Singlestep
  BY <1>25, <1>a, <1>b, <1>c DEF Singlestep, MayPress, InLoop, handles, gui, worker, flags
<1>26. CASE AnswerNo
  BY <1>26, <1>a, <1>b, <1>c DEF AnswerNo, InLoop, handles, gui, worker, flags
<1>27. CASE AnswerAbort
  BY <1>27, <1>a, <1>b, <1>c DEF AnswerAbort, InLoop, handles, gui, worker, flags
<1>28. CASE AnswerRestart
  <2>1. /\ gpc = "loop" /\ asking = "restart" /\ cur \in Procs
        /\ UNCHANGED <<handles, cur, asking, worker, flags>>
    BY <1>28, <1>a, <1>b DEF AnswerRestart, InLoop, PartsOK, GuiOK
  <2>2. \/ gpc' = "aborted"
        \/ gpc' = "destroyWait" /\ tstate'[cur] \in {"dead", "reaped"}
    <3>1. CASE gpc' # "aborted"
      <4>1. PICK before \in {tstate} \cup {[tstate EXCEPT ![p] = "starting"] : p \in NextBorn} :
              KillAll(cur, before) /\ gpc' = "destroyWait"
        BY <1>28, <3>1 DEF AnswerRestart
      <4>2. DOMAIN before = Procs
        BY <4>1 DEF PartsOK, KernelOK
      <4> QED
        BY <2>1, <4>1, <4>2 DEF KillAll
    <3> QED
      BY <3>1
  <2> QED
    BY <1>b, <2>1, <2>2 DEF handles, worker, flags
<1>29. CASE AnswerStart
  BY <1>29, <1>a, <1>b, <1>c DEF AnswerStart, InLoop, handles, gui, worker, flags
<1>30. CASE Close
  BY <1>30, <1>a, <1>b, <1>c DEF Close, InLoop, handles, gui, worker, flags
<1>31. CASE \E what \in {"abort", "restart", "start"} : Ask(what)
  <2>1. gpc = "loop" /\ UNCHANGED <<handles, cur, gpc, worker, flags>>
    BY <1>31 DEF Ask, InLoop
  <2>2. asking' \in {"abort", "restart", "start"} /\ (asking' # "start" => cur # 0)
    BY <1>31 DEF Ask
  <2> QED
    BY <1>b, <2>1, <2>2 DEF handles, worker, flags
<1>32. CASE \E p \in Procs : Tracee(p)
  BY <1>32, <1>b, <1>c DEF Tracee, handles, gui, worker, flags
<1>33. CASE UNCHANGED vars
  BY <1>33, <1>b DEF vars, kernel, handles, gui, worker, flags
<1> QED
  BY <1>1, <1>2, <1>3, <1>4, <1>5, <1>6, <1>7, <1>8, <1>9, <1>10, <1>11, <1>12, <1>13,
     <1>14, <1>15, <1>16, <1>17, <1>18, <1>19, <1>20, <1>21, <1>22, <1>23, <1>24, <1>25,
     <1>26, <1>27, <1>28, <1>29, <1>30, <1>31, <1>32, <1>33 DEF Next, Worker, Gui, User

\* Only ProcessDestroyed frees a handle, and it has waited for the process; the tracer's
\* process changes only where the one before was freed.
LEMMA ProcessStep ==
  ASSUME PartsOK, SessionInv, [Next]_vars
  PROVE  ProcessInv'
<1> SUFFICES ASSUME NEW p \in Procs
             PROVE  /\ freed'[p] => tstate'[p] = "reaped"
                    /\ tstate'[p] \notin NotYet /\ p # cur' => freed'[p]
                    /\ tstate'[p] = "dead" => notice'[p] # ""
  BY DEF ProcessInv
<1>1. Evolves(p) /\ 0 \notin Procs
  BY KernelStep, SessionAssumption DEF PartsOK, Procs
<1>2. /\ freed[p] => tstate[p] = "reaped"
      /\ tstate[p] \notin NotYet /\ p # cur => freed[p]
      /\ tstate[p] = "dead" => notice[p] # ""
  BY DEF SessionInv, ProcessInv
<1>3. CASE UNCHANGED <<cur, freed>>
  BY <1>1, <1>2, <1>3 DEF Evolves
<1>4. CASE ProcessDestroyed
  <2>1. /\ tstate[cur] \in {"dead", "reaped"} /\ cur \in Procs
        /\ tstate' = [tstate EXCEPT ![cur] = IF @ = "dead" THEN "reaped" ELSE @]
    BY <1>4 DEF ProcessDestroyed, Waited, SessionInv, PhaseInv, NeedTracer, PartsOK, GuiOK
  <2>2. tstate'[cur] = "reaped"
    BY <2>1 DEF PartsOK, KernelOK
  <2>3. UNCHANGED cur /\ freed' = [freed EXCEPT ![cur] = TRUE]
    BY <1>4 DEF ProcessDestroyed
  <2> QED
    BY <1>1, <1>2, <2>2, <2>3 DEF Evolves, NotYet, PartsOK, HandlesOK
<1>5. CASE Launch \/ LaunchFails \/ RestartThrows
  <2>1. UNCHANGED freed /\ gpc = "launch"
    BY <1>5 DEF Launch, LaunchFails, RestartThrows, handles
  <2>2. p = cur => freed[p]
    BY <1>1, <2>1 DEF SessionInv, PhaseInv
  <2> QED
    BY <1>1, <1>2, <2>1, <2>2 DEF Evolves
<1> QED
  BY <1>3, <1>4, <1>5, Frames

\* A process that a restart forked starts, or the program ends, before the event loop goes on.
LEMMA StartingStep ==
  ASSUME PartsOK, SessionInv, [Next]_vars
  PROVE  StartingInv'
<1> SUFFICES ASSUME NEW p \in Procs, tstate'[p] = "starting"
             PROVE  /\ gpc' \in {"destroyWait", "launch", "aborted"} /\ asking' = "restart"
                    /\ \A q \in Procs : tstate'[q] = "starting" => q = p
  BY DEF StartingInv
<1>1. StartingInv /\ \A q \in Procs : Evolves(q)
  BY KernelStep DEF PartsOK, SessionInv
<1>2. CASE AnswerRestart
  <2>1. gpc = "loop" /\ asking = "restart" /\ UNCHANGED asking
    BY <1>2 DEF AnswerRestart, InLoop
  <2>2. \A q \in Procs : tstate[q] # "starting"
    BY <1>1, <2>1 DEF StartingInv
  <2>3. ~UNCHANGED kernel
    BY <2>2 DEF kernel
  <2>4. PICK before \in {tstate} \cup {[tstate EXCEPT ![q] = "starting"] : q \in NextBorn} :
          KillAll(cur, before) /\ gpc' = "destroyWait"
    BY <1>2, <2>3 DEF AnswerRestart
  <2>5. /\ DOMAIN before = Procs
        /\ \E n \in Procs : \A q \in Procs : before[q] = "starting" => q = n
    <3>1. CASE before = tstate
      BY <2>2, <3>1 DEF PartsOK, KernelOK
    <3>2. CASE before # tstate
      <4>1. PICK n \in NextBorn : before = [tstate EXCEPT ![n] = "starting"]
        BY <2>4, <3>2
      <4>2. n \in Procs
        BY <4>1 DEF NextBorn, Unborn
      <4> QED
        BY <2>2, <4>1, <4>2 DEF PartsOK, KernelOK
    <3> QED
      BY <3>1, <3>2
  <2>6. \A q \in Procs : tstate'[q] = "starting" => before[q] = "starting"
    BY <2>4, <2>5 DEF KillAll
  <2> QED
    BY <2>1, <2>4, <2>5, <2>6
<1>3. CASE ~AnswerRestart
  <2>1. /\ gpc \in {"destroyWait", "launch", "aborted"} /\ asking = "restart"
        /\ \A q \in Procs : tstate[q] = "starting" => q = p
        /\ tstate[p] = "starting"
        /\ \A q \in Procs : tstate'[q] = "starting" => tstate[q] = "starting"
    BY <1>1, <1>3 DEF StartingInv, Evolves
  <2>2. CASE UNCHANGED gui
    BY <2>1, <2>2 DEF gui
  <2>3. CASE ProcessDestroyed
    BY <2>1, <2>3 DEF ProcessDestroyed
  <2>4. ~Launch
    BY <2>1 DEF Launch, NewProcess, PartsOK, KernelOK
  <2>5. CASE RestartThrows
    BY <2>1, <2>5 DEF RestartThrows
  <2>6. ~LaunchFails
    BY <2>1 DEF LaunchFails
  <2>7. Worker \/ (\E q \in Procs : Tracee(q)) \/ UNCHANGED vars => UNCHANGED gui
    BY DEF Worker, LoopTest, PollMuted, PollTakes, PollFails, UpdateStatus, HandleEvent,
           ResumeIgnored, Tracee, vars
  <2>8. ~User
    <3>1. ~(\E what \in {"abort", "restart", "start"} : Ask(what))
      BY <2>1 DEF Ask, InLoop
    <3> QED
      BY <2>1, <3>1 DEF User, ToggleExecution, Singlestep, MayPress, AnswerNo, AnswerAbort,
                        AnswerRestart, AnswerStart, Close, InLoop
  <2>9. Gui => ProcessDestroyed \/ Launch \/ LaunchFails \/ RestartThrows
    BY <2>1 DEF Gui, DeliverSignal, DeliverResume, DeliverReset, InLoop, ResumeEnds, Refresh,
                StepWait1, StepWait2, KillReturns, StopThread, Join, Rebind, DestroyHandler
  <2> QED
    BY <2>2, <2>3, <2>4, <2>5, <2>6, <2>7, <2>8, <2>9 DEF Next
<1> QED
  BY <1>2, <1>3

\* One slot that is posted is the last of the queue; two are the last two.
LEMMA PostOne ==
  ASSUME queue \in Seq(Slots), NEW slot \in Slots, Post(<<slot>>)
  PROVE  /\ Len(queue') = Len(queue) + 1 /\ queue'[Len(queue) + 1] = slot
         /\ \A i \in 1 .. Len(queue) : queue'[i] = queue[i]
<1> DEFINE one == <<slot>>
<1>1. Len(one) = 1 /\ one[1] = slot /\ one \in Seq(Slots)
  OBVIOUS
<1>2. Post(one) /\ Len(queue) \in Nat
  BY LenProperties
<1> HIDE DEF one
<1>3. /\ Len(queue') = Len(queue) + Len(one)
      /\ \A i \in 1 .. Len(queue) : queue'[i] = queue[i]
      /\ \A i \in 1 .. Len(one) : queue'[Len(queue) + i] = one[i]
  BY <1>1, <1>2, PostTypes
<1> QED
  BY <1>1, <1>2, <1>3

LEMMA PostPair ==
  ASSUME queue \in Seq(Slots), Post(<<"reset", "signal">>)
  PROVE  /\ Len(queue') = Len(queue) + 2
         /\ queue'[Len(queue) + 1] = "reset" /\ queue'[Len(queue) + 2] = "signal"
         /\ \A i \in 1 .. Len(queue) : queue'[i] = queue[i]
<1> DEFINE two == <<"reset", "signal">>
<1>1. Len(two) = 2 /\ two[1] = "reset" /\ two[2] = "signal" /\ two \in Seq(Slots)
  BY PostedSlots
<1>2. Post(two) /\ Len(queue) \in Nat
  BY LenProperties
<1> HIDE DEF two
<1>3. /\ Len(queue') = Len(queue) + Len(two)
      /\ \A i \in 1 .. Len(queue) : queue'[i] = queue[i]
      /\ \A i \in 1 .. Len(two) : queue'[Len(queue) + i] = two[i]
  BY <1>1, <1>2, PostTypes
<1> QED
  BY <1>1, <1>2, <1>3

\* What the worker posts and what the GUI thread takes keep every reset paired with its
\* signal; a reset that is taken leaves the signal in front.
LEMMA PostPaired ==
  ASSUME queue \in Seq(Slots), Paired(queue),
         Post(<<"signal">>) \/ Post(<<"reset", "signal">>) \/ Post(<<"resume">>)
  PROVE  Paired(queue)'
<1>1. Len(queue) \in Nat
  BY LenProperties
<1>2. ASSUME NEW slot \in {"signal", "resume"}, Post(<<slot>>)
      PROVE  Paired(queue)'
  <2>1. /\ Len(queue') = Len(queue) + 1 /\ queue'[Len(queue) + 1] = slot
        /\ \A i \in 1 .. Len(queue) : queue'[i] = queue[i]
    BY <1>2, PostOne DEF Slots
  <2>2. \A i \in 1 .. Len(queue') : queue'[i] = "reset" => i \in 1 .. Len(queue)
    BY <1>1, <2>1
  <2> QED
    BY <1>1, <2>1, <2>2 DEF Paired
<1>3. CASE Post(<<"reset", "signal">>)
  <2>1. /\ Len(queue') = Len(queue) + 2
        /\ queue'[Len(queue) + 1] = "reset" /\ queue'[Len(queue) + 2] = "signal"
        /\ \A i \in 1 .. Len(queue) : queue'[i] = queue[i]
    BY <1>3, PostPair
  <2> QED
    BY <1>1, <2>1 DEF Paired
<1> QED
  BY <1>2, <1>3

LEMMA PopPaired ==
  ASSUME queue \in Seq(Slots), Paired(queue), NEW slot, Pop(slot)
  PROVE  /\ Paired(queue)'
         /\ slot = "reset" => Len(queue') > 0 /\ queue'[1] = "signal"
<1>1. Len(queue) \in Nat
  BY LenProperties
<1> QED
  BY <1>1, PopTypes DEF Paired

\* The queue of a handler that is gone holds no slot of it.
LEMMA QueueStep ==
  ASSUME PartsOK, SessionInv, [Next]_vars
  PROVE  QueueInv'
<1>a. /\ queue \in Seq(Slots) /\ Len(queue) \in Nat
      /\ hproc \in Procs \cup {0} /\ cur \in Procs \cup {0} /\ 0 \notin Procs
  <2>1. 0 \notin Procs
    BY SessionAssumption DEF Procs
  <2> QED
    BY <2>1, LenProperties DEF PartsOK, QueueOK, WorkerOK, GuiOK
<1>b. QueueInv /\ WorkerInv /\ PhaseInv
  BY DEF SessionInv
<1>1. CASE UNCHANGED queue /\ ~DestroyHandler
  <2>1. hproc' = 0 => hproc = 0
    <3>1. CASE Rebind
      BY <1>b, <3>1 DEF Rebind, PhaseInv, NeedTracer
    <3>2. CASE Launch
      BY <1>a, <3>2 DEF Launch, NewProcess, NextBorn, Unborn, worker
    <3> QED
      BY <1>1, <3>1, <3>2, Frames
  <2>2. CASE DeliverReset
    BY <1>a, <1>1, <2>2, PopTypes DEF DeliverReset
  <2>3. CASE ~DeliverReset
    BY <1>b, <1>1, <2>1, <2>3, Frames DEF QueueInv
  <2> QED
    BY <2>2, <2>3
<1>2. CASE HandleEvent \/ ResumeIgnored
  <2>1. hproc # 0 /\ UNCHANGED <<hproc, gpc>>
    BY <1>b, <1>2 DEF HandleEvent, ResumeIgnored, WorkerInv, gui
  <2>2. \/ UNCHANGED queue
        \/ Post(<<"signal">>) \/ Post(<<"reset", "signal">>) \/ Post(<<"resume">>)
    BY <1>a, <1>2, HandlePosts DEF ResumeIgnored
  <2>3. CASE UNCHANGED queue
    BY <1>b, <2>1, <2>3 DEF QueueInv
  <2>4. CASE ~UNCHANGED queue
    <3>1. Paired(queue)'
      BY <1>a, <1>b, <2>2, <2>4, PostPaired DEF QueueInv
    <3>2. Len(queue) > 0 => Len(queue') > 0 /\ queue'[1] = queue[1]
      <4>1. PICK s \in Seq(Slots) : Post(s)
        BY <2>2, <2>4, PostedSlots
      <4>2. Len(s) \in Nat
        BY LenProperties
      <4> QED
        BY <1>a, <4>1, <4>2, PostTypes
    <3> QED
      BY <1>b, <2>1, <3>1, <3>2 DEF QueueInv
  <2> QED
    BY <2>3, <2>4
<1>3. ASSUME NEW slot, Pop(slot), UNCHANGED hproc,
             gpc' \in StepWaits => slot = "reset"
      PROVE  QueueInv'
  <2>1. hproc' = 0 => \A i \in 1 .. Len(queue') : queue'[i] = "signal"
    BY <1>a, <1>b, <1>3, PopTypes DEF QueueInv
  <2> QED
    BY <1>a, <1>b, <1>3, <2>1, PopPaired DEF QueueInv
<1>4. CASE DeliverSignal \/ DeliverResume \/ DeliverReset
  BY <1>3, <1>4 DEF DeliverSignal, DeliverResume, DeliverReset, Resume, InLoop, StepWaits,
                    worker
<1>5. CASE DestroyHandler
  BY <1>5, SignalsTypes, <1>a DEF DestroyHandler, QueueInv, Paired, StepWaits
<1> QED
  BY <1>1, <1>2, <1>4, <1>5, Frames

\* All of it together: initially, by every step, and so always.
LEMMA SessionInit == Init => PartsOK /\ SessionInv
<1> SUFFICES ASSUME Init PROVE PartsOK /\ SessionInv
  OBVIOUS
<1>1. KernelOK /\ CountOK
  <2>1. MaxEvents \in 0 .. MaxEvents
    BY SessionAssumption
  <2>2. KernelOK
    BY DEF Init, KernelOK
  <2> QED
    BY <2>1, <2>2 DEF Init, CountOK
<1>2. HandlesOK /\ GuiOK /\ WorkerOK /\ FlagsOK
  BY DEF Init, HandlesOK, GuiOK, WorkerOK, FlagsOK, NoEvent, Status, Signals, GuiPoints,
         WorkerPoints
<1>3. QueueOK /\ QueueInv
  <2>1. queue = <<>> /\ gpc = "loop"
    BY DEF Init
  <2>2. queue \in Seq(Slots) /\ Len(queue) = 0
    BY <2>1, EmptySeq
  <2> QED
    BY <2>1, <2>2 DEF QueueOK, QueueInv, Paired, StepWaits
<1>4. PhaseInv /\ WorkerInv /\ LockInv
  BY DEF Init, PhaseInv, WorkerInv, LockInv, Bound, Steady, NeedTracer
<1>5. ProcessInv /\ StartingInv
  BY DEF Init, ProcessInv, NotYet, StartingInv
<1> QED
  BY <1>1, <1>2, <1>3, <1>4, <1>5 DEF PartsOK, SessionInv

LEMMA SessionStep == PartsOK /\ SessionInv /\ [Next]_vars => (PartsOK /\ SessionInv)'
BY TypeStep, ControlStep, ProcessStep, StartingStep, QueueStep DEF SessionInv

LEMMA SessionAlways == Spec => [](PartsOK /\ SessionInv)
BY SessionInit, SessionStep, PTL DEF Spec

\* TracerSession's variables have their types, whatever the threads and the kernel do.
THEOREM TypeCorrect == Spec => []TypeOK
<1>1. PartsOK => TypeOK
  BY TypeParts
<1> QED
  BY SessionAlways, <1>1, PTL

\* Whenever the GUI thread is in its event loop, the handler's pointer is the tracer's
\* process, which is not freed, and no request to stop a worker is left over: through every
\* start, restart and kill, whichever thread was handed the wait status.
THEOREM HandlerBoundCorrect == Spec => []HandlerBound
<1>1. PartsOK /\ SessionInv => HandlerBound
  BY DEF SessionInv, PhaseInv, Bound, Steady, WorkerInv, InLoop, HandlerBound
<1> QED
  BY SessionAlways, <1>1, PTL

\* The worker is joined before the handle goes, but for a restart.
THEOREM FreedCorrect == Spec => []FreedOnlyInRestart
<1>1. PartsOK /\ SessionInv => FreedOnlyInRestart
  <2> SUFFICES ASSUME PartsOK, SessionInv, Touch, freed[hproc], asking # "restart"
               PROVE  FALSE
    BY DEF FreedOnlyInRestart
  <2>1. hproc # 0
    BY SessionAssumption DEF Touch, Procs
  <2>2. gpc \in Steady \cup NeedTracer \cup {"launch", "closed", "aborted"}
    BY DEF PartsOK, GuiOK, GuiPoints, Steady, NeedTracer
  <2> QED
    BY <2>1, <2>2 DEF SessionInv, PhaseInv, Bound, Steady, NeedTracer
<1> QED
  BY SessionAlways, <1>1, PTL

\* Once the window is closed every process of the session is reaped.
THEOREM NoneLeftCorrect == Spec => []NoneLeftBehind
<1>1. PartsOK /\ SessionInv => NoneLeftBehind
  <2> SUFFICES ASSUME PartsOK, SessionInv, gpc = "closed", NEW p \in Procs,
                      tstate[p] # "unborn"
               PROVE  tstate[p] = "reaped"
    BY DEF NoneLeftBehind
  <2>1. p # 0
    BY SessionAssumption DEF Procs
  <2>2. tstate[p] \notin NotYet
    BY DEF SessionInv, StartingInv, NotYet
  <2>3. freed[p]
    BY <2>1, <2>2 DEF SessionInv, PhaseInv, ProcessInv
  <2> QED
    BY <2>3 DEF SessionInv, ProcessInv
<1> QED
  BY SessionAlways, <1>1, PTL

-----------------------------------------------------------------------------
(* A stop is not overwritten by the status of a resume.                    *)

\* The mutex keeps the worker from recording a stop, and the GUI thread does nothing else,
\* until the resume has set its status.
LEMMA ResumeStep ==
  ASSUME PartsOK, SessionInv, ResumeInv, [Next]_vars
  PROVE  ResumeInv'
<1> USE DEF Resumes
<1>a. PartsOK' /\ SessionInv' /\ 0 \notin Procs
  BY SessionStep, SessionAssumption DEF Procs
<1>1. CASE gpc \in Resumes
  <2>a. /\ locked /\ hproc = cur /\ cur \in Procs
        /\ tstate[cur] = "running" \/ notice[cur] # "" \/ wpc = "update"
    BY <1>1 DEF SessionInv, LockInv, PhaseInv, Bound, Steady, NeedTracer, ResumeInv, PartsOK,
                GuiOK
  <2>1. CASE PollTakes
    BY <2>1 DEF PollTakes, ResumeInv
  <2>2. CASE LoopTest \/ PollMuted \/ PollFails
    BY <2>a, <2>2 DEF LoopTest, PollMuted, PollFails, ResumeInv, kernel, gui
  <2>3. ~(UpdateStatus \/ HandleEvent \/ ResumeIgnored)
    BY <2>a DEF UpdateStatus, HandleEvent, ResumeIgnored, LockFree
  <2>4. CASE ResumeEnds
    BY <2>4 DEF ResumeEnds, ResumeInv
  <2>5. ~User /\ (Gui => ResumeEnds)
    <3>1. ~(\E what \in {"abort", "restart", "start"} : Ask(what))
      BY <1>1 DEF Ask, InLoop
    <3>2. ~User
      BY <1>1, <3>1 DEF User, ToggleExecution, Singlestep, MayPress, AnswerNo, AnswerAbort,
                        AnswerRestart, AnswerStart, Close, InLoop
    <3>3. Gui => ResumeEnds
      BY <1>1 DEF Gui, DeliverSignal, DeliverResume, DeliverReset, InLoop, Refresh, StepWait1,
                  StepWait2, KillReturns, StopThread, Join, Rebind, DestroyHandler,
                  ProcessDestroyed, Launch, LaunchFails, RestartThrows
    <3> QED
      BY <3>2, <3>3
  <2>6. CASE \E p \in Procs : Tracee(p)
    <3>1. PICK p \in Procs : Tracee(p)
      BY <2>6
    <3>2. UNCHANGED <<gui, wpc>> /\ notice'[p] # ""
          /\ \A q \in Procs \ {p} : tstate'[q] = tstate[q] /\ notice'[q] = notice[q]
      BY <3>1 DEF Tracee, HitBreakpoint, ReceiveSignal, End, DeliverStop, FinishStep, Halt,
                  worker, PartsOK, KernelOK
    <3> QED
      BY <2>a, <3>2 DEF ResumeInv, gui
  <2>7. CASE UNCHANGED vars
    BY <2>7 DEF vars, kernel, gui, worker, ResumeInv
  <2> QED
    BY <2>1, <2>2, <2>3, <2>4, <2>5, <2>6, <2>7 DEF Next, Worker
<1>2. CASE gpc \notin Resumes /\ gpc' \in Resumes
  <2>1. PICK p \in {cur, hproc} :
          Ptrace(p, "running", FALSE) /\ tstate[p] = "stopped" /\ UNCHANGED cur
          /\ gpc = "loop"
    BY <1>2, Frames DEF DeliverResume, ToggleExecution, MayPress, InLoop, Resume, gui
  <2>2. p = cur /\ cur \in Procs
    BY <1>2, <1>a, <2>1 DEF SessionInv, PhaseInv, Bound, Steady, NeedTracer, PartsOK, GuiOK
  <2> QED
    BY <2>1, <2>2 DEF ResumeInv, Ptrace, PartsOK, KernelOK
<1>3. CASE gpc' \notin Resumes
  BY <1>3 DEF ResumeInv
<1> QED
  BY <1>1, <1>2, <1>3, Frames

\* So it is in every state.
LEMMA ResumeAlways == Spec => []ResumeInv
<1>1. Init => ResumeInv
  BY DEF Init, ResumeInv, Resumes
<1>2. PartsOK /\ SessionInv /\ ResumeInv /\ [Next]_vars => ResumeInv'
  BY ResumeStep
<1> QED
  BY SessionAlways, <1>1, <1>2, PTL DEF Spec

\* When Process::resume sets kRunning, no stop of the tracee was recorded since its
\* PTRACE_CONT: the mutex it holds over both is what keeps the worker from it.
THEOREM StopCorrect == Spec => StopNotOverwritten
<1>1. ResumeInv =>
        [ResumeEnds => tstate[cur] = "running" \/ notice[cur] # "" \/ wpc = "update"]_vars
  BY DEF ResumeInv, Resumes, ResumeEnds
<1> QED
  BY ResumeAlways, <1>1, PTL DEF StopNotOverwritten

-----------------------------------------------------------------------------
(* The buttons follow the status.                                          *)

\* A slot that is posted keeps the signals of the queue; one that is delivered too, unless
\* it is a signal itself.
LEMMA QueueKeepsSignal ==
  ASSUME queue \in Seq(Slots), SignalQueued,
         \/ \E s \in Seq(Slots) : Post(s)
         \/ \E slot : slot # "signal" /\ Pop(slot)
  PROVE  SignalQueued'
<1>0. Len(queue) \in Nat
  BY LenProperties
<1>1. ASSUME NEW s \in Seq(Slots), Post(s) PROVE SignalQueued'
  <2>1. Len(s) \in Nat
    BY LenProperties
  <2> QED
    BY <1>0, <1>1, <2>1, PostTypes DEF SignalQueued
<1>2. ASSUME NEW slot, slot # "signal", Pop(slot) PROVE SignalQueued'
  <2>1. PICK i \in 1 .. Len(queue) : queue[i] = "signal"
    BY DEF SignalQueued
  <2>2. i - 1 \in 1 .. Len(queue') /\ queue'[i - 1] = queue[i]
    BY <1>0, <1>2, <2>1, PopTypes
  <2> QED
    BY <2>1, <2>2 DEF SignalQueued
<1> QED
  BY <1>1, <1>2

\* What HandleEvent posts for an event that is not ignored holds a signal.
LEMMA PostedSignal ==
  ASSUME queue \in Seq(Slots), Post(<<"signal">>) \/ Post(<<"reset", "signal">>)
  PROVE  SignalQueued'
<1>0. Len(queue) \in Nat
  BY LenProperties
<1>1. CASE Post(<<"signal">>)
  <2>1. Len(queue') = Len(queue) + 1 /\ queue'[Len(queue) + 1] = "signal"
    BY <1>1, PostOne DEF Slots
  <2> QED
    BY <1>0, <2>1 DEF SignalQueued
<1>2. CASE Post(<<"reset", "signal">>)
  <2>1. Len(queue') = Len(queue) + 2 /\ queue'[Len(queue) + 2] = "signal"
    BY <1>2, PostPair
  <2> QED
    BY <1>0, <2>1 DEF SignalQueued
<1> QED
  BY <1>1, <1>2

\* A status that the buttons do not show has something pending: the worker's event ends in
\* a signal, a reset that takes a wait status has one behind it, a pause has its SIGSTOP.
LEMMA ButtonsStep ==
  ASSUME PartsOK, SessionInv, ButtonsInv, [Next]_vars
  PROVE  ButtonsInv'
<1>a. /\ PartsOK' /\ SessionInv' /\ 0 \notin Procs
      /\ queue \in Seq(Slots) /\ cur \in Procs \cup {0}
  <2>1. 0 \notin Procs
    BY SessionAssumption DEF Procs
  <2> QED
    BY <2>1, SessionStep DEF PartsOK, QueueOK, GuiOK
<1>b. gpc = "loop" => hproc = cur /\ ~worker_exit /\ ~is_muted
  BY DEF SessionInv, PhaseInv, Bound, Steady, WorkerInv
<1>c. SUFFICES ASSUME gpc' = "loop", cur' # 0, wpc' # "none"
               PROVE  status'[cur'] \in {shown', "kRunning"} \/ Pending'
  BY DEF ButtonsInv, InLoop
<1>d. ASSUME gpc = "loop", wpc # "none", UNCHANGED <<status, cur, shown>>,
             UNCHANGED <<notice, stopping>>, SignalQueued => SignalQueued',
             wpc \in Handling => wpc' \in Handling
      PROVE  status'[cur'] \in {shown', "kRunning"} \/ Pending'
  BY <1>c, <1>d DEF ButtonsInv, Pending, Handling, InLoop
<1>e. UNCHANGED queue => (SignalQueued => SignalQueued')
  BY DEF SignalQueued
<1>1. CASE Worker
  <2>1. gpc = "loop" /\ UNCHANGED <<cur, shown>> /\ hproc = cur /\ ~is_muted
    BY <1>1, <1>b, <1>c DEF Worker, LoopTest, PollMuted, PollTakes, PollFails, UpdateStatus,
            HandleEvent, ResumeIgnored, gui
  <2>2. CASE LoopTest
    BY <1>d, <1>e, <2>1, <2>2 DEF LoopTest, kernel, handles, Handling
  <2>3. CASE PollMuted \/ PollTakes \/ PollFails \/ UpdateStatus
    BY <2>1, <2>3 DEF PollMuted, PollTakes, PollFails, UpdateStatus, Pending, Handling
  <2>4. CASE HandleEvent
    <3>1. wpc' \in Handling \/ SignalQueued'
      BY <1>a, <2>4, HandlePosts, PostedSignal DEF Handling
    <3> QED
      BY <3>1 DEF Pending
  <2>5. CASE ResumeIgnored
    BY <1>a, <2>1, <2>5 DEF ResumeIgnored, PartsOK, HandlesOK
  <2> QED
    BY <1>1, <2>2, <2>3, <2>4, <2>5 DEF Worker
<1>2. CASE DeliverSignal \/ Refresh \/ Rebind
  BY <1>2, <1>c DEF DeliverSignal, Refresh, Rebind, StatusShown, handles
<1>3. CASE DeliverResume \/ DeliverReset
  <2>1. gpc = "loop" /\ UNCHANGED <<kernel, status, cur, shown, wpc>>
    BY <1>3, <1>c DEF DeliverResume, DeliverReset, Resume, Ptrace, InLoop, handles, worker
  <2>2. SignalQueued => SignalQueued'
    BY <1>3, <1>a, QueueKeepsSignal DEF DeliverResume, DeliverReset
  <2> QED
    BY <1>c, <1>d, <2>1, <2>2 DEF kernel
<1>4. CASE ResumeEnds
  BY <1>4, <1>a, <1>c DEF ResumeEnds, PartsOK, HandlesOK
<1>5. CASE StepWait2
  <2>1. SignalQueued
    BY <1>5 DEF StepWait2, SessionInv, QueueInv, StepWaits, SignalQueued
  <2> QED
    BY <1>5, <1>e, <2>1 DEF StepWait2, Pending
<1>6. CASE Launch
  BY <1>6, <1>a, <1>c DEF Launch, NewProcess, NextBorn, Unborn, PartsOK, HandlesOK
<1>7. CASE ToggleExecution
  <2>1. cur \in Procs /\ gpc = "loop" /\ UNCHANGED <<cur, shown, queue, wpc>>
    BY <1>7, <1>a DEF ToggleExecution, MayPress, InLoop, Resume, gui, worker
  <2>2. CASE Resume(cur, "resumedByUser", "refresh")
    BY <1>c, <2>2 DEF Resume
  <2>3. CASE ~Resume(cur, "resumedByUser", "refresh")
    <3>1. /\ tstate[cur] # "reaped" /\ UNCHANGED notice
          /\ stopping' = [stopping EXCEPT ![cur] = tstate[cur] # "dead"]
      BY <1>7, <2>3 DEF ToggleExecution
    <3>2. tstate[cur] = "dead" => notice[cur] # ""
      BY <2>1 DEF SessionInv, ProcessInv
    <3> QED
      BY <2>1, <3>1, <3>2 DEF Pending, PartsOK, KernelOK
  <2> QED
    BY <2>2, <2>3
<1>8. CASE Singlestep
  BY <1>8, <1>c DEF Singlestep, handles, gui
<1>9. CASE AnswerNo \/ \E what \in {"abort", "restart", "start"} : Ask(what)
  BY <1>9, <1>c, <1>d, <1>e DEF AnswerNo, Ask, InLoop, kernel, handles, worker
<1>10. CASE \E p \in Procs : Tracee(p)
  <2>1. PICK p \in Procs : Tracee(p)
    BY <1>10
  <2>2. /\ gpc = "loop" /\ UNCHANGED <<handles, gui, queue, worker>> /\ notice'[p] # ""
        /\ \A q \in Procs \ {p} : notice'[q] = notice[q] /\ stopping'[q] = stopping[q]
    BY <2>1, <1>c DEF Tracee, HitBreakpoint, ReceiveSignal, End, DeliverStop, FinishStep, Halt,
                      gui, PartsOK, KernelOK
  <2>3. CASE p = cur
    BY <2>2, <2>3 DEF Pending, gui
  <2>4. CASE p # cur
    BY <1>a, <1>c, <1>e, <2>2, <2>4 DEF ButtonsInv, Pending, InLoop, handles, gui, worker
  <2> QED
    BY <2>3, <2>4
<1>11. CASE UNCHANGED vars
  BY <1>c, <1>d, <1>e, <1>11 DEF vars, kernel, handles, gui, worker
<1>12. ~(StepWait1 \/ KillReturns \/ StopThread \/ Join \/ DestroyHandler)
  BY <1>c DEF StepWait1, KillReturns, StopThread, Join, DestroyHandler
<1>13. ~(ProcessDestroyed \/ LaunchFails \/ RestartThrows)
  BY <1>c DEF ProcessDestroyed, LaunchFails, RestartThrows
<1>14. ~(AnswerAbort \/ AnswerRestart \/ AnswerStart \/ Close)
  BY <1>c DEF AnswerAbort, AnswerRestart, AnswerStart, Close
<1> QED
  BY <1>1, <1>2, <1>3, <1>4, <1>5, <1>6, <1>7, <1>8, <1>9, <1>10, <1>11, <1>12, <1>13, <1>14
     DEF Next, Gui, User

\* The buttons are never left behind a stop or an end of the process.
THEOREM ButtonsCorrect == Spec => []ButtonsMatchStatus
<1>1. Init => ButtonsInv
  BY DEF Init, ButtonsInv
<1>2. PartsOK /\ SessionInv /\ ButtonsInv /\ [Next]_vars => ButtonsInv'
  BY ButtonsStep
<1>3. ButtonsInv => ButtonsMatchStatus
  <2>1. queue = <<>> => ~SignalQueued
    BY DEF SignalQueued
  <2> QED
    BY <2>1 DEF ButtonsInv, ButtonsMatchStatus, AtRest, Pending, Handling, StatusShown
<1> QED
  BY SessionAlways, <1>1, <1>2, <1>3, PTL DEF Spec
=============================================================================
