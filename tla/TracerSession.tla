---------------------------- MODULE TracerSession ----------------------------
(***************************************************************************)
(* A debugging session: the GUI thread (TracerPanel, TracerToolBar and the *)
(* slots of QtSignalHandler), the worker thread of QtSignalHandler, the    *)
(* Process handle they share, and the kernel's view of the tracees.        *)
(*                                                                         *)
(* Both threads call waitpid: the worker polls with WNOHANG, the GUI       *)
(* thread blocks in it when it steps over a breakpoint, kills or destroys. *)
(* A wait status is handed out once, to whichever asks first.  Only the    *)
(* GUI thread may call ptrace, so what the worker wants done it posts to   *)
(* the event queue of the GUI thread.  How a breakpoint is stepped over is *)
(* in module BreakPointHandler; here a reset is its two waits.             *)
(***************************************************************************)
EXTENDS Integers, Sequences, FiniteSets

CONSTANTS
  MaxProcs,    \* bound on the processes forked in a session
  MaxEvents,   \* bound on the spontaneous stops, user steps and pauses
  Events       \* what may stop the tracee: a subset of Spontaneous

Procs == 1 .. MaxProcs

\* A breakpoint; a signal of the ignored set; SIGCONT; one that SignalHandler takes for
\* fatal; SIGQUIT; the end of the program.
Spontaneous == {"bp", "ignored", "cont", "fatal", "quit", "exited"}

ASSUME SessionAssumption ==
  MaxProcs \in Nat \ {0} /\ MaxEvents \in Nat /\ Events \subseteq Spontaneous

Status  == {"kUnknown", "kRunning", "kExited", "kKilled", "kDead", "kStopped"}
Ended   == {"kDead", "kKilled", "kExited"}
Signals == {"SIGTRAP", "SIGSTOP", "SIGCHLD", "SIGCONT", "SIGSEGV", "SIGQUIT", "SIGKILL",
            "None"}

VARIABLES
  \* the kernel
  tstate,    \* of each process: unborn, starting, stopped, running, stepping, dead or reaped
  notice,    \* the wait status not yet handed out: a signal, or "" when there is none
  stopping,  \* SIGSTOP was sent and is not delivered yet
  trapped,   \* the tracee stands behind the int3 of a breakpoint
  events,    \* how many of MaxEvents are left
  \* the Process handles
  status,    \* Process::status of each
  freed,     \* the handle was destroyed
  locked,    \* the GUI thread holds the mutex of the current handle over two steps
  \* the GUI thread
  cur,       \* TracerPanel::process_tracer's process, 0 when there is no tracer
  gpc,       \* what the GUI thread is doing: "loop" is its event loop
  asking,    \* the modal question on the screen, whose nested loop serves the queue
  queue,     \* slots posted to the GUI thread, in order
  shown,     \* the status the tool bar's buttons were last updated for
  \* QtSignalHandler
  hproc,     \* SignalHandler::process, 0 when there is no handler
  wpc,       \* the worker thread
  event,     \* the event it holds
  worker_exit, is_muted

kernel  == <<tstate, notice, stopping, trapped, events>>
handles == <<status, freed, locked>>
gui     == <<cur, gpc, asking, shown>>
worker  == <<hproc, wpc, event>>
flags   == <<worker_exit, is_muted>>
vars    == <<kernel, handles, gui, queue, worker, flags>>

NoEvent == [signal |-> "None", status |-> "kUnknown"]

Init ==
  /\ tstate = [p \in Procs |-> "unborn"] /\ notice = [p \in Procs |-> ""]
  /\ stopping = [p \in Procs |-> FALSE] /\ trapped = [p \in Procs |-> FALSE]
  /\ events = MaxEvents
  /\ status = [p \in Procs |-> "kUnknown"] /\ freed = [p \in Procs |-> FALSE]
  /\ locked = FALSE
  /\ cur = 0 /\ gpc = "loop" /\ asking = "" /\ queue = <<>> /\ shown = "kDead"
  /\ hproc = 0 /\ wpc = "none" /\ event = NoEvent
  /\ worker_exit = FALSE /\ is_muted = FALSE

-----------------------------------------------------------------------------
\* The tracees.

\* The window was closed, or an exception nobody catches ended the program.
Over == gpc \in {"closed", "aborted"}

Live(p) == tstate[p] \in {"running", "stepping"}

Halt(p, sig, as) ==
  /\ tstate' = [tstate EXCEPT ![p] = as]
  /\ notice' = [notice EXCEPT ![p] = sig]

Spend == events > 0 /\ events' = events - 1

HitBreakpoint(p) ==
  /\ "bp" \in Events /\ tstate[p] = "running" /\ ~trapped[p] /\ Spend
  /\ Halt(p, "SIGTRAP", "stopped")
  /\ trapped' = [trapped EXCEPT ![p] = TRUE]
  /\ UNCHANGED stopping

ReceiveSignal(p) ==
  /\ Live(p) /\ Spend
  /\ \/ "ignored" \in Events /\ Halt(p, "SIGCHLD", "stopped")
     \/ "cont" \in Events /\ Halt(p, "SIGCONT", "stopped")
     \/ "fatal" \in Events /\ Halt(p, "SIGSEGV", "stopped")
     \/ "quit" \in Events /\ Halt(p, "SIGQUIT", "stopped")
  /\ UNCHANGED <<stopping, trapped>>

\* Exit is reported as SIGQUIT (pollEvent).
End(p) ==
  /\ "exited" \in Events /\ Live(p) /\ Spend
  /\ Halt(p, "SIGQUIT", "dead")
  /\ UNCHANGED <<stopping, trapped>>

DeliverStop(p) ==
  /\ Live(p) /\ stopping[p]
  /\ Halt(p, "SIGSTOP", "stopped")
  /\ stopping' = [stopping EXCEPT ![p] = FALSE]
  /\ UNCHANGED <<trapped, events>>

\* A step may execute the int3 of a breakpoint, but for the step over one, which was put
\* back to the instruction it replaces.
FinishStep(p) ==
  /\ tstate[p] = "stepping" /\ ~stopping[p]
  /\ Halt(p, "SIGTRAP", "stopped")
  /\ \/ UNCHANGED trapped
     \/ "bp" \in Events /\ gpc # "stepWait1" /\ trapped' = [trapped EXCEPT ![p] = TRUE]
  /\ UNCHANGED <<stopping, events>>

Tracee(p) ==
  /\ ~Over
  /\ \/ HitBreakpoint(p) \/ ReceiveSignal(p) \/ End(p) \/ DeliverStop(p) \/ FinishStep(p)
  /\ UNCHANGED <<handles, gui, queue, worker, flags>>

-----------------------------------------------------------------------------
\* System calls on process p.

\* ptrace(CONT or SINGLESTEP): ESRCH unless the tracee is stopped; a wait status nobody
\* has taken yet is lost.  Continuing behind an int3 leaves the breakpoint behind.
Ptrace(p, how, behind) ==
  IF tstate[p] = "stopped"
  THEN /\ tstate' = [tstate EXCEPT ![p] = how]
       /\ notice' = [notice EXCEPT ![p] = ""]
       /\ trapped' = [trapped EXCEPT ![p] = behind]
       /\ UNCHANGED <<stopping, events>>
  ELSE UNCHANGED kernel

\* kill(SIGKILL): fails on a process that was reaped.
KillAll(p, before) ==
  /\ tstate' = [before EXCEPT ![p] = IF @ \in {"dead", "reaped"} THEN @ ELSE "dead"]
  /\ notice' = [notice EXCEPT ![p] = IF tstate[p] \in {"dead", "reaped"} THEN @ ELSE "SIGKILL"]
  /\ UNCHANGED <<stopping, trapped, events>>

\* waitpid: returns with a status, or with ECHILD once the process is reaped.
Waited(p) ==
  /\ notice[p] # "" \/ tstate[p] = "reaped"
  /\ notice' = [notice EXCEPT ![p] = ""]
  /\ tstate' = [tstate EXCEPT ![p] = IF @ = "dead" THEN "reaped" ELSE @]
  /\ UNCHANGED <<stopping, trapped, events>>

-----------------------------------------------------------------------------
\* The worker: workerLoop, waitEvent, pollEvent, makeEventFromSignal, handleEvent.
\* A handle that was freed under it answers anything.

LockNone == TRUE                    \* a mutant: the status has no mutex
LockFree == ~locked \/ hproc # cur
Touch    == hproc \in Procs

StatusNone(sig) == "None"           \* a mutant: the signal is put in place of a status
StatusOf(sig) ==
  CASE sig = "SIGCONT" -> "kRunning"
    [] sig = "SIGQUIT" -> "kExited"
    [] sig \in {"SIGTRAP", "SIGSTOP", "SIGCHLD"} -> "kStopped"
    [] OTHER -> "kKilled"

\* SIGCONT is in the ignored set but never resumed from.
Ignored(sig) == CASE sig = "SIGCHLD" -> {TRUE}
                  [] sig = "None" -> BOOLEAN        \* ignored_signals[kSignalCount]
                  [] OTHER -> {FALSE}

Post(slots) == queue' = queue \o slots

LoopTest ==
  /\ wpc = "test"
  /\ wpc' = IF worker_exit THEN "none" ELSE "poll"
  /\ UNCHANGED <<kernel, handles, gui, queue, hproc, event, flags>>

PollMuted ==
  /\ wpc = "poll" /\ is_muted
  /\ \/ event' = NoEvent /\ wpc' = "check2"  \* muted before it began: not handled here
     \/ wpc' = "test" /\ UNCHANGED event     \* muted while it slept
  /\ UNCHANGED <<kernel, handles, gui, queue, hproc, flags>>

PollTakes ==
  /\ wpc = "poll" /\ Touch /\ notice[hproc] # "" /\ ~freed[hproc]
  /\ Waited(hproc)
  /\ event' = [signal |-> notice[hproc], status |-> StatusOf(notice[hproc])]
  /\ wpc' = "update"
  /\ UNCHANGED <<handles, gui, queue, hproc, flags>>

PollFails ==
  /\ wpc = "poll" /\ Touch /\ (freed[hproc] \/ tstate[hproc] = "reaped")
  /\ event' = [signal |-> "SIGQUIT", status |-> "kDead"]
  /\ wpc' = "check1"
  /\ UNCHANGED <<kernel, handles, gui, queue, hproc, flags>>

UpdateStatus ==
  /\ wpc = "update" /\ LockFree
  /\ status' = [status EXCEPT ![hproc] = event.status]
  /\ wpc' = "check1"
  /\ UNCHANGED <<kernel, freed, locked, gui, queue, hproc, event, flags>>

\* workerLoop handles the event again: "check1" and "set1" are the handleEvent of
\* waitEvent, "check2" and "set2" that of workerLoop.
Passed(pc) == IF pc \in {"check1", "set1"} THEN "check2"
              ELSE IF event.status \in Ended THEN "none" ELSE "test"

HandleEvent ==
  /\ wpc \in {"check1", "check2"} /\ LockFree
  /\ \E s \in (IF freed[hproc] THEN Status ELSE {status[hproc]}), ign \in Ignored(event.signal) :
       LET reset == IF event.signal = "SIGTRAP" THEN <<"reset">> ELSE <<>> IN
       IF s = "kStopped" /\ ign
       THEN wpc' = (IF wpc = "check1" THEN "set1" ELSE "set2") /\ Post(reset)
       ELSE wpc' = Passed(wpc) /\ Post(reset \o <<"signal">>)
  /\ UNCHANGED <<kernel, handles, gui, hproc, event, flags>>

ResumeIgnored ==
  /\ wpc \in {"set1", "set2"} /\ LockFree
  /\ status' = [status EXCEPT ![hproc] = "kRunning"]
  /\ Post(<<"resume">>)
  /\ wpc' = Passed(wpc)
  /\ UNCHANGED <<kernel, freed, locked, gui, hproc, event, flags>>

Worker == /\ ~Over
          /\ \/ LoopTest \/ PollMuted \/ PollTakes \/ PollFails \/ UpdateStatus
             \/ HandleEvent \/ ResumeIgnored

-----------------------------------------------------------------------------
\* The GUI thread: slots it delivers from the queue.  A slot of the handler acts on the
\* handler's process, which outside a restart is the tracer's.

InLoop == gpc = "loop"
StatusShown == IF cur = 0 THEN "kDead" ELSE status[cur]

Pop(slot) == queue # <<>> /\ Head(queue) = slot /\ queue' = Tail(queue)

\* TracerPanel::signalReceived: the tool bar's buttons are brought up to date.
DeliverSignal ==
  /\ InLoop /\ Pop("signal")
  /\ shown' = StatusShown
  /\ UNCHANGED <<kernel, handles, cur, gpc, asking, worker, flags>>

\* Process::resume, in two steps under the mutex: PTRACE_CONT, then the status.
Resume(p, then, failed) ==
  /\ Ptrace(p, "running", FALSE)
  /\ IF tstate[p] = "stopped" THEN locked' = TRUE /\ gpc' = then
                              ELSE UNCHANGED locked /\ gpc' = failed
  /\ UNCHANGED <<status, freed, cur, asking, shown, worker, flags>>

DeliverResume == InLoop /\ Pop("resume") /\ Resume(hproc, "resumed", "loop")

ResumeEnds ==
  /\ gpc \in {"resumed", "resumedByUser"}
  /\ status' = [status EXCEPT ![cur] = "kRunning"]
  /\ locked' = FALSE
  /\ gpc' = IF gpc = "resumed" THEN "loop" ELSE "refresh"
  /\ UNCHANGED <<kernel, freed, cur, asking, shown, queue, worker, flags>>

\* Mutant: the buttons are left as they are.
RefreshNothing ==
  /\ gpc = "refresh"
  /\ gpc' = "loop"
  /\ UNCHANGED <<kernel, handles, cur, asking, shown, queue, worker, flags>>

Refresh ==
  /\ gpc = "refresh"
  /\ gpc' = "loop" /\ shown' = StatusShown
  /\ UNCHANGED <<kernel, handles, cur, asking, queue, worker, flags>>

\* QtSignalHandler::resetBreakpoint: a step over the breakpoint, and one more.
DeliverReset ==
  /\ InLoop /\ Pop("reset")
  /\ IF tstate[hproc] = "stopped" /\ trapped[hproc]
     THEN Ptrace(hproc, "stepping", FALSE) /\ gpc' = "stepWait1"
     ELSE UNCHANGED <<kernel, gpc>>
  /\ UNCHANGED <<handles, cur, asking, shown, worker, flags>>

StepWait1 ==
  /\ gpc = "stepWait1"
  /\ IF tstate[hproc] = "stopped"
     THEN notice[hproc] # "" /\ Ptrace(hproc, "stepping", FALSE)
     ELSE Waited(hproc)
  /\ gpc' = "stepWait2"
  /\ UNCHANGED <<handles, cur, asking, shown, queue, worker, flags>>

StepWait2 ==
  /\ gpc = "stepWait2"
  /\ Waited(hproc)
  /\ gpc' = "loop"
  /\ UNCHANGED <<handles, cur, asking, shown, queue, worker, flags>>

-----------------------------------------------------------------------------
\* The user, at the tool bar.  Its buttons follow `shown'.

MayPress == InLoop /\ asking = "" /\ cur # 0

ToggleExecution ==
  /\ MayPress /\ shown \notin Ended
  /\ \/ /\ status[cur] = "kStopped"
        /\ Resume(cur, "resumedByUser", "refresh")  \* signalReceived follows in either case
        /\ UNCHANGED queue
     \/ /\ status[cur] # "kStopped" /\ tstate[cur] # "reaped" /\ Spend  \* Process::pause
        /\ stopping' = [stopping EXCEPT ![cur] = tstate[cur] # "dead"]
        /\ status' = [status EXCEPT ![cur] = "kStopped"]
        /\ UNCHANGED <<tstate, notice, trapped, freed, locked, gui, queue, worker, flags>>

Singlestep ==
  /\ MayPress /\ shown = "kStopped" /\ status[cur] = "kStopped"
  /\ tstate[cur] = "stopped" /\ Spend
  /\ tstate' = [tstate EXCEPT ![cur] = "stepping"]
  /\ notice' = [notice EXCEPT ![cur] = ""]
  /\ trapped' = [trapped EXCEPT ![cur] = FALSE]
  /\ UNCHANGED <<stopping, handles, gui, queue, worker, flags>>

\* abortExecution, restartExecution and startExecution each ask first; the answer comes
\* any time later.
Unborn   == {p \in Procs : tstate[p] = "unborn"}
NextBorn == {p \in Unborn : \A q \in Unborn : p <= q}

Ask(what) ==
  /\ InLoop /\ asking = ""
  /\ \/ /\ what = "abort" /\ cur # 0 /\ shown \notin Ended
        /\ status[cur] \notin {"kDead", "kKilled"}
     \/ what = "restart" /\ cur # 0
     \/ what = "start"
  /\ asking' = what
  /\ UNCHANGED <<kernel, handles, cur, gpc, shown, queue, worker, flags>>

AnswerNo ==
  /\ InLoop /\ asking # ""
  /\ asking' = ""
  /\ UNCHANGED <<kernel, handles, cur, gpc, shown, queue, worker, flags>>

\* Process::kill, which holds the mutex over its waitpid.
AnswerAbort ==
  /\ InLoop /\ asking = "abort"
  /\ asking' = ""
  /\ IF status[cur] = "kDead" \/ tstate[cur] = "reaped"
     THEN gpc' = "refresh" /\ UNCHANGED <<kernel, locked>>
     ELSE gpc' = "killWait" /\ KillAll(cur, tstate) /\ locked' = TRUE
  /\ UNCHANGED <<status, freed, cur, shown, queue, worker, flags>>

KillReturns ==
  /\ gpc = "killWait" /\ Waited(cur)
  /\ status' = [status EXCEPT ![cur] = "kDead"]
  /\ locked' = FALSE /\ gpc' = "refresh"
  /\ UNCHANGED <<freed, cur, asking, shown, queue, worker, flags>>

\* ProcessTracer::restart forks the new process, whose assignment destroys the old handle,
\* and only then stops the worker.  There is no new process if the file is gone, and
\* nobody catches it if fork fails.
AnswerRestart ==
  /\ InLoop /\ asking = "restart" /\ Unborn # {}
  /\ \/ \E before \in {tstate} \cup {[tstate EXCEPT ![p] = "starting"] : p \in NextBorn} :
          KillAll(cur, before) /\ gpc' = "destroyWait"
     \/ gpc' = "aborted" /\ UNCHANGED kernel
  /\ UNCHANGED <<handles, cur, asking, shown, queue, worker, flags>>

\* startExecution calls endTracer: the handler is destroyed first, then the Process.
\* Mutant: the Process is destroyed before the handler.
AnswerStartKillsFirst ==
  /\ InLoop /\ asking = "start" /\ Unborn # {}
  /\ IF cur = 0 THEN gpc' = "launch" /\ UNCHANGED kernel
                ELSE gpc' = "destroyWait" /\ KillAll(cur, tstate)
  /\ UNCHANGED <<handles, cur, asking, shown, queue, worker, flags>>

AnswerStart ==
  /\ InLoop /\ asking = "start" /\ Unborn # {}
  /\ gpc' = IF cur = 0 THEN "launch" ELSE "stopThread"
  /\ UNCHANGED <<kernel, handles, cur, asking, shown, queue, worker, flags>>

\* ~TracerPanel, when the main window is closed: endTracer without a question.
Close ==
  /\ InLoop /\ asking = ""
  /\ asking' = "close"
  /\ gpc' = IF cur = 0 THEN "closed" ELSE "stopThread"
  /\ UNCHANGED <<kernel, handles, cur, shown, queue, worker, flags>>

\* stopThread: nothing to do when the worker has ended by itself.
\* Mutant: the worker is muted but not told to exit.
StopThreadMutes ==
  /\ gpc = "stopThread"
  /\ IF wpc = "none" THEN gpc' = "stopped" /\ UNCHANGED is_muted
     ELSE gpc' = "join" /\ is_muted' = TRUE
  /\ UNCHANGED <<kernel, handles, cur, asking, shown, queue, worker, worker_exit>>

StopThread ==
  /\ gpc = "stopThread"
  /\ IF wpc = "none" THEN gpc' = "stopped" /\ UNCHANGED flags
     ELSE gpc' = "join" /\ worker_exit' = TRUE /\ is_muted' = TRUE
  /\ UNCHANGED <<kernel, handles, cur, asking, shown, queue, worker>>

\* Mutant: the request to stop is left standing.
JoinOnly ==
  /\ gpc = "join" /\ wpc = "none"
  /\ gpc' = "stopped"
  /\ UNCHANGED <<kernel, handles, cur, asking, shown, queue, worker, flags>>

Join ==
  /\ gpc = "join" /\ wpc = "none"
  /\ worker_exit' = FALSE /\ is_muted' = FALSE /\ gpc' = "stopped"
  /\ UNCHANGED <<kernel, handles, cur, asking, shown, queue, worker>>

\* QtSignalHandler::reset, the end of a restart.
Rebind ==
  /\ gpc = "stopped" /\ asking = "restart"
  /\ hproc' = cur /\ wpc' = "test"
  /\ gpc' = "loop" /\ asking' = "" /\ shown' = status[cur]
  /\ UNCHANGED <<kernel, handles, cur, queue, event, flags>>

\* The handler goes, and with it the slots posted to it: those of the panel stay.  Then
\* ~Process kills.
SignalsPosted == Cardinality({i \in 1 .. Len(queue) : queue[i] = "signal"})
DestroyHandler ==
  /\ gpc = "stopped" /\ asking \in {"start", "close"}
  /\ hproc' = 0
  /\ queue' = [i \in 1 .. SignalsPosted |-> "signal"]
  /\ KillAll(cur, tstate) /\ gpc' = "destroyWait"
  /\ UNCHANGED <<handles, cur, asking, shown, wpc, event, flags>>

\* ~Process waits for the process it killed.
\* Mutant: it does not.
ProcessLeft ==
  /\ gpc = "destroyWait"
  /\ freed' = [freed EXCEPT ![cur] = TRUE]
  /\ gpc' = IF asking = "close" THEN "closed" ELSE "launch"
  /\ UNCHANGED <<kernel, status, locked, cur, asking, shown, queue, worker, flags>>

ProcessDestroyed ==
  /\ gpc = "destroyWait" /\ Waited(cur)
  /\ freed' = [freed EXCEPT ![cur] = TRUE]
  /\ gpc' = IF asking = "close" THEN "closed" ELSE "launch"
  /\ UNCHANGED <<status, locked, cur, asking, shown, queue, worker, flags>>

\* Process::fromCommand, of a restart called before, and readSymbols: the new process is
\* left stopped behind _start.  A restart goes on to QtSignalHandler::reset; a start makes
\* a new handler.
NewProcess == IF asking = "restart" THEN {p \in Procs : tstate[p] = "starting"} ELSE NextBorn
Launch ==
  /\ gpc = "launch"
  /\ \E p \in NewProcess :
       /\ tstate' = [tstate EXCEPT ![p] = "stopped"]
       /\ status' = [status EXCEPT ![p] = "kStopped"]
       /\ cur' = p
       /\ IF asking = "restart"
          THEN gpc' = "stopThread" /\ UNCHANGED <<asking, shown, hproc, wpc>>
          ELSE /\ gpc' = "loop" /\ asking' = "" /\ shown' = "kStopped"
               /\ hproc' = p /\ wpc' = "test"
  /\ UNCHANGED <<notice, stopping, trapped, events, freed, locked, queue, event, flags>>

\* startExecution catches what the constructor throws; there is no tracer then.
LaunchFails ==
  /\ gpc = "launch" /\ asking = "start"
  /\ cur' = 0 /\ gpc' = "loop" /\ asking' = "" /\ shown' = "kDead"
  /\ UNCHANGED <<kernel, handles, queue, worker, flags>>

\* What a restart throws nobody catches: the new process was not made, or it stopped or
\* ended before _start.
RestartThrows ==
  /\ gpc = "launch" /\ asking = "restart"
  /\ gpc' = "aborted"
  /\ \/ NewProcess = {} /\ UNCHANGED <<tstate, cur>>
     \/ /\ cur' \in NewProcess
        /\ \E as \in {"stopped", "reaped"} : tstate' = [tstate EXCEPT ![cur'] = as]
  /\ UNCHANGED <<notice, stopping, trapped, events, handles, asking, shown, queue, worker, flags>>

-----------------------------------------------------------------------------
User == \/ ToggleExecution \/ Singlestep \/ AnswerNo
        \/ AnswerAbort \/ AnswerRestart \/ AnswerStart \/ Close
        \/ \E what \in {"abort", "restart", "start"} : Ask(what)

Gui == \/ DeliverSignal \/ DeliverResume \/ ResumeEnds \/ Refresh
       \/ DeliverReset \/ StepWait1 \/ StepWait2
       \/ KillReturns \/ StopThread \/ Join \/ Rebind \/ DestroyHandler
       \/ ProcessDestroyed \/ Launch \/ LaunchFails \/ RestartThrows

Next == Worker \/ Gui \/ User \/ \E p \in Procs : Tracee(p)

Spec == Init /\ [][Next]_vars

\* Both threads run when they can, and the kernel finishes the step or the stop it was
\* asked for; no signal, breakpoint or user is owed.
FairSpec ==
  /\ Spec
  /\ WF_vars(Worker) /\ WF_vars(Gui)
  /\ \A p \in Procs : WF_vars((DeliverStop(p) \/ FinishStep(p)) /\ Tracee(p))

-----------------------------------------------------------------------------
GuiPoints == {"loop", "resumed", "resumedByUser", "refresh", "stepWait1", "stepWait2",
              "killWait", "destroyWait", "stopThread", "join", "stopped", "launch",
              "closed", "aborted"}
WorkerPoints == {"none", "test", "poll", "update", "check1", "set1", "check2", "set2"}

\* Every variable has its type.
TypeOK ==
  /\ tstate \in [Procs -> {"unborn", "starting", "stopped", "running", "stepping", "dead", "reaped"}]
  /\ notice \in [Procs -> Signals \cup {""}]
  /\ stopping \in [Procs -> BOOLEAN] /\ trapped \in [Procs -> BOOLEAN]
  /\ events \in 0 .. MaxEvents
  /\ status \in [Procs -> Status] /\ freed \in [Procs -> BOOLEAN] /\ locked \in BOOLEAN
  /\ cur \in 0 .. MaxProcs /\ hproc \in 0 .. MaxProcs
  /\ gpc \in GuiPoints /\ asking \in {"", "abort", "restart", "start", "close"}
  /\ queue \in Seq({"reset", "resume", "signal"}) /\ shown \in Status
  /\ wpc \in WorkerPoints
  /\ event \in [signal : Signals, status : Status]
  /\ worker_exit \in BOOLEAN /\ is_muted \in BOOLEAN

\* The threads agree on the process: whenever the GUI thread is in its event loop, the
\* handler's pointer is the tracer's process, that process is not freed, a worker is
\* never left running without a tracer, and no request to stop it is left over.
HandlerBound ==
  InLoop => /\ hproc = cur
            /\ cur # 0 => ~freed[cur]
            /\ cur = 0 => wpc = "none"
            /\ ~worker_exit /\ ~is_muted

\* Destroying a tracer is safe: the worker is joined before the handle goes.  Only while
\* a restart is under way may a handle be gone that the worker's pointer still names.
FreedOnlyInRestart == Touch /\ freed[hproc] => asking = "restart"

\* The mutex that resume holds over PTRACE_CONT and its assignment keeps a stop from being
\* overwritten: when resume sets kRunning the tracee still runs, or nobody has collected its
\* next stop, or the worker holds that stop and has still to record it.
StopNotOverwritten ==
  [][ResumeEnds => tstate[cur] = "running" \/ notice[cur] # "" \/ wpc = "update"]_vars

\* The buttons are never left behind a stop or an end: when both threads are at rest and the
\* worker still polls, they show the status of the process, but for a pause the kernel has
\* still to deliver and for a process that was resumed from a signal of the ignored set.
AtRest == InLoop /\ queue = <<>> /\ cur # 0 /\ wpc \in {"poll", "none"}
ButtonsMatchStatus ==
  (AtRest /\ wpc = "poll" /\ notice[cur] = "" /\ ~stopping[cur])
    => StatusShown \in {shown, "kRunning"}

\* The GUI thread comes back to its event loop from a kill, a join and a destruction,
\* whichever of the two threads is handed the wait status.
Waits == {"killWait", "join", "destroyWait"}
WaitsReturn == (gpc \in Waits) ~> (InLoop \/ Over)

\* "To avoid creating zombies" (Process::operator=), and with the default policy kKill: when
\* the window is closed every process of the session was killed and waited for, whatever
\* was going on and whichever thread got the wait status.
NoneLeftBehind == gpc = "closed" => \A p \in Procs : tstate[p] \in {"unborn", "reaped"}

-----------------------------------------------------------------------------
(* What the documentation says and the code refutes.                        *)

\* "Do the process of remove break point, step on instruction and submit the break
\* point" (BreakPointHandler::resetBreakpoint): a reset that was begun is finished.
ResetFinishes == (gpc = "stepWait1") ~> InLoop

\* "Set to true if the signal is fatal, meaning that the process was terminated"
\* (SignalEvent::is_fatal).
FatalMeansTerminated ==
  (wpc \in {"check1", "check2"} /\ event.status \in Ended /\ ~freed[hproc])
    => tstate[hproc] \in {"dead", "reaped"}

\* "Thread-safe process handle" (Process): the worker never uses a destroyed handle.
HandleThreadSafe ==
  [][(PollFails \/ UpdateStatus \/ HandleEvent \/ ResumeIgnored) => ~freed[hproc]]_vars

\* "Returns the current status of the process ... the last known status" (getStatus): a
\* process known to be dead is not reported alive again.
DeadStaysDead ==
  [][\A p \in Procs : status[p] = "kDead" => status'[p] \notin {"kRunning", "kStopped"}]_vars

\* "To be able to be traced, a process must neither be dead nor running, in a stopped
\* state" (isProbeable): a probeable process is not dead.
Probeable(p) == status[p] \notin {"kRunning", "kDead"}
ProbeableIsStopped == AtRest /\ Probeable(cur) => tstate[cur] \notin {"dead", "reaped"}

\* "Set to true if the signal is ignored, meaning that the process was automatically
\* resumed" (SignalEvent::is_ignored): what resumes it after an ignored signal never
\* carries it past a breakpoint.
ResumeKeepsBreakpoint ==
  [][DeliverResume => ~(tstate[hproc] = "stopped" /\ trapped[hproc])]_vars

\* "Prevent the child from becoming a zombie if the tracer dies" (fromCommand): the option
\* is handed to PTRACE_TRACEME, which takes none.
NoOrphan == gpc = "aborted" => \A p \in Procs : tstate[p] # "stopped"
=============================================================================
