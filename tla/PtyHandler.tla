---------------------------- MODULE PtyHandler ----------------------------
(***************************************************************************)
(* The terminal of the tracee (gui/PtyHandler.cpp).  A worker thread reads *)
(* the master side of the pty of the current process and posts what it     *)
(* read to the GUI thread, which appends it to the display.  Whenever an   *)
(* execution ends or starts, TracerPanel makes the widget change pty:      *)
(* reassignTo asks the thread to terminate and does not wait for it.       *)
(*                                                                         *)
(* A process is numbered by its execution; its master descriptor is named  *)
(* by that number.  What the tracee prints is ASCII, and numbered in the   *)
(* order of printing; a typed line has a size in UTF-16 units and one in   *)
(* bytes.  The display keeps its last 250 lines (setMaximumBlockCount):    *)
(* what scrolled off counts as shown here.  The time a process takes to    *)
(* read its input is left out.                                             *)
(***************************************************************************)
EXTENDS Naturals, FiniteSets, Sequences, SequencesExt, FiniteSetsExt

CONSTANTS
  Lines,       \* the lines the user types, as [units, bytes] without the newline
  BufferSize,  \* bytes a read may return (sizeof(buffer) - 1)
  MaxRuns,     \* bound on the executions
  MaxPrinted,  \* bound on the characters an execution prints
  MaxTyped     \* bound on the lines typed into an execution

ASSUME PtyAssumption ==
  /\ Lines \subseteq [units : Nat \ {0}, bytes : Nat \ {0}]
  /\ {BufferSize, MaxRuns, MaxPrinted, MaxTyped} \subseteq Nat /\ BufferSize > 0

Runs  == 1 .. MaxRuns
NoFd  == 0
User  == 0          \* the author of a line echoed by sendInput

VARIABLES
  run,       \* the last process made
  killed,    \* the processes that were aborted
  closed,    \* the processes destroyed, and their descriptors closed
  printed,   \* process -> characters printed
  pipe,      \* process -> the bytes printed and not yet read
  pty_fd,    \* the widget's descriptor
  reader,    \* process -> its worker thread: pc, the bytes it holds, terminate() asked for
  queue,     \* the appendOutput calls posted to the GUI thread
  output,    \* the display with what scrolled off its top: characters [from, n]
  sent,      \* the lines written to the current process: [line, written]
  gpc        \* what TracerPanel is in the middle of

vars == <<run, killed, closed, printed, pipe, pty_fd, reader, queue, output, sent, gpc>>
process == <<run, killed, closed, printed, pipe>>

Init ==
  /\ run = 0 /\ killed = {} /\ closed = {} /\ printed = [p \in Runs |-> 0] /\ pipe = [p \in Runs |-> <<>>]
  /\ pty_fd = NoFd /\ reader = [p \in Runs |-> [pc |-> "none", got |-> <<>>, terminated |-> FALSE]]
  /\ queue = <<>> /\ output = <<>> /\ sent = <<>> /\ gpc = "idle"

-----------------------------------------------------------------------------
\* The tracee.  Its terminal has no echo.

PutChar ==
  /\ run \notin killed \cup closed \cup {0} /\ printed[run] < MaxPrinted
  /\ printed' = [printed EXCEPT ![run] = @ + 1]
  /\ pipe' = [pipe EXCEPT ![run] = Append(@, printed'[run])]
  /\ UNCHANGED <<run, killed, closed, pty_fd, reader, queue, output, sent, gpc>>

-----------------------------------------------------------------------------
\* PtyHandler::workerLoop, the thread made for process t.  read is where a thread that
\* was asked to terminate does; a chunk it already holds is still posted.

Read(t) ==
  LET size == Min({BufferSize, Len(pipe[pty_fd])})
  IN /\ reader[t].pc = "loop" /\ ~reader[t].terminated
     /\ pty_fd \notin closed /\ pipe[pty_fd] # <<>>
     /\ reader' = [reader EXCEPT ![t].pc = "post", ![t].got = SubSeq(pipe[pty_fd], 1, size)]
     /\ pipe' = [pipe EXCEPT ![pty_fd] = SubSeq(@, size + 1, Len(@))]
     /\ UNCHANGED <<run, killed, closed, printed, pty_fd, queue, output, sent, gpc>>

\* Mutant: a short read is taken for the end of the pty.
PostOnce(t) ==
  /\ reader[t].pc = "post"
  /\ queue' = Append(queue, [from |-> t, text |-> reader[t].got])
  /\ reader' = [reader EXCEPT ![t].pc = IF Len(reader[t].got) < BufferSize THEN "ended" ELSE "loop",
                              ![t].got = <<>>]
  /\ UNCHANGED <<process, pty_fd, output, sent, gpc>>

Post(t) ==
  /\ reader[t].pc = "post"
  /\ queue' = Append(queue, [from |-> t, text |-> reader[t].got])
  /\ reader' = [reader EXCEPT ![t].pc = "loop", ![t].got = <<>>]
  /\ UNCHANGED <<process, pty_fd, output, sent, gpc>>

\* The read ends the thread, at the end of the pty or with an error.  Of an error the code
\* first stores a zero in the byte before the buffer (line 95); that this byte is not one of
\* another variable, as in an optimised build, is assumed.
ReadFails(t) ==
  /\ reader[t].pc = "loop"
  /\ reader[t].terminated \/ pty_fd \in closed
  /\ reader' = [reader EXCEPT ![t].pc = "ended"]
  /\ UNCHANGED <<process, pty_fd, queue, output, sent, gpc>>

Worker(t) == Read(t) \/ Post(t) \/ ReadFails(t)

-----------------------------------------------------------------------------
\* The GUI thread: the slots of the widget, and the handlers of TracerPanel that make it
\* change pty.  No posted call runs in the middle of a handler.

\* Mutant: the text is inserted where the cursor was left, not at the end.
appendAtStart ==
  /\ gpc = "idle" /\ queue # <<>>
  /\ LET call == Head(queue)
     IN output' = [i \in DOMAIN call.text |-> [from |-> call.from, n |-> call.text[i]]] \o output
  /\ queue' = Tail(queue)
  /\ UNCHANGED <<process, pty_fd, reader, sent, gpc>>

appendOutput ==
  /\ gpc = "idle" /\ queue # <<>>
  /\ LET call == Head(queue)
     IN output' = output \o [i \in DOMAIN call.text |-> [from |-> call.from, n |-> call.text[i]]]
  /\ queue' = Tail(queue)
  /\ UNCHANGED <<process, pty_fd, reader, sent, gpc>>

sendInput(line) ==
  /\ gpc = "idle" /\ pty_fd # NoFd /\ Len(sent) < MaxTyped
  /\ sent' = Append(sent, [line |-> line, written |-> Min({line.units + 1, line.bytes + 1})])
  /\ output' = Append(output, [from |-> User, n |-> Len(sent')])
  /\ UNCHANGED <<process, pty_fd, reader, queue, gpc>>

\* What becomes of the reader of the old descriptor, and of the widget.
TerminateNone == reader        \* a mutant: the old reader is left alone
Terminate == [t \in Runs |-> [reader[t] EXCEPT
                !.terminated = @ \/ (t = pty_fd /\ reader[t].pc # "ended")]]
reassignTo(fd) ==
  /\ pty_fd' = fd
  /\ IF fd = NoFd THEN reader' = Terminate /\ UNCHANGED <<output, sent>>
     ELSE /\ reader' = [Terminate EXCEPT ![fd].pc = "loop"]
          /\ output' = <<>> /\ sent' = <<>>
  /\ UNCHANGED <<run, closed, printed, pipe, queue>>

\* startExecution with no tracer, endTracer, restartExecution and abortExecution.  The
\* first two are also the two halves of startExecution with a tracer.
Fork == run < MaxRuns /\ run' = run + 1 /\ UNCHANGED <<killed, printed, pipe>>

MakeTracer ==
  /\ gpc = "idle" /\ run \in closed \cup {0} /\ Fork /\ closed' = closed
  /\ gpc' = "started" /\ UNCHANGED <<pty_fd, reader, queue, output, sent>>
DestroyTracer ==
  /\ gpc = "idle" /\ run \notin closed \cup {0} /\ closed' = closed \cup {run}
  /\ gpc' = "ended" /\ UNCHANGED <<run, killed, printed, pipe, pty_fd, reader, queue, output, sent>>
RestartBegins ==
  /\ gpc = "idle" /\ run \notin closed \cup {0} /\ run < MaxRuns
  /\ reassignTo(NoFd) /\ gpc' = "restart" /\ UNCHANGED killed
RestartProcess ==
  /\ gpc = "restart" /\ Fork /\ closed' = closed \cup {run}
  /\ gpc' = "started" /\ UNCHANGED <<pty_fd, reader, queue, output, sent>>
executionStarted == gpc = "started" /\ reassignTo(run) /\ gpc' = "idle" /\ UNCHANGED killed
executionEnded   == gpc = "ended" /\ reassignTo(NoFd) /\ gpc' = "idle" /\ UNCHANGED killed
AbortExecution ==
  /\ gpc = "idle" /\ run \notin killed \cup closed \cup {0}
  /\ killed' = killed \cup {run} /\ reassignTo(NoFd) /\ UNCHANGED gpc

Panel ==
  \/ MakeTracer \/ DestroyTracer \/ RestartBegins \/ RestartProcess
  \/ executionStarted \/ executionEnded \/ AbortExecution

Next ==
  \/ PutChar \/ \E t \in Runs : Worker(t)
  \/ appendOutput \/ \E line \in Lines : sendInput(line)
  \/ Panel

Spec == Init /\ [][Next]_vars

\* The worker and the event loop are threads that the scheduler runs; the user and the
\* tracee owe nothing.
FairSpec ==
  /\ Spec /\ \A t \in Runs : WF_vars(Worker(t))
  /\ WF_vars(appendOutput) /\ WF_vars(executionStarted \/ executionEnded \/ RestartProcess)

-----------------------------------------------------------------------------
\* The types of the state (PtyHandler's members, the kernel's pty and the event queue).
TypeOK ==
  /\ run \in 0 .. MaxRuns /\ killed \cup closed \subseteq Runs
  /\ printed \in [Runs -> 0 .. MaxPrinted]
  /\ \A p \in Runs : pipe[p] \in Seq(1 .. MaxPrinted)
  /\ pty_fd \in {NoFd} \cup Runs
  /\ \A t \in Runs : /\ reader[t].pc \in {"none", "loop", "post", "ended"}
                     /\ reader[t].got \in Seq(1 .. MaxPrinted) /\ Len(reader[t].got) <= BufferSize
                     /\ (reader[t].pc = "post") = (reader[t].got # <<>>)
  /\ \A i \in DOMAIN queue : queue[i].from \in Runs
  /\ \A i \in DOMAIN output : output[i].from \in {User} \cup Runs
  /\ \A i \in DOMAIN sent : sent[i].line \in Lines
  /\ gpc \in {"idle", "started", "ended", "restart"}

\* The characters of process p: among the first i the display shows, with these among the
\* first j calls posted, and those its reader holds and the pty has.
Shows(p, i) == {output[k].n : k \in {k \in 1 .. i : output[k].from = p}}
Posts(p, j) == Shows(p, Len(output))
                 \cup UNION {ToSet(queue[k].text) : k \in {k \in 1 .. j : queue[k].from = p}}
Unread(p)   == reader[p].got \o pipe[p]

\* s are the characters that come next after exactly those seen.
ComeNext(seen, s) ==
  LET n == Cardinality(seen) IN seen = 1 .. n /\ s = [k \in 1 .. Len(s) |-> n + k]

\* While a process lives and the widget shows it, every character it printed is on the
\* display, in the event queue, held by the reader or still in the pty, once and in the
\* order in which it was printed: changing pty at a restart loses and doubles nothing of
\* the new process (reassignTo, workerLoop, appendOutput).
NothingLost ==
  pty_fd \notin {NoFd} \cup closed =>
    /\ \A i \in DOMAIN output :
         output[i].from = pty_fd => ComeNext(Shows(pty_fd, i - 1), <<output[i].n>>)
    /\ \A j \in DOMAIN queue :
         queue[j].from = pty_fd => ComeNext(Posts(pty_fd, j - 1), queue[j].text)
    /\ ComeNext(Posts(pty_fd, Len(queue)), Unread(pty_fd))
    /\ Cardinality(Posts(pty_fd, Len(queue))) + Len(Unread(pty_fd)) = printed[pty_fd]

\* A descriptor is read by one thread: a thread that may still read is the one made for
\* the widget's present descriptor (reassignTo terminates the other before it goes on).
OneReader ==
  \A t \in Runs : reader[t].pc \in {"loop", "post"} /\ ~reader[t].terminated => t = pty_fd

\* What the display shows of process p, in the order of its places there.
Shown(p) ==
  LET own   == {k \in DOMAIN output : output[k].from = p}
      at(i) == CHOOSE k \in own : Cardinality({j \in own : j <= k}) = i
  IN [i \in 1 .. Cardinality(own) |-> output[at(i)].n]

\* The widget implements a terminal: of the process it is connected to it shows every
\* character once, in order and in the end, through every restart and abort; the lines of
\* the user and what an earlier process left are between them.
Connected == IF pty_fd \in closed THEN NoFd ELSE pty_fd
Tab == INSTANCE Terminal WITH
  Process   <- Runs,
  None      <- NoFd,
  connected <- Connected,
  printed   <- IF Connected = NoFd THEN 0 ELSE printed[Connected],
  shown     <- IF Connected = NoFd THEN <<>> ELSE Shown(Connected)

ImplementsTerminal == Tab!Spec

-----------------------------------------------------------------------------
(* What the code does not keep; see the README.                             *)

\* The display shows nothing that another process than the current one printed: the
\* reader of the old one was terminated "to avoid concurrency issues" (PtyHandler.cpp:62).
NoForeignOutput ==
  pty_fd # NoFd => \A i \in DOMAIN output : output[i].from \in {User, pty_fd}

\* "Always append a newline to the input since the pty is line buffered" (sendInput, line
\* 53): a line reaches the tracee whole, with its newline.  The size written counts UTF-16
\* units and not bytes, so that of a line with an accent the newline is cut off.
LinesAreWhole == \A i \in DOMAIN sent : sent[i].written = sent[i].line.bytes + 1
=============================================================================
