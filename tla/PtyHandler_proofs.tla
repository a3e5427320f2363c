------------------------- MODULE PtyHandler_proofs -------------------------
(***************************************************************************)
(* Theorems about PtyHandler, for every buffer size, every line typed and  *)
(* any number of executions.                                               *)
(***************************************************************************)
EXTENDS PtyHandler, TLAPS, FiniteSetTheorems, SequenceTheorems, NaturalsInduction, WellFoundedInduction

Readers == [pc : {"none", "loop", "post", "ended"}, got : Seq(Nat), terminated : BOOLEAN]
Calls   == [from : Runs, text : Seq(Nat)]
Glyphs  == [from : {User} \cup Runs, n : Nat]
Written == [line : Lines, written : Nat]

TypeInv ==
  /\ run \in 0 .. MaxRuns /\ closed \subseteq Runs
  /\ printed \in [Runs -> Nat] /\ pipe \in [Runs -> Seq(Nat)]
  /\ pty_fd \in {NoFd} \cup Runs
  /\ reader \in [Runs -> Readers]
  /\ queue \in Seq(Calls) /\ output \in Seq(Glyphs) /\ sent \in Seq(Written)

\* A thread that may still read is the one of the widget's descriptor, and only a thread
\* about to post holds bytes.
ThreadInv ==
  \A t \in Runs : /\ reader[t].pc \in {"loop", "post"} /\ ~reader[t].terminated => t = pty_fd
                  /\ reader[t].pc # "post" => reader[t].got = <<>>

\* Processes the widget was never connected to.
Fresh(t) == t > run \/ (t = run /\ gpc = "started")

\* Of such a process nothing was read: what it printed is in its pty, and nowhere else.
FreshInv ==
  /\ gpc \in {"started", "restart"} => run \in Runs
  /\ \A t \in Runs : Fresh(t) => reader[t].pc = "none" /\ t # pty_fd
  /\ \A t \in Runs : reader[t].pc = "none" =>
       /\ Len(pipe[t]) = printed[t] /\ \A k \in 1 .. printed[t] : pipe[t][k] = k
       /\ \A j \in 1 .. Len(queue) : queue[j].from # t

\* s are the characters that come after the n-th, and those before are the ones seen.
Follow(n, seen, s) == seen = 1 .. n /\ \A k \in 1 .. Len(s) : s[k] = n + k

\* NothingLost of one process p, with the numbers at which each part begins.
Stream(p) ==
  /\ \A i \in 1 .. Len(output) : output[i].from = p =>
       output[i].n # 0 /\ Shows(p, i - 1) = 1 .. output[i].n - 1
  /\ \A j \in 1 .. Len(queue) : queue[j].from = p =>
       \E n \in Nat : Follow(n, Posts(p, j - 1), queue[j].text)
  /\ \E n \in Nat : /\ Follow(n, Posts(p, Len(queue)), Unread(p))
                    /\ n + Len(Unread(p)) = printed[p]

StreamInv == pty_fd \notin {NoFd} \cup closed => Stream(pty_fd)

-----------------------------------------------------------------------------
(* Sequences of characters.                                                *)

\* The elements of the display and of the event queue.
LEMMA Elements ==
  ASSUME TypeInv
  PROVE  /\ Len(output) \in Nat /\ Len(queue) \in Nat
         /\ DOMAIN output = 1 .. Len(output) /\ DOMAIN queue = 1 .. Len(queue)
         /\ \A i \in 1 .. Len(output) : output[i].from \in {User} \cup Runs /\ output[i].n \in Nat
         /\ \A j \in 1 .. Len(queue) : queue[j].from \in Runs /\ queue[j].text \in Seq(Nat)
<1>1. /\ output \in [1 .. Len(output) -> Glyphs] /\ Len(output) \in Nat
      /\ queue \in [1 .. Len(queue) -> Calls] /\ Len(queue) \in Nat
  BY LenProperties DEF TypeInv
<1>2. \A i \in 1 .. Len(output) : output[i] \in Glyphs
  BY <1>1
<1>3. \A j \in 1 .. Len(queue) : queue[j] \in Calls
  BY <1>1
<1> QED
  BY <1>1, <1>2, <1>3 DEF Glyphs, Calls

\* ComeNext follows from the number at which it begins.
LEMMA FollowComes ==
  ASSUME NEW n \in Nat, NEW seen, NEW s \in Seq(Nat), Follow(n, seen, s)
  PROVE  ComeNext(seen, s) /\ Cardinality(seen) = n
<1>1. Cardinality(1 .. n) = n
  BY FS_Interval
<1>2. s \in [1 .. Len(s) -> Nat]
  BY LenProperties
<1>3. s = [k \in 1 .. Len(s) |-> n + k]
  BY <1>2 DEF Follow
<1> QED
  BY <1>1, <1>3 DEF Follow, ComeNext

\* The invariant of a stream is NothingLost.
LEMMA StreamIsWhole == TypeInv /\ StreamInv => NothingLost
<1> SUFFICES ASSUME TypeInv, pty_fd \notin {NoFd} \cup closed, Stream(pty_fd)
             PROVE  /\ \A i \in DOMAIN output : output[i].from = pty_fd =>
                         ComeNext(Shows(pty_fd, i - 1), <<output[i].n>>)
                    /\ \A j \in DOMAIN queue : queue[j].from = pty_fd =>
                         ComeNext(Posts(pty_fd, j - 1), queue[j].text)
                    /\ ComeNext(Posts(pty_fd, Len(queue)), Unread(pty_fd))
                    /\ Cardinality(Posts(pty_fd, Len(queue))) + Len(Unread(pty_fd))
                         = printed[pty_fd]
  BY DEF StreamInv, NothingLost
<1>1. ASSUME NEW i \in DOMAIN output, output[i].from = pty_fd
      PROVE  ComeNext(Shows(pty_fd, i - 1), <<output[i].n>>)
  <2> DEFINE x == output[i].n
  <2>1. i \in 1 .. Len(output) /\ x \in Nat
    BY <1>1, Elements
  <2>2. x - 1 \in Nat /\ Shows(pty_fd, i - 1) = 1 .. x - 1
    BY <1>1, <2>1 DEF Stream
  <2> HIDE DEF x
  <2>3. <<x>> \in Seq(Nat) /\ \A k \in 1 .. Len(<<x>>) : <<x>>[k] = (x - 1) + k
    BY <2>1
  <2>4. ComeNext(Shows(pty_fd, i - 1), <<x>>)
    BY <2>2, <2>3, FollowComes DEF Follow
  <2> QED
    BY <2>4 DEF x
<1>2. ASSUME NEW j \in DOMAIN queue, queue[j].from = pty_fd
      PROVE  ComeNext(Posts(pty_fd, j - 1), queue[j].text)
  BY <1>2, Elements, FollowComes DEF Stream
<1>3. Unread(pty_fd) \in Seq(Nat)
  <2>1. reader[pty_fd] \in Readers /\ pipe[pty_fd] \in Seq(Nat)
    BY DEF TypeInv
  <2> QED
    BY <2>1, ConcatProperties DEF Unread, Readers
<1> QED
  BY <1>1, <1>2, <1>3, FollowComes DEF Stream

-----------------------------------------------------------------------------
(* The threads.                                                            *)

LEMMA TypeInit == Init => TypeInv /\ ThreadInv /\ FreshInv /\ StreamInv
<1> SUFFICES ASSUME Init PROVE TypeInv /\ ThreadInv /\ FreshInv /\ StreamInv
  OBVIOUS
<1>1. TypeInv
  <2>1. 0 \in 0 .. MaxRuns /\ <<>> \in Seq(Nat) /\ <<>> \in Seq(Calls) /\ <<>> \in Seq(Glyphs)
        /\ <<>> \in Seq(Written)
    BY PtyAssumption
  <2>2. [pc |-> "none", got |-> <<>>, terminated |-> FALSE] \in Readers
    BY <2>1 DEF Readers
  <2> QED
    BY <2>1, <2>2 DEF Init, TypeInv, NoFd
<1>2. FreshInv
  <2>1. Len(<<>>) = 0 /\ \A k \in 1 .. 0 : FALSE
    OBVIOUS
  <2>2. \A t \in Runs : /\ reader[t].pc = "none" /\ t # NoFd
                        /\ pipe[t] = <<>> /\ printed[t] = 0
    BY PtyAssumption DEF Init, Runs, NoFd
  <2> QED
    BY <2>1, <2>2 DEF Init, FreshInv
<1> QED
  BY <1>1, <1>2 DEF Init, ThreadInv, StreamInv

\* What a read leaves: the bytes held and those still in the pty are the bytes there were.
LEMMA ReadSplits ==
  ASSUME NEW s \in Seq(Nat)
  PROVE  LET size == Min({BufferSize, Len(s)}) IN
         /\ SubSeq(s, 1, size) \in Seq(Nat) /\ SubSeq(s, size + 1, Len(s)) \in Seq(Nat)
         /\ SubSeq(s, 1, size) \o SubSeq(s, size + 1, Len(s)) = s
<1> DEFINE size == Min({BufferSize, Len(s)})
<1>1. Len(s) \in Nat /\ BufferSize \in Nat /\ \A i \in 1 .. Len(s) : s[i] \in Nat
  BY PtyAssumption, LenProperties
<1>2. size \in 0 .. Len(s)
  <2>1. \E x \in {BufferSize, Len(s)} : \A y \in {BufferSize, Len(s)} : x =< y
    BY <1>1
  <2>2. size \in {BufferSize, Len(s)} /\ \A y \in {BufferSize, Len(s)} : size =< y
    BY <2>1 DEF Min
  <2> QED
    BY <1>1, <2>2
<1> HIDE DEF size
<1>3. SubSeq(s, 1, size) \in Seq(Nat) /\ SubSeq(s, size + 1, Len(s)) \in Seq(Nat)
  BY <1>1, <1>2, SubSeqProperties
<1>4. SubSeq(s, 1, size) \o SubSeq(s, size + 1, Len(s)) = SubSeq(s, 1, Len(s))
  <2>1. 1 \in 1 .. Len(s) + 1 /\ size \in 1 - 1 .. Len(s) /\ Len(s) \in size .. Len(s)
    BY <1>1, <1>2
  <2> QED
    BY <2>1, ConcatAdjacentSubSeq
<1>5. SubSeq(s, 1, Len(s)) = s
  BY SubSeqFull
<1> QED
  BY <1>3, <1>4, <1>5 DEF size

\* A line is written with as many bytes as it and its newline have UTF-16 units.
LEMMA WrittenUnits ==
  ASSUME NEW line \in Lines
  PROVE  Min({line.units + 1, line.bytes + 1}) \in Nat
<1>1. line.units + 1 \in Nat /\ line.bytes + 1 \in Nat
  BY PtyAssumption
<1> DEFINE u == line.units + 1
           b == line.bytes + 1
<1>2. u \in Nat /\ b \in Nat
  BY <1>1
<1> HIDE DEF u, b
<1>3. \E x \in {u, b} : \A y \in {u, b} : x =< y
  BY <1>2
<1>4. Min({u, b}) \in {u, b}
  BY <1>3 DEF Min
<1>5. Min({line.units + 1, line.bytes + 1}) = Min({u, b})
  BY DEF u, b
<1> QED
  BY <1>2, <1>4, <1>5 DEF b

\* What becomes of a reader when the widget changes pty.
LEMMA ReassignKeeps ==
  ASSUME TypeInv, NEW fd \in {NoFd} \cup Runs, reassignTo(fd)
  PROVE  /\ reader' \in [Runs -> Readers] /\ pty_fd' = fd
         /\ \A t \in Runs :
              /\ reader'[t].got = reader[t].got
              /\ reader'[t].pc = IF t = fd THEN "loop" ELSE reader[t].pc
              /\ t # fd => reader'[t].terminated
                            = (reader[t].terminated \/ (t = pty_fd /\ reader[t].pc # "ended"))
         /\ UNCHANGED <<closed, printed, pipe, queue, run>>
         /\ IF fd = NoFd THEN UNCHANGED <<output, sent>> ELSE output' = <<>> /\ sent' = <<>>
<1>1. \A t \in Runs : reader[t] \in Readers
  BY DEF TypeInv
<1>2. /\ Terminate \in [Runs -> Readers]
      /\ \A t \in Runs : /\ Terminate[t].got = reader[t].got /\ Terminate[t].pc = reader[t].pc
                         /\ Terminate[t].terminated
                              = (reader[t].terminated \/ (t = pty_fd /\ reader[t].pc # "ended"))
  BY <1>1 DEF Terminate, Readers
<1>3. NoFd \notin Runs
  BY DEF NoFd, Runs
<1>4. CASE fd = NoFd
  BY <1>2, <1>3, <1>4 DEF reassignTo
<1>5. CASE fd # NoFd
  <2>1. reader' = [Terminate EXCEPT ![fd].pc = "loop"] /\ fd \in Runs
    BY <1>5 DEF reassignTo
  <2>2. reader' \in [Runs -> Readers]
    BY <1>2, <2>1 DEF Readers
  <2> QED
    BY <1>2, <1>5, <2>1, <2>2 DEF reassignTo, Readers
<1> QED
  BY <1>4, <1>5

LEMMA TypeStep == TypeInv /\ ThreadInv /\ FreshInv /\ [Next]_vars => TypeInv'
<1> SUFFICES ASSUME TypeInv, ThreadInv, FreshInv, [Next]_vars PROVE TypeInv'
  OBVIOUS
<1>0. /\ \A t \in Runs : reader[t] \in Readers /\ reader[t].got \in Seq(Nat)
      /\ \A p \in Runs : pipe[p] \in Seq(Nat) /\ printed[p] \in Nat
      /\ NoFd \notin Runs /\ <<>> \in Seq(Nat)
  <2>1. \A t \in Runs : reader[t] \in Readers
    BY DEF TypeInv
  <2>2. \A p \in Runs : pipe[p] \in Seq(Nat) /\ printed[p] \in Nat
    BY DEF TypeInv
  <2>3. NoFd \notin Runs
    BY DEF NoFd, Runs
  <2> QED
    BY <2>1, <2>2, <2>3 DEF Readers
<1>1. CASE PutChar
  <2>1. run \in Runs
    BY <1>1 DEF PutChar, TypeInv, Runs
  <2>2. printed' \in [Runs -> Nat] /\ printed'[run] \in Nat
    BY <1>0, <1>1, <2>1 DEF PutChar, TypeInv
  <2>3. pipe' \in [Runs -> Seq(Nat)]
    BY <1>0, <1>1, <2>1, <2>2 DEF PutChar, TypeInv
  <2> QED
    BY <1>1, <2>2, <2>3 DEF PutChar, TypeInv
<1>2. ASSUME NEW t \in Runs, Read(t) PROVE TypeInv'
  <2>1. pty_fd = t
    BY <1>2 DEF Read, ThreadInv
  <2> DEFINE size == Min({BufferSize, Len(pipe[t])})
  <2>2. SubSeq(pipe[t], 1, size) \in Seq(Nat) /\ SubSeq(pipe[t], size + 1, Len(pipe[t])) \in Seq(Nat)
    BY <1>0, ReadSplits
  <2>3. /\ reader' = [reader EXCEPT ![t].pc = "post", ![t].got = SubSeq(pipe[t], 1, size)]
        /\ pipe' = [pipe EXCEPT ![t] = SubSeq(@, size + 1, Len(@))]
        /\ UNCHANGED <<run, closed, printed, pty_fd, queue, output, sent>>
    BY <1>2, <2>1 DEF Read
  <2> HIDE DEF size
  <2>4. reader' \in [Runs -> Readers]
    BY <1>0, <2>2, <2>3 DEF TypeInv, Readers
  <2>5. pipe' \in [Runs -> Seq(Nat)]
    BY <1>0, <2>2, <2>3 DEF TypeInv
  <2> QED
    BY <2>3, <2>4, <2>5 DEF TypeInv
<1>3. ASSUME NEW t \in Runs, Post(t) PROVE TypeInv'
  <2>1. reader' \in [Runs -> Readers]
    BY <1>0, <1>3 DEF Post, TypeInv, Readers
  <2>2. [from |-> t, text |-> reader[t].got] \in Calls
    BY <1>0 DEF Calls
  <2>3. queue' \in Seq(Calls)
    BY <1>3, <2>2 DEF Post, TypeInv
  <2> QED
    BY <1>3, <2>1, <2>3 DEF Post, process, TypeInv
<1>4. ASSUME NEW t \in Runs, ReadFails(t) PROVE TypeInv'
  BY <1>0, <1>4 DEF ReadFails, process, TypeInv, Readers
<1>5. CASE appendOutput
  <2> DEFINE call == Head(queue)
             new  == [i \in DOMAIN call.text |-> [from |-> call.from, n |-> call.text[i]]]
  <2>1. call \in Calls /\ Tail(queue) \in Seq(Calls)
    BY <1>5, HeadTailProperties DEF appendOutput, TypeInv
  <2>2. call.from \in Runs /\ call.text \in Seq(Nat)
    BY <2>1 DEF Calls
  <2>3. DOMAIN call.text = 1 .. Len(call.text) /\ Len(call.text) \in Nat
        /\ \A i \in 1 .. Len(call.text) : call.text[i] \in Nat
    BY <2>2, LenProperties
  <2>4. output' = output \o new /\ queue' = Tail(queue)
        /\ UNCHANGED <<process, pty_fd, reader, sent>>
    BY <1>5 DEF appendOutput
  <2> HIDE DEF call
  <2>5. new \in Seq(Glyphs)
    <3>1. \A i \in 1 .. Len(call.text) : [from |-> call.from, n |-> call.text[i]] \in Glyphs
      BY <2>2, <2>3 DEF Glyphs
    <3>2. new \in [1 .. Len(call.text) -> Glyphs]
      BY <2>3, <3>1
    <3> QED
      BY <2>3, <3>2
  <2> HIDE DEF new
  <2> QED
    BY <2>1, <2>4, <2>5, ConcatProperties DEF process, TypeInv
<1>6. ASSUME NEW line \in Lines, sendInput(line) PROVE TypeInv'
  <2>1. sent' = Append(sent, [line |-> line, written |-> Min({line.units + 1, line.bytes + 1})])
        /\ output' = Append(output, [from |-> User, n |-> Len(sent')])
        /\ UNCHANGED <<process, pty_fd, reader, queue>>
    BY <1>6 DEF sendInput
  <2> DEFINE entry == [line |-> line, written |-> Min({line.units + 1, line.bytes + 1})]
  <2>2. entry \in Written
    BY WrittenUnits DEF Written
  <2> HIDE DEF entry
  <2>3. sent' \in Seq(Written)
    BY <2>1, <2>2 DEF entry, TypeInv
  <2>4. [from |-> User, n |-> Len(sent')] \in Glyphs
    BY <2>3, LenProperties DEF Glyphs
  <2>5. output' \in Seq(Glyphs)
    BY <2>1, <2>4, AppendProperties DEF TypeInv
  <2> QED
    BY <2>1, <2>3, <2>5 DEF TypeInv, process
<1>7. ASSUME NEW fd \in {NoFd} \cup Runs, reassignTo(fd) PROVE TypeInv'
  <2>1. <<>> \in Seq(Glyphs) /\ <<>> \in Seq(Written)
    OBVIOUS
  <2> QED
    BY <1>7, <2>1, ReassignKeeps DEF TypeInv
<1>8. CASE RestartBegins \/ executionEnded \/ AbortExecution
  <2>1. reassignTo(NoFd)
    BY <1>8 DEF RestartBegins, executionEnded, AbortExecution
  <2> QED
    BY <1>7, <2>1
<1>9. CASE executionStarted
  <2>1. reassignTo(run) /\ run \in Runs
    BY <1>9 DEF executionStarted, FreshInv
  <2> QED
    BY <1>7, <2>1
<1>10. CASE MakeTracer \/ DestroyTracer \/ RestartProcess
  <2>1. run' \in 0 .. MaxRuns
    BY <1>10, PtyAssumption DEF MakeTracer, DestroyTracer, RestartProcess, Fork, TypeInv
  <2>2. closed' \subseteq Runs
    <3>1. DestroyTracer => run \in Runs
      BY DEF DestroyTracer, TypeInv, Runs
    <3>2. RestartProcess => run \in Runs
      BY DEF RestartProcess, FreshInv
    <3> QED
      BY <1>10, <3>1, <3>2 DEF MakeTracer, DestroyTracer, RestartProcess, TypeInv
  <2> QED
    BY <1>10, <2>1, <2>2 DEF MakeTracer, DestroyTracer, RestartProcess, Fork, TypeInv
<1>11. CASE UNCHANGED vars
  BY <1>11 DEF vars, TypeInv
<1> QED
  BY <1>1, <1>2, <1>3, <1>4, <1>5, <1>6, <1>8, <1>9, <1>10, <1>11 DEF Next, Worker, Panel

\* The old reader is told to stop before the widget takes another descriptor.
LEMMA ThreadStep == TypeInv /\ ThreadInv /\ FreshInv /\ [Next]_vars => ThreadInv'
<1> SUFFICES ASSUME TypeInv, ThreadInv, FreshInv, [Next]_vars PROVE ThreadInv'
  OBVIOUS
<1>0. reader \in [Runs -> Readers] /\ NoFd \notin Runs
  BY DEF TypeInv, NoFd, Runs
<1>1. CASE UNCHANGED <<reader, pty_fd>>
  BY <1>1 DEF ThreadInv
<1>2. ASSUME NEW t \in Runs, Worker(t) PROVE ThreadInv'
  <2>1. CASE Read(t)
    BY <1>0, <2>1 DEF Read, ThreadInv, Readers
  <2>2. CASE Post(t)
    BY <1>0, <2>2 DEF Post, ThreadInv, Readers
  <2>3. CASE ReadFails(t)
    BY <1>0, <2>3 DEF ReadFails, ThreadInv, Readers
  <2> QED
    BY <1>2, <2>1, <2>2, <2>3 DEF Worker
<1>3. ASSUME NEW fd \in {NoFd} \cup Runs, reassignTo(fd),
             fd # NoFd => reader[fd].got = <<>>
      PROVE  ThreadInv'
  <2>1. /\ pty_fd' = fd
        /\ \A t \in Runs :
             /\ reader'[t].got = reader[t].got
             /\ reader'[t].pc = IF t = fd THEN "loop" ELSE reader[t].pc
             /\ t # fd => reader'[t].terminated
                           = (reader[t].terminated \/ (t = pty_fd /\ reader[t].pc # "ended"))
    BY <1>3, ReassignKeeps
  <2>2. ASSUME NEW t \in Runs, t # fd,
               reader'[t].pc \in {"loop", "post"}, ~reader'[t].terminated
        PROVE  FALSE
    <3>1. reader[t].pc \in {"loop", "post"} /\ reader[t].pc # "ended"
      BY <2>1, <2>2
    <3>2. ~reader[t].terminated /\ t # pty_fd
      BY <2>1, <2>2, <3>1, Zenon
    <3> QED
      BY <3>1, <3>2 DEF ThreadInv
  <2>3. ASSUME NEW t \in Runs, reader'[t].pc # "post" PROVE reader'[t].got = <<>>
    BY <1>0, <1>3, <2>1, <2>3 DEF ThreadInv
  <2> QED
    BY <2>1, <2>2, <2>3 DEF ThreadInv
<1>4. CASE RestartBegins \/ executionEnded \/ AbortExecution
  <2>1. reassignTo(NoFd)
    BY <1>4 DEF RestartBegins, executionEnded, AbortExecution
  <2> QED
    BY <1>3, <2>1
<1>5. CASE executionStarted
  <2>1. reassignTo(run) /\ run \in Runs /\ reader[run].pc = "none"
    BY <1>5 DEF executionStarted, FreshInv, Fresh
  <2> QED
    BY <1>3, <2>1 DEF ThreadInv
<1>6. PutChar \/ appendOutput \/ (\E line \in Lines : sendInput(line))
        \/ MakeTracer \/ DestroyTracer \/ RestartProcess \/ UNCHANGED vars
        => UNCHANGED <<reader, pty_fd>>
  BY DEF PutChar, appendOutput, sendInput, MakeTracer, DestroyTracer, RestartProcess, vars
<1> QED
  BY <1>1, <1>2, <1>4, <1>5, <1>6 DEF Next, Panel

\* A process the widget was not connected to is left alone.
LEMMA FreshStep == TypeInv /\ ThreadInv /\ FreshInv /\ [Next]_vars => FreshInv'
<1> SUFFICES ASSUME TypeInv, ThreadInv, FreshInv, [Next]_vars PROVE FreshInv'
  OBVIOUS
<1>0. /\ \A t \in Runs : reader[t] \in Readers
      /\ \A p \in Runs : pipe[p] \in Seq(Nat) /\ printed[p] \in Nat
      /\ NoFd \notin Runs /\ run \in Nat /\ \A t \in Runs : t \in Nat
      /\ pipe \in [Runs -> Seq(Nat)] /\ printed \in [Runs -> Nat] /\ reader \in [Runs -> Readers]
  <2>1. NoFd \notin Runs /\ \A t \in Runs : t \in Nat
    BY DEF NoFd, Runs
  <2>2. run \in Nat
    BY PtyAssumption DEF TypeInv
  <2>3. /\ \A t \in Runs : reader[t] \in Readers
        /\ \A p \in Runs : pipe[p] \in Seq(Nat) /\ printed[p] \in Nat
    BY DEF TypeInv
  <2> QED
    BY <2>1, <2>2, <2>3 DEF TypeInv
<1> DEFINE Untouched(t) ==
             /\ Len(pipe[t]) = printed[t] /\ \A k \in 1 .. printed[t] : pipe[t][k] = k
             /\ \A j \in 1 .. Len(queue) : queue[j].from # t
           Started == gpc \in {"started", "restart"} => run \in Runs
           Unseen  == \A t \in Runs : Fresh(t) => reader[t].pc = "none" /\ t # pty_fd
           Whole   == \A t \in Runs : reader[t].pc = "none" => Untouched(t)
<1>1. FreshInv' <=> Started' /\ Unseen' /\ Whole'
  BY DEF FreshInv
<1>2. FreshInv <=> Started /\ Unseen /\ Whole
  BY DEF FreshInv
<1> HIDE DEF Started, Unseen, Whole
<1>3. CASE PutChar
  <2>1. run \in Runs /\ UNCHANGED <<run, reader, pty_fd, queue, gpc>>
    BY <1>3 DEF PutChar, TypeInv, Runs
  <2>2. /\ printed' = [printed EXCEPT ![run] = @ + 1]
        /\ pipe' = [pipe EXCEPT ![run] = Append(@, printed[run] + 1)]
    BY <1>0, <1>3, <2>1 DEF PutChar
  <2>3. ASSUME NEW t \in Runs, Untouched(t) PROVE Untouched(t)'
    <3>1. CASE t = run
      <4>1. /\ printed'[t] = printed[t] + 1 /\ pipe'[t] = Append(pipe[t], printed[t] + 1)
            /\ printed[t] \in Nat /\ pipe[t] \in Seq(Nat)
        BY <1>0, <2>1, <2>2, <3>1
      <4>2. Len(pipe'[t]) = printed'[t] /\ \A k \in 1 .. printed'[t] : pipe'[t][k] = k
        BY <2>3, <4>1, AppendProperties
      <4> QED
        BY <2>1, <2>3, <4>2
    <3>2. CASE t # run
      BY <1>0, <2>1, <2>2, <2>3, <3>2
    <3> QED
      BY <3>1, <3>2
  <2> HIDE DEF Untouched
  <2> QED
    BY <1>1, <1>2, <2>1, <2>3 DEF Started, Unseen, Whole, Fresh
<1>4. ASSUME NEW t \in Runs, Read(t) PROVE FreshInv'
  <2>1. pty_fd = t /\ reader[t].pc = "loop"
    BY <1>4 DEF Read, ThreadInv
  <2>2. UNCHANGED <<run, printed, pty_fd, queue, gpc>> /\ reader'[t].pc = "post"
    BY <1>0, <1>4 DEF Read, Readers
  <2>3. \A u \in Runs \ {t} : reader'[u] = reader[u] /\ pipe'[u] = pipe[u]
    BY <1>0, <1>4, <2>1 DEF Read
  <2> QED
    BY <1>1, <1>2, <2>1, <2>2, <2>3 DEF Started, Unseen, Whole, Fresh
<1>5. ASSUME NEW t \in Runs, Post(t) PROVE FreshInv'
  <2>1. reader[t].pc = "post" /\ reader'[t].pc = "loop" /\ \A u \in Runs \ {t} : reader'[u] = reader[u]
    BY <1>0, <1>5 DEF Post, Readers
  <2>2. UNCHANGED <<run, printed, pipe, pty_fd, gpc>>
    BY <1>5 DEF Post, process
  <2>3. [from |-> t, text |-> reader[t].got] \in Calls
    BY <1>0 DEF Calls, Readers
  <2>4. \A u \in Runs \ {t} : Untouched(u) => Untouched(u)'
    <3>1. /\ Len(queue') = Len(queue) + 1 /\ Len(queue) \in Nat
          /\ \A j \in 1 .. Len(queue) : queue'[j] = queue[j]
          /\ queue'[Len(queue) + 1].from = t
      BY <1>5, <2>3, AppendProperties, LenProperties DEF Post, TypeInv
    <3> QED
      BY <2>2, <3>1
  <2> HIDE DEF Untouched
  <2> QED
    BY <1>1, <1>2, <2>1, <2>2, <2>4 DEF Started, Unseen, Whole, Fresh
<1>6. ASSUME NEW t \in Runs, ReadFails(t) PROVE FreshInv'
  <2>1. reader[t].pc = "loop" /\ reader'[t].pc = "ended" /\ \A u \in Runs \ {t} : reader'[u] = reader[u]
    BY <1>0, <1>6 DEF ReadFails, Readers
  <2>2. UNCHANGED <<run, printed, pipe, pty_fd, queue, gpc>>
    BY <1>6 DEF ReadFails, process
  <2> QED
    BY <1>1, <1>2, <2>1, <2>2 DEF Started, Unseen, Whole, Fresh
<1>7. CASE appendOutput
  <2>1. UNCHANGED <<run, printed, pipe, pty_fd, reader, gpc>> /\ queue' = Tail(queue) /\ queue # <<>>
    BY <1>7 DEF appendOutput, process
  <2>2. /\ Len(queue') = Len(queue) - 1 /\ Len(queue) \in Nat
        /\ \A j \in 1 .. Len(queue') : queue'[j] = queue[j + 1]
    BY <2>1, HeadTailProperties, LenProperties DEF TypeInv
  <2>3. \A u \in Runs : Untouched(u) => Untouched(u)'
    BY <2>1, <2>2
  <2> HIDE DEF Untouched
  <2> QED
    BY <1>1, <1>2, <2>1, <2>3 DEF Started, Unseen, Whole, Fresh
<1>8. ASSUME NEW line \in Lines, sendInput(line) PROVE FreshInv'
  <2>1. UNCHANGED <<run, printed, pipe, pty_fd, reader, queue, gpc>>
    BY <1>8 DEF sendInput, process
  <2> QED
    BY <1>1, <1>2, <2>1 DEF Started, Unseen, Whole, Fresh
\* The widget changes pty: a reader that was not there yet is made only for the process
\* that was just started.
<1>9. CASE RestartBegins \/ executionEnded \/ AbortExecution
  <2>1. reassignTo(NoFd) /\ (gpc' \in {"idle", gpc} \/ (gpc' = "restart" /\ run \in Runs))
    BY <1>9 DEF RestartBegins, executionEnded, AbortExecution, TypeInv, Runs
  <2>2. pty_fd' = NoFd /\ UNCHANGED <<printed, pipe, queue, run>>
        /\ \A t \in Runs : reader'[t].pc = reader[t].pc
    BY <1>0, <2>1, ReassignKeeps
  <2>3. \A t \in Runs : Fresh(t)' => Fresh(t)
    BY <2>1, <2>2 DEF Fresh
  <2> QED
    BY <1>0, <1>1, <1>2, <2>1, <2>2, <2>3 DEF Started, Unseen, Whole
<1>10. CASE executionStarted
  <2>1. reassignTo(run) /\ run \in Runs /\ gpc = "started" /\ gpc' = "idle"
    BY <1>10 DEF executionStarted, FreshInv
  <2>2. pty_fd' = run /\ UNCHANGED <<printed, pipe, queue, run>>
        /\ \A t \in Runs : reader'[t].pc = IF t = run THEN "loop" ELSE reader[t].pc
    BY <2>1, ReassignKeeps
  <2>3. \A t \in Runs : Fresh(t)' => t # run /\ Fresh(t)
    BY <1>0, <2>1, <2>2 DEF Fresh
  <2> QED
    BY <1>1, <1>2, <2>1, <2>2, <2>3 DEF Started, Unseen, Whole
<1>11. CASE MakeTracer \/ RestartProcess
  <2>1. /\ run' = run + 1 /\ run < MaxRuns /\ gpc' = "started" /\ gpc # "started"
        /\ UNCHANGED <<printed, pipe, pty_fd, reader, queue>>
    BY <1>11 DEF MakeTracer, RestartProcess, Fork
  <2>2. run' \in Runs
    BY <1>0, <2>1, PtyAssumption DEF Runs
  <2>3. \A t \in Runs : Fresh(t)' => Fresh(t)
    BY <1>0, <2>1 DEF Fresh
  <2> QED
    BY <1>1, <1>2, <2>1, <2>2, <2>3 DEF Started, Unseen, Whole
<1>12. CASE DestroyTracer
  <2>1. UNCHANGED <<run, printed, pipe, pty_fd, reader, queue>> /\ gpc' = "ended" /\ gpc = "idle"
    BY <1>12 DEF DestroyTracer
  <2> QED
    BY <1>1, <1>2, <2>1 DEF Started, Unseen, Whole, Fresh
<1>13. CASE UNCHANGED vars
  BY <1>1, <1>2, <1>13 DEF vars, Started, Unseen, Whole, Fresh
<1> QED
  BY <1>3, <1>4, <1>5, <1>6, <1>7, <1>8, <1>9, <1>10, <1>11, <1>12, <1>13
  DEF Next, Worker, Panel

-----------------------------------------------------------------------------
(* The stream of one process p, from the pty to the display.               *)

\* The elements of a concatenation.
LEMMA ConcatElements ==
  ASSUME NEW S, NEW a \in Seq(S), NEW b \in Seq(S)
  PROVE  /\ a \o b \in Seq(S) /\ Len(a) \in Nat /\ Len(b) \in Nat
         /\ Len(a \o b) = Len(a) + Len(b)
         /\ \A k \in 1 .. Len(a) : (a \o b)[k] = a[k]
         /\ \A k \in 1 .. Len(b) : (a \o b)[Len(a) + k] = b[k]
<1>1. Len(a) \in Nat /\ Len(b) \in Nat
  BY LenProperties
<1>2. /\ a \o b \in Seq(S) /\ Len(a \o b) = Len(a) + Len(b)
      /\ \A i \in 1 .. Len(a) + Len(b) :
           (a \o b)[i] = IF i <= Len(a) THEN a[i] ELSE b[i - Len(a)]
  BY ConcatProperties
<1>3. ASSUME NEW k \in 1 .. Len(a) PROVE (a \o b)[k] = a[k]
  <2>1. k \in 1 .. Len(a) + Len(b) /\ k <= Len(a)
    BY <1>1
  <2> QED
    BY <1>2, <2>1
<1>4. ASSUME NEW k \in 1 .. Len(b) PROVE (a \o b)[Len(a) + k] = b[k]
  <2>1. Len(a) + k \in 1 .. Len(a) + Len(b) /\ ~(Len(a) + k <= Len(a)) /\ (Len(a) + k) - Len(a) = k
    BY <1>1
  <2> QED
    BY <1>2, <2>1
<1> QED
  BY <1>1, <1>2, <1>3, <1>4

\* The characters after the n-th.
LEMMA FollowSet ==
  ASSUME NEW n \in Nat, NEW a \in Seq(Nat), \A k \in 1 .. Len(a) : a[k] = n + k
  PROVE  ToSet(a) = n + 1 .. n + Len(a)
<1>1. Len(a) \in Nat /\ DOMAIN a = 1 .. Len(a)
  BY LenProperties
<1>2. ASSUME NEW x \in n + 1 .. n + Len(a) PROVE \E k \in 1 .. Len(a) : x = a[k]
  <2>1. x - n \in 1 .. Len(a) /\ n + (x - n) = x
    BY <1>1
  <2> QED
    BY <2>1
<1>3. \A k \in 1 .. Len(a) : n + k \in n + 1 .. n + Len(a)
  BY <1>1
<1>4. ToSet(a) = {a[k] : k \in 1 .. Len(a)}
  BY <1>1 DEF ToSet
<1>5. ASSUME NEW k \in 1 .. Len(a) PROVE a[k] \in n + 1 .. n + Len(a)
  BY <1>3
<1> QED
  BY <1>2, <1>4, <1>5

\* Of characters in two places, the first follow those seen, the others follow these too.
LEMMA FollowSplit ==
  ASSUME NEW n \in Nat, NEW seen, NEW a \in Seq(Nat), NEW b \in Seq(Nat),
         Follow(n, seen, a \o b)
  PROVE  /\ Follow(n, seen, a)
         /\ n + Len(a) \in Nat /\ Follow(n + Len(a), seen \cup ToSet(a), b)
<1>1. /\ Len(a) \in Nat /\ Len(b) \in Nat /\ Len(a \o b) = Len(a) + Len(b)
      /\ \A k \in 1 .. Len(a) : (a \o b)[k] = a[k]
      /\ \A k \in 1 .. Len(b) : (a \o b)[Len(a) + k] = b[k]
  BY ConcatElements
<1>2. ASSUME NEW k \in 1 .. Len(a) PROVE a[k] = n + k
  <2>1. k \in 1 .. Len(a \o b)
    BY <1>1
  <2> QED
    BY <1>1, <2>1 DEF Follow
<1>3. ASSUME NEW k \in 1 .. Len(b) PROVE b[k] = (n + Len(a)) + k
  <2>1. Len(a) + k \in 1 .. Len(a \o b)
    BY <1>1
  <2>2. (a \o b)[Len(a) + k] = n + (Len(a) + k)
    BY <2>1 DEF Follow
  <2>3. n + (Len(a) + k) = (n + Len(a)) + k
    BY <1>1
  <2> QED
    BY <1>1, <2>2, <2>3
<1>4. seen \cup ToSet(a) = 1 .. n + Len(a)
  <2>1. seen = 1 .. n /\ ToSet(a) = n + 1 .. n + Len(a)
    BY <1>2, FollowSet DEF Follow
  <2> QED
    BY <1>1, <2>1
<1> QED
  BY <1>1, <1>2, <1>3, <1>4 DEF Follow

LEMMA UnreadTypes ==
  ASSUME TypeInv, NEW p \in Runs
  PROVE  /\ reader[p].got \in Seq(Nat) /\ pipe[p] \in Seq(Nat) /\ printed[p] \in Nat
         /\ Unread(p) \in Seq(Nat)
         /\ Len(Unread(p)) = Len(reader[p].got) + Len(pipe[p])
<1>1. reader[p] \in Readers /\ pipe[p] \in Seq(Nat) /\ printed[p] \in Nat
  BY DEF TypeInv
<1>2. reader[p].got \in Seq(Nat)
  BY <1>1 DEF Readers
<1> QED
  BY <1>1, <1>2, ConcatElements DEF Unread

LEMMA ConcatAppend ==
  ASSUME NEW a \in Seq(Nat), NEW b \in Seq(Nat), NEW x \in Nat
  PROVE  a \o Append(b, x) = Append(a \o b, x)
<1>1. Append(b, x) = b \o <<x>> /\ a \o b \in Seq(Nat) /\ <<x>> \in Seq(Nat)
  BY AppendIsConcat, ConcatElements
<1>2. Append(a \o b, x) = (a \o b) \o <<x>>
  BY <1>1, AppendIsConcat
<1>3. (a \o b) \o <<x>> = a \o (b \o <<x>>)
  BY <1>1, ConcatAssociative
<1> QED
  BY <1>1, <1>2, <1>3, Zenon

\* The tracee prints one more character.
LEMMA StreamPuts ==
  ASSUME TypeInv, NEW p \in Runs, Stream(p), UNCHANGED <<output, queue>>,
         Unread(p)' = Append(Unread(p), printed[p] + 1), printed'[p] = printed[p] + 1
  PROVE  Stream(p)'
<1>1. Unread(p) \in Seq(Nat) /\ printed[p] \in Nat /\ Len(Unread(p)) \in Nat
  BY UnreadTypes, LenProperties
<1>2. /\ Len(Unread(p)') = Len(Unread(p)) + 1
      /\ \A k \in 1 .. Len(Unread(p)) : Unread(p)'[k] = Unread(p)[k]
      /\ Unread(p)'[Len(Unread(p)) + 1] = printed[p] + 1
  BY <1>1, AppendProperties
<1>3. /\ \A i, q : Shows(q, i)' = Shows(q, i)
      /\ \A j, q : Posts(q, j)' = Posts(q, j)
  BY DEF Shows, Posts
<1>4. PICK n \in Nat : /\ Follow(n, Posts(p, Len(queue)), Unread(p))
                       /\ n + Len(Unread(p)) = printed[p]
  BY DEF Stream
<1>5. /\ Follow(n, Posts(p, Len(queue))', Unread(p)')
      /\ n + Len(Unread(p)') = printed'[p]
  BY <1>1, <1>2, <1>3, <1>4 DEF Follow
<1> QED
  BY <1>3, <1>5 DEF Stream

\* A reader posts what it holds; p's own are the next of p's characters.
LEMMA StreamPosts ==
  ASSUME TypeInv, NEW p \in Runs, Stream(p), NEW t \in Runs, Post(t)
  PROVE  Stream(p)'
<1>0. PICK N, got : N \in Nat /\ N = Len(queue) /\ got = reader[t].got
  BY LenProperties DEF TypeInv
<1>1. /\ Len(queue') = N + 1 /\ N \in Nat
      /\ \A j \in 1 .. N : queue'[j] = queue[j]
      /\ queue'[N + 1].from = t /\ queue'[N + 1].text = got
      /\ UNCHANGED <<output, pipe, printed>>
  <2>1. [from |-> t, text |-> got] \in Calls
    BY <1>0, UnreadTypes DEF Calls
  <2> QED
    BY <1>0, <2>1, AppendProperties, LenProperties DEF Post, process, TypeInv
<1>2. /\ Unread(p) = reader[p].got \o pipe[p]
      /\ got \in Seq(Nat) /\ pipe[p] \in Seq(Nat)
      /\ t = p => Unread(p)' = pipe[p]
      /\ t # p => Unread(p)' = Unread(p)
  <2>1. t = p => reader'[p].got = <<>>
    BY DEF Post, TypeInv, Readers
  <2>2. t # p => reader'[p] = reader[p]
    BY DEF Post, TypeInv
  <2>3. <<>> \o pipe[p] = pipe[p] /\ got \in Seq(Nat) /\ pipe[p] \in Seq(Nat)
    BY <1>0, UnreadTypes, ConcatEmptySeq
  <2> QED
    BY <1>1, <2>1, <2>2, <2>3 DEF Unread
<1>3. /\ \A i, q : Shows(q, i)' = Shows(q, i)
      /\ \A j \in 0 .. N : Posts(p, j)' = Posts(p, j)
      /\ Posts(p, N + 1)' = Posts(p, N) \cup (IF t = p THEN ToSet(got) ELSE {})
  <2>1. \A i, q : Shows(q, i)' = Shows(q, i)
    BY <1>1 DEF Shows
  <2>2. ASSUME NEW j \in 0 .. N PROVE Posts(p, j)' = Posts(p, j)
    <3>1. \A k \in 1 .. j : queue'[k] = queue[k]
      BY <1>1
    <3> QED
      BY <1>1, <2>1, <3>1 DEF Posts
  <2> DEFINE own == {k \in 1 .. N : queue[k].from = p}
  <2>3. \A k \in own : queue'[k].text = queue[k].text
    BY <1>1
  <2>4. Posts(p, N) = Shows(p, Len(output)) \cup UNION {ToSet(queue[k].text) : k \in own}
    BY DEF Posts
  <2>5. CASE t = p
    <3>1. {k \in 1 .. N + 1 : queue'[k].from = p} = own \cup {N + 1} /\ queue'[N + 1].text = got
      BY <1>1, <2>5
    <3>2. Posts(p, N + 1)' = Shows(p, Len(output))
                               \cup UNION {ToSet(queue'[k].text) : k \in own \cup {N + 1}}
      BY <1>1, <2>1, <3>1 DEF Posts
    <3> DEFINE U == UNION {ToSet(queue'[k].text) : k \in own \cup {N + 1}}
               V == UNION {ToSet(queue[k].text) : k \in own}
    <3>3. ASSUME NEW y PROVE y \in U <=> \E k \in own \cup {N + 1} : y \in ToSet(queue'[k].text)
      OBVIOUS
    <3>4. ASSUME NEW y PROVE y \in V <=> \E k \in own : y \in ToSet(queue[k].text)
      OBVIOUS
    <3> HIDE DEF own
    <3>5. ASSUME NEW y
          PROVE  (\E k \in own \cup {N + 1} : y \in ToSet(queue'[k].text))
                   <=> (\E k \in own : y \in ToSet(queue[k].text)) \/ y \in ToSet(got)
      BY <2>3, <3>1, Zenon
    <3> HIDE DEF U, V
    <3>6. \A y : y \in U <=> y \in V \cup ToSet(got)
      BY <3>3, <3>4, <3>5
    <3>7. U = V \cup ToSet(got)
      BY <3>6
    <3> QED
      BY <2>1, <2>2, <2>4, <2>5, <3>2, <3>7 DEF U, V
  <2>6. CASE t # p
    <3>1. {k \in 1 .. N + 1 : queue'[k].from = p} = own
      BY <1>1, <2>6
    <3>2. Posts(p, N + 1)' = Shows(p, Len(output)) \cup UNION {ToSet(queue'[k].text) : k \in own}
      BY <1>1, <2>1, <3>1 DEF Posts
    <3> HIDE DEF own
    <3>3. UNION {ToSet(queue'[k].text) : k \in own} = UNION {ToSet(queue[k].text) : k \in own}
      BY <2>3
    <3> QED
      BY <2>1, <2>2, <2>4, <2>6, <3>2, <3>3
  <2> QED
    BY <2>5, <2>6
<1>4. PICK n \in Nat : /\ Follow(n, Posts(p, N), Unread(p))
                       /\ n + Len(Unread(p)) = printed[p]
  BY <1>0 DEF Stream
<1>5. /\ \A i \in 1 .. Len(output) : output[i].from = p =>
           output[i].n # 0 /\ Shows(p, i - 1) = 1 .. output[i].n - 1
      /\ \A j \in 1 .. N : queue[j].from = p =>
           \E m \in Nat : Follow(m, Posts(p, j - 1), queue[j].text)
  BY <1>0 DEF Stream
<1>6. \A j \in 1 .. N : queue'[j].from = p =>
           \E m \in Nat : Follow(m, Posts(p, j - 1)', queue'[j].text)
  <2>1. \A j \in 1 .. N : j - 1 \in 0 .. N
    BY <1>1
  <2> QED
    BY <1>1, <1>3, <1>5, <2>1
<1>7. N + 1 - 1 = N /\ 1 .. N + 1 = 1 .. N \cup {N + 1} /\ N \in 0 .. N
  BY <1>1
\* What is left to show of p's stream: of the call that was posted, and of what is unread.
<1>8. ASSUME t = p => \E m \in Nat : Follow(m, Posts(p, N)', queue'[N + 1].text),
              \E m \in Nat : /\ Follow(m, Posts(p, N + 1)', Unread(p)')
                             /\ m + Len(Unread(p)') = printed'[p]
       PROVE  Stream(p)'
  <2>1. \A i \in 1 .. Len(output') : output'[i].from = p =>
          output'[i].n # 0 /\ Shows(p, i - 1)' = 1 .. output'[i].n - 1
    BY <1>1, <1>3, <1>5
  <2>2. \A j \in 1 .. N + 1 : queue'[j].from = p =>
          \E m \in Nat : Follow(m, Posts(p, j - 1)', queue'[j].text)
    BY <1>1, <1>6, <1>7, <1>8
  <2> QED
    BY <1>1, <1>8, <2>1, <2>2 DEF Stream
<1>9. CASE t # p
  <2>1. Posts(p, N + 1)' = Posts(p, N)
    BY <1>3, <1>9
  <2>2. \E m \in Nat : Follow(m, Posts(p, N + 1)', Unread(p)') /\ m + Len(Unread(p)') = printed'[p]
    BY <1>1, <1>2, <1>4, <1>9, <2>1
  <2> QED
    BY <1>9, <1>8, <2>2
<1>10. CASE t = p
  <2>1. Unread(p) = got \o pipe[p]
    BY <1>0, <1>2, <1>10
  <2>2. /\ Follow(n, Posts(p, N), got)
        /\ n + Len(got) \in Nat /\ Follow(n + Len(got), Posts(p, N + 1)', pipe[p])
    <3>1. Follow(n, Posts(p, N), got \o pipe[p]) /\ got \in Seq(Nat) /\ pipe[p] \in Seq(Nat)
      BY <1>2, <1>4, <2>1
    <3>2. Posts(p, N + 1)' = Posts(p, N) \cup ToSet(got)
      BY <1>3, <1>10
    <3>3. /\ Follow(n, Posts(p, N), got) /\ n + Len(got) \in Nat
          /\ Follow(n + Len(got), Posts(p, N) \cup ToSet(got), pipe[p])
      BY <3>1, FollowSplit
    <3> QED
      BY <3>2, <3>3
  <2>3. (n + Len(got)) + Len(pipe[p]) = printed[p]
    <3>1. Len(got) \in Nat /\ Len(pipe[p]) \in Nat
      BY <1>0, <1>2, UnreadTypes, LenProperties
    <3>2. n + (Len(got) + Len(pipe[p])) = printed[p]
      BY <1>0, <1>4, <1>10, UnreadTypes
    <3>3. \A a, b, c \in Nat : (a + b) + c = a + (b + c)
      OBVIOUS
    <3> QED
      BY <3>1, <3>2, <3>3
  <2>4. \E m \in Nat : Follow(m, Posts(p, N + 1)', Unread(p)') /\ m + Len(Unread(p)') = printed'[p]
    BY <1>1, <1>2, <1>10, <2>2, <2>3
  <2>5. Follow(n, Posts(p, N)', queue'[N + 1].text)
    BY <1>1, <1>3, <1>7, <2>2
  <2> QED
    BY <1>8, <2>4, <2>5
<1> QED
  BY <1>9, <1>10

\* A function on 1 .. n is a sequence of n elements.
LEMMA FunctionSeq ==
  ASSUME NEW S, NEW n \in Nat, NEW f \in [1 .. n -> S]
  PROVE  f \in Seq(S) /\ Len(f) = n
<1>1. f \in Seq(S)
  OBVIOUS
<1>2. DOMAIN f = 1 .. Len(f) /\ Len(f) \in Nat /\ DOMAIN f = 1 .. n
  BY <1>1, LenProperties
<1>3. \A a, b \in Nat : 1 .. a = 1 .. b => a = b
  <2> SUFFICES ASSUME NEW a \in Nat, NEW b \in Nat, 1 .. a = 1 .. b PROVE a = b
    OBVIOUS
  <2>1. a > 0 => a \in 1 .. b
    OBVIOUS
  <2>2. b > 0 => b \in 1 .. a
    OBVIOUS
  <2> QED
    BY <2>1, <2>2
<1> QED
  BY <1>1, <1>2, <1>3

\* The characters a call adds to the display.
Adds(call) == [i \in DOMAIN call.text |-> [from |-> call.from, n |-> call.text[i]]]

Extends(seen, call, shown) ==
  /\ Len(shown) = Len(seen) + Len(call.text)
  /\ \A i \in 1 .. Len(seen) : shown[i] = seen[i]
  /\ \A k \in 1 .. Len(call.text) : /\ shown[Len(seen) + k].from = call.from
                                    /\ shown[Len(seen) + k].n = call.text[k]

LEMMA CallShown ==
  ASSUME NEW call \in Calls, NEW seen \in Seq(Glyphs)
  PROVE  Extends(seen, call, seen \o Adds(call))
<1> DEFINE new == Adds(call)
<1>1. call.from \in Runs /\ call.text \in Seq(Nat)
  BY DEF Calls
<1>2. /\ DOMAIN call.text = 1 .. Len(call.text) /\ Len(call.text) \in Nat
      /\ \A i \in 1 .. Len(call.text) : call.text[i] \in Nat
  BY <1>1, LenProperties
<1>3. \A i \in 1 .. Len(call.text) : new[i] = [from |-> call.from, n |-> call.text[i]]
  BY <1>2 DEF Adds
<1>4. new \in Seq(Glyphs) /\ Len(new) = Len(call.text)
  <2>1. \A i \in 1 .. Len(call.text) : [from |-> call.from, n |-> call.text[i]] \in Glyphs
    BY <1>1, <1>2 DEF Glyphs
  <2>2. new \in [1 .. Len(call.text) -> Glyphs]
    BY <1>2, <2>1 DEF Adds
  <2> HIDE DEF new
  <2> QED
    BY <1>2, <2>2, FunctionSeq
<1> HIDE DEF new
<1>5. \A k \in 1 .. Len(call.text) : new[k].from = call.from /\ new[k].n = call.text[k]
  <2>1. ASSUME NEW k \in 1 .. Len(call.text) PROVE new[k].from = call.from /\ new[k].n = call.text[k]
    <3>1. new[k] = [from |-> call.from, n |-> call.text[k]]
      BY <1>3
    <3> QED
      BY ONLY <3>1
  <2> QED
    BY <2>1
<1> DEFINE shown == seen \o new
<1>7. /\ Len(new) \in Nat /\ Len(shown) = Len(seen) + Len(new)
      /\ \A i \in 1 .. Len(seen) : shown[i] = seen[i]
      /\ \A k \in 1 .. Len(new) : shown[Len(seen) + k] = new[k]
  <2>1. /\ Len(new) \in Nat /\ Len(seen \o new) = Len(seen) + Len(new)
        /\ \A i \in 1 .. Len(seen) : (seen \o new)[i] = seen[i]
        /\ \A k \in 1 .. Len(new) : (seen \o new)[Len(seen) + k] = new[k]
    <3>1. new \in Seq(Glyphs)
      BY <1>4
    <3> QED
      BY ONLY <3>1, seen \in Seq(Glyphs), ConcatElements
  <2> QED
    BY <2>1, Zenon DEF shown
<1> HIDE DEF shown
<1>8. \A k \in 1 .. Len(call.text) : shown[Len(seen) + k] = new[k]
  BY <1>4, <1>7, Zenon
<1>9. \A k \in 1 .. Len(call.text) : /\ shown[Len(seen) + k].from = call.from
                                     /\ shown[Len(seen) + k].n = call.text[k]
  BY <1>5, <1>8, Zenon
<1>10. Len(shown) = Len(seen) + Len(call.text)
  BY <1>4, <1>7, Zenon
<1>11. Extends(seen, call, shown)
  BY <1>7, <1>9, <1>10, Zenon DEF Extends
<1> QED
  BY <1>11, Zenon DEF shown, new

\* The display grows by the text of the call at the head of the queue.
LEMMA StreamShows ==
  ASSUME TypeInv, NEW p \in Runs, Stream(p), appendOutput
  PROVE  Stream(p)'
<1>0. PICK N \in Nat, call \in Calls :
        N = Len(output) /\ call = Head(queue) /\ queue # <<>> /\ Tail(queue) \in Seq(Calls)
        /\ Len(Tail(queue)) = Len(queue) - 1 /\ Len(queue) \in Nat
        /\ \A j \in 1 .. Len(queue) - 1 : Tail(queue)[j] = queue[j + 1]
  BY HeadTailProperties, LenProperties DEF appendOutput, TypeInv
<1>1. call.from \in Runs /\ call.text \in Seq(Nat) /\ Len(call.text) \in Nat
      /\ DOMAIN call.text = 1 .. Len(call.text)
  BY LenProperties DEF Calls
<1>2. PICK m \in Nat : m = Len(call.text)
  BY <1>1
<1>3. /\ Len(output') = N + m
      /\ \A i \in 1 .. N : output'[i] = output[i]
      /\ \A k \in 1 .. m : output'[N + k].from = call.from /\ output'[N + k].n = call.text[k]
  <2>1. output' = output \o Adds(call) /\ output \in Seq(Glyphs)
    BY <1>0 DEF appendOutput, TypeInv, Adds
  <2>2. /\ Len(output') = Len(output) + Len(call.text)
        /\ \A i \in 1 .. Len(output) : output'[i] = output[i]
        /\ \A k \in 1 .. Len(call.text) : /\ output'[Len(output) + k].from = call.from
                                         /\ output'[Len(output) + k].n = call.text[k]
    BY <2>1, CallShown, Zenon DEF Extends
  <2>3. \A i \in 1 .. N : output'[i] = output[i]
    BY <1>0, <2>2, Zenon
  <2>4. Len(output') = N + m
    BY <1>0, <1>2, <2>2, Zenon
  <2>5. \A k \in 1 .. m : output'[N + k].from = call.from /\ output'[N + k].n = call.text[k]
    BY <1>0, <1>2, <2>2, Zenon
  <2> QED
    BY <2>3, <2>4, <2>5, Zenon
<1>4. /\ queue' = Tail(queue) /\ Unread(p)' = Unread(p) /\ printed' = printed
      /\ queue[1] = call
  BY <1>0 DEF appendOutput, process, Unread, TypeInv
<1>5. PICK M \in Nat : /\ Len(queue) = M + 1 /\ Len(queue') = M
                       /\ \A j \in 1 .. M : queue'[j] = queue[j + 1]
  <2>1. Len(queue) # 0
    BY <1>0, EmptySeq DEF TypeInv
  <2>2. Len(queue) - 1 \in Nat /\ Len(queue) = (Len(queue) - 1) + 1
    BY <1>0, <2>1
  <2> QED
    BY <1>0, <1>4, <2>2
\* The display up to some place of it.
<1>6. \A i \in 0 .. N : Shows(p, i)' = Shows(p, i)
  <2>1. ASSUME NEW i \in 0 .. N PROVE Shows(p, i)' = Shows(p, i)
    <3>1. \A k \in 1 .. i : output'[k] = output[k]
      BY <1>3
    <3> QED
      BY <3>1 DEF Shows
  <2> QED
    BY <2>1
<1>7. \A i \in 0 .. m : Shows(p, N + i)' =
        Shows(p, N) \cup {call.text[k] : k \in {k \in 1 .. i : call.from = p}}
  <2>1. ASSUME NEW i \in 0 .. m
        PROVE  Shows(p, N + i)' = Shows(p, N) \cup {call.text[k] : k \in {k \in 1 .. i : call.from = p}}
    <3>1. ASSUME NEW k \in 1 .. N + i, k \notin 1 .. N PROVE k - N \in 1 .. i /\ N + (k - N) = k
      <4>1. \A a, b \in Nat : \A x \in 1 .. a + b : x \notin 1 .. a => x - a \in 1 .. b /\ a + (x - a) = x
        OBVIOUS
      <4>2. i \in Nat
        OBVIOUS
      <4> QED
        BY <3>1, <4>1, <4>2
    <3>2. ASSUME NEW k \in 1 .. i
          PROVE  /\ N + k \in 1 .. N + i /\ output'[N + k].from = call.from
                 /\ output'[N + k].n = call.text[k]
      BY <1>3
    <3>3. \A k \in 1 .. N : output'[k] = output[k] /\ k \in 1 .. N + i
      BY <1>3
    <3>4. \A y \in Shows(p, N + i)' :
            y \in Shows(p, N) \/ y \in {call.text[k] : k \in {k \in 1 .. i : call.from = p}}
      <4>1. ASSUME NEW k \in 1 .. N + i, output'[k].from = p
            PROVE  \/ output'[k].n \in Shows(p, N)
                   \/ output'[k].n \in {call.text[l] : l \in {l \in 1 .. i : call.from = p}}
        <5>1. CASE k \in 1 .. N
          BY <3>3, <4>1, <5>1 DEF Shows
        <5>2. CASE k \notin 1 .. N
          <6>1. k - N \in 1 .. i /\ output'[k].n = call.text[k - N] /\ call.from = p
            BY <3>1, <3>2, <4>1, <5>2
          <6> QED
            BY <6>1
        <5> QED
          BY <5>1, <5>2
      <4> QED
        BY <4>1 DEF Shows
    <3>5. \A y \in Shows(p, N) : y \in Shows(p, N + i)'
      BY <3>3 DEF Shows
    <3>6. ASSUME NEW k \in 1 .. i, call.from = p PROVE call.text[k] \in Shows(p, N + i)'
      BY <3>2, <3>6 DEF Shows
    <3> QED
      BY <3>4, <3>5, <3>6
  <2> QED
    BY <2>1
\* What was posted up to a call of the queue that is left.
<1>8. \A j \in 0 .. M : Posts(p, j)' = Posts(p, j + 1)
  <2> SUFFICES ASSUME NEW j \in 0 .. M PROVE Posts(p, j)' = Posts(p, j + 1)
    OBVIOUS
  <2>1. ASSUME NEW y
        PROVE  y \in Posts(p, j)' <=>
                 \/ y \in Shows(p, N + m)'
                 \/ \E k \in 1 .. j : queue'[k].from = p /\ y \in ToSet(queue'[k].text)
    BY <1>3 DEF Posts
  <2>2. ASSUME NEW y
        PROVE  y \in Posts(p, j + 1) <=>
                 \/ y \in Shows(p, N)
                 \/ \E k \in 1 .. j + 1 : queue[k].from = p /\ y \in ToSet(queue[k].text)
    BY <1>0 DEF Posts
  <2>3. ASSUME NEW y
        PROVE  y \in Shows(p, N + m)' <=>
                 y \in Shows(p, N) \/ (call.from = p /\ y \in ToSet(call.text))
    <3>1. m \in 0 .. m
      OBVIOUS
    <3>2. Shows(p, N + m)' =
            Shows(p, N) \cup {call.text[k] : k \in {k \in 1 .. m : call.from = p}}
      BY <1>7, <3>1
    <3>3. ToSet(call.text) = {call.text[k] : k \in 1 .. m}
      BY <1>1, <1>2 DEF ToSet
    <3> QED
      BY <3>2, <3>3
  <2>4. ASSUME NEW k \in 1 .. j PROVE k + 1 \in 1 .. j + 1 /\ queue'[k] = queue[k + 1]
    BY <1>5
  <2>5. ASSUME NEW k \in 1 .. j + 1, k # 1
        PROVE  k - 1 \in 1 .. j /\ queue'[k - 1] = queue[k]
    <3>1. k - 1 \in 1 .. M /\ (k - 1) + 1 = k /\ k - 1 \in 1 .. j
      BY <2>5
    <3> QED
      BY <1>5, <3>1
  <2>6. 1 \in 1 .. j + 1
    OBVIOUS
  <2>7. ASSUME NEW y, y \in Posts(p, j)' PROVE y \in Posts(p, j + 1)
    <3>1. CASE y \in Shows(p, N)
      BY <2>2, <3>1
    <3>2. CASE call.from = p /\ y \in ToSet(call.text)
      BY <1>4, <2>2, <2>6, <3>2
    <3>3. ASSUME NEW k \in 1 .. j, queue'[k].from = p, y \in ToSet(queue'[k].text)
          PROVE  y \in Posts(p, j + 1)
      BY <2>2, <2>4, <3>3
    <3> QED
      BY <2>1, <2>3, <2>7, <3>1, <3>2, <3>3
  <2>8. ASSUME NEW y, y \in Posts(p, j + 1) PROVE y \in Posts(p, j)'
    <3>1. CASE y \in Shows(p, N)
      BY <2>1, <2>3, <3>1
    <3>2. ASSUME NEW k \in 1 .. j + 1, queue[k].from = p, y \in ToSet(queue[k].text)
          PROVE  y \in Posts(p, j)'
      BY <1>4, <2>1, <2>3, <2>5, <3>2
    <3> QED
      BY <2>2, <2>8, <3>1, <3>2
  <2> QED
    BY <2>7, <2>8
<1>9. /\ Shows(p, N) = Posts(p, 0) /\ N + m = Len(output')
      /\ \A i \in 1 .. N : output[i].from = p =>
           output[i].n # 0 /\ Shows(p, i - 1) = 1 .. output[i].n - 1
      /\ \A j \in 1 .. M + 1 : queue[j].from = p =>
           \E n \in Nat : Follow(n, Posts(p, j - 1), queue[j].text)
      /\ \E n \in Nat : Follow(n, Posts(p, M + 1), Unread(p)) /\ n + Len(Unread(p)) = printed[p]
  <2>1. Posts(p, 0) = Shows(p, N)
    BY <1>0 DEF Posts
  <2> QED
    BY <1>0, <1>3, <1>5, <2>1 DEF Stream
<1>10. ASSUME NEW i \in 1 .. N + m, output'[i].from = p
       PROVE  output'[i].n # 0 /\ Shows(p, i - 1)' = 1 .. output'[i].n - 1
  <2>1. CASE i \in 1 .. N
    <3>1. i - 1 \in 0 .. N
      BY <2>1
    <3> QED
      BY <1>3, <1>6, <1>9, <1>10, <2>1, <3>1
  <2>2. CASE i \notin 1 .. N
    <3>1. PICK k \in 1 .. m : i = N + k
      <4>1. \A a, b \in Nat : \A x \in 1 .. a + b : x \notin 1 .. a => x - a \in 1 .. b /\ x = a + (x - a)
        OBVIOUS
      <4> QED
        BY <2>2, <4>1
    <3>2. /\ k - 1 \in 0 .. m /\ i - 1 = N + (k - 1) /\ k \in Nat /\ k >= 1
          /\ \A n \in Nat : (n + k) - 1 = n + (k - 1) /\ n + k # 0
      BY <3>1
    <3>3. call.from = p /\ output'[i].n = call.text[k]
      BY <1>3, <1>10, <3>1
    <3>4. PICK n \in Nat : Follow(n, Shows(p, N), call.text)
      <4>1. 1 \in 1 .. M + 1 /\ 1 - 1 = 0
        OBVIOUS
      <4> QED
        BY <1>4, <1>9, <3>3, <4>1
    <3>5. Shows(p, N) = 1 .. n /\ \A l \in 1 .. m : call.text[l] = n + l
      BY <1>2, <3>4 DEF Follow
    <3>6. Shows(p, N + (k - 1))' = 1 .. n + (k - 1)
      <4>1. Shows(p, N + (k - 1))' = 1 .. n \cup {call.text[l] : l \in 1 .. k - 1}
        BY <1>7, <3>2, <3>3, <3>5
      <4>2. \A l \in 1 .. k - 1 : l \in 1 .. m /\ n + l \in n + 1 .. n + (k - 1)
        BY <3>2
      <4>3. \A l \in 1 .. k - 1 : call.text[l] = n + l
        BY <3>5, <4>2
      <4>4. \A x \in 1 .. n + (k - 1) : x \in 1 .. n \/ (x - n \in 1 .. k - 1 /\ n + (x - n) = x)
        BY <3>2
      <4>5. \A x \in n + 1 .. n + (k - 1) : x \in 1 .. n + (k - 1)
        OBVIOUS
      <4>6. \A x \in 1 .. n : x \in 1 .. n + (k - 1)
        BY <3>2
      <4>7. ASSUME NEW x \in 1 .. n + (k - 1) PROVE x \in Shows(p, N + (k - 1))'
        <5>1. CASE x \in 1 .. n
          BY <4>1, <5>1
        <5>2. CASE x \notin 1 .. n
          <6>1. x - n \in 1 .. k - 1 /\ call.text[x - n] = x
            BY <4>3, <4>4, <5>2
          <6> QED
            BY <4>1, <6>1, Zenon
        <5> QED
          BY <5>1, <5>2
      <4>8. ASSUME NEW l \in 1 .. k - 1 PROVE call.text[l] \in 1 .. n + (k - 1)
        BY <4>2, <4>3, <4>5
      <4> QED
        BY <4>1, <4>6, <4>7, <4>8
    <3>7. output'[i].n = n + k
      BY <3>1, <3>3, <3>5
    <3> QED
      BY <3>2, <3>6, <3>7
  <2> QED
    BY <2>1, <2>2
<1>11. ASSUME NEW j \in 1 .. M, queue'[j].from = p
       PROVE  \E n \in Nat : Follow(n, Posts(p, j - 1)', queue'[j].text)
  <2>1. j - 1 \in 0 .. M /\ (j - 1) + 1 = j /\ j + 1 \in 1 .. M + 1 /\ (j + 1) - 1 = j
    OBVIOUS
  <2>2. Posts(p, j - 1)' = Posts(p, j) /\ queue'[j] = queue[j + 1]
    BY <1>5, <1>8, <2>1
  <2> QED
    BY <1>9, <1>11, <2>1, <2>2
<1>12. \E n \in Nat : /\ Follow(n, Posts(p, M)', Unread(p)')
                      /\ n + Len(Unread(p)') = printed'[p]
  <2>1. M \in 0 .. M
    OBVIOUS
  <2> QED
    BY <1>4, <1>8, <1>9, <2>1
<1> QED
  BY <1>5, <1>9, <1>10, <1>11, <1>12 DEF Stream

\* The user's own lines are between p's characters, and none of them.
LEMMA StreamSends ==
  ASSUME TypeInv, NEW p \in Runs, Stream(p), NEW line \in Lines, sendInput(line)
  PROVE  Stream(p)'
<1>0. PICK N \in Nat : N = Len(output)
  BY Elements
<1>1. /\ Len(output') = N + 1
      /\ \A i \in 1 .. N : output'[i] = output[i]
      /\ output'[N + 1].from # p
      /\ UNCHANGED <<queue, printed>> /\ Unread(p)' = Unread(p)
  <2>1. /\ output' = Append(output, [from |-> User, n |-> Len(sent')])
        /\ UNCHANGED <<queue, printed, pipe, reader>>
    BY DEF sendInput, process
  <2>2. p # User /\ output \in Seq(Glyphs)
    BY DEF Runs, User, TypeInv
  <2>3. Len(sent') \in Nat
    <3>1. sent \in Seq(Written)
      BY DEF TypeInv
    <3>2. sent' \in Seq(Written)
      <4> DEFINE entry == [line |-> line, written |-> Min({line.units + 1, line.bytes + 1})]
      <4>1. entry \in Written
        BY WrittenUnits DEF Written
      <4> HIDE DEF entry
      <4> QED
        BY <3>1, <4>1 DEF sendInput, entry
    <3> QED
      BY <3>2, LenProperties
  <2>4. [from |-> User, n |-> Len(sent')] \in Glyphs
    BY <2>3 DEF Glyphs
  <2> QED
    BY <1>0, <2>1, <2>2, <2>4, AppendProperties, LenProperties DEF Unread
<1>2. \A i \in 0 .. N : Shows(p, i)' = Shows(p, i)
  <2>1. ASSUME NEW i \in 0 .. N PROVE Shows(p, i)' = Shows(p, i)
    <3>1. \A k \in 1 .. i : output'[k] = output[k]
      BY <1>1
    <3> QED
      BY <3>1 DEF Shows
  <2> QED
    BY <2>1
<1>3. Shows(p, N + 1)' = Shows(p, N)
  <2>1. {k \in 1 .. N + 1 : output'[k].from = p} = {k \in 1 .. N : output[k].from = p}
    BY <1>1
  <2>2. \A k \in 1 .. N : output'[k] = output[k]
    BY <1>1
  <2> QED
    BY <2>1, <2>2 DEF Shows
<1>4. \A j : Posts(p, j)' = Posts(p, j)
  BY <1>0, <1>1, <1>3 DEF Posts
<1>5. ASSUME NEW i \in 1 .. N + 1, output'[i].from = p
      PROVE  output'[i].n # 0 /\ Shows(p, i - 1)' = 1 .. output'[i].n - 1
  <2>1. i \in 1 .. N /\ i - 1 \in 0 .. N
    BY <1>1, <1>5
  <2>2. output[i].from = p => output[i].n # 0 /\ Shows(p, i - 1) = 1 .. output[i].n - 1
    BY <1>0, <2>1 DEF Stream
  <2> QED
    BY <1>1, <1>2, <1>5, <2>1, <2>2
<1>6. Len(output') = N + 1 /\ queue' = queue /\ printed' = printed
  BY <1>1
<1> QED
  BY <1>1, <1>4, <1>5, <1>6 DEF Stream

\* The stream of a process depends on the display, the queue, and what is unread of it.
LEMMA StreamKeeps ==
  ASSUME NEW p, Stream(p), UNCHANGED <<output, queue>>,
         Unread(p)' = Unread(p), printed'[p] = printed[p]
  PROVE  Stream(p)'
<1>1. /\ \A i, q : Shows(q, i)' = Shows(q, i)
      /\ \A j, q : Posts(q, j)' = Posts(q, j)
  BY DEF Shows, Posts
<1> QED
  BY <1>1 DEF Stream

\* The widget is connected to a process of which nothing was read.
LEMMA StreamBegins ==
  ASSUME TypeInv, ThreadInv, FreshInv, NEW p \in Runs, Fresh(p), output' = <<>>,
         UNCHANGED <<queue, pipe, printed>>, reader'[p].got = reader[p].got
  PROVE  Stream(p)'
<1>1. PICK m \in Nat : m = printed[p]
  BY DEF TypeInv
<1>2. /\ reader[p].got = <<>> /\ pipe[p] \in Seq(Nat) /\ Len(pipe[p]) = m
      /\ \A k \in 1 .. m : pipe[p][k] = 0 + k
      /\ \A j \in 1 .. Len(queue) : queue[j].from # p
  <2>1. reader[p].pc = "none"
    BY DEF FreshInv
  <2>2. reader[p].got = <<>>
    BY <2>1 DEF ThreadInv
  <2>3. /\ Len(pipe[p]) = m /\ \A k \in 1 .. m : pipe[p][k] = k
        /\ \A j \in 1 .. Len(queue) : queue[j].from # p
    BY <1>1, <2>1 DEF FreshInv
  <2>4. \A k \in 1 .. m : 0 + k = k
    OBVIOUS
  <2>5. pipe[p] \in Seq(Nat)
    BY UnreadTypes
  <2> QED
    BY <2>2, <2>3, <2>4, <2>5
<1>3. Unread(p)' = pipe[p]
  BY <1>2, ConcatEmptySeq DEF Unread
<1>4. Len(output') = 0 /\ Shows(p, 0)' = {}
  BY DEF Shows
<1>5. Posts(p, Len(queue))' = {}
  <2>1. {k \in 1 .. Len(queue) : queue[k].from = p} = {}
    BY <1>2
  <2> QED
    BY <1>4, <2>1 DEF Posts
<1>6. 1 .. 0 = {} /\ 0 \in Nat /\ 0 + m = m
  OBVIOUS
<1>7. Follow(0, Posts(p, Len(queue))', Unread(p)') /\ 0 + Len(Unread(p)') = printed'[p]
  BY <1>1, <1>2, <1>3, <1>5, <1>6 DEF Follow
<1> QED
  BY <1>2, <1>4, <1>6, <1>7 DEF Stream

LEMMA StreamStep ==
  TypeInv /\ ThreadInv /\ FreshInv /\ StreamInv /\ [Next]_vars => StreamInv'
<1> SUFFICES ASSUME TypeInv, ThreadInv, FreshInv, StreamInv, [Next]_vars,
                    pty_fd' \notin {NoFd} \cup closed'
             PROVE  Stream(pty_fd)'
  BY DEF StreamInv
\* The process shown, before the step and, unless the step changes pty, after it.
<1>0. PICK p \in {NoFd} \cup Runs : p = pty_fd
  BY DEF TypeInv
<1>1. ASSUME pty_fd' = pty_fd, closed \subseteq closed'
      PROVE  p \in Runs /\ Stream(p) /\ (Stream(p)' => Stream(pty_fd)')
  <2>1. Stream(p)' => Stream(pty_fd)'
    BY <1>0, <1>1 DEF Stream, Shows, Posts, Unread
  <2>2. p \notin {NoFd} \cup closed
    BY <1>0, <1>1
  <2>3. Stream(p)
    BY <1>0, <2>2 DEF StreamInv
  <2> QED
    BY <2>1, <2>2, <2>3
<1>2. CASE PutChar
  <2>1. /\ pty_fd' = pty_fd /\ closed' = closed
        /\ run \in Runs /\ UNCHANGED <<output, queue, reader>>
        /\ printed' = [printed EXCEPT ![run] = @ + 1]
        /\ pipe' = [pipe EXCEPT ![run] = Append(@, printed'[run])]
    BY <1>2 DEF PutChar, TypeInv, Runs
  <2>2. p \in Runs /\ Stream(p) /\ (Stream(p)' => Stream(pty_fd)')
    BY <1>1, <2>1
  <2>3. printed \in [Runs -> Nat] /\ pipe \in [Runs -> Seq(Nat)]
    BY DEF TypeInv
  <2>4. CASE run = p
    <3>1. printed'[p] = printed[p] + 1 /\ pipe'[p] = Append(pipe[p], printed[p] + 1)
      BY <2>1, <2>2, <2>3, <2>4
    <3>2. Unread(p)' = Append(Unread(p), printed[p] + 1)
      <4> DEFINE x == printed[p] + 1
      <4>1. reader[p].got \in Seq(Nat) /\ pipe[p] \in Seq(Nat) /\ x \in Nat
        <5> HIDE DEF x
        <5>1. p \in Runs /\ TypeInv
          BY <2>2
        <5>2. reader[p].got \in Seq(Nat) /\ pipe[p] \in Seq(Nat) /\ printed[p] \in Nat
          BY ONLY <5>1, UnreadTypes
        <5>3. x \in Nat
          BY ONLY <5>2 DEF x
        <5> QED
          BY <5>2, <5>3
      <4> HIDE DEF x
      <4>2. reader[p].got \o Append(pipe[p], x) = Append(reader[p].got \o pipe[p], x)
        BY <4>1, ConcatAppend
      <4>3. reader'[p].got = reader[p].got /\ pipe'[p] = Append(pipe[p], x)
        <5>1. reader' = reader
          BY <2>1
        <5>2. pipe'[p] = Append(pipe[p], x)
          BY <3>1, Zenon DEF x
        <5> QED
          BY <5>1, <5>2, Zenon
      <4>4. Unread(p)' = Append(Unread(p), x)
        BY <4>2, <4>3, Zenon DEF Unread
      <4> QED
        BY <4>4 DEF x
    <3> QED
      BY <2>1, <2>2, <3>1, <3>2, StreamPuts
  <2>5. CASE run # p
    <3>1. printed'[p] = printed[p] /\ pipe'[p] = pipe[p]
      BY <2>1, <2>2, <2>3, <2>5
    <3> QED
      BY <2>1, <2>2, <3>1, StreamKeeps DEF Unread
  <2> QED
    BY <2>4, <2>5
<1>3. ASSUME NEW t \in Runs, Read(t) PROVE Stream(pty_fd)'
  <2>1. pty_fd' = pty_fd /\ closed' = closed
    BY <1>3 DEF Read
  <2>2. p \in Runs /\ Stream(p) /\ (Stream(p)' => Stream(pty_fd)')
    BY <1>1, <2>1
  <2>3. t = p /\ reader[p].got = <<>>
    BY <1>0, <1>3 DEF Read, ThreadInv
  <2> DEFINE size == Min({BufferSize, Len(pipe[p])})
  <2>4. /\ reader' = [reader EXCEPT ![p].pc = "post", ![p].got = SubSeq(pipe[p], 1, size)]
        /\ pipe' = [pipe EXCEPT ![p] = SubSeq(pipe[p], size + 1, Len(pipe[p]))]
        /\ UNCHANGED <<printed, queue, output>>
    BY <1>0, <1>3, <2>3 DEF Read
  <2>5. /\ pipe[p] \in Seq(Nat)
        /\ SubSeq(pipe[p], 1, size) \o SubSeq(pipe[p], size + 1, Len(pipe[p])) = pipe[p]
    BY <2>2, UnreadTypes, ReadSplits
  <2> HIDE DEF size
  <2>6. /\ reader'[p].got = SubSeq(pipe[p], 1, size)
        /\ pipe'[p] = SubSeq(pipe[p], size + 1, Len(pipe[p]))
    BY <2>2, <2>4 DEF TypeInv, Readers
  <2>7. Unread(p) = pipe[p] /\ Unread(p)' = pipe[p]
    BY <2>3, <2>5, <2>6, ConcatEmptySeq DEF Unread
  <2> QED
    BY <2>2, <2>4, <2>7, StreamKeeps
<1>4. ASSUME NEW t \in Runs, Post(t) PROVE Stream(pty_fd)'
  <2>1. pty_fd' = pty_fd /\ closed' = closed
    BY <1>4 DEF Post, process
  <2> QED
    BY <1>1, <1>4, <2>1, StreamPosts
<1>5. ASSUME NEW t \in Runs, ReadFails(t) PROVE Stream(pty_fd)'
  <2>1. /\ pty_fd' = pty_fd /\ closed' = closed
        /\ UNCHANGED <<printed, pipe, queue, output>>
        /\ reader' = [reader EXCEPT ![t].pc = "ended"]
    BY <1>5 DEF ReadFails, process
  <2>2. p \in Runs /\ Stream(p) /\ (Stream(p)' => Stream(pty_fd)')
    BY <1>1, <2>1
  <2>3. reader'[p].got = reader[p].got
    BY <2>1, <2>2 DEF TypeInv, Readers
  <2> QED
    BY <2>1, <2>2, <2>3, StreamKeeps DEF Unread
<1>6. CASE appendOutput
  <2>1. pty_fd' = pty_fd /\ closed' = closed
    BY <1>6 DEF appendOutput, process
  <2> QED
    BY <1>1, <1>6, <2>1, StreamShows
<1>7. ASSUME NEW line \in Lines, sendInput(line) PROVE Stream(pty_fd)'
  <2>1. pty_fd' = pty_fd /\ closed' = closed
    BY <1>7 DEF sendInput, process
  <2> QED
    BY <1>1, <1>7, <2>1, StreamSends
<1>8. CASE RestartBegins \/ executionEnded \/ AbortExecution
  <2>1. pty_fd' = NoFd
    BY <1>8 DEF RestartBegins, executionEnded, AbortExecution, reassignTo
  <2> QED
    BY <2>1
<1>9. CASE executionStarted
  <2>1. reassignTo(run) /\ run \in Runs /\ gpc = "started"
    BY <1>9 DEF executionStarted, FreshInv
  <2>2. PICK q \in Runs : q = run
    BY <2>1
  <2>3. Fresh(q) /\ q # NoFd
    BY <2>1, <2>2 DEF Fresh, Runs, NoFd
  <2>4. /\ pty_fd' = q /\ output' = <<>> /\ UNCHANGED <<queue, pipe, printed>>
        /\ reader'[q].got = reader[q].got
    BY <2>1, <2>2, <2>3, ReassignKeeps
  <2>5. Stream(q)'
    BY <2>3, <2>4, StreamBegins
  <2> QED
    BY <2>4, <2>5 DEF Stream, Shows, Posts, Unread
<1>10. CASE MakeTracer \/ DestroyTracer \/ RestartProcess \/ UNCHANGED vars
  <2>1. /\ UNCHANGED <<pty_fd, printed, pipe, reader, queue, output>>
        /\ closed \subseteq closed'
    BY <1>10 DEF MakeTracer, DestroyTracer, RestartProcess, Fork, vars
  <2> QED
    BY <1>1, <2>1, StreamKeeps DEF Unread
<1> QED
  BY <1>2, <1>3, <1>4, <1>5, <1>6, <1>7, <1>8, <1>9, <1>10 DEF Next, Worker, Panel

-----------------------------------------------------------------------------
(* The theorems.                                                           *)

LEMMA AlwaysStream == Spec => [](TypeInv /\ ThreadInv /\ FreshInv /\ StreamInv)
<1>1. Init => TypeInv /\ ThreadInv /\ FreshInv /\ StreamInv
  BY TypeInit
<1>2. TypeInv /\ ThreadInv /\ FreshInv /\ StreamInv /\ [Next]_vars
        => (TypeInv /\ ThreadInv /\ FreshInv /\ StreamInv)'
  BY TypeStep, ThreadStep, FreshStep, StreamStep
<1> QED
  BY <1>1, <1>2, PTL DEF Spec

\* Of every process the widget shows, every character printed is on the display, in the
\* event queue, held by the reader or in the pty, once and in order, whatever the buffer
\* size and however the reader, the event loop and the changes of pty interleave.
THEOREM NothingLostCorrect == Spec => []NothingLost
<1>1. TypeInv /\ StreamInv => NothingLost
  BY StreamIsWhole
<1> QED
  BY <1>1, AlwaysStream, PTL

\* No thread but the one made for the widget's present descriptor may still read.
THEOREM OneReaderCorrect == Spec => []OneReader
<1>1. ThreadInv => OneReader
  BY DEF ThreadInv, OneReader
<1> QED
  BY <1>1, AlwaysStream, PTL

-----------------------------------------------------------------------------
(* The refinement of Terminal.                                             *)

\* A set of numbers has a smallest element.
LEMMA Smallest ==
  ASSUME NEW T, T \subseteq Nat, T # {}
  PROVE  \E x \in T : \A y \in T : x <= y
<1>1. PICK x \in T : \A y \in T : ~(<<y, x>> \in OpToRel(<, Nat))
  BY NatLessThanWellFounded, WFMin, Zenon
<1>2. \A y \in T : ~(y < x)
  BY <1>1 DEF OpToRel
<1>3. \A y \in T : x <= y
  BY <1>2
<1> QED
  BY <1>3

\* Numbering the elements of a set without a gap counts them.
LEMMA Numbered ==
  ASSUME NEW S, NEW n \in Nat, NEW f \in [S -> 1 .. n],
         \A x \in S, y \in S : f[x] = f[y] => x = y, \A i \in 1 .. n : \E x \in S : f[x] = i
  PROVE  Cardinality(S) = n
<1> DEFINE g == [i \in 1 .. n |-> CHOOSE x \in S : f[x] = i]
<1>1. \A i \in 1 .. n : g[i] \in S /\ f[g[i]] = i
  OBVIOUS
<1>2. g \in [1 .. n -> S]
  BY <1>1
<1>3. \A x \in S : g[f[x]] = x
  BY <1>1
<1> HIDE DEF g
<1>4. g \in Bijection(1 .. n, S)
  <2>1. \A i \in 1 .. n, j \in 1 .. n : g[i] = g[j] => i = j
    BY <1>1
  <2>2. \A x \in S : \E i \in 1 .. n : g[i] = x
    BY <1>3
  <2> QED
    BY <1>2, <2>1, <2>2 DEF Bijection, Injection, Surjection, IsInjective
<1>5. IsFiniteSet(1 .. n) /\ Cardinality(1 .. n) = n
  BY FS_Interval
<1> QED
  BY <1>4, <1>5, FS_Bijection DEF ExistsBijection

\* The places of process p among the first i of the display.
Places(p, i) == {k \in 1 .. i : output[k].from = p}

\* The first characters a process printed are on the display, and no other.
LEMMA ShowsFirst ==
  ASSUME TypeInv, NEW p \in Runs, Stream(p)
  PROVE  \E n \in Nat : n <= printed[p] /\ Shows(p, Len(output)) = 1 .. n
<1> DEFINE N == Len(output)
<1>1. /\ N \in Nat /\ Len(queue) \in Nat
      /\ \A k \in 1 .. N : output[k].n \in Nat
  BY Elements
<1>2. PICK m \in Nat : Posts(p, Len(queue)) = 1 .. m /\ m <= printed[p]
  <2>1. PICK m \in Nat : Follow(m, Posts(p, Len(queue)), Unread(p)) /\ m + Len(Unread(p)) = printed[p]
    BY DEF Stream
  <2>2. Len(Unread(p)) \in Nat
    BY UnreadTypes, LenProperties
  <2>3. m <= printed[p]
    BY <2>1, <2>2
  <2> QED
    BY <2>1, <2>3 DEF Follow
<1>3. Shows(p, N) \subseteq 1 .. m
  BY <1>2 DEF Posts
<1>4. ASSUME NEW k \in Places(p, N)
      PROVE  /\ k \in 1 .. N /\ output[k].n \in Nat \ {0} /\ output[k].n \in Shows(p, N)
             /\ \A x \in 1 .. output[k].n - 1 : x \in Shows(p, N)
  <2>1. k \in 1 .. N /\ output[k].from = p
    BY <1>4 DEF Places
  <2>2. output[k].n # 0 /\ Shows(p, k - 1) = 1 .. output[k].n - 1
    BY <2>1 DEF Stream
  <2>3. Shows(p, k - 1) \subseteq Shows(p, N)
    BY <1>1, <2>1 DEF Shows
  <2> QED
    BY <1>1, <2>1, <2>2, <2>3 DEF Shows
<1>5. \A x \in Shows(p, N) : \E k \in Places(p, N) : output[k].n = x
  BY DEF Shows, Places
<1> DEFINE missing == {x \in Nat : x >= 1 /\ x \notin Shows(p, N)}
<1>6. PICK x \in missing : \A y \in missing : x <= y
  <2>1. m + 1 \in missing
    BY <1>2, <1>3
  <2> QED
    BY <2>1, Smallest
<1>7. x - 1 \in Nat /\ \A y \in 1 .. x - 1 : y \in Shows(p, N)
  BY <1>6
<1>8. \A y \in Shows(p, N) : y \in 1 .. x - 1
  <2> SUFFICES ASSUME NEW y \in Shows(p, N), y \notin 1 .. x - 1 PROVE FALSE
    OBVIOUS
  <2>1. PICK k \in Places(p, N) : output[k].n = y
    BY <1>5
  <2>2. y \in Nat /\ y >= 1 /\ y >= x
    BY <1>3, <1>6
  <2>3. y # x
    BY <1>6
  <2>4. x \in 1 .. y - 1
    BY <1>6, <2>2, <2>3
  <2>5. x \in Shows(p, N)
    BY <1>4, <2>1, <2>4
  <2> QED
    BY <1>6, <2>5
<1>9. x - 1 <= printed[p]
  <2>1. \A y \in 1 .. x - 1 : y \in 1 .. m
    BY <1>3, <1>7
  <2>2. x - 1 <= m
    BY <1>7, <2>1
  <2>3. printed[p] \in Nat
    BY DEF TypeInv
  <2> QED
    BY <1>2, <1>7, <2>2, <2>3
<1> QED
  BY <1>7, <1>8, <1>9

\* They are in order: what is shown of a process is its first characters.
LEMMA ShownFirst ==
  ASSUME TypeInv, NEW p \in Runs, Stream(p), NEW n \in Nat, Shows(p, Len(output)) = 1 .. n
  PROVE  Shown(p) = [i \in 1 .. n |-> i]
<1> DEFINE N   == Len(output)
           own == Places(p, N)
           upto(k) == {j \in own : j <= k}
<1>1. /\ N \in Nat /\ DOMAIN output = 1 .. N
      /\ \A k \in 1 .. N : output[k].n \in Nat
  BY Elements
<1>2. own = {k \in DOMAIN output : output[k].from = p}
  BY <1>1 DEF Places
<1>3. \A k \in own : k \in 1 .. N /\ output[k].from = p
  BY DEF Places
<1>4. \A x \in 1 .. n : \E k \in own : output[k].n = x
  BY DEF Shows, Places
<1>5. \A k \in own : output[k].n \in 1 .. n
  BY <1>3 DEF Shows, Places
<1>6. ASSUME NEW k \in own
      PROVE  /\ \A j \in own : j < k => output[j].n < output[k].n
             /\ \A x \in 1 .. output[k].n - 1 : \E j \in own : j < k /\ output[j].n = x
  <2>1. Shows(p, k - 1) = 1 .. output[k].n - 1
    BY <1>3 DEF Stream
  <2>2. ASSUME NEW j \in own, j < k PROVE output[j].n < output[k].n
    <3>1. j \in 1 .. k - 1 /\ output[j].from = p
      BY <1>3, <2>2
    <3>2. output[j].n \in Shows(p, k - 1)
      BY <3>1 DEF Shows
    <3>3. output[k].n \in Nat /\ output[j].n \in Nat
      BY <1>1, <1>3
    <3> QED
      BY <2>1, <3>2, <3>3
  <2>3. ASSUME NEW x \in 1 .. output[k].n - 1 PROVE \E j \in own : j < k /\ output[j].n = x
    <3>1. PICK j \in 1 .. k - 1 : output[j].from = p /\ output[j].n = x
      BY <2>1, <2>3 DEF Shows
    <3>2. j \in 1 .. N /\ j < k
      BY <1>1, <1>3, <3>1
    <3> QED
      BY <3>1, <3>2 DEF Places
  <2> QED
    BY <2>2, <2>3
<1> HIDE DEF N, own
<1> DEFINE f == [k \in own |-> output[k].n]
<1>7. /\ \A j \in own, k \in own : output[j].n = output[k].n => j = k
      /\ \A j \in own, k \in own : output[j].n <= output[k].n => j <= k
  <2>1. ASSUME NEW j \in own, NEW k \in own PROVE k < j => output[k].n < output[j].n
    BY <1>6
  <2>2. \A k \in own : output[k].n \in Nat /\ k \in Nat
    BY <1>1, <1>3
  <2> QED
    BY <2>1, <2>2
<1>8. Cardinality(own) = n
  <2>1. f \in [own -> 1 .. n]
    BY <1>5
  <2>2. \A x \in own, y \in own : f[x] = f[y] => x = y
    BY <1>7
  <2>3. \A i \in 1 .. n : \E x \in own : f[x] = i
    BY <1>4
  <2> HIDE DEF f
  <2> QED
    BY <2>1, <2>2, <2>3, Numbered
<1>9. ASSUME NEW k \in own PROVE Cardinality(upto(k)) = output[k].n
  <2> DEFINE m == output[k].n
             g == [j \in upto(k) |-> output[j].n]
  <2>1. m \in 1 .. n /\ m \in Nat
    BY <1>5
  <2>2. g \in [upto(k) -> 1 .. m]
    <3> SUFFICES ASSUME NEW j \in own, j <= k PROVE output[j].n \in 1 .. m
      OBVIOUS
    <3>1. j = k \/ j < k
      BY <1>3
    <3>2. j < k => output[j].n < m
      BY <1>6
    <3>3. output[j].n \in 1 .. n
      BY <1>5
    <3> QED
      BY <2>1, <3>1, <3>2, <3>3
  <2>3. \A x \in upto(k), y \in upto(k) : g[x] = g[y] => x = y
    BY <1>7
  <2>4. ASSUME NEW i \in 1 .. m PROVE \E x \in upto(k) : g[x] = i
    <3>1. PICK x \in own : output[x].n = i
      <4>1. i \in 1 .. n
        BY <2>1
      <4> QED
        BY <1>4, <4>1
    <3>2. i <= m
      BY <2>1
    <3>3. x <= k
      BY <1>7, <3>1, <3>2
    <3> QED
      BY <3>1, <3>3
  <2> HIDE DEF g, m
  <2>5. Cardinality(upto(k)) = m
    BY <2>1, <2>2, <2>3, <2>4, Numbered
  <2> QED
    BY <2>5 DEF m
<1> DEFINE at(i) == CHOOSE k \in own : Cardinality(upto(k)) = i
<1>10. \A i \in 1 .. n : output[at(i)].n = i
  <2> SUFFICES ASSUME NEW i \in 1 .. n PROVE output[at(i)].n = i
    OBVIOUS
  <2>1. \E k \in own : Cardinality(upto(k)) = i
    BY <1>4, <1>9
  <2>2. at(i) \in own /\ Cardinality(upto(at(i))) = i
    BY <2>1
  <2> QED
    BY <1>9, <2>2
<1>11. Shown(p) = [i \in 1 .. Cardinality(own) |-> output[at(i)].n]
  BY <1>2 DEF Shown
<1> HIDE DEF at
<1> QED
  BY <1>8, <1>10, <1>11

\* The display shows the first characters of process p, in order.
ShowsStart(p) ==
  \E n \in Nat : /\ n <= printed[p] /\ Shows(p, Len(output)) = 1 .. n
                 /\ Shown(p) = [i \in 1 .. n |-> i]

ShownInv == pty_fd \notin {NoFd} \cup closed => ShowsStart(pty_fd)

LEMMA StreamIsShown == TypeInv /\ StreamInv => ShownInv
<1> SUFFICES ASSUME TypeInv, NEW p \in Runs, p = pty_fd, Stream(p) PROVE ShowsStart(p)
  BY DEF TypeInv, StreamInv, ShownInv
<1>1. PICK n \in Nat : n <= printed[p] /\ Shows(p, Len(output)) = 1 .. n
  BY ShowsFirst
<1>2. Shown(p) = [i \in 1 .. n |-> i]
  BY <1>1, ShownFirst
<1> QED
  BY <1>1, <1>2 DEF ShowsStart

\* What a step does to the connection, to what was printed and to the display.
LEMMA StepKinds ==
  ASSUME TypeInv, FreshInv, [Next]_vars
  PROVE  \/ /\ pty_fd' = pty_fd /\ closed' = closed /\ output' = output /\ run \in Runs
            /\ printed' = [printed EXCEPT ![run] = @ + 1]
         \/ /\ pty_fd' = pty_fd /\ closed \subseteq closed' /\ printed' = printed
            /\ Len(output) <= Len(output')
            /\ \A k \in 1 .. Len(output) : output'[k] = output[k]
         \/ pty_fd' = NoFd
         \/ /\ pty_fd' \in Runs /\ pty_fd' # pty_fd /\ printed' = printed /\ output' = <<>>
<1>1. output \in Seq(Glyphs) /\ Len(output) \in Nat
  BY LenProperties DEF TypeInv
<1>2. CASE PutChar
  <2>1. run \in Runs
    BY <1>2 DEF PutChar, TypeInv, Runs
  <2> QED
    BY <1>2, <2>1 DEF PutChar
<1>3. CASE appendOutput
  <2> DEFINE call == Head(queue)
  <2>1. queue # <<>> /\ output' = output \o Adds(call)
        /\ UNCHANGED <<pty_fd, closed, printed>>
    BY <1>3 DEF appendOutput, Adds, process
  <2>2. call \in Calls
    BY <2>1, HeadTailProperties DEF TypeInv
  <2> HIDE DEF call
  <2>3. call.text \in Seq(Nat) /\ call.from \in Runs
    BY <2>2 DEF Calls
  <2>4. Adds(call) \in Seq(Glyphs)
    <3>1. DOMAIN call.text = 1 .. Len(call.text) /\ Len(call.text) \in Nat
          /\ \A k \in 1 .. Len(call.text) : call.text[k] \in Nat
      BY <2>3, LenProperties
    <3>2. Adds(call) \in [1 .. Len(call.text) -> Glyphs]
      BY <2>3, <3>1 DEF Adds, Glyphs
    <3> QED
      BY <3>1, <3>2
  <2> DEFINE new == Adds(call)
  <2> HIDE DEF new
  <2>5. Len(output \o new) = Len(output) + Len(new) /\ Len(new) \in Nat
        /\ \A k \in 1 .. Len(output) : (output \o new)[k] = output[k]
    <3>1. new \in Seq(Glyphs)
      BY <2>4 DEF new
    <3> QED
      BY <1>1, <3>1, ConcatProperties, LenProperties
  <2>6. output' = output \o new
    BY <2>1 DEF new
  <2>7. Len(output) <= Len(output')
    BY <1>1, <2>5, <2>6
  <2> QED
    BY <2>1, <2>5, <2>6, <2>7
<1>4. ASSUME NEW line \in Lines, sendInput(line)
      PROVE  /\ UNCHANGED <<pty_fd, closed, printed>> /\ Len(output) <= Len(output')
             /\ \A k \in 1 .. Len(output) : output'[k] = output[k]
  <2>1. output' = Append(output, [from |-> User, n |-> Len(sent')])
        /\ UNCHANGED <<pty_fd, closed, printed>>
    BY <1>4 DEF sendInput, process
  <2> DEFINE c == [from |-> User, n |-> Len(sent')]
  <2> HIDE DEF c
  <2>2. output' = Append(output, c)
    BY <2>1 DEF c
  <2>3. Len(output') = Len(output) + 1 /\ \A k \in 1 .. Len(output) : output'[k] = output[k]
    BY <1>1, <2>2
  <2> QED
    BY <1>1, <2>1, <2>3
<1>5. CASE RestartBegins \/ executionEnded \/ AbortExecution
  BY <1>5 DEF RestartBegins, executionEnded, AbortExecution, reassignTo
<1>6. CASE executionStarted
  <2>1. reassignTo(run) /\ run \in Runs /\ gpc = "started"
    BY <1>6 DEF executionStarted, FreshInv
  <2>2. Fresh(run) /\ run # NoFd
    BY <2>1 DEF Fresh, Runs, NoFd
  <2>3. run # pty_fd
    BY <2>1, <2>2 DEF FreshInv
  <2> QED
    BY <2>1, <2>2, <2>3 DEF reassignTo
<1>7. CASE UNCHANGED <<pty_fd, printed, output>> /\ closed \subseteq closed'
  BY <1>1, <1>7
<1> QED
  BY <1>2, <1>3, <1>4, <1>5, <1>6, <1>7
  DEF Next, Worker, Panel, Read, Post, ReadFails, MakeTracer, DestroyTracer, RestartProcess,
    Fork, process, vars

\* Every step of the widget is one of a terminal, or none: what the reader and the event
\* loop do in between is not seen.
LEMMA StepIsTerminal ==
  TypeInv /\ FreshInv /\ ShownInv /\ TypeInv' /\ ShownInv' /\ [Next]_vars
    => [Tab!Next]_(Tab!vars)
<1> SUFFICES ASSUME TypeInv, FreshInv, ShownInv, TypeInv', ShownInv', [Next]_vars
             PROVE  [Tab!Next]_(Tab!vars)
  OBVIOUS
<1>0. NoFd \notin Runs /\ printed \in [Runs -> Nat] /\ printed' \in [Runs -> Nat]
  BY DEF NoFd, Runs, TypeInv
<1>1. CASE Connected' = NoFd
  BY <1>1 DEF Tab!Next, Tab!Disconnect
<1>2. ASSUME NEW p \in Runs, Connected' = p, Connected # p PROVE [Tab!Next]_(Tab!vars)
  <2>1. pty_fd' = p /\ p \notin closed'
    BY <1>0, <1>2 DEF Connected
  <2>2. p # pty_fd \/ p \in closed
    BY <1>2 DEF Connected
  <2>3. output' = <<>>
    BY <1>0, <2>1, <2>2, StepKinds
  <2>4. Shown(p)' = <<>>
    <3>1. Shows(p, Len(output))' = {}
      <4>1. Len(output') = 0
        BY <2>3
      <4> QED
        BY <4>1 DEF Shows
    <3>2. PICK n \in Nat : Shows(p, Len(output))' = 1 .. n /\ Shown(p)' = [k \in 1 .. n |-> k]
      <4>1. ShowsStart(pty_fd)'
        BY <1>0, <2>1 DEF ShownInv
      <4>2. Shown(pty_fd)' = Shown(p)'
        BY <2>1 DEF Shown
      <4>3. Shows(pty_fd, Len(output))' = Shows(p, Len(output))'
        BY <2>1 DEF Shows
      <4> QED
        BY <4>1, <4>2, <4>3 DEF ShowsStart
    <3>3. n = 0
      BY <3>1, <3>2
    <3> QED
      BY <3>2, <3>3
  <2>5. Tab!Connect(p)
    <3>1. printed'[p] \in Nat
      BY <1>0
    <3>2. Shown(Connected)' = <<>>
      BY <1>2, <2>4 DEF Shown
    <3> QED
      BY <1>0, <1>2, <3>1, <3>2 DEF Tab!Connect
  <2> QED
    BY <2>5 DEF Tab!Next
<1>3. ASSUME NEW p \in Runs, Connected' = p, Connected = p PROVE [Tab!Next]_(Tab!vars)
  <2>1. pty_fd = p /\ p \notin closed /\ pty_fd' = p /\ p \notin closed'
    BY <1>0, <1>3 DEF Connected
  <2>4. PICK n \in Nat : /\ n <= printed[p] /\ Shows(p, Len(output)) = 1 .. n
                         /\ Shown(p) = [i \in 1 .. n |-> i]
    BY <1>0, <2>1 DEF ShownInv, ShowsStart
  <2>5. PICK m \in Nat : /\ m <= printed'[p] /\ Shows(p, Len(output))' = 1 .. m
                         /\ Shown(p)' = [i \in 1 .. m |-> i]
    <3>1. ShowsStart(pty_fd)'
      BY <1>0, <2>1 DEF ShownInv
    <3>2. Shown(pty_fd)' = Shown(p)'
      BY <2>1 DEF Shown
    <3>3. Shows(pty_fd, Len(output))' = Shows(p, Len(output))'
      BY <2>1 DEF Shows
    <3> QED
      BY <2>1, <3>1, <3>2, <3>3 DEF ShowsStart
  <2>7. Shown(Connected) = Shown(p) /\ Shown(Connected)' = Shown(p)'
    BY <1>3 DEF Shown
  <2>8. CASE output' = output
    <3>1. Shown(p)' = Shown(p)
      BY <2>8 DEF Shown
    <3>2. printed'[p] = printed[p] => UNCHANGED Tab!vars
      BY <1>0, <1>3, <2>7, <3>1 DEF Tab!vars
    <3>3. printed'[p] = printed[p] + 1 => Tab!PutChar
      BY <1>0, <1>3, <2>7, <3>1 DEF Tab!PutChar
    <3>4. printed'[p] \in {printed[p], printed[p] + 1}
      BY <1>0, <2>1, <2>8, StepKinds
    <3> QED
      BY <3>2, <3>3, <3>4 DEF Tab!Next
  <2>9. CASE /\ printed' = printed /\ Len(output) <= Len(output')
             /\ \A k \in 1 .. Len(output) : output'[k] = output[k]
    <3>1. Len(output) \in Nat /\ Len(output') \in Nat
      BY LenProperties DEF TypeInv
    <3>2. n <= m
      <4>1. Shows(p, Len(output)) \subseteq Shows(p, Len(output))'
        BY <2>9, <3>1 DEF Shows
      <4>2. \A x \in 1 .. n : x \in 1 .. m
        BY <2>4, <2>5, <4>1
      <4> QED
        BY <4>2
    <3>3. CASE n = m
      BY <1>0, <1>3, <2>4, <2>5, <2>7, <2>9, <3>3 DEF Tab!vars
    <3>4. CASE n < m
      <4>1. Len(Shown(p)) = n /\ m \in n + 1 .. printed[p] /\ n < printed[p]
        <5>1. Len([i \in 1 .. n |-> i]) = n
          OBVIOUS
        <5>2. printed[p] \in Nat
          BY <1>0
        <5> QED
          BY <2>4, <2>5, <2>9, <3>4, <5>1, <5>2
      <4>2. Tab!Show
        BY <1>0, <1>3, <2>4, <2>5, <2>7, <2>9, <4>1 DEF Tab!Show, Tab!Unshown
      <4> QED
        BY <4>2 DEF Tab!Next
    <3> QED
      BY <3>2, <3>3, <3>4
  <2> QED
    BY <1>0, <2>1, <2>8, <2>9, StepKinds
<1>4. Connected' \in {NoFd} \cup Runs
  BY DEF Connected, TypeInv
<1> QED
  BY <1>1, <1>2, <1>3, <1>4

\* The widget never does what a terminal may not: through every restart, abort and end of
\* an execution, with any buffer, what is shown of the process it is connected to are the
\* first characters that process printed, and the display begins clean with each process.
\* That all of them are shown in the end is the fairness of Terminal, and left to TLC.
THEOREM TerminalCorrect == Spec => Tab!Safety
<1>1. Init => Tab!Init
  BY DEF Init, Connected, NoFd, Tab!Init
<1> QED
  BY <1>1, StepIsTerminal, StreamIsShown, AlwaysStream, PTL DEF Spec, Tab!Safety

=============================================================================
