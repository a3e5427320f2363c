------------------------- MODULE PanelViews_proofs -------------------------
(***************************************************************************)
(* Theorems about PanelViews, for every program, symbol table and stack.   *)
(***************************************************************************)
EXTENDS PanelViews, SymbolTable_proofs, FiniteSetTheorems

Halts   == Stacks \cup {Entry}         \* where the tracee may be stopped
Reports == {"kStopped", "kRunning", "kKilled", "kExited"}
Stops   == [state : {"none", "raised", "posted", "ignored"}, as : Reports \cup {"none"}]

\* The tracee, its status and the last stop.  A stop that was delivered, or is about to be,
\* left the status at which the views can read it.
TraceeInv ==
  /\ tracer \in BOOLEAN /\ worker \in BOOLEAN /\ turn \in 0 .. 5
  /\ tstate \in {"running", "stopped", "dead"} /\ stack \in Halts \cup {NoStack}
  /\ (stack # NoStack) <=> (tstate = "stopped")
  /\ ~tracer => tstate = "dead"
  /\ tracer => status # "kUnknown"
  /\ status \in Reports \cup {"kUnknown", "kDead"}
StopInv ==
  /\ stop \in Stops
  /\ stop.state = "raised" => stop.as \in Reports
  /\ tstate = "stopped" /\ stop.state \in {"none", "posted"} => status \in Reports \ {"kRunning"}

\* A view is a record of its widgets, and a text one of what it shows.
Has(r, fields) == r = [x \in fields |-> r[x]]
IsText(text) == Has(text, {"file", "old"})
IsView(v) == Has(v, {"path", "text", "label", "line", "of", "status"}) /\ IsText(v.text)
IsRows(r) == Has(r, {"frames", "truncated", "of"})

ShapeInv == IsView(obj) /\ IsView(src) /\ IsRows(rows)

\* The k-th view was told of the last stop: it had its turn in this round, or the round is
\* over.
Told(k) == turn = 0 \/ turn > k

\* As long as nothing has happened since, what a view that was told shows is of the stop the
\* tracee is in.
AgreeInv ==
  stop = NoStop /\ tracer /\ tstate # "running" =>
    /\ Told(1) => (src.line # NoLine => src.of = stack /\ tstate = "stopped")
    /\ Told(2) => (obj.line # NoLine => obj.of = stack /\ tstate = "stopped")
    /\ Told(3) => (rows.frames # <<>> => rows.of = stack /\ tstate = "stopped")
    /\ Told(4) => (src.line # NoLine \/ obj.line # NoLine \/ rows.frames # <<>>
                     => registers = stack)
    /\ Told(5) => (rows.frames # <<>> => libraries)

-----------------------------------------------------------------------------
(* What the views do.                                                      *)

\* Only of a stack is there a trace, and it has at most one frame more than are kept.
LEMMA TraceShape ==
  ASSUME NEW st, NEW trace \in getStackTrace(st)
  PROVE  /\ DOMAIN trace.frames = 1 .. Cut(st).size
         /\ trace.is_truncated = Cut(st).is_truncated
         /\ \E offset : \A i \in 1 .. Cut(st).size :
              offset[i] \in Offsets(st[i]) /\ trace.frames[i] = FrameAt(st[i], offset[i])
<1>1. PICK offset :
        /\ trace = [frames       |-> [i \in 1 .. Cut(st).size |-> FrameAt(st[i], offset[i])],
                    is_truncated |-> Cut(st).is_truncated]
        /\ \A i \in 1 .. Cut(st).size : offset[i] \in Offsets(st[i])
  BY DEF getStackTrace
<1>2. /\ trace.frames = [i \in 1 .. Cut(st).size |-> FrameAt(st[i], offset[i])]
      /\ trace.is_truncated = Cut(st).is_truncated
  BY <1>1
<1>3. \A i \in 1 .. Cut(st).size : trace.frames[i] = FrameAt(st[i], offset[i])
  BY <1>2
<1>4. DOMAIN trace.frames = 1 .. Cut(st).size
  BY <1>2
<1> QED
  BY <1>1, <1>2, <1>3, <1>4

LEMMA TraceLength ==
  ASSUME NEW st, NEW trace \in getStackTrace(st), Cut(st).size \in Nat
  PROVE  Len(trace.frames) = Cut(st).size
<1>1. PICK offset :
        trace = [frames       |-> [i \in 1 .. Cut(st).size |-> FrameAt(st[i], offset[i])],
                 is_truncated |-> Cut(st).is_truncated]
  BY DEF getStackTrace
<1> DEFINE n == Cut(st).size
           F(i) == FrameAt(st[i], offset[i])
<1>2. trace.frames = [i \in 1 .. n |-> F(i)]
  BY <1>1
<1> HIDE DEF n, F
<1>3. n \in Nat
  BY DEF n
<1>4. Len(trace.frames) = n
  BY <1>2, <1>3
<1> QED
  BY <1>4 DEF n

LEMMA NoStackNoTrace ==
  ASSUME NEW trace \in getStackTrace(NoStack)
  PROVE  trace.frames = <<>>
<1>1. Cut(NoStack).size = 0
  BY StackAssumption DEF Cut, NoStack
<1>2. DOMAIN trace.frames = {}
  BY <1>1, TraceShape
<1>3. \E offset : trace.frames = [i \in 1 .. 0 |-> FrameAt(NoStack[i], offset[i])]
  BY <1>1 DEF getStackTrace
<1> QED
  BY <1>3

\* What every operation leaves of a view v: a view, of the stop it is asked to show or of none.
LEMMA ViewShapes ==
  ASSUME NEW v, IsView(v), NEW f, NEW a
  PROVE  /\ IsView(Disassembly(v, f, a)) /\ Disassembly(v, f, a).of = v.of
         /\ IsView(Source(v, f, a)) /\ Source(v, f, a).of = v.of
         /\ IsView(NoSymbolFound(v)) /\ NoSymbolFound(v).line = NoLine
         /\ IsView(Unselect(v)) /\ Unselect(v).line = NoLine
         /\ IsView(Forget(v)) /\ Forget(v).line = NoLine
         /\ IsView(Aged(v)) /\ Aged(v).line = v.line
         /\ IsView(Clear(v)) /\ Clear(v).line = NoLine
<1>1. IsView(Disassembly(v, f, a)) /\ Disassembly(v, f, a).of = v.of
  BY DEF IsView, IsText, Has, Disassembly, Notice, Empty, Contents
<1>2. IsView(Source(v, f, a)) /\ Source(v, f, a).of = v.of
  BY DEF IsView, IsText, Has, Source, Notice, Contents
<1>3. IsView(NoSymbolFound(v)) /\ NoSymbolFound(v).line = NoLine
  BY DEF IsView, IsText, Has, NoSymbolFound, Empty
<1>4. IsView(Unselect(v)) /\ Unselect(v).line = NoLine /\ Unselect(v).text = v.text
  BY DEF IsView, IsText, Has, Unselect
<1>5. IsView(Forget(v)) /\ Forget(v).line = NoLine
  BY DEF IsView, IsText, Has, Forget
<1>6. IsView(Aged(v)) /\ Aged(v).line = v.line
  BY DEF IsView, IsText, Has, Aged
<1>7. IsView(Clear(v)) /\ Clear(v).line = NoLine
  BY <1>4 DEF IsView, IsText, Has, Clear, Empty
<1> QED
  BY <1>1, <1>2, <1>3, <1>4, <1>5, <1>6, <1>7

\* A view that highlights a line after it was told of a stop highlights one of that stop.
LEMMA SourceTold ==
  ASSUME IsView(src), NEW st, NEW s, NEW trace
  PROVE  LET v == RefreshSource(st, s, trace)
         IN IsView(v) /\ (v.line # NoLine => v.of = st /\ trace.frames # <<>>)
<1>1. CASE trace.frames = <<>>
  BY <1>1, ViewShapes DEF RefreshSource
<1>2. CASE trace.frames # <<>>
  <2> DEFINE view == [src EXCEPT !.of = st, !.status = s]
             i == SelectInSeq(trace.frames, LAMBDA frame : LineOfFrame(frame, s) # Unknown)
  <2>1. IsView(view) /\ view.of = st
    BY DEF IsView, IsText, Has
  <2>2. IsView([view EXCEPT !.path = NoFile, !.line = NoLine])
        /\ [view EXCEPT !.path = NoFile, !.line = NoLine].line = NoLine
    BY <2>1 DEF IsView, IsText, Has
  <2> HIDE DEF i, view
  <2>3. CASE i = 0
    <3>1. RefreshSource(st, s, trace) = [view EXCEPT !.path = NoFile, !.line = NoLine]
      BY <1>2, <2>3 DEF RefreshSource, i, view
    <3> QED
      BY <2>2, <3>1
  <2>4. CASE i # 0
    <3> DEFINE where == LineOfFrame(trace.frames[i], s)
    <3>1. RefreshSource(st, s, trace) = Source(view, where.file, where.line - 1)
      BY <1>2, <2>4 DEF RefreshSource, i, view
    <3> HIDE DEF where
    <3> QED
      BY <1>2, <2>1, <3>1, ViewShapes
  <2> QED
    BY <2>3, <2>4
<1> QED
  BY <1>1, <1>2

LEMMA ObjdumpTold ==
  ASSUME IsView(obj), NEW st, NEW trace
  PROVE  LET v == RefreshObjdump(st, trace)
         IN IsView(v) /\ (v.line # NoLine => v.of = st /\ trace.frames # <<>>)
<1>1. CASE trace.frames = <<>>
  BY <1>1, ViewShapes DEF RefreshObjdump
<1>2. CASE trace.frames # <<>>
  <2> DEFINE view == [obj EXCEPT !.of = st]
             found == findInTable(symtab, Head(trace.frames).address)
  <2>1. IsView(view) /\ view.of = st
    BY DEF IsView, IsText, Has
  <2> HIDE DEF view, found
  <2>2. CASE found.symbol = NoSymbol
    <3>1. RefreshObjdump(st, trace) = NoSymbolFound(view)
      BY <1>2, <2>2 DEF RefreshObjdump, found, view
    <3> QED
      BY <2>1, <3>1, ViewShapes
  <2>3. CASE found.symbol # NoSymbol
    <3> DEFINE a == InObject(Head(trace.frames), found.table)
    <3>1. RefreshObjdump(st, trace) = Disassembly(view, found.table.object, a)
      BY <1>2, <2>3 DEF RefreshObjdump, found, view
    <3> HIDE DEF a
    <3> QED
      BY <1>2, <2>1, <3>1, ViewShapes
  <2> QED
    BY <2>2, <2>3
<1> QED
  BY <1>1, <1>2

\* Of a tracee that stands, and only of one, a view can get a trace.
LEMMA TraceOfStop ==
  ASSUME TraceeInv, NEW trace, trace \in Traces \/ trace \in ProbedTraces, trace.frames # <<>>
  PROVE  tstate = "stopped" /\ trace \in getStackTrace(stack)
<1>1. NoTrace.frames = <<>>
  BY DEF NoTrace
<1>2. trace \in Traces
  BY <1>1 DEF ProbedTraces
<1>3. CASE tstate = "stopped"
  BY <1>2, <1>3 DEF Traces
<1>4. CASE tstate # "stopped"
  BY <1>2, <1>4, NoStackNoTrace DEF Traces
<1> QED
  BY <1>3, <1>4

-----------------------------------------------------------------------------
(* The steps.                                                              *)

LEMMA StopFacts ==
  /\ NoStop \in Stops /\ NoStop.state = "none"
  /\ \A as \in Reports : Raised(as) \in Stops /\ Raised(as).state = "raised" /\ Raised(as).as = as
  /\ \A state \in {"ignored", "posted"} :
       LET s == [state |-> state, as |-> "none"] IN s \in Stops /\ s.state = state
  /\ \A s \in Stops : /\ [s EXCEPT !.state = "posted"] \in Stops
                      /\ [s EXCEPT !.state = "posted"].state = "posted"
  BY DEF NoStop, Raised, Stops

LEMMA ViewsInit == Init => TraceeInv /\ StopInv /\ ShapeInv /\ AgreeInv
<1> SUFFICES ASSUME Init PROVE TraceeInv /\ StopInv /\ ShapeInv /\ AgreeInv
  OBVIOUS
<1>1. IsView(NoView) /\ NoView.line = NoLine
  BY DEF IsView, IsText, Has, NoView, Empty
<1>2. IsRows(NoRows)
  BY DEF IsRows, Has, NoRows
<1>3. TraceeInv /\ StopInv
  <2>1. /\ tracer = FALSE /\ worker = FALSE /\ tstate = "dead" /\ stack = NoStack
        /\ status = "kUnknown" /\ stop = NoStop /\ turn = 0
    BY DEF Init
  <2>2. StopInv
    BY <2>1, StopFacts DEF StopInv
  <2>3. TraceeInv
    <3>1. /\ turn \in 0 .. 5 /\ stack \in Halts \cup {NoStack}
          /\ (stack # NoStack) <=> (tstate = "stopped")
          /\ tstate \in {"running", "stopped", "dead"} /\ status \in Reports \cup {"kUnknown", "kDead"}
      BY <2>1
    <3>2. tracer \in BOOLEAN /\ worker \in BOOLEAN
      BY <2>1, Zenon
    <3>3. ~tracer /\ tstate = "dead"
      BY <2>1, Zenon
    <3> QED
      BY <3>1, <3>2, <3>3 DEF TraceeInv
  <2> QED
    BY <2>2, <2>3
<1> QED
  BY <1>1, <1>2, <1>3 DEF Init, CodeInit, InformationInit, ShapeInv, AgreeInv

LEMMA TraceeStep == TraceeInv /\ StopInv /\ [Next]_vars => TraceeInv'
<1> SUFFICES ASSUME TraceeInv, StopInv, [Next]_vars PROVE TraceeInv'
  OBVIOUS
<1>0. NoStack \notin Halts /\ Len(Views) = 5
  BY PanelAssumption DEF Halts, NoStack, Views
<1>1. ASSUME NEW where \in Stacks, StopAt(where) PROVE TraceeInv'
  BY <1>0, <1>1 DEF StopAt, TraceeInv, Halts
<1>2. CASE Exit
  BY <1>0, <1>2 DEF Exit, TraceeInv
<1>3. CASE Record
  <2>1. stop.as \in Reports /\ status' = stop.as
    BY <1>3 DEF Record, StopInv
  <2> QED
    BY <1>3, <2>1 DEF Record, TraceeInv, Reports
<1>4. CASE ResumeTracee
  BY <1>0, <1>4 DEF ResumeTracee, Continue, TraceeInv
<1>5. CASE resetBreakpoint
  BY <1>0, <1>5 DEF resetBreakpoint, TraceeInv, Halts
<1>6. CASE signalReceived
  BY <1>0, <1>6 DEF signalReceived, TraceeInv
<1>7. ASSUME NEW view, RefreshView(view) PROVE TraceeInv'
  <2>1. turn' \in 0 .. 5
    BY <1>0, <1>7 DEF RefreshView, TraceeInv
  <2> QED
    BY <1>7, <2>1 DEF RefreshView, traceeVars, TraceeInv
<1>8. CASE ToggleExecution
  <2>1. CASE status = "kStopped" /\ tstate = "stopped"
    BY <1>0, <1>8, <2>1 DEF ToggleExecution, Continue, TraceeInv, Reports
  <2>2. CASE status = "kStopped" /\ tstate # "stopped"
    BY <1>0, <1>8, <2>2 DEF ToggleExecution, TraceeInv
  <2>3. CASE status # "kStopped"
    BY <1>0, <1>8, <2>3 DEF ToggleExecution, TraceeInv, Reports
  <2> QED
    BY <2>1, <2>2, <2>3
<1>9. CASE Singlestep
  BY <1>0, <1>9 DEF Singlestep, Continue, TraceeInv
<1>10. CASE AbortExecution
  BY <1>0, <1>10 DEF AbortExecution, TraceeInv
<1>11. CASE Launch
  BY <1>0, <1>11 DEF Launch, TraceeInv, Halts, Reports
<1>12. CASE LaunchFails
  BY <1>0, <1>12 DEF LaunchFails, TraceeInv
<1>13. CASE UNCHANGED vars
  BY <1>13 DEF vars, traceeVars, TraceeInv
<1> QED
  BY <1>1, <1>2, <1>3, <1>4, <1>5, <1>6, <1>7, <1>8, <1>9, <1>10, <1>11, <1>12, <1>13
  DEF Next, Refresh, RefreshSourceView, RefreshObjdumpView, UpdateStackView, UpdateVariableView,
      UpdateLibraryView

LEMMA StopStep == TraceeInv /\ StopInv /\ [Next]_vars => StopInv'
<1> SUFFICES ASSUME TraceeInv, StopInv, [Next]_vars PROVE StopInv'
  OBVIOUS
<1>1. ASSUME NEW where \in Stacks, StopAt(where) PROVE StopInv'
  <2>1. PICK as \in Reports : stop' = Raised(as)
    BY <1>1 DEF StopAt, Reports
  <2> QED
    BY <2>1, StopFacts DEF StopInv
<1>2. CASE Exit
  BY StopFacts, <1>2 DEF Exit, StopInv, Reports
<1>3. CASE Record
  BY StopFacts, <1>3 DEF Record, StopInv, Reports
<1>4. CASE ResumeTracee
  BY StopFacts, <1>4 DEF ResumeTracee, Continue, StopInv
<1>5. CASE resetBreakpoint
  BY StopFacts, <1>5 DEF resetBreakpoint, StopInv
<1>6. CASE signalReceived
  BY StopFacts, <1>6 DEF signalReceived, StopInv
<1>7. ASSUME NEW view, RefreshView(view) PROVE StopInv'
  BY <1>7 DEF RefreshView, traceeVars, StopInv
<1>8. CASE ToggleExecution
  <2>1. CASE status = "kStopped" /\ tstate = "stopped"
    BY StopFacts, <1>8, <2>1 DEF ToggleExecution, Continue, Leave, StopInv
  <2>2. CASE status = "kStopped" /\ tstate # "stopped"
    BY <1>8, <2>2 DEF ToggleExecution, StopInv
  <2>3. CASE status # "kStopped"
    BY <1>8, <2>3 DEF ToggleExecution, StopInv, Reports
  <2> QED
    BY <2>1, <2>2, <2>3
<1>9. CASE Singlestep
  BY StopFacts, <1>9 DEF Singlestep, Continue, Leave, StopInv
<1>10. CASE AbortExecution
  BY StopFacts, <1>10 DEF AbortExecution, StopInv
<1>11. CASE Launch
  BY StopFacts, <1>11 DEF Launch, StopInv, Reports
<1>12. CASE LaunchFails
  BY StopFacts, <1>12 DEF LaunchFails, StopInv
<1>13. CASE UNCHANGED vars
  BY <1>13 DEF vars, traceeVars, StopInv
<1> QED
  BY <1>1, <1>2, <1>3, <1>4, <1>5, <1>6, <1>7, <1>8, <1>9, <1>10, <1>11, <1>12, <1>13
  DEF Next, Refresh, RefreshSourceView, RefreshObjdumpView, UpdateStackView, UpdateVariableView,
      UpdateLibraryView

\* When an execution ends and when one starts, nothing is highlighted.
LEMMA ViewsEnd ==
  ASSUME ShapeInv, (CodeEnded /\ InformationEnded) \/ (CodeStarted /\ InformationStarted)
  PROVE  ShapeInv' /\ obj'.line = NoLine /\ src'.line = NoLine /\ rows'.frames = <<>>
<1>1. IsView(obj) /\ IsView(src)
  BY DEF ShapeInv
<1>2. IsRows(rows') /\ rows'.frames = <<>>
  BY DEF InformationEnded, InformationStarted, NoRows, IsRows, Has
<1>3. CASE CodeEnded
  BY <1>1, <1>2, <1>3, ViewShapes DEF CodeEnded, ShapeInv
<1>4. CASE CodeStarted
  <2>1. IsView(obj') /\ obj'.line = NoLine
    BY <1>1, <1>4, ViewShapes DEF CodeStarted
  <2> DEFINE cleared == [Clear(src) EXCEPT !.path = NoFile]
  <2>2. IsView(cleared) /\ cleared.line = NoLine
    <3>1. IsView(Clear(src)) /\ Clear(src).line = NoLine
      BY <1>1, ViewShapes
    <3> QED
      BY <3>1 DEF IsView, IsText, Has
  <2>3. src' = Aged(cleared)
    BY <1>4 DEF CodeStarted
  <2> HIDE DEF cleared
  <2> QED
    BY <1>2, <2>1, <2>2, <2>3, ViewShapes DEF ShapeInv
<1> QED
  BY <1>3, <1>4

LEMMA ShapeStep == ShapeInv /\ [Next]_vars => ShapeInv'
<1> SUFFICES ASSUME ShapeInv, [Next]_vars PROVE ShapeInv'
  OBVIOUS
<1>1. CASE RefreshSourceView
  <2>1. PICK trace : src' = RefreshSource(stack, status, trace)
    BY <1>1 DEF RefreshSourceView
  <2>2. IsView(src')
    BY <2>1, SourceTold DEF ShapeInv
  <2> QED
    BY <1>1, <2>2 DEF RefreshSourceView, informationVars, ShapeInv
<1>2. CASE RefreshObjdumpView
  <2>1. PICK trace : obj' = RefreshObjdump(stack, trace)
    BY <1>2 DEF RefreshObjdumpView
  <2>2. IsView(obj')
    BY <2>1, ObjdumpTold DEF ShapeInv
  <2> QED
    BY <1>2, <2>2 DEF RefreshObjdumpView, informationVars, ShapeInv
<1>3. CASE UpdateStackView
  <2>1. IsRows(rows')
    BY <1>3 DEF UpdateStackView, ListStack, ShapeInv, IsRows, Has
  <2> QED
    BY <1>3, <2>1 DEF UpdateStackView, codeVars, ShapeInv
<1>4. CASE AbortExecution \/ LaunchFails \/ Launch
  BY <1>4, ViewsEnd DEF AbortExecution, LaunchFails, Launch
<1>5. CASE UNCHANGED <<codeVars, rows>>
  BY <1>5 DEF codeVars, ShapeInv
<1> QED
  BY <1>1, <1>2, <1>3, <1>4, <1>5
  DEF Next, StopAt, Exit, Record, ResumeTracee, resetBreakpoint, signalReceived, Refresh,
      UpdateVariableView, UpdateLibraryView, ToggleExecution, Singlestep, vars, informationVars

LEMMA AgreeStep ==
  TraceeInv /\ StopInv /\ ShapeInv /\ AgreeInv /\ [Next]_vars => AgreeInv'
<1> SUFFICES ASSUME TraceeInv, StopInv, ShapeInv, AgreeInv, [Next]_vars,
                    stop' = NoStop, tracer', tstate' # "running"
             PROVE  /\ Told(1)' => (src'.line # NoLine => src'.of = stack' /\ tstate' = "stopped")
                    /\ Told(2)' => (obj'.line # NoLine => obj'.of = stack' /\ tstate' = "stopped")
                    /\ Told(3)' => (rows'.frames # <<>> => rows'.of = stack' /\ tstate' = "stopped")
                    /\ Told(4)' => (src'.line # NoLine \/ obj'.line # NoLine \/ rows'.frames # <<>>
                                      => registers' = stack')
                    /\ Told(5)' => (rows'.frames # <<>> => libraries')
  BY DEF AgreeInv
\* A stop that is yet to be delivered is none.
<1>0. NoStop.state = "none"
  BY StopFacts
<1>1. ~(\E where \in Stacks : StopAt(where)) /\ ~Exit
  <2>1. \A as : Raised(as) # NoStop
    BY DEF Raised, NoStop
  <2> QED
    BY <2>1 DEF StopAt, Exit
<1>2. ~Record /\ ~ResumeTracee /\ ~resetBreakpoint
  <2>1. stop'.state = "none"
    BY <1>0
  <2>2. Record => stop'.state \in {"ignored", "posted"}
    BY DEF Record
  <2>3. ResumeTracee => stop'.state = "posted"
    BY DEF ResumeTracee, StopInv, Stops
  <2>4. resetBreakpoint => stop'.state = "posted"
    BY DEF resetBreakpoint
  <2> QED
    BY <2>1, <2>2, <2>3, <2>4
<1>3. CASE signalReceived
  <2>1. turn' = 1
    BY <1>3 DEF signalReceived
  <2> QED
    BY <2>1 DEF Told
\* The views are told of the stop the tracee is in.
<1>4. ASSUME NEW view, RefreshView(view)
      PROVE  /\ stop = NoStop /\ tracer /\ tstate # "running" /\ UNCHANGED <<stack, tstate>>
             /\ view = "source"    => turn = 1 /\ turn' = 2
             /\ view = "objdump"   => turn = 2 /\ turn' = 3
             /\ view = "stack"     => turn = 3 /\ turn' = 4
             /\ view = "registers" => turn = 4 /\ turn' = 5
             /\ view = "libraries" => turn = 5 /\ turn' = 0
  <2>1. stop = NoStop /\ tracer /\ tstate # "running" /\ UNCHANGED <<stack, tstate>>
    BY <1>4 DEF RefreshView, traceeVars
  <2>2. turn \in 1 .. 5 /\ turn' = (turn + 1) % 6 /\ Views[turn] = view
    BY <1>4 DEF RefreshView, TraceeInv, Views
  <2>3. turn \in {1, 2, 3, 4, 5}
    BY <2>2
  <2>4. /\ Views[1] = "source" /\ Views[2] = "objdump" /\ Views[3] = "stack"
        /\ Views[4] = "registers" /\ Views[5] = "libraries"
    BY DEF Views
  <2>5. 2 % 6 = 2 /\ 3 % 6 = 3 /\ 4 % 6 = 4 /\ 5 % 6 = 5 /\ 6 % 6 = 0
    OBVIOUS
  <2> QED
    BY <2>1, <2>2, <2>3, <2>4, <2>5
<1>5. CASE RefreshSourceView
  <2>1. turn = 1 /\ turn' = 2 /\ UNCHANGED <<stack, tstate>>
    BY <1>4, <1>5 DEF RefreshSourceView
  <2>2. PICK trace \in ProbedTraces : src' = RefreshSource(stack, status, trace)
    BY <1>5 DEF RefreshSourceView
  <2>3. src'.line # NoLine => src'.of = stack /\ tstate = "stopped"
    BY <2>2, SourceTold, TraceOfStop DEF ShapeInv
  <2> QED
    BY <2>1, <2>3 DEF Told
<1>6. CASE RefreshObjdumpView
  <2>1. /\ turn = 2 /\ turn' = 3 /\ UNCHANGED <<stack, tstate>>
        /\ stop = NoStop /\ tracer /\ tstate # "running"
    BY <1>4, <1>6 DEF RefreshObjdumpView
  <2>2. PICK trace \in ProbedTraces : obj' = RefreshObjdump(stack, trace)
    BY <1>6 DEF RefreshObjdumpView
  <2>3. obj'.line # NoLine => obj'.of = stack /\ tstate = "stopped"
    BY <2>2, ObjdumpTold, TraceOfStop DEF ShapeInv
  <2>4. src' = src
    BY <1>6 DEF RefreshObjdumpView
  <2> QED
    BY <2>1, <2>3, <2>4 DEF Told, AgreeInv
<1>7. CASE UpdateStackView
  <2>1. /\ turn = 3 /\ turn' = 4 /\ UNCHANGED <<stack, tstate>>
        /\ stop = NoStop /\ tracer /\ tstate # "running"
    BY <1>4, <1>7 DEF UpdateStackView
  <2>2. PICK trace \in Traces : rows' = ListStack(stack, trace)
    BY <1>7, <2>1 DEF UpdateStackView
  <2>3. rows'.frames # <<>> => rows'.of = stack /\ tstate = "stopped"
    BY <2>2, TraceOfStop DEF ListStack
  <2>4. src' = src /\ obj' = obj
    BY <1>7 DEF UpdateStackView, codeVars
  <2> QED
    BY <2>1, <2>3, <2>4 DEF Told, AgreeInv
<1>8. CASE UpdateVariableView
  <2>1. /\ turn = 4 /\ turn' = 5 /\ UNCHANGED <<stack, tstate>>
        /\ stop = NoStop /\ tracer /\ tstate # "running"
    BY <1>4, <1>8 DEF UpdateVariableView
  <2>2. tstate = "stopped" => isProbeable
    BY <1>0, <2>1 DEF isProbeable, StopInv, Reports
  <2>3. tstate = "stopped" => registers' = stack
    BY <1>8, <2>2 DEF UpdateVariableView, ReadRegisters
  <2>4. src' = src /\ obj' = obj /\ rows' = rows
    BY <1>8 DEF UpdateVariableView, codeVars
  <2> QED
    BY <2>1, <2>3, <2>4 DEF Told, AgreeInv
<1>9. CASE UpdateLibraryView
  <2>1. /\ turn = 5 /\ turn' = 0 /\ UNCHANGED <<stack, tstate>>
        /\ stop = NoStop /\ tracer /\ tstate # "running"
    BY <1>4, <1>9 DEF UpdateLibraryView
  <2>2. src' = src /\ obj' = obj /\ rows' = rows /\ registers' = registers /\ libraries'
    BY <1>9, <2>1 DEF UpdateLibraryView, ListLibraries, codeVars
  <2> QED
    BY <2>1, <2>2 DEF Told, AgreeInv
<1>10. CASE ToggleExecution
  <2>1. CASE status = "kStopped"
    <3>1. tstate # "stopped" /\ turn' = 1
      BY <1>10, <2>1 DEF ToggleExecution, Continue
    <3> QED
      BY <3>1 DEF Told
  <2>2. CASE status # "kStopped"
    <3>1. UNCHANGED <<tracer, tstate, stack, stop, turn, codeVars, informationVars>>
      BY <1>10, <2>2 DEF ToggleExecution
    <3> QED
      BY <3>1 DEF codeVars, informationVars, Told, AgreeInv
  <2> QED
    BY <2>1, <2>2
<1>11. ~Singlestep /\ ~LaunchFails
  BY DEF Singlestep, Continue, LaunchFails
<1>12. CASE AbortExecution \/ Launch
  <2>1. obj'.line = NoLine /\ src'.line = NoLine /\ rows'.frames = <<>>
    BY <1>12, ViewsEnd DEF AbortExecution, Launch
  <2> QED
    BY <2>1
<1>13. CASE UNCHANGED vars
  BY <1>13 DEF vars, traceeVars, codeVars, informationVars, Told, AgreeInv
<1> QED
  BY <1>1, <1>2, <1>3, <1>5, <1>6, <1>7, <1>8, <1>9, <1>10, <1>11, <1>12, <1>13 DEF Next, Refresh

LEMMA AlwaysAgree == Spec => [](TraceeInv /\ StopInv /\ ShapeInv /\ AgreeInv)
<1>1. TraceeInv /\ StopInv /\ ShapeInv /\ AgreeInv /\ [Next]_vars
        => (TraceeInv /\ StopInv /\ ShapeInv /\ AgreeInv)'
  BY TraceeStep, StopStep, ShapeStep, AgreeStep
<1> QED
  BY <1>1, ViewsInit, PTL DEF Spec

\* Once the last stop was delivered and every view told of it, the highlighted lines, the
\* stack that is listed and the registers beside them are of one stop, and of the present
\* one, however the tracee and the worker went on while the views were told.
THEOREM PanelsAgreeCorrect == Spec => []PanelsAgree
<1>1. AgreeInv => PanelsAgree
  BY DEF AgreeInv, PanelsAgree, Settled, Idle, Told
<1> QED
  BY <1>1, AlwaysAgree, PTL

-----------------------------------------------------------------------------
(* The stack that is listed.                                               *)

LEMMA TableFound ==
  ASSUME TableIsRight, NEW a
  PROVE  LET found == findInTable(symtab, a)
         IN found.symbol # NoSymbol => found.table.object \in Objects /\ found.table.base \in Nat
<1> DEFINE Here(sym) == sym.addr = a
           some  == {t \in 1 .. Len(symtab) : First(symtab[t].symbols, Here) # NoSymbol}
           n     == IF some # {} THEN Min(some) ELSE 0
           first == First(symtab[n].symbols, Here)
           found == findInTable(symtab, a)
<1>1. found = IF n = 0 THEN [symbol |-> NoSymbol, table |-> NoTable]
              ELSE [symbol |-> first, table |-> symtab[n]]
  BY DEF findInTable, SelectInSeq
<1>2. some \subseteq 1 .. Len(symtab)
  OBVIOUS
<1>3. symtab \in Seq([object : Objects, base : Nat, symbols : Seq([name : STRING, addr : Int])])
  BY DEF TableIsRight
<1> HIDE DEF some, first, found
<1>4. CASE some = {}
  <2>1. found = [symbol |-> NoSymbol, table |-> NoTable]
    BY <1>1, <1>4
  <2> QED
    BY <2>1 DEF found
<1>5. CASE some # {}
  <2>1. some \subseteq Nat
    BY <1>2, <1>3
  <2>2. n \in some
    BY <1>5, <2>1, MinOf
  <2>3. n \in 1 .. Len(symtab)
    BY <1>2, <2>2
  <2> HIDE DEF n
  <2>4. symtab[n].object \in Objects /\ symtab[n].base \in Nat
    <3> DEFINE Records == [object : Objects, base : Nat, symbols : Seq([name : STRING, addr : Int])]
    <3>1. symtab \in Seq(Records)
      BY <1>3
    <3> HIDE DEF Records
    <3>2. symtab[n] \in Records
      BY <2>3, <3>1, ElementOfSeq
    <3> QED
      BY <3>2 DEF Records
  <2>5. found.table = symtab[n]
    BY <1>1, <1>3, <2>3
  <2> QED
    BY <2>4, <2>5 DEF found
<1> QED
  BY <1>4, <1>5

LEMMA Placed ==
  /\ \A f \in Functions : /\ Place[f].start \in Nat /\ Place[f].base \in Nat
                          /\ Place[f].size \in Nat \ {0}
  /\ Named \subseteq Functions /\ Unset \subseteq Nat /\ MaxFrames \in Nat \ {0}
<1>1. \A f \in Functions :
        Place[f] \in [object : STRING, base : Nat, start : Nat, size : Nat \ {0}]
  BY StackAssumption
<1> QED
  BY <1>1, StackAssumption

\* A place of a stack is in a function.
LEMMA PlaceOf ==
  ASSUME NEW st \in Halts, NEW i \in 1 .. Len(st)
  PROVE  st[i] \in Nat /\ FunctionAt(st[i]) \in Functions /\ Within(FunctionAt(st[i]), st[i])
<1>1. st \in Seq(Nat)
  BY PanelAssumption DEF Halts
<1>2. i \in DOMAIN st /\ st[i] \in Nat
  BY <1>1, LenProperties
<1>3. \E f \in Functions : Within(f, st[i])
  BY <1>2, PanelAssumption DEF Halts
<1> QED
  BY <1>2, <1>3 DEF FunctionAt

\* The frames of a stack: as many as are kept, each with the place it stands at.
LEMMA TraceFrames ==
  ASSUME NEW st \in Halts \cup {NoStack}, NEW trace \in getStackTrace(st)
  PROVE  /\ DOMAIN trace.frames = 1 .. Len(trace.frames)
         /\ Len(trace.frames) = Cut(st).size
         /\ Len(st) \in Nat /\ Cut(st).size \in 0 .. Len(st) /\ Cut(st).size <= MaxFrames + 1
         /\ st # NoStack => Cut(st).size >= 1
         /\ trace.is_truncated \/ Cut(st).size = Len(st)
         /\ \A i \in 1 .. Cut(st).size : \E offset \in Offsets(st[i]) :
              offset \in Int /\ trace.frames[i] = FrameAt(st[i], offset)
<1>1. st \in Seq(Nat) /\ Len(st) \in Nat
  <2>1. <<>> \in Seq(Nat)
    OBVIOUS
  <2>2. st \in Seq(Nat)
    BY <2>1, PanelAssumption DEF Halts, NoStack
  <2> QED
    BY <2>2, LenProperties
<1>2. PICK n \in Nat : n = Len(st)
  BY <1>1
<1>3. /\ Cut(st).size = IF n > MaxFrames THEN MaxFrames + 1 ELSE n
      /\ Cut(st).is_truncated = (n > MaxFrames)
  BY <1>2 DEF Cut
<1>4. PICK m \in Nat : m = Cut(st).size
  BY <1>3, Placed
<1>5. m \in 0 .. n /\ m <= MaxFrames + 1 /\ (n > MaxFrames \/ m = n) /\ (n # 0 => m >= 1)
  BY <1>3, <1>4, Placed
<1>6. st # NoStack => n # 0
  BY <1>1, <1>2, EmptySeq DEF NoStack
<1>7. /\ DOMAIN trace.frames = 1 .. m /\ trace.is_truncated = Cut(st).is_truncated
      /\ \A i \in 1 .. m : \E offset \in Offsets(st[i]) : trace.frames[i] = FrameAt(st[i], offset)
  BY <1>4, TraceShape
<1>8. ASSUME NEW i \in 1 .. m, NEW offset \in Offsets(st[i]) PROVE offset \in Int
  <2>1. st # NoStack /\ i \in 1 .. Len(st)
    BY <1>2, <1>5 DEF NoStack
  <2>2. st[i] \in Nat /\ FunctionAt(st[i]) \in Functions
    BY <2>1, PlaceOf
  <2> QED
    BY <2>2, Placed DEF Offsets
<1>9. Len(trace.frames) = m
  BY <1>4, TraceLength
<1> QED
  BY <1>2, <1>3, <1>4, <1>5, <1>6, <1>7, <1>8, <1>9

RowsInv ==
  /\ TraceIsStack
  /\ Len(rows.frames) <= MaxFrames + 1 /\ rows.of \in Halts \cup {NoStack}

LEMMA NamedFrame ==
  ASSUME TableIsRight, NEW st \in Halts, NEW i \in 1 .. Len(st), NEW offset \in Offsets(st[i]),
         FunctionAt(st[i]) \in Named
  PROVE  /\ FrameAt(st[i], offset).name = FunctionAt(st[i])
         /\ FrameAt(st[i], offset).address = Place[FunctionAt(st[i])].start
         /\ FrameAt(st[i], offset).address + FrameAt(st[i], offset).offset = st[i]
<1> DEFINE f  == FunctionAt(st[i])
           pc == st[i]
<1>1. pc \in Nat /\ Place[f].start \in Nat
  BY PlaceOf, Placed
<1>2. offset = pc - Place[f].start
  BY DEF Offsets
<1>3. pc - offset = Place[f].start /\ Place[f].start + offset = pc
  BY <1>1, <1>2
<1>4. ByAddress(symtab, Place[f].start) # NoSymbol => ByAddress(symtab, Place[f].start).name = f
  BY DEF ByAddress, TableIsRight
<1> HIDE DEF f, pc
<1>5. f \in Named /\ f = FunctionAt(pc)
  BY DEF f, pc
<1>6. FrameAt(pc, offset) =
        [address |-> Place[f].start, offset |-> offset,
         name |-> IF ByAddress(symtab, Place[f].start) # NoSymbol
                  THEN ByAddress(symtab, Place[f].start).name ELSE f]
  BY <1>3, <1>5 DEF FrameAt
<1> QED
  BY <1>3, <1>4, <1>6 DEF f, pc

LEMMA RowsStep ==
  ASSUME TableIsRight
  PROVE  TraceeInv /\ RowsInv /\ [Next]_vars => RowsInv'
<1> SUFFICES ASSUME TraceeInv, RowsInv, [Next]_vars PROVE RowsInv'
  OBVIOUS
<1>1. CASE UpdateStackView /\ tracer
  <2>1. PICK trace \in Traces : rows' = ListStack(stack, trace)
    BY <1>1 DEF UpdateStackView
  <2>2. trace \in getStackTrace(stack) /\ stack \in Halts \cup {NoStack}
    BY <2>1 DEF Traces, TraceeInv
  <2>3. /\ rows'.frames = trace.frames /\ rows'.of = stack
        /\ rows'.truncated = (trace.is_truncated /\ trace.frames # <<>>)
    BY <2>1 DEF ListStack
  <2>4. ASSUME NEW i \in DOMAIN trace.frames, FunctionAt(stack[i]) \in Named
        PROVE  /\ trace.frames[i].name = FunctionAt(stack[i])
               /\ trace.frames[i].address + trace.frames[i].offset = stack[i]
    <3>1. stack \in Halts /\ i \in 1 .. Len(stack) /\ i \in 1 .. Cut(stack).size
      BY <2>2, <2>4, TraceFrames DEF NoStack
    <3> QED
      BY <2>2, <2>4, <3>1, TraceFrames, NamedFrame
  <2>5. rows'.truncated \/ Len(rows'.frames) = Len(rows'.of)
    <3>1. CASE stack = NoStack
      <4>1. trace.frames = <<>>
        BY <2>2, <3>1, NoStackNoTrace
      <4> QED
        BY <2>3, <3>1, <4>1 DEF NoStack
    <3>2. CASE stack # NoStack
      <4>1. Len(trace.frames) >= 1
        BY <2>2, <3>2, TraceFrames
      <4>2. trace.frames # <<>>
        BY <4>1
      <4> QED
        BY <2>2, <2>3, <4>2, TraceFrames
    <3> QED
      BY <3>1, <3>2
  <2>8. rows'.truncated => Len(rows'.of) > MaxFrames
    BY <2>2, <2>3, TraceShape DEF Cut
  <2>6. TraceIsStack'
    BY <2>3, <2>4, <2>5, <2>8 DEF TraceIsStack
  <2>7. Len(trace.frames) <= MaxFrames + 1
    BY <2>2, TraceFrames
  <2> QED
    BY <2>2, <2>3, <2>6, <2>7 DEF RowsInv
<1>2. CASE UNCHANGED rows
  BY <1>2 DEF RowsInv, TraceIsStack
<1>3. CASE InformationEnded \/ InformationStarted
  <2>1. rows' = NoRows
    BY <1>3 DEF InformationEnded, InformationStarted
  <2>2. Len(<<>>) = 0 /\ DOMAIN <<>> = {}
    OBVIOUS
  <2> QED
    BY <2>1, <2>2, Placed DEF NoRows, RowsInv, TraceIsStack, NoStack
<1> QED
  BY <1>1, <1>2, <1>3
  DEF Next, StopAt, Exit, Record, ResumeTracee, resetBreakpoint, signalReceived, Refresh,
      RefreshSourceView, RefreshObjdumpView, UpdateStackView, UpdateVariableView,
      UpdateLibraryView, ToggleExecution, Singlestep, AbortExecution, Launch, LaunchFails, vars,
      informationVars

LEMMA AlwaysRows ==
  ASSUME TableIsRight
  PROVE  Spec => []RowsInv
<1>1. Init => RowsInv
  <2>1. Len(<<>>) = 0 /\ DOMAIN <<>> = {}
    OBVIOUS
  <2> QED
    BY <2>1, Placed DEF Init, InformationInit, NoRows, RowsInv, TraceIsStack, NoStack
<1>2. TraceeInv /\ RowsInv /\ [Next]_vars => RowsInv'
  BY RowsStep
<1> QED
  BY <1>1, <1>2, AlwaysAgree, PTL DEF Spec

\* With the table of the program that runs, every frame listed whose function libunwind
\* names has that name and stands where the tracee stands; a list that is not the whole
\* stack says so, and one of a stack within the limit does not.
THEOREM TraceCorrect ==
  ASSUME TableIsRight
  PROVE  Spec => []TraceIsStack
<1>1. RowsInv => TraceIsStack
  BY DEF RowsInv
<1> QED
  BY <1>1, AlwaysRows, PTL

-----------------------------------------------------------------------------
(* The line that is highlighted.                                           *)

\* A line is found only where the listing has an address that ends in the digits.
LEMMA LineFound ==
  ASSUME NEW f \in Objects, NEW a, LineOf(Contents(f), a) # NoLine
  PROVE  /\ LineOf(Contents(f), a) \in 1 .. Len(Listing[f])
         /\ EndsIn(Listing[f][LineOf(Contents(f), a)], a)
<1> DEFINE listing == Listing[f]
           found   == {n \in 1 .. Len(listing) : EndsIn(listing[n], a)}
           n       == IF found # {} THEN Min(found) ELSE 0
<1>1. LineOf(Contents(f), a) = IF n = 0 THEN NoLine ELSE Highlighted(n)
  BY DEF LineOf, Contents, SelectInSeq
<1>2. Len(listing) \in Nat
  BY ViewsAssumption
<1>3. found # {}
  BY <1>1
<1>4. found \subseteq Nat
  BY <1>2
<1>5. n \in found
  BY <1>3, <1>4, MinOf
<1>6. n \in 1 .. Len(listing) /\ EndsIn(listing[n], a)
  BY <1>5
<1> HIDE DEF n, found
<1>7. LineOf(Contents(f), a) = n
  BY <1>1, <1>2, <1>6 DEF Highlighted
<1> QED
  BY <1>6, <1>7

-----------------------------------------------------------------------------
(* The types.                                                              *)

LEMMA TextsTyped ==
  /\ \A text \in Texts : IsText(text)
  /\ \A f \in Files : Contents(f) \in Texts
  /\ Empty \in Texts /\ Notice(TooLarge) \in Texts /\ Notice(NotOpened) \in Texts
  /\ \A text \in Texts : [text EXCEPT !.old = @ \/ text.file \in Files] \in Texts
<1>1. {NoFile, TooLarge, NotOpened} \cap Files = {}
  BY ViewsAssumption
<1>2. ASSUME NEW text \in Texts PROVE [text EXCEPT !.old = @ \/ text.file \in Files] \in Texts
  <2>1. CASE text \in [file : Files, old : BOOLEAN]
    BY <2>1, Zenon DEF Texts
  <2>2. CASE text \in {Empty, Notice(TooLarge), Notice(NotOpened)}
    <3>1. text.file \notin Files /\ text.old = FALSE
      BY <1>1, <2>2 DEF Empty, Notice
    <3>2. [text EXCEPT !.old = @ \/ text.file \in Files] = text
      BY <2>2, <3>1 DEF Empty, Notice
    <3> QED
      BY <3>2
  <2> QED
    BY <2>1, <2>2 DEF Texts
<1>3. \A text \in Texts : IsText(text)
  BY DEF Texts, Empty, Notice, IsText, Has
<1> QED
  BY <1>2, <1>3 DEF Texts, Contents

LEMMA ViewsTyped ==
  ASSUME NEW v \in CodeView
  PROVE  /\ IsView(v)
         /\ NoView \in CodeView
         /\ Unselect(v) \in CodeView /\ Forget(v) \in CodeView /\ Clear(v) \in CodeView
         /\ Aged(v) \in CodeView /\ NoSymbolFound(v) \in CodeView
         /\ [v EXCEPT !.path = NoFile] \in CodeView /\ [v EXCEPT !.line = NoLine] \in CodeView
         /\ \A st \in Halts \cup {NoStack} : [v EXCEPT !.of = st] \in CodeView
         /\ \A s \in {"none", "kStopped", "kKilled", "kExited"} : [v EXCEPT !.status = s] \in CodeView
<1>1. IsView(v) /\ v.text \in Texts
  BY TextsTyped DEF CodeView, IsView, Has
<1>2. NoLine \in Int /\ NoFile \in Files \cup {NoFile} /\ Empty \in Texts /\ NoStack = <<>>
  BY TextsTyped DEF NoLine, NoStack
<1>3. [v.text EXCEPT !.old = @ \/ v.text.file \in Files] \in Texts
  BY <1>1, TextsTyped
<1>4. Aged(v) = [v EXCEPT !.text = [v.text EXCEPT !.old = @ \/ v.text.file \in Files]]
  BY DEF Aged, CodeView
<1>5. Aged(v) \in CodeView
  BY <1>3, <1>4 DEF CodeView
<1>6. Unselect(v) \in CodeView
  BY <1>2 DEF CodeView, Unselect
<1>7. Clear(v) \in CodeView
  BY <1>2, <1>6 DEF CodeView, Clear
<1>8. Forget(v) \in CodeView /\ NoSymbolFound(v) \in CodeView /\ NoView \in CodeView
  BY <1>2 DEF CodeView, Forget, NoSymbolFound, NoView
<1>9. /\ [v EXCEPT !.path = NoFile] \in CodeView /\ [v EXCEPT !.line = NoLine] \in CodeView
      /\ \A st \in Halts \cup {NoStack} : [v EXCEPT !.of = st] \in CodeView
      /\ \A s \in {"none", "kStopped", "kKilled", "kExited"} : [v EXCEPT !.status = s] \in CodeView
  BY <1>2 DEF CodeView, Halts
<1> QED
  BY <1>1, <1>5, <1>6, <1>7, <1>8, <1>9

LEMMA LineTyped == \A text, a : LineOf(text, a) \in Int /\ (text.file \notin Objects => LineOf(text, a) = NoLine)
<1> SUFFICES ASSUME NEW text, NEW a PROVE LineOf(text, a) \in Int /\ (text.file \notin Objects => LineOf(text, a) = NoLine)
  OBVIOUS
<1>1. CASE text.file \notin Objects
  BY <1>1 DEF LineOf, NoLine
<1>2. CASE text.file \in Objects
  <2>1. LineOf(text, a) = LineOf(Contents(text.file), a)
    BY DEF LineOf, Contents
  <2>2. LineOf(text, a) # NoLine => LineOf(text, a) \in 1 .. Len(Listing[text.file])
    BY <1>2, <2>1, LineFound
  <2> QED
    BY <1>2, <2>2 DEF NoLine
<1> QED
  BY <1>1, <1>2

LEMMA ReadsTyped ==
  ASSUME NEW v \in CodeView
  PROVE  /\ \A f \in Objects : \A a : Disassembly(v, f, a) \in CodeView
         /\ \A f \in Sources, n \in Int : Source(v, f, n) \in CodeView
<1>1. \A n \in Int : Highlighted(n) \in Int
  BY DEF Highlighted, NoLine
<1>2. NoLine \in Int
  BY DEF NoLine
<1>3. ASSUME NEW f \in Objects, NEW a PROVE Disassembly(v, f, a) \in CodeView
  <2>1. LineOf(v.text, a) \in Int /\ LineOf(Contents(f), a) \in Int
    BY LineTyped
  <2>2. f \in Files /\ Contents(f) \in Texts
    BY TextsTyped DEF Files
  <2> QED
    BY <1>2, <2>1, <2>2, TextsTyped DEF CodeView, Disassembly
<1>4. ASSUME NEW f \in Sources, NEW n \in Int PROVE Source(v, f, n) \in CodeView
  <2>1. f \in Files /\ Contents(f) \in Texts
    BY TextsTyped DEF Files
  <2> QED
    BY <1>1, <1>2, <2>1, TextsTyped DEF CodeView, Source
<1> QED
  BY <1>3, <1>4

-----------------------------------------------------------------------------
(* The disassembly.                                                        *)

\* What the view keeps a path for is the text it shows, read since the process was made,
\* unless a notice took its place.
TextInv(v) ==
  /\ v \in CodeView /\ v.path \in Objects \cup {NoFile}
  /\ v.path # NoFile /\ v.text.file \in Files => v.text.file = v.path /\ ~v.text.old

\* A highlighted line was looked for in the object the tracee stands in.
LineInv(v) ==
  v.line # NoLine =>
    /\ v.path # NoFile /\ v.label = v.path /\ v.text.file = v.path
    /\ v.of \in Halts /\ FunctionAt(Head(v.of)) \in Named /\ v.path = Home(Head(v.of))
    /\ v.line = LineOf(Contents(v.path), Counter(v.of))

LEMMA Disassembled ==
  ASSUME NEW v, TextInv(v), NEW f \in Objects, NEW a
  PROVE  LET w == Disassembly(v, f, a)
         IN /\ TextInv(w) /\ w.of = v.of
            /\ w.line # NoLine => /\ w.path = f /\ w.label = f /\ w.text.file = f
                                  /\ w.line = LineOf(Contents(f), a)
<1> DEFINE w == Disassembly(v, f, a)
<1>1. w \in CodeView /\ IsView(v) /\ f \in Files /\ f # NoFile
  BY ReadsTyped, ViewsTyped, ViewsAssumption DEF TextInv, Files
<1>2. NoFile \notin Files /\ TooLarge \notin Files /\ Objects \subseteq Files
  BY ViewsAssumption DEF Files
<1>3. CASE f = v.path
  <2>1. w = [v EXCEPT !.label = f, !.line = LineOf(v.text, a)]
    BY <1>3 DEF Disassembly
  <2> HIDE DEF w
  <2>2. w.line = LineOf(v.text, a) /\ w.path = f /\ w.label = f /\ w.text = v.text /\ w.of = v.of
    <3> DEFINE n == LineOf(v.text, a)
    <3>1. w = [v EXCEPT !.label = f, !.line = n]
      BY <2>1
    <3> HIDE DEF n
    <3>2. w.line = n /\ w.path = v.path /\ w.label = f /\ w.text = v.text /\ w.of = v.of
      BY <1>1, <3>1 DEF IsView, Has
    <3> QED
      BY <1>3, <3>2 DEF n
  <2>3. ASSUME w.line # NoLine PROVE v.text.file = f /\ w.line = LineOf(Contents(f), a)
    <3>1. v.text.file \in Objects
      BY <2>2, <2>3, LineTyped
    <3>2. v.text.file = f
      BY <1>1, <1>2, <1>3, <3>1 DEF TextInv
    <3>3. LineOf(v.text, a) = LineOf(Contents(f), a)
      BY <3>2 DEF LineOf, Contents
    <3> QED
      BY <2>2, <3>2, <3>3
  <2> QED
    BY <1>1, <1>3, <2>2, <2>3 DEF TextInv, w
<1>4. CASE f # v.path /\ f \in TooBig
  <2>1. w = [v EXCEPT !.text = Notice(TooLarge), !.line = NoLine]
    BY <1>4 DEF Disassembly
  <2>2. w.line = NoLine /\ w.path = v.path /\ w.text = Notice(TooLarge) /\ w.of = v.of
    BY <1>1, <2>1 DEF IsView, Has
  <2>3. w.text.file \notin Files
    BY <1>2, <2>2 DEF Notice
  <2> QED
    BY <1>1, <2>2, <2>3 DEF TextInv
<1>5. CASE f # v.path /\ f \notin TooBig /\ f \in Undumpable
  <2>1. w = [v EXCEPT !.text = Empty, !.line = NoLine]
    BY <1>5 DEF Disassembly
  <2>2. w.line = NoLine /\ w.path = v.path /\ w.text = Empty /\ w.of = v.of
    BY <1>1, <2>1 DEF IsView, Has
  <2>3. w.text.file \notin Files
    BY <1>2, <2>2 DEF Empty
  <2> QED
    BY <1>1, <2>2, <2>3 DEF TextInv
<1>6. CASE f # v.path /\ f \notin TooBig /\ f \notin Undumpable
  <2>1. w = [v EXCEPT !.path = f, !.text = Contents(f), !.label = f, !.line = LineOf(Contents(f), a)]
    BY <1>6 DEF Disassembly
  <2>2. /\ w.line = LineOf(Contents(f), a) /\ w.path = f /\ w.label = f /\ w.text = Contents(f)
        /\ w.of = v.of
    BY <1>1, <2>1 DEF IsView, Has
  <2>3. w.text.file = f /\ ~w.text.old
    BY <2>2 DEF Contents
  <2> QED
    BY <1>1, <2>2, <2>3 DEF TextInv
<1> QED
  BY <1>3, <1>4, <1>5, <1>6

\* The innermost frame of a stack.
LEMMA InnermostFrame ==
  ASSUME NEW st \in Halts, NEW trace \in getStackTrace(st)
  PROVE  /\ trace.frames # <<>> /\ Head(st) = st[1] /\ 1 \in 1 .. Len(st) /\ Head(st) \in Nat
         /\ \E offset \in Offsets(Head(st)) :
              offset \in Int /\ Head(trace.frames) = FrameAt(Head(st), offset)
<1>1. st # NoStack
  BY PanelAssumption DEF Halts, NoStack
<1>2. 1 \in 1 .. Cut(st).size /\ 1 \in 1 .. Len(st) /\ Len(trace.frames) >= 1
  BY <1>1, TraceFrames
<1>3. trace.frames # <<>> /\ Head(st) = st[1] /\ Head(trace.frames) = trace.frames[1]
  BY <1>2
<1>4. st[1] \in Nat
  BY <1>2, PlaceOf
<1> QED
  BY <1>2, <1>3, <1>4, TraceFrames

LEMMA ObjdumpRight ==
  ASSUME TableIsRight, TextInv(obj), NEW st \in Halts \cup {NoStack}, NEW trace,
         trace.frames = <<>> \/ (st \in Halts /\ trace \in getStackTrace(st))
  PROVE  LET w == RefreshObjdump(st, trace) IN TextInv(w) /\ (NoStray => LineInv(w))
<1> DEFINE w == RefreshObjdump(st, trace)
<1>1. CASE trace.frames = <<>>
  <2>1. w = Unselect(obj)
    BY <1>1 DEF RefreshObjdump
  <2>2. IsView(obj) /\ w \in CodeView
    BY <2>1, ViewsTyped DEF TextInv
  <2>3. w.path = obj.path /\ w.text = obj.text /\ w.line = NoLine
    BY <2>1, <2>2 DEF Unselect, IsView, Has
  <2> QED
    BY <2>2, <2>3 DEF TextInv, LineInv
<1>2. CASE trace.frames # <<>>
  <2> DEFINE view  == [obj EXCEPT !.of = st]
             pc    == Head(st)
             f     == FunctionAt(pc)
  <2>1. st \in Halts /\ trace \in getStackTrace(st)
    BY <1>2
  <2>2. PICK offset \in Offsets(pc) : offset \in Int /\ Head(trace.frames) = FrameAt(pc, offset)
    BY <2>1, InnermostFrame
  <2>3. pc \in Nat /\ pc = st[1] /\ 1 \in 1 .. Len(st)
    BY <2>1, InnermostFrame
  <2>4. /\ view \in CodeView /\ view.of = st /\ view.path = obj.path /\ view.text = obj.text
    <3>1. view \in CodeView /\ IsView(obj)
      BY ViewsTyped DEF TextInv
    <3> QED
      BY <3>1 DEF IsView, Has
  <2>5. TextInv(view)
    BY <2>4 DEF TextInv
  <2> HIDE DEF view
  <2> DEFINE found == findInTable(symtab, pc - offset)
             a     == pc - found.table.base
  <2>6. /\ FrameAt(pc, offset).address = pc - offset /\ FrameAt(pc, offset).offset = offset
    BY DEF FrameAt
  <2>7. CASE found.symbol = NoSymbol
    <3>1. w = NoSymbolFound(view)
      BY <1>2, <2>2, <2>6, <2>7 DEF RefreshObjdump, view
    <3>2. w \in CodeView /\ IsView(view)
      BY <2>4, <3>1, ViewsTyped
    <3>3. w.path = NoFile /\ w.line = NoLine
      BY <3>1, <3>2 DEF NoSymbolFound, IsView, Has
    <3> QED
      BY <3>2, <3>3 DEF TextInv, LineInv
  <2>8. CASE found.symbol # NoSymbol
    <3>1. pc - offset \in Int
      BY <2>2, <2>3
    <3>2. found.table.object \in Objects /\ found.table.base \in Nat
      BY <2>8, TableFound
    <3>3. InObject(FrameAt(pc, offset), found.table) = a
      <4>1. \A p, o \in Int, b \in Nat : p - o + o - b = p - b
        OBVIOUS
      <4> QED
        BY <2>2, <2>3, <2>6, <3>2, <4>1 DEF InObject
    <3> HIDE DEF a
    <3>4. w = Disassembly(view, found.table.object, a)
      BY <1>2, <2>2, <2>6, <2>8, <3>3 DEF RefreshObjdump, view
    <3>5. /\ TextInv(w) /\ w.of = st
          /\ w.line # NoLine => /\ w.path = found.table.object /\ w.label = found.table.object
                                /\ w.text.file = found.table.object
                                /\ w.line = LineOf(Contents(found.table.object), a)
      BY <2>4, <2>5, <3>2, <3>4, Disassembled
    <3>6. CASE f \in Named
      <4>1. pc - offset = Place[f].start
        <5>1. offset = pc - Place[f].start
          BY <3>6 DEF Offsets
        <5>2. Place[f].start \in Nat
          BY <3>6, Placed
        <5>3. \A p, s \in Nat : p - (p - s) = s
          OBVIOUS
        <5> QED
          BY <2>3, <5>1, <5>2, <5>3
      <4>2. found.table.object = Home(pc) /\ found.table.base = Place[f].base
        BY <2>8, <3>6, <4>1 DEF TableIsRight, Home
      <4>3. a = Counter(st)
        BY <4>2 DEF a, Counter
      <4>4. found.table.object # NoFile
        BY <3>2, ViewsAssumption DEF Files
      <4> QED
        BY <2>1, <3>5, <3>6, <4>2, <4>3, <4>4 DEF LineInv
    <3>7. CASE f \notin Named
      <4>1. offset \in Unset
        BY <3>7 DEF Offsets
      <4>2. NoStray => LineOf(Contents(found.table.object), a) = NoLine
        BY <2>1, <2>8, <3>7, <4>1 DEF NoStray, a, Halts
      <4> QED
        BY <3>5, <4>2 DEF LineInv
    <3> QED
      BY <3>6, <3>7
  <2> QED
    BY <2>7, <2>8
<1> QED
  BY <1>1, <1>2

\* When an execution ends and when one starts the object is to be read again.
LEMMA ObjdumpEnds ==
  ASSUME TextInv(obj), CodeEnded \/ CodeStarted
  PROVE  TextInv(obj)' /\ LineInv(obj)' /\ obj'.path = NoFile /\ obj'.of = NoStack
<1>1. /\ Forget(obj) \in CodeView /\ Forget(obj).path = NoFile /\ Forget(obj).line = NoLine
      /\ Forget(obj).of = NoStack
  <2>1. IsView(obj) /\ Forget(obj) \in CodeView
    BY ViewsTyped DEF TextInv
  <2> QED
    BY <2>1 DEF IsView, Has, Forget, NoStack
<1>2. CASE CodeEnded
  BY <1>1, <1>2 DEF CodeEnded, TextInv, LineInv
<1>3. CASE CodeStarted
  <2>1. /\ Clear(Forget(obj)) \in CodeView /\ Clear(Forget(obj)).path = NoFile
        /\ Clear(Forget(obj)).line = NoLine /\ Clear(Forget(obj)).of = NoStack
    <3>1. IsView(Forget(obj)) /\ Clear(Forget(obj)) \in CodeView /\ Unselect(Forget(obj)) \in CodeView
      BY <1>1, ViewsTyped
    <3>2. IsView(Unselect(Forget(obj)))
      BY <3>1, ViewsTyped
    <3> QED
      BY <1>1, <3>1, <3>2 DEF IsView, Has, Clear, Unselect, NoStack
  <2>2. IsView(Clear(Forget(obj))) /\ Aged(Clear(Forget(obj))) \in CodeView
    BY <2>1, ViewsTyped
  <2>3. obj' = Aged(Clear(Forget(obj)))
    BY <1>3 DEF CodeStarted
  <2>4. obj'.path = NoFile /\ obj'.line = NoLine /\ obj'.of = NoStack
    BY <2>1, <2>2, <2>3 DEF Aged, IsView, Has
  <2> QED
    BY <2>2, <2>3, <2>4 DEF TextInv, LineInv
<1> QED
  BY <1>2, <1>3

LEMMA ProbedTrace ==
  ASSUME TraceeInv, NEW trace \in ProbedTraces
  PROVE  /\ stack \in Halts \cup {NoStack}
         /\ trace.frames = <<>> \/ (stack \in Halts /\ trace \in getStackTrace(stack) /\ isProbeable)
<1>1. NoTrace.frames = <<>>
  BY DEF NoTrace
<1>2. trace.frames # <<>> => isProbeable
  BY <1>1 DEF ProbedTraces
<1>3. trace.frames # <<>> => stack \in Halts /\ trace \in getStackTrace(stack)
  BY TraceOfStop DEF TraceeInv
<1> QED
  BY <1>2, <1>3 DEF TraceeInv

LEMMA ObjdumpStep ==
  ASSUME TableIsRight
  PROVE  TraceeInv /\ TextInv(obj) /\ [Next]_vars
           => TextInv(obj)' /\ (NoStray /\ LineInv(obj) => LineInv(obj)')
<1> SUFFICES ASSUME TraceeInv, TextInv(obj), [Next]_vars
             PROVE  TextInv(obj)' /\ (NoStray /\ LineInv(obj) => LineInv(obj)')
  OBVIOUS
<1>1. CASE RefreshObjdumpView
  <2>1. PICK trace \in ProbedTraces : obj' = RefreshObjdump(stack, trace)
    BY <1>1 DEF RefreshObjdumpView
  <2>2. TextInv(obj') /\ (NoStray => LineInv(obj'))
    BY <2>1, ProbedTrace, ObjdumpRight
  <2> QED
    BY <2>2 DEF TextInv, LineInv
<1>2. CASE CodeEnded \/ CodeStarted
  BY <1>2, ObjdumpEnds
<1>3. CASE UNCHANGED obj
  BY <1>3 DEF TextInv, LineInv
<1> QED
  BY <1>1, <1>2, <1>3
  DEF Next, StopAt, Exit, Record, ResumeTracee, resetBreakpoint, signalReceived, Refresh,
      RefreshSourceView, RefreshObjdumpView, UpdateStackView, UpdateVariableView,
      UpdateLibraryView, ToggleExecution, Singlestep, AbortExecution, Launch, LaunchFails, vars,
      codeVars

LEMMA NoViewTyped == NoView \in CodeView /\ NoView.path = NoFile /\ NoView.line = NoLine /\ NoView.of = NoStack
BY TextsTyped DEF NoView, CodeView, NoStack, NoLine

LEMMA AlwaysText ==
  ASSUME TableIsRight
  PROVE  Spec => []TextInv(obj)
<1>1. Init => TextInv(obj)
  BY NoViewTyped DEF Init, CodeInit, TextInv
<1>2. TraceeInv /\ TextInv(obj) /\ [Next]_vars => TextInv(obj)'
  BY ObjdumpStep
<1> QED
  BY <1>1, <1>2, AlwaysAgree, PTL DEF Spec

LEMMA AlwaysObjdump ==
  ASSUME TableIsRight, NoStray
  PROVE  Spec => [](TextInv(obj) /\ LineInv(obj))
<1>1. Init => LineInv(obj)
  BY NoViewTyped DEF Init, CodeInit, LineInv
<1>2. TraceeInv /\ TextInv(obj) /\ LineInv(obj) /\ [Next]_vars => LineInv(obj)'
  BY ObjdumpStep
<1> QED
  BY <1>1, <1>2, AlwaysText, AlwaysAgree, PTL DEF Spec

\* Where no address is mistaken for another, the instruction that is highlighted is the one
\* the program counter is at, in the object that is mapped there.
THEOREM CounterCorrect ==
  ASSUME TableIsRight, NoStray, Unambiguous
  PROVE  Spec => []LineIsCounter
<1>1. TextInv(obj) /\ LineInv(obj) => LineIsCounter
  <2> SUFFICES ASSUME TextInv(obj), LineInv(obj), obj.line # NoLine
               PROVE  /\ Home(Head(obj.of)) \in Objects
                      /\ Listing[Home(Head(obj.of))][obj.line]
                           = Head(obj.of) - Place[FunctionAt(Head(obj.of))].base
    BY DEF LineIsCounter
  <2>1. /\ obj.path # NoFile /\ obj.path = Home(Head(obj.of)) /\ obj.of \in Halts
        /\ FunctionAt(Head(obj.of)) \in Named /\ obj.line = LineOf(Contents(obj.path), Counter(obj.of))
    BY DEF LineInv
  <2>2. obj.path \in Objects
    BY <2>1 DEF TextInv
  <2>3. /\ obj.line \in 1 .. Len(Listing[obj.path])
        /\ EndsIn(Listing[obj.path][obj.line], Counter(obj.of))
    BY <2>1, <2>2, LineFound
  <2>4. Listing[obj.path][obj.line] = Counter(obj.of)
    BY <2>1, <2>3 DEF Unambiguous, Halts
  <2> QED
    BY <2>1, <2>2, <2>4 DEF Counter
<1> QED
  BY <1>1, AlwaysObjdump, PTL

\* The text is that of the file named, or what one that cannot be displayed left there; of
\* every stop in an object that can be displayed, that object is the one named.
FileInv(v) ==
  /\ v.path # NoFile => v.text.file = v.path \/ v.text \in Remains
  /\ v.of # NoStack /\ Listed(FunctionAt(Head(v.of))) /\ Displayable(Home(Head(v.of)))
       => v.path # NoFile /\ v.path = Home(Head(v.of)) /\ v.label = v.path

LEMMA FileRight ==
  ASSUME TableIsRight, TextInv(obj), FileInv(obj),
         NEW st \in Halts \cup {NoStack}, NEW trace,
         trace.frames = <<>> \/ (st \in Halts /\ trace \in getStackTrace(st))
  PROVE  FileInv(RefreshObjdump(st, trace))
<1> DEFINE w == RefreshObjdump(st, trace)
<1>1. CASE trace.frames = <<>>
  <2>1. w = Unselect(obj) /\ IsView(obj)
    BY <1>1, ViewsTyped DEF RefreshObjdump, TextInv
  <2>2. w.path = obj.path /\ w.text = obj.text /\ w.of = NoStack
    BY <2>1 DEF Unselect, IsView, Has, NoStack
  <2> QED
    BY <2>2 DEF FileInv
<1>2. CASE trace.frames # <<>>
  <2> DEFINE view  == [obj EXCEPT !.of = st]
             pc    == Head(st)
             f     == FunctionAt(pc)
  <2>1. st \in Halts /\ trace \in getStackTrace(st)
    BY <1>2
  <2>2. PICK offset \in Offsets(pc) : offset \in Int /\ Head(trace.frames) = FrameAt(pc, offset)
    BY <2>1, InnermostFrame
  <2>3. pc \in Nat /\ pc = st[1] /\ 1 \in 1 .. Len(st)
    BY <2>1, InnermostFrame
  <2>4. IsView(view) /\ view.of = st /\ view.path = obj.path /\ view.text = obj.text
    <3>1. IsView(obj)
      BY ViewsTyped DEF TextInv
    <3> QED
      BY <3>1 DEF IsView, Has
  <2> HIDE DEF view
  <2> DEFINE found == findInTable(symtab, pc - offset)
             a     == InObject(FrameAt(pc, offset), found.table)
  <2>5. FrameAt(pc, offset).address = pc - offset
    BY DEF FrameAt
  <2>6. f \in Named => pc - offset = Place[f].start
    <3>1. f \in Named => offset = pc - Place[f].start /\ Place[f].start \in Nat
      BY Placed DEF Offsets
    <3>2. \A p, s \in Nat : p - (p - s) = s
      OBVIOUS
    <3> QED
      BY <2>3, <3>1, <3>2
  <2>7. CASE found.symbol = NoSymbol
    <3>1. w = NoSymbolFound(view)
      BY <1>2, <2>2, <2>5, <2>7 DEF RefreshObjdump, view
    <3>2. w.path = NoFile /\ w.of = st
      BY <2>4, <3>1 DEF NoSymbolFound, IsView, Has
    <3>3. ~Listed(f)
      BY <2>6, <2>7 DEF Listed, ByAddress
    <3> QED
      BY <3>2, <3>3 DEF FileInv
  <2>8. CASE found.symbol # NoSymbol
    <3> DEFINE o == found.table.object
    <3>1. pc - offset \in Int
      BY <2>2, <2>3
    <3>2. o \in Objects /\ o # NoFile
      BY <2>8, TableFound, ViewsAssumption DEF Files
    <3>3. w = Disassembly(view, o, a)
      BY <1>2, <2>2, <2>5, <2>8 DEF RefreshObjdump, view
    <3> HIDE DEF a, o
    <3>4. /\ (w.path = o /\ w.label = o) \/ ~Displayable(o)
          /\ w.path # NoFile => w.text.file = w.path \/ w.text \in Remains
          /\ w.of = st
      <4>1. CASE o = view.path
        <5>1. w = [view EXCEPT !.label = o, !.line = LineOf(view.text, a)]
          BY <3>3, <4>1 DEF Disassembly
        <5>2. w.path = obj.path /\ w.text = obj.text /\ w.label = o /\ w.of = st
          BY <2>4, <5>1 DEF IsView, Has
        <5>3. obj.path # NoFile => obj.text.file = obj.path \/ obj.text \in Remains
          BY DEF FileInv
        <5>4. w.path = o
          BY <2>4, <4>1, <5>2
        <5> HIDE DEF w
        <5> QED
          BY <5>2, <5>3, <5>4
      <4>2. CASE o # view.path /\ o \in TooBig
        <5>1. w = [view EXCEPT !.text = Notice(TooLarge), !.line = NoLine]
          BY <3>3, <4>2 DEF Disassembly
        <5>2. w.path = view.path /\ w.text = Notice(TooLarge) /\ w.of = st
          BY <2>4, <5>1 DEF IsView, Has
        <5> QED
          BY <4>2, <5>2 DEF Remains, Displayable
      <4>3. CASE o # view.path /\ o \notin TooBig /\ o \in Undumpable
        <5>1. w = [view EXCEPT !.text = Empty, !.line = NoLine]
          BY <3>3, <4>3 DEF Disassembly
        <5>2. w.path = view.path /\ w.text = Empty /\ w.of = st
          BY <2>4, <5>1 DEF IsView, Has
        <5> QED
          BY <4>3, <5>2 DEF Remains, Displayable
      <4>4. CASE o # view.path /\ o \notin TooBig /\ o \notin Undumpable
        <5>1. w = [view EXCEPT !.path = o, !.text = Contents(o), !.label = o,
                               !.line = LineOf(Contents(o), a)]
          BY <3>3, <4>4 DEF Disassembly
        <5>2. w.path = o /\ w.text = Contents(o) /\ w.label = o /\ w.of = st
          BY <2>4, <5>1 DEF IsView, Has
        <5>3. Contents(o).file = o
          BY DEF Contents
        <5> HIDE DEF w
        <5> QED
          BY <5>2, <5>3
      <4> QED
        BY <4>1, <4>2, <4>3, <4>4
    <3>5. Listed(f) => o = Home(pc)
      <4>1. Listed(f) => f \in Named
        BY DEF Listed
      <4>2. f \in Named => o = Place[f].object
        BY <2>6, <2>8 DEF TableIsRight, o
      <4> QED
        BY <4>1, <4>2 DEF Home
    <3> QED
      BY <3>2, <3>4, <3>5 DEF FileInv
  <2> QED
    BY <2>7, <2>8
<1> QED
  BY <1>1, <1>2

\* Whatever objects are over the limit or cannot be read: where the object the tracee stands
\* in can be displayed it is, read since the process was made, or the screen has what one
\* that cannot left there; however often the view skips the read.
THEOREM FileCorrect ==
  ASSUME TableIsRight
  PROVE  Spec => []FileOrNotice
<1>1. Init => FileInv(obj)
  BY NoViewTyped DEF Init, CodeInit, FileInv
<1>2. TraceeInv /\ TextInv(obj) /\ FileInv(obj) /\ [Next]_vars => FileInv(obj)'
  <2> SUFFICES ASSUME TraceeInv, TextInv(obj), FileInv(obj), [Next]_vars PROVE FileInv(obj)'
    OBVIOUS
  <2>1. CASE RefreshObjdumpView
    <3>1. PICK trace \in ProbedTraces : obj' = RefreshObjdump(stack, trace)
      BY <2>1 DEF RefreshObjdumpView
    <3>2. FileInv(obj')
      BY <3>1, ProbedTrace, FileRight
    <3> QED
      BY <3>2 DEF FileInv
  <2>2. CASE CodeEnded \/ CodeStarted
    BY <2>2, ObjdumpEnds DEF FileInv
  <2>3. CASE UNCHANGED obj
    BY <2>3 DEF FileInv
  <2> QED
    BY <2>1, <2>2, <2>3
    DEF Next, StopAt, Exit, Record, ResumeTracee, resetBreakpoint, signalReceived, Refresh,
        RefreshSourceView, RefreshObjdumpView, UpdateStackView, UpdateVariableView,
        UpdateLibraryView, ToggleExecution, Singlestep, AbortExecution, Launch, LaunchFails, vars,
        codeVars
<1>3. TextInv(obj) /\ FileInv(obj) => FileOrNotice
  <2> SUFFICES ASSUME TextInv(obj), FileInv(obj), InDisplayable, obj.text \notin Remains
               PROVE  Shows(obj, Home(Head(obj.of)))
    BY DEF FileOrNotice
  <2>1. /\ obj.path # NoFile /\ obj.path = Home(Head(obj.of)) /\ obj.label = obj.path
        /\ obj.text.file = obj.path
    BY DEF FileInv, InDisplayable
  <2>2. obj.text.file \in Files
    BY <2>1 DEF TextInv, Files
  <2> QED
    BY <2>1, <2>2 DEF TextInv, Shows
<1> QED
  BY <1>1, <1>2, <1>3, AlwaysText, AlwaysAgree, PTL DEF Spec

-----------------------------------------------------------------------------
(* The source file.                                                        *)

SourceLines == [file : Sources, line : Nat \ {0}]

LEMMA Addr2LineTyped ==
  ASSUME NEW object, NEW a \in Int
  PROVE  addr2Line(object, a) \in SourceLines \cup {Unknown}
<1> DEFINE here == {f \in Functions : Place[f].object = object /\ a >= 0
                                        /\ Within(f, a + Place[f].base)}
           f    == CHOOSE g \in here : TRUE
<1>1. CASE here = {}
  BY <1>1 DEF addr2Line
<1>2. CASE here # {}
  <2>1. addr2Line(object, a) = Lines[f][a + Place[f].base - Place[f].start]
    BY <1>2 DEF addr2Line
  <2>2. f \in here
    BY <1>2
  <2>3. f \in Functions /\ Within(f, a + Place[f].base)
    BY <2>2
  <2> HIDE DEF f, here
  <2>4. /\ Place[f].start \in Nat /\ Place[f].base \in Nat /\ Place[f].size \in Nat
    BY <2>3, Placed
  <2>5. a + Place[f].base - Place[f].start \in 0 .. Place[f].size - 1
    <3>1. \A x \in Int, b, s, z \in Nat : x + b \in s .. s + z - 1 => x + b - s \in 0 .. z - 1
      OBVIOUS
    <3> QED
      BY <2>3, <2>4, <3>1 DEF Within
  <2>6. Lines[f] \in [0 .. Place[f].size - 1 -> SourceLines \cup {Unknown}]
    BY <2>3, ViewsAssumption DEF SourceLines
  <2> QED
    BY <2>1, <2>5, <2>6
<1> QED
  BY <1>1, <1>2

LEMMA FrameLineTyped ==
  ASSUME TableIsRight, NEW frame, frame.address \in Int, frame.offset \in Int, NEW s
  PROVE  LineOfFrame(frame, s) \in SourceLines \cup {Unknown}
<1> DEFINE found == findInTable(symtab, frame.address)
           a     == InObject(frame, found.table) - (IF s = "kStopped" THEN 1 ELSE 0)
<1>1. CASE found.symbol = NoSymbol
  BY <1>1 DEF LineOfFrame
<1>2. CASE found.symbol # NoSymbol
  <2>1. found.table.base \in Nat
    BY <1>2, TableFound
  <2>2. a \in Int
    BY <2>1 DEF InObject
  <2>3. LineOfFrame(frame, s) = addr2Line(found.table.object, a)
    BY <1>2 DEF LineOfFrame
  <2> HIDE DEF a, found
  <2> QED
    BY <2>2, <2>3, Addr2LineTyped
<1> QED
  BY <1>1, <1>2

\* What the view keeps a path for is the file it shows, read since the process was made.
SourceInv(v) ==
  /\ v \in CodeView
  /\ v.path # NoFile => /\ v.path \in Sources \ Unopenable /\ v.label = v.path
                        /\ v.text.file = v.path /\ ~v.text.old
  /\ v.line # NoLine => v.path # NoFile

LEMMA SourceRead ==
  ASSUME NEW v, SourceInv(v), NEW f \in Sources, NEW n \in Int
  PROVE  LET w == Source(v, f, n)
         IN /\ SourceInv(w) /\ w.of = v.of /\ w.status = v.status
            /\ f \in Unopenable => w.line = NoLine
            /\ f \notin Unopenable => w.label = f /\ w.line = Highlighted(n)
<1> DEFINE w == Source(v, f, n)
<1>1. w \in CodeView /\ IsView(v) /\ f # NoFile
  BY ReadsTyped, ViewsTyped, ViewsAssumption DEF SourceInv, Files
<1>2. CASE f = v.path
  <2>1. w = [v EXCEPT !.line = Highlighted(n)]
    BY <1>2 DEF Source
  <2>2. /\ w.line = Highlighted(n) /\ w.path = v.path /\ w.label = v.label /\ w.text = v.text
        /\ w.of = v.of /\ w.status = v.status
    BY <1>1, <2>1 DEF IsView, Has
  <2> HIDE DEF w
  <2> QED
    BY <1>1, <1>2, <2>2 DEF SourceInv, w
<1>3. CASE f # v.path /\ f \in Unopenable
  <2>1. w = [v EXCEPT !.path = NoFile, !.text = Notice(NotOpened), !.line = NoLine]
    BY <1>3 DEF Source
  <2>2. w.line = NoLine /\ w.path = NoFile /\ w.of = v.of /\ w.status = v.status
    BY <1>1, <2>1 DEF IsView, Has
  <2> HIDE DEF w
  <2> QED
    BY <1>1, <1>3, <2>2 DEF SourceInv, w
<1>4. CASE f # v.path /\ f \notin Unopenable
  <2>1. w = [v EXCEPT !.path = f, !.text = Contents(f), !.label = f, !.line = Highlighted(n)]
    BY <1>4 DEF Source
  <2>2. /\ w.line = Highlighted(n) /\ w.path = f /\ w.label = f /\ w.text = Contents(f)
        /\ w.of = v.of /\ w.status = v.status
    BY <1>1, <2>1 DEF IsView, Has
  <2>3. w.text.file = f /\ ~w.text.old
    BY <2>2 DEF Contents
  <2> HIDE DEF w
  <2> QED
    BY <1>1, <1>4, <2>2, <2>3 DEF SourceInv, w
<1> QED
  BY <1>2, <1>3, <1>4

\* The frames of a trace stand at integers.
LEMMA FramesTyped ==
  ASSUME NEW st \in Halts \cup {NoStack}, NEW trace \in getStackTrace(st), NEW i \in 1 .. Len(trace.frames)
  PROVE  trace.frames[i].address \in Int /\ trace.frames[i].offset \in Int
<1>1. i \in 1 .. Cut(st).size /\ Len(st) \in Nat /\ Cut(st).size \in 0 .. Len(st)
  BY TraceFrames
<1>2. PICK offset \in Offsets(st[i]) : offset \in Int /\ trace.frames[i] = FrameAt(st[i], offset)
  BY <1>1, TraceFrames
<1>3. i \in 1 .. Len(st)
  BY <1>1
<1>4. st \in Halts
  BY <1>3 DEF NoStack
<1>5. st[i] \in Nat
  BY <1>3, <1>4, PlaceOf
<1> QED
  BY <1>2, <1>5 DEF FrameAt

\* The first frame with a known line.
FirstKnown(frames, s) == SelectInSeq(frames, LAMBDA frame : LineOfFrame(frame, s) # Unknown)

LEMMA FirstKnownIs ==
  ASSUME NEW frames, Len(frames) \in Nat, NEW s
  PROVE  LET i == FirstKnown(frames, s)
         IN /\ i = 0 => \A j \in 1 .. Len(frames) : LineOfFrame(frames[j], s) = Unknown
            /\ i # 0 => /\ i \in 1 .. Len(frames) /\ LineOfFrame(frames[i], s) # Unknown
                        /\ \A j \in 1 .. Len(frames) :
                             LineOfFrame(frames[j], s) # Unknown => i <= j
<1> DEFINE known == {j \in 1 .. Len(frames) : LineOfFrame(frames[j], s) # Unknown}
           i     == FirstKnown(frames, s)
<1>1. i = IF known # {} THEN Min(known) ELSE 0
  BY DEF FirstKnown, SelectInSeq
<1>2. known \subseteq Nat /\ \A j \in known : j # 0
  OBVIOUS
<1>3. CASE known = {}
  BY <1>1, <1>3
<1>4. CASE known # {}
  <2>1. Min(known) \in known /\ \A j \in known : Min(known) <= j
    BY <1>2, <1>4, MinOf
  <2>2. i = Min(known)
    BY <1>1, <1>4
  <2> HIDE DEF i
  <2>3. i \in known /\ (\A j \in known : i <= j) /\ i # 0
    BY <1>2, <2>1, <2>2
  <2> QED
    BY <2>3 DEF i
<1> QED
  BY <1>3, <1>4

\* What the view shows of a stop.
LEMMA SourceRefreshed ==
  ASSUME TableIsRight, SourceInv(src), NEW st \in Halts \cup {NoStack}, NEW trace,
         trace.frames = <<>> \/ (st \in Halts /\ trace \in getStackTrace(st)),
         NEW s, trace.frames # <<>> => s \in {"kStopped", "kKilled", "kExited"}
  PROVE  LET w     == RefreshSource(st, s, trace)
             i     == FirstKnown(trace.frames, s)
             where == LineOfFrame(trace.frames[i], s)
         IN /\ SourceInv(w)
            /\ trace.frames = <<>> => w.line = NoLine /\ w.of = NoStack
            /\ trace.frames # <<>> => /\ w.of = st /\ w.status = s
                                      /\ i = 0 => w.line = NoLine
                                      /\ i # 0 => /\ where \in SourceLines
                                                  /\ where.file \in Unopenable => w.line = NoLine
                                                  /\ where.file \notin Unopenable =>
                                                       /\ w.label = where.file
                                                       /\ w.line = Highlighted(where.line - 1)
<1> DEFINE w     == RefreshSource(st, s, trace)
           i     == FirstKnown(trace.frames, s)
           where == LineOfFrame(trace.frames[i], s)
<1>1. CASE trace.frames = <<>>
  <2>1. w = Unselect(src) /\ IsView(src) /\ w \in CodeView
    BY <1>1, ViewsTyped DEF RefreshSource, SourceInv
  <2>2. w.path = src.path /\ w.text = src.text /\ w.label = src.label /\ w.line = NoLine /\ w.of = NoStack
    BY <2>1 DEF Unselect, IsView, Has, NoStack
  <2> QED
    BY <1>1, <2>1, <2>2 DEF SourceInv
<1>2. CASE trace.frames # <<>>
  <2> DEFINE view == [src EXCEPT !.of = st, !.status = s]
  <2>1. /\ view \in CodeView /\ view.of = st /\ view.status = s /\ view.path = src.path
        /\ view.text = src.text /\ view.label = src.label /\ view.line = src.line
    <3>1. IsView(src) /\ [src EXCEPT !.of = st] \in CodeView
      BY ViewsTyped DEF SourceInv
    <3>2. view = [[src EXCEPT !.of = st] EXCEPT !.status = s]
      BY <3>1 DEF IsView, Has
    <3>3. view \in CodeView
      BY <1>2, <3>1, <3>2, ViewsTyped
    <3> QED
      BY <3>1, <3>3 DEF IsView, Has
  <2>2. SourceInv(view)
    BY <2>1 DEF SourceInv
  <2>3. Len(trace.frames) \in Nat
    <3>1. trace \in getStackTrace(st)
      BY <1>2
    <3> QED
      BY <3>1, TraceFrames
  <2>4. RefreshSource(st, s, trace) =
          IF i = 0 THEN [view EXCEPT !.path = NoFile, !.line = NoLine]
          ELSE Source(view, where.file, where.line - 1)
    BY <1>2 DEF RefreshSource, FirstKnown
  <2> HIDE DEF view
  <2>5. CASE i = 0
    <3>1. w = [view EXCEPT !.path = NoFile, !.line = NoLine]
      BY <2>4, <2>5
    <3>2. IsView(view) /\ [view EXCEPT !.path = NoFile] \in CodeView
      BY <2>1, ViewsTyped
    <3>3. w = [[view EXCEPT !.path = NoFile] EXCEPT !.line = NoLine]
      BY <3>1, <3>2 DEF IsView, Has
    <3>4. w \in CodeView
      BY <3>2, <3>3, ViewsTyped
    <3>5. w.path = NoFile /\ w.line = NoLine /\ w.of = st /\ w.status = s
      BY <2>1, <3>1, <3>2 DEF IsView, Has
    <3> HIDE DEF w, i, where
    <3> QED
      BY <1>2, <2>5, <3>4, <3>5 DEF SourceInv, w, i, where
  <2>6. CASE i # 0
    <3>1. w = Source(view, where.file, where.line - 1)
      BY <2>4, <2>6
    <3>2. i \in 1 .. Len(trace.frames) /\ where # Unknown
      BY <2>3, <2>6, FirstKnownIs
    <3>3. where \in SourceLines
      BY <1>2, <3>2, FramesTyped, FrameLineTyped
    <3> HIDE DEF where, i, w
    <3>4. where.file \in Sources /\ where.line - 1 \in Int
      BY <3>3 DEF SourceLines
    <3>5. /\ SourceInv(w) /\ w.of = view.of /\ w.status = view.status
          /\ where.file \in Unopenable => w.line = NoLine
          /\ where.file \notin Unopenable => w.label = where.file /\ w.line = Highlighted(where.line - 1)
      BY <2>2, <3>1, <3>4, SourceRead
    <3> QED
      BY <1>2, <2>1, <2>6, <3>3, <3>5 DEF w, i, where
  <2> QED
    BY <2>5, <2>6
<1> QED
  BY <1>1, <1>2

\* When an execution ends the view keeps its file, when one starts it is to be read again.
LEMMA SourceEnds ==
  ASSUME SourceInv(src), CodeEnded \/ CodeStarted
  PROVE  SourceInv(src)' /\ src'.line = NoLine /\ src'.of = NoStack
<1>1. IsView(src) /\ Unselect(src) \in CodeView
  BY ViewsTyped DEF SourceInv
<1>2. CASE CodeEnded
  <2>1. src' = Unselect(src)
    BY <1>2 DEF CodeEnded
  <2>2. /\ src'.path = src.path /\ src'.text = src.text /\ src'.label = src.label
        /\ src'.line = NoLine /\ src'.of = NoStack
    BY <1>1, <2>1 DEF Unselect, IsView, Has, NoStack
  <2> QED
    BY <1>1, <2>1, <2>2 DEF SourceInv
<1>3. CASE CodeStarted
  <2> DEFINE cleared == [Clear(src) EXCEPT !.path = NoFile]
  <2>1. Clear(src) \in CodeView /\ IsView(Clear(src)) /\ IsView(Unselect(src))
    BY <1>1, ViewsTyped DEF SourceInv
  <2>2. cleared \in CodeView /\ cleared.path = NoFile /\ cleared.line = NoLine /\ cleared.of = NoStack
    <3>1. cleared \in CodeView
      BY <2>1, ViewsTyped
    <3>2. Clear(src).line = NoLine /\ Clear(src).of = NoStack
      BY <1>1, <2>1 DEF Clear, Unselect, IsView, Has, NoStack
    <3> QED
      BY <2>1, <3>1, <3>2 DEF IsView, Has
  <2>3. src' = Aged(cleared)
    BY <1>3 DEF CodeStarted
  <2> HIDE DEF cleared
  <2>4. IsView(cleared) /\ src' \in CodeView
    BY <2>2, <2>3, ViewsTyped
  <2>5. src'.path = NoFile /\ src'.line = NoLine /\ src'.of = NoStack
    BY <2>2, <2>3, <2>4 DEF Aged, IsView, Has
  <2> QED
    BY <2>4, <2>5 DEF SourceInv
<1> QED
  BY <1>2, <1>3

\* The status a view that gets a trace reads.
LEMMA ProbedStatus ==
  TraceeInv /\ isProbeable => status \in {"kStopped", "kKilled", "kExited"}
BY DEF TraceeInv, isProbeable, Reports

LEMMA SourceStep ==
  ASSUME TableIsRight
  PROVE  TraceeInv /\ SourceInv(src) /\ [Next]_vars => SourceInv(src)'
<1> SUFFICES ASSUME TraceeInv, SourceInv(src), [Next]_vars PROVE SourceInv(src)'
  OBVIOUS
<1>1. CASE RefreshSourceView
  <2>1. PICK trace \in ProbedTraces : src' = RefreshSource(stack, status, trace)
    BY <1>1 DEF RefreshSourceView
  <2>2. SourceInv(src')
    BY <2>1, ProbedTrace, ProbedStatus, SourceRefreshed
  <2> QED
    BY <2>2 DEF SourceInv
<1>2. CASE CodeEnded \/ CodeStarted
  BY <1>2, SourceEnds
<1>3. CASE UNCHANGED src
  BY <1>3 DEF SourceInv
<1> QED
  BY <1>1, <1>2, <1>3
  DEF Next, StopAt, Exit, Record, ResumeTracee, resetBreakpoint, signalReceived, Refresh,
      RefreshSourceView, RefreshObjdumpView, UpdateStackView, UpdateVariableView,
      UpdateLibraryView, ToggleExecution, Singlestep, AbortExecution, Launch, LaunchFails, vars,
      codeVars

LEMMA AlwaysSource ==
  ASSUME TableIsRight
  PROVE  Spec => []SourceInv(src)
<1>1. Init => SourceInv(src)
  BY NoViewTyped DEF Init, CodeInit, SourceInv
<1>2. TraceeInv /\ SourceInv(src) /\ [Next]_vars => SourceInv(src)'
  BY SourceStep
<1> QED
  BY <1>1, <1>2, AlwaysAgree, PTL DEF Spec

\* A highlighted line is a line of the file the view names, which is the one the tracee
\* stands in, and was read since the process was made.
THEOREM SelectionCorrect ==
  ASSUME TableIsRight, NoStray
  PROVE  Spec => []SelectionIsCurrent
<1>1. TextInv(obj) /\ LineInv(obj) /\ SourceInv(src) => SelectionIsCurrent
  <2> SUFFICES ASSUME TextInv(obj), LineInv(obj), SourceInv(src) PROVE SelectionIsCurrent
    OBVIOUS
  <2>1. obj.line # NoLine => Shows(obj, Home(Head(obj.of)))
    BY DEF TextInv, LineInv, Shows, Files
  <2>2. src.line # NoLine => src.label \in Sources /\ Shows(src, src.label)
    BY DEF SourceInv, Shows
  <2> QED
    BY <2>1, <2>2 DEF SelectionIsCurrent
<1> QED
  BY <1>1, AlwaysObjdump, AlwaysSource, PTL

-----------------------------------------------------------------------------
(* The types of all variables.                                             *)

TabsInv == registers \in Halts \cup {NoStack} /\ libraries \in BOOLEAN

LEMMA TabsStep == TraceeInv /\ TabsInv /\ [Next]_vars => TabsInv'
<1> SUFFICES ASSUME TraceeInv, TabsInv, [Next]_vars PROVE TabsInv'
  OBVIOUS
<1>1. CASE UpdateVariableView
  BY <1>1 DEF UpdateVariableView, ReadRegisters, TraceeInv, TabsInv
<1>2. CASE UpdateLibraryView
  BY <1>2 DEF UpdateLibraryView, ListLibraries, TraceeInv, TabsInv
<1>3. CASE InformationEnded \/ InformationStarted
  BY <1>3 DEF InformationEnded, InformationStarted, TabsInv
<1>4. CASE UNCHANGED <<registers, libraries>>
  BY <1>4 DEF TabsInv
<1> QED
  BY <1>1, <1>2, <1>3, <1>4
  DEF Next, StopAt, Exit, Record, ResumeTracee, resetBreakpoint, signalReceived, Refresh,
      RefreshSourceView, RefreshObjdumpView, UpdateStackView, ToggleExecution, Singlestep,
      AbortExecution, Launch, LaunchFails, vars, informationVars

\* Every variable has its type: the texts, labels and lines of the views too, whatever is
\* read, kept, cleared or aged.
THEOREM TypeCorrect ==
  ASSUME TableIsRight
  PROVE  Spec => []TypeOK
<1>1. Init => TabsInv
  BY DEF Init, InformationInit, TabsInv
<1>2. TraceeInv /\ TabsInv /\ [Next]_vars => TabsInv'
  BY TabsStep
<1>3. TraceeInv /\ TextInv(obj) /\ SourceInv(src) /\ RowsInv /\ TabsInv => TypeOK
  <2> SUFFICES ASSUME TraceeInv, TextInv(obj), SourceInv(src), RowsInv, TabsInv PROVE TypeOK
    OBVIOUS
  <2>1. obj \in CodeView /\ src \in CodeView
    BY DEF TextInv, SourceInv
  <2>2. (stack # NoStack) = (tstate = "stopped")
    BY Zenon DEF TraceeInv
  <2>3. turn \in 0 .. Len(Views)
    BY DEF TraceeInv, Views
  <2>4. tracer \in BOOLEAN /\ worker \in BOOLEAN /\ tstate \in {"running", "stopped", "dead"}
    BY DEF TraceeInv
  <2>5. /\ Len(rows.frames) <= MaxFrames + 1 /\ rows.of \in Stacks \cup {Entry, NoStack}
        /\ registers \in Stacks \cup {Entry, NoStack} /\ libraries \in BOOLEAN
    BY DEF RowsInv, TabsInv, Halts
  <2> QED
    BY <2>1, <2>2, <2>3, <2>4, <2>5, Zenon DEF TypeOK
<1> QED
  BY <1>1, <1>2, <1>3, AlwaysText, AlwaysSource, AlwaysRows, AlwaysAgree, PTL DEF Spec

-----------------------------------------------------------------------------
(* The line of the source file.                                            *)

\* No two functions share an address.
LEMMA OneFunction ==
  ASSUME NEW f \in Functions, NEW a \in Int, Within(f, a)
  PROVE  (\A g \in Functions : Within(g, a) => g = f) /\ FunctionAt(a) = f
<1>1. ASSUME NEW g \in Functions, Within(g, a), g # f PROVE FALSE
  <2>1. \/ Place[f].start + Place[f].size <= Place[g].start
        \/ Place[g].start + Place[g].size <= Place[f].start
    BY <1>1, StackAssumption
  <2>2. /\ Place[f].start \in Nat /\ Place[f].size \in Nat
        /\ Place[g].start \in Nat /\ Place[g].size \in Nat
    BY Placed
  <2>3. /\ Place[f].start <= a /\ a <= Place[f].start + Place[f].size - 1
        /\ Place[g].start <= a /\ a <= Place[g].start + Place[g].size - 1
    BY <1>1, <2>2 DEF Within
  <2> QED
    BY <2>1, <2>2, <2>3
<1>2. \A g \in Functions : Within(g, a) => g = f
  BY <1>1
<1>3. FunctionAt(a) = f
  BY <1>2 DEF FunctionAt
<1> QED
  BY <1>2, <1>3

\* The line of an instruction of a function that is looked up in its object.
LEMMA LineInObject ==
  ASSUME LinesAreTabled, NEW f \in Functions, NEW a \in Int, Within(f, a)
  PROVE  addr2Line(Place[f].object, a - Place[f].base) = Lines[f][a - Place[f].start]
<1> DEFINE x    == a - Place[f].base
           here == {g \in Functions : Place[g].object = Place[f].object /\ x >= 0
                                        /\ Within(g, x + Place[g].base)}
<1>1. Place[f].start \in Nat /\ Place[f].base \in Nat /\ Place[f].size \in Nat
  BY Placed
<1>2. x \in Int /\ x >= 0 /\ x + Place[f].base = a
  <2>1. Place[f].base <= Place[f].start
    BY DEF LinesAreTabled
  <2>2. a >= Place[f].start
    BY <1>1 DEF Within
  <2>3. \A b, s \in Nat : b <= s /\ a >= s => a - b \in Int /\ a - b >= 0 /\ a - b + b = a
    OBVIOUS
  <2> QED
    BY <1>1, <2>1, <2>2, <2>3
<1> HIDE DEF x
<1>3. ASSUME NEW g \in here PROVE g = f
  <2>1. g \in Functions /\ Place[g].object = Place[f].object /\ Within(g, x + Place[g].base)
    OBVIOUS
  <2>2. Place[g].base = Place[f].base
    BY <2>1 DEF LinesAreTabled
  <2>3. Within(g, a)
    BY <1>2, <2>1, <2>2
  <2> QED
    BY <2>1, <2>3, OneFunction
<1>4. f \in here
  BY <1>2
<1>5. here # {} /\ (CHOOSE g \in here : TRUE) = f
  BY <1>3, <1>4
<1>6. addr2Line(Place[f].object, x) = Lines[f][x + Place[f].base - Place[f].start]
  BY <1>5 DEF addr2Line
<1>7. x + Place[f].base - Place[f].start = a - Place[f].start
  BY <1>1, <1>2
<1>8. addr2Line(Place[f].object, x) = Lines[f][a - Place[f].start]
  BY <1>6, <1>7, Zenon
<1> QED
  BY <1>8 DEF x

\* Whatever offset libunwind leaves, the line looked up for a frame is the one of the stop;
\* except where a stopped tracee is at the entry of a function.
LEMMA FrameLine ==
  ASSUME TableIsRight, NoStray, LinesAreTabled, NEW st \in Halts, NEW i \in 1 .. Len(st),
         NEW offset \in Offsets(st[i]), NEW s \in {"kStopped", "kKilled", "kExited"},
         ~(s = "kStopped" /\ AtEntry(st[i]))
  PROVE  LineOfFrame(FrameAt(st[i], offset), s) = LineOfStop(st[i], s)
<1> DEFINE pc == st[i]
           f  == FunctionAt(pc)
           d  == IF s = "kStopped" THEN 1 ELSE 0
<1>1. pc \in Nat /\ f \in Functions /\ Within(f, pc)
  BY PlaceOf
<1>2. Place[f].start \in Nat /\ Place[f].base \in Nat /\ Place[f].size \in Nat
  BY <1>1, Placed
<1>3. pc - d \in Int /\ Within(f, pc - d) /\ d \in {0, 1}
  <2>1. CASE s = "kStopped"
    <3>1. pc # Place[f].start /\ d = 1
      BY <2>1 DEF AtEntry
    <3>2. \A p, a, z \in Nat : p \in a .. a + z - 1 /\ p # a => p - 1 \in a .. a + z - 1
      OBVIOUS
    <3>3. pc - 1 \in Int /\ Within(f, pc - 1)
      BY <1>1, <1>2, <3>1, <3>2 DEF Within
    <3> QED
      BY <3>1, <3>3
  <2>2. CASE s # "kStopped"
    BY <1>1, <2>2
  <2> QED
    BY <2>1, <2>2
<1>4. LineOfStop(pc, s) = Lines[f][pc - d - Place[f].start]
  <2>1. FunctionAt(pc - d) = f
    BY <1>1, <1>3, OneFunction
  <2>2. LineAt(pc - d) = Lines[f][pc - d - Place[f].start]
    BY <2>1 DEF LineAt
  <2>3. CASE s = "kStopped"
    BY <2>2, <2>3 DEF LineOfStop
  <2>4. CASE s # "kStopped"
    <3>1. pc - d = pc
      BY <1>1, <2>4
    <3> QED
      BY <2>2, <2>4, <3>1 DEF LineOfStop
  <2> QED
    BY <2>3, <2>4
<1>5. ~Listed(f) => LineOfStop(pc, s) = Unknown
  <2>1. pc - d - Place[f].start \in 0 .. Place[f].size - 1
    <3>1. \A x \in Int, a, z \in Nat : x \in a .. a + z - 1 => x - a \in 0 .. z - 1
      OBVIOUS
    <3> QED
      BY <1>2, <1>3, <3>1 DEF Within
  <2>2. DOMAIN Lines[f] = 0 .. Place[f].size - 1
    BY <1>1, ViewsAssumption
  <2> QED
    BY <1>1, <1>4, <2>1, <2>2 DEF LinesAreTabled
<1>6. CASE f \notin Named
  <2>1. offset \in Unset
    BY <1>6 DEF Offsets
  <2>2. i \in DOMAIN st
    <3>1. st \in Seq(Nat)
      BY PanelAssumption DEF Halts
    <3> QED
      BY <3>1
  <2>3. LineOfFrame(FrameAt(pc, offset), s) = Unknown
    BY <1>6, <2>1, <2>2 DEF NoStray, Halts
  <2> QED
    BY <1>5, <1>6, <2>3 DEF Listed
<1>7. CASE f \in Named
  <2> DEFINE found == findInTable(symtab, Place[f].start)
  <2>1. FrameAt(pc, offset).address = Place[f].start /\ FrameAt(pc, offset).offset = offset
    BY <1>7, NamedFrame DEF FrameAt
  <2>2. Place[f].start + offset = pc
    BY <1>7, <2>1, NamedFrame
  <2>3. CASE found.symbol = NoSymbol
    <3>1. LineOfFrame(FrameAt(pc, offset), s) = Unknown
      BY <2>1, <2>3 DEF LineOfFrame
    <3>2. ~Listed(f)
      BY <2>3 DEF Listed, ByAddress
    <3> QED
      BY <1>5, <3>1, <3>2
  <2>4. CASE found.symbol # NoSymbol
    <3>1. found.table.object = Place[f].object /\ found.table.base = Place[f].base
      BY <1>7, <2>4 DEF TableIsRight
    <3>2. InObject(FrameAt(pc, offset), found.table) - d = pc - d - Place[f].base
      <4>1. \A p, b \in Nat : \A e \in {0, 1} : p - b - e = p - e - b
        OBVIOUS
      <4>2. InObject(FrameAt(pc, offset), found.table) = pc - Place[f].base
        <5> DEFINE frame == FrameAt(pc, offset)
        <5>1. InObject(frame, found.table) = frame.address + frame.offset - found.table.base
          BY DEF InObject
        <5>2. frame.address = Place[f].start /\ frame.offset = offset
          BY <2>1
        <5> HIDE DEF frame, found, f, pc
        <5>3. InObject(frame, found.table) = Place[f].start + offset - Place[f].base
          BY <3>1, <5>1, <5>2, Zenon
        <5>4. offset \in Int
          BY <1>7, <1>1, <1>2 DEF Offsets, f, pc
        <5>5. \A a, b \in Nat : \A o \in Int : a + o - b = (a + o) - b
          OBVIOUS
        <5>6. Place[f].start + offset - Place[f].base = pc - Place[f].base
          BY <1>2, <2>2, <5>4, <5>5
        <5> QED
          BY <5>3, <5>6, Zenon DEF frame
      <4> HIDE DEF d
      <4> QED
        BY <1>1, <1>2, <1>3, <4>1, <4>2
    <3>3. LineOfFrame(FrameAt(pc, offset), s)
            = addr2Line(found.table.object, InObject(FrameAt(pc, offset), found.table) - d)
      BY <2>1, <2>4 DEF LineOfFrame
    <3> HIDE DEF d
    <3> QED
      BY <1>1, <1>3, <1>4, <3>1, <3>2, <3>3, LineInObject
  <2> QED
    BY <2>3, <2>4
<1> QED
  BY <1>6, <1>7

\* No line that is looked up is the first of its file.
LEMMA NotFirstLine ==
  ASSUME LinesAreTabled, NEW st \in Halts, NEW i \in 1 .. Len(st), NEW s,
         LineOfStop(st[i], s) # Unknown
  PROVE  LineOfStop(st[i], s).line # 1
<1> DEFINE pc == st[i]
           f  == FunctionAt(pc)
<1>1. pc \in Nat /\ f \in Functions /\ Within(f, pc)
  BY PlaceOf
<1>2. Place[f].start \in Nat /\ Place[f].size \in Nat
  BY <1>1, Placed
<1>3. \A g \in Functions, a \in Int : Within(g, a) => LineAt(a).line # 1
  <2> SUFFICES ASSUME NEW g \in Functions, NEW a \in Int, Within(g, a) PROVE LineAt(a).line # 1
    OBVIOUS
  <2>1. FunctionAt(a) = g
    BY OneFunction
  <2>2. Place[g].start \in Nat /\ Place[g].size \in Nat
    BY Placed
  <2>3. a - Place[g].start \in 0 .. Place[g].size - 1
    BY <2>2 DEF Within
  <2>4. DOMAIN Lines[g] = 0 .. Place[g].size - 1
    BY ViewsAssumption
  <2> QED
    BY <2>1, <2>3, <2>4 DEF LineAt, LinesAreTabled
<1>4. CASE s = "kStopped"
  <2>1. pc # Place[f].start
    BY <1>4 DEF LineOfStop, AtEntry
  <2>2. pc - 1 \in Int /\ Within(f, pc - 1)
    <3>1. \A p, a, z \in Nat : p \in a .. a + z - 1 /\ p # a => p - 1 \in a .. a + z - 1
      OBVIOUS
    <3> QED
      BY <1>1, <1>2, <2>1, <3>1 DEF Within
  <2>3. LineOfStop(pc, s) = LineAt(pc - 1)
    BY <1>4, <2>1 DEF LineOfStop, AtEntry
  <2> QED
    BY <1>1, <1>3, <2>2, <2>3
<1>5. CASE s # "kStopped"
  BY <1>1, <1>3, <1>5 DEF LineOfStop
<1> QED
  BY <1>4, <1>5

\* SourceLineIsRight of a view v.
FirstOf(kept, s) == SelectInSeq(kept, LAMBDA pc : LineOfStop(pc, s) # Unknown)
RightLine(v) ==
  LET kept    == SubSeq(v.of, 1, Cut(v.of).size)
      i       == FirstOf(kept, v.status)
      line    == LineOfStop(kept[i], v.status)
      claimed == IF v.status = "kStopped"
                 THEN ~\E j \in DOMAIN kept : AtEntry(kept[j]) /\ (i = 0 \/ j < i)
                 ELSE i <= 1
  IN claimed =>
       IF i = 0 \/ line.file \in Unopenable THEN v.line = NoLine
       ELSE v.label = line.file /\ v.line = line.line - 1

LEMMA FirstOfIs ==
  ASSUME NEW kept, Len(kept) \in Nat, NEW s
  PROVE  LET i == FirstOf(kept, s)
         IN /\ i = 0 => \A j \in 1 .. Len(kept) : LineOfStop(kept[j], s) = Unknown
            /\ i # 0 => /\ i \in 1 .. Len(kept) /\ LineOfStop(kept[i], s) # Unknown
                        /\ \A j \in 1 .. Len(kept) : LineOfStop(kept[j], s) # Unknown => i <= j
<1> DEFINE known == {j \in 1 .. Len(kept) : LineOfStop(kept[j], s) # Unknown}
           i     == FirstOf(kept, s)
<1>1. i = IF known # {} THEN Min(known) ELSE 0
  BY DEF FirstOf, SelectInSeq
<1>2. known \subseteq Nat /\ \A j \in known : j # 0
  OBVIOUS
<1>3. CASE known = {}
  BY <1>1, <1>3
<1>4. CASE known # {}
  <2>1. Min(known) \in known /\ \A j \in known : Min(known) <= j
    BY <1>2, <1>4, MinOf
  <2>2. i = Min(known)
    BY <1>1, <1>4
  <2> HIDE DEF i
  <2>3. i \in known /\ (\A j \in known : i <= j) /\ i # 0
    BY <1>2, <2>1, <2>2
  <2> QED
    BY <2>3 DEF i
<1> QED
  BY <1>3, <1>4

\* A view without a stack highlights nothing, and claims nothing else.
LEMMA NoStackNoLine ==
  ASSUME NEW v, v.of = NoStack, v.line = NoLine
  PROVE  RightLine(v)
<1> DEFINE kept == SubSeq(v.of, 1, Cut(v.of).size)
<1>1. Cut(NoStack).size = 0
  BY StackAssumption DEF Cut, NoStack
<1>2. kept = <<>> /\ Len(kept) = 0
  BY <1>1 DEF NoStack
<1> HIDE DEF kept
<1>3. FirstOf(kept, v.status) = 0
  BY <1>2, FirstOfIs
<1> QED
  BY <1>3 DEF RightLine, kept

\* Where the same frame is the first of both, the view highlights its line.
LEMMA LineRight ==
  ASSUME TableIsRight, NoStray, LinesAreTabled, SourceInv(src), NEW st \in Halts,
         NEW trace \in getStackTrace(st), NEW s \in {"kStopped", "kKilled", "kExited"}
  PROVE  RightLine(RefreshSource(st, s, trace))
<1> DEFINE w    == RefreshSource(st, s, trace)
           m    == Cut(st).size
           kept == SubSeq(st, 1, m)
           i    == FirstKnown(trace.frames, s)
           k    == FirstOf(kept, s)
           where == LineOfFrame(trace.frames[i], s)
<1>1. /\ m \in 0 .. Len(st) /\ Len(st) \in Nat /\ Len(trace.frames) = m
      /\ \A j \in 1 .. m : \E offset \in Offsets(st[j]) : trace.frames[j] = FrameAt(st[j], offset)
  BY TraceFrames
<1>2. trace.frames # <<>>
  BY InnermostFrame
<1>3. /\ Len(kept) = m /\ DOMAIN kept = 1 .. m
      /\ \A j \in 1 .. m : kept[j] = st[j]
  <2>1. st \in Seq(Nat)
    BY PanelAssumption DEF Halts
  <2> HIDE DEF m
  <2> QED
    BY <1>1, <2>1
<1>4. /\ w.of = st /\ w.status = s
      /\ i = 0 => w.line = NoLine
      /\ i # 0 => /\ where \in SourceLines
                  /\ where.file \in Unopenable => w.line = NoLine
                  /\ where.file \notin Unopenable => /\ w.label = where.file
                                                     /\ w.line = Highlighted(where.line - 1)
  BY <1>2, SourceRefreshed
<1>5. ASSUME NEW j \in 1 .. m, ~(s = "kStopped" /\ AtEntry(kept[j]))
      PROVE  LineOfFrame(trace.frames[j], s) = LineOfStop(kept[j], s)
  <2>1. j \in 1 .. Len(st) /\ kept[j] = st[j]
    BY <1>1, <1>3
  <2>2. PICK offset \in Offsets(st[j]) : trace.frames[j] = FrameAt(st[j], offset)
    BY <1>1
  <2> HIDE DEF kept
  <2> QED
    BY <1>5, <2>1, <2>2, FrameLine
<1>6. \A j \in 1 .. m : s = "kStopped" /\ AtEntry(kept[j]) => LineOfStop(kept[j], s) = Unknown
  BY DEF LineOfStop
<1>7. /\ i = 0 => \A j \in 1 .. m : LineOfFrame(trace.frames[j], s) = Unknown
      /\ i # 0 => /\ i \in 1 .. m /\ LineOfFrame(trace.frames[i], s) # Unknown
                  /\ \A j \in 1 .. m : LineOfFrame(trace.frames[j], s) # Unknown => i <= j
  BY <1>1, FirstKnownIs
<1> HIDE DEF i, kept, m, where, w
<1>8. /\ k = 0 => \A j \in 1 .. m : LineOfStop(kept[j], s) = Unknown
      /\ k # 0 => /\ k \in 1 .. m /\ LineOfStop(kept[k], s) # Unknown
                  /\ \A j \in 1 .. m : LineOfStop(kept[j], s) # Unknown => k <= j
  BY <1>1, <1>3, FirstOfIs
<1> DEFINE line    == LineOfStop(kept[k], s)
           claimed == IF s = "kStopped"
                      THEN ~\E j \in DOMAIN kept : AtEntry(kept[j]) /\ (k = 0 \/ j < k)
                      ELSE k <= 1
<1> HIDE DEF k
<1>9. m \in Nat
  BY <1>1
<1>10. ASSUME claimed PROVE i = k
  <2>1. CASE k = 0
    <3>1. \A j \in 1 .. m : ~(s = "kStopped" /\ AtEntry(kept[j]))
      BY <1>3, <1>10, <2>1
    <3>2. \A j \in 1 .. m : LineOfFrame(trace.frames[j], s) = Unknown
      BY <1>5, <1>8, <2>1, <3>1
    <3> QED
      BY <1>7, <2>1, <3>2
  <2>2. CASE k # 0
    <3>1. k \in 1 .. m /\ LineOfStop(kept[k], s) # Unknown
      BY <1>8, <2>2
    <3>2. LineOfFrame(trace.frames[k], s) # Unknown
      BY <1>5, <1>6, <3>1
    <3>3. ASSUME NEW j \in 1 .. m, j < k PROVE LineOfFrame(trace.frames[j], s) = Unknown
      <4>1. ~(s = "kStopped" /\ AtEntry(kept[j]))
        BY <1>3, <1>10, <3>3
      <4>2. LineOfStop(kept[j], s) = Unknown
        BY <1>8, <1>9, <2>2, <3>1, <3>3
      <4> QED
        BY <1>5, <4>1, <4>2
    <3>4. i # 0 /\ i \in 1 .. m /\ i <= k
      BY <1>7, <3>1, <3>2
    <3>5. ~(i < k)
      BY <1>7, <3>3, <3>4
    <3> QED
      BY <1>9, <3>1, <3>4, <3>5
  <2> QED
    BY <2>1, <2>2
<1>11. ASSUME claimed
       PROVE  IF k = 0 \/ line.file \in Unopenable THEN w.line = NoLine
              ELSE w.label = line.file /\ w.line = line.line - 1
  <2>1. CASE k = 0
    BY <1>4, <1>10, <1>11, <2>1
  <2>2. CASE k # 0
    <3>1. i = k /\ k \in 1 .. m
      BY <1>8, <1>10, <1>11, <2>2
    <3>2. ~(s = "kStopped" /\ AtEntry(kept[k]))
      BY <1>6, <1>8, <2>2
    <3>3. where = line
      BY <1>5, <3>1, <3>2 DEF where
    <3>4. line \in SourceLines
      BY <1>4, <2>2, <3>1, <3>3
    <3>5. line.line # 1
      <4>1. k \in 1 .. Len(st) /\ kept[k] = st[k]
        BY <1>1, <1>3, <3>1
      <4> QED
        BY <2>2, <3>4, <4>1, NotFirstLine, <1>8
    <3>6. Highlighted(line.line - 1) = line.line - 1
      <4>1. line.line \in Nat \ {0, 1}
        BY <3>4, <3>5 DEF SourceLines
      <4> HIDE DEF line
      <4> QED
        BY <4>1 DEF Highlighted
    <3> HIDE DEF line
    <3> QED
      BY <1>4, <2>2, <3>1, <3>3, <3>6
  <2> QED
    BY <2>1, <2>2
<1>12. RightLine(w) = (claimed => IF k = 0 \/ line.file \in Unopenable THEN w.line = NoLine
                                  ELSE w.label = line.file /\ w.line = line.line - 1)
  BY <1>4 DEF RightLine, k, kept, m
<1> QED
  BY <1>11, <1>12 DEF w

\* The highlighted source line is that of the innermost frame that has one: of the
\* instruction a stopped tracee executed last, of the one a crashed tracee stands at, of the
\* call a caller is in.
THEOREM SourceLineCorrect ==
  ASSUME TableIsRight, NoStray, LinesAreTabled
  PROVE  Spec => []SourceLineIsRight
<1>1. Init => RightLine(src)
  BY NoViewTyped, NoStackNoLine DEF Init, CodeInit
<1>2. TraceeInv /\ SourceInv(src) /\ RightLine(src) /\ [Next]_vars => RightLine(src)'
  <2> SUFFICES ASSUME TraceeInv, SourceInv(src), RightLine(src), [Next]_vars
               PROVE  RightLine(src)'
    OBVIOUS
  <2>1. CASE RefreshSourceView
    <3>1. PICK trace \in ProbedTraces : src' = RefreshSource(stack, status, trace)
      BY <2>1 DEF RefreshSourceView
    <3>2. CASE trace.frames = <<>>
      <4>1. src'.line = NoLine /\ src'.of = NoStack
        BY <3>1, <3>2, ProbedTrace, ProbedStatus, SourceRefreshed
      <4>2. RightLine(src')
        BY <4>1, NoStackNoLine
      <4> QED
        BY <4>2 DEF RightLine
    <3>3. CASE trace.frames # <<>>
      <4>1. stack \in Halts /\ trace \in getStackTrace(stack) /\ isProbeable
        BY <3>3, ProbedTrace
      <4>2. RightLine(src')
        BY <3>1, <4>1, ProbedStatus, LineRight
      <4> QED
        BY <4>2 DEF RightLine
    <3> QED
      BY <3>2, <3>3
  <2>2. CASE CodeEnded \/ CodeStarted
    <3>1. src'.line = NoLine /\ src'.of = NoStack
      BY <2>2, SourceEnds
    <3>2. RightLine(src')
      BY <3>1, NoStackNoLine
    <3> QED
      BY <3>2 DEF RightLine
  <2>3. CASE UNCHANGED src
    BY <2>3 DEF RightLine
  <2> QED
    BY <2>1, <2>2, <2>3
    DEF Next, StopAt, Exit, Record, ResumeTracee, resetBreakpoint, signalReceived, Refresh,
        RefreshSourceView, RefreshObjdumpView, UpdateStackView, UpdateVariableView,
        UpdateLibraryView, ToggleExecution, Singlestep, AbortExecution, Launch, LaunchFails, vars,
        codeVars
<1>3. RightLine(src) => SourceLineIsRight
  BY DEF RightLine, FirstOf, SourceLineIsRight
<1> QED
  BY <1>1, <1>2, <1>3, AlwaysSource, AlwaysAgree, PTL DEF Spec
=============================================================================
