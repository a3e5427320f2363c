---------------------------- MODULE PanelViews ----------------------------
(***************************************************************************)
(* What the window shows of the tracee: the views of CodeViews and of      *)
(* InformationViews, connected to the signals of TracerPanel.              *)
(*                                                                         *)
(* signalReceived is delivered to one view after the other; meanwhile the  *)
(* tracee may stop and the worker may record it, as after a resume, whose  *)
(* own signal finds the tracee running.  A stop goes through three states: *)
(* the kernel raised it, the worker recorded its status and posted its     *)
(* signal, the signal was delivered.  Who gets the wait status and what a  *)
(* button allows is in module TracerSession; here any signal posted for an *)
(* earlier event may still be delivered at any time.                       *)
(***************************************************************************)
EXTENDS CodeViews, InformationViews

CONSTANTS
  Stacks,     \* where the tracee may stop
  Entry       \* the stack of a process left at _start

ASSUME PanelAssumption ==
  /\ Stacks \cup {Entry} \subseteq Seq(Nat) \ {<<>>}
  /\ \A stack \in Stacks \cup {Entry} : \A i \in DOMAIN stack :
       \E f \in Functions : Within(f, stack[i])

VARIABLES
  tracer,   \* TracerPanel::process_tracer exists
  tstate,   \* the tracee: running, stopped, or dead
  stack,    \* its stack when it is stopped
  status,   \* Process::status
  stop,     \* the last stop: none, raised (as which status), posted, ignored
  worker,   \* the thread of QtSignalHandler still polls
  turn      \* the view signalReceived is delivered to next, 0 when to none

traceeVars == <<tracer, tstate, stack, status, stop, worker>>
vars == <<traceeVars, turn, codeVars, informationVars>>

NoStop    == [state |-> "none", as |-> "none"]
Raised(s) == [state |-> "raised", as |-> s]
Ended     == {"kDead", "kKilled", "kExited"}
isProbeable == tracer /\ status \notin {"kRunning", "kDead"}

Init ==
  /\ CodeInit /\ InformationInit
  /\ tracer = FALSE /\ tstate = "dead" /\ stack = NoStack /\ status = "kUnknown"
  /\ stop = NoStop /\ worker = FALSE /\ turn = 0

-----------------------------------------------------------------------------
\* The tracee and the worker.

\* A stop by a breakpoint, a step or SIGSTOP, by a signal of the ignored set, or by one
\* that counts as fatal.
StopAt(where) ==
  /\ tstate = "running"
  /\ tstate' = "stopped" /\ stack' = where
  /\ \E as \in {"kStopped", "kRunning", "kKilled"} : stop' = Raised(as)
  /\ UNCHANGED <<tracer, status, worker, turn, codeVars, informationVars>>

Exit ==
  /\ tstate = "running"
  /\ tstate' = "dead" /\ stop' = Raised("kExited")
  /\ UNCHANGED <<tracer, stack, status, worker, turn, codeVars, informationVars>>

\* The worker records a stop and posts its signal.  It ends after an event that ends the
\* process.
Record ==
  /\ worker /\ stop.state = "raised"
  /\ status' = stop.as
  /\ stop' = [state |-> IF stop.as = "kRunning" THEN "ignored" ELSE "posted", as |-> "none"]
  /\ worker' = (stop.as \notin Ended)
  /\ UNCHANGED <<tracer, tstate, stack, turn, codeVars, informationVars>>

-----------------------------------------------------------------------------
\* The GUI thread.

Idle == turn = 0

Continue == /\ tstate' = "running" /\ stack' = NoStack /\ UNCHANGED <<tracer, worker>>

\* A stop nobody collected is lost when the tracee goes on; one the worker holds is not.
Leave == stop' \in {stop} \cup (IF stop.state = "raised" THEN {NoStop} ELSE {})

\* QtSignalHandler::resumeTracee, posted with an ignored event.
ResumeTracee ==
  /\ Idle /\ stop.state = "ignored"
  /\ stop' = [stop EXCEPT !.state = "posted"]
  /\ IF tstate = "stopped" THEN Continue ELSE UNCHANGED <<tracer, tstate, stack, worker>>
  /\ UNCHANGED <<status, turn, codeVars, informationVars>>

\* QtSignalHandler::resetBreakpoint, posted ahead of the signal of a SIGTRAP: the tracee is
\* stepped over its breakpoint while the GUI thread waits, and may end.
resetBreakpoint ==
  /\ Idle /\ stop.state = "posted" /\ tstate = "stopped"
  /\ \/ stack' \in Stacks /\ UNCHANGED tstate
     \/ tstate' = "dead" /\ stack' = NoStack
  /\ UNCHANGED <<tracer, status, stop, worker, turn, codeVars, informationVars>>

\* signalReceived of the last stop, or of an earlier event, reaches the first view.
signalReceived ==
  /\ Idle /\ turn' = 1
  /\ stop' \in {stop} \cup (IF stop.state = "posted" THEN {NoStop} ELSE {})
  /\ UNCHANGED <<tracer, tstate, stack, status, worker, codeVars, informationVars>>

\* The views in the order in which TracerPanel made them.
Views == <<"source", "objdump", "stack", "registers", "libraries">>

\* A trace of the tracee as it is now, empty when it cannot be read.
Traces == getStackTrace(IF tstate = "stopped" THEN stack ELSE NoStack)
NoTrace == [frames |-> <<>>, is_truncated |-> FALSE]
ProbedTraces == IF isProbeable THEN Traces ELSE {NoTrace}

RefreshView(view) ==
  /\ turn > 0 /\ Views[turn] = view
  /\ turn' = (turn + 1) % (Len(Views) + 1)
  /\ UNCHANGED traceeVars

RefreshSourceView ==
  /\ RefreshView("source")
  /\ \E trace \in ProbedTraces : src' = RefreshSource(stack, status, trace)
  /\ UNCHANGED <<obj, informationVars>>

RefreshObjdumpView ==
  /\ RefreshView("objdump")
  /\ \E trace \in ProbedTraces : obj' = RefreshObjdump(stack, trace)
  /\ UNCHANGED <<src, informationVars>>

UpdateStackView ==
  /\ RefreshView("stack")
  /\ IF tracer THEN \E trace \in Traces : rows' = ListStack(stack, trace) ELSE UNCHANGED rows
  /\ UNCHANGED <<codeVars, registers, libraries>>

UpdateVariableView ==
  /\ RefreshView("registers")
  /\ registers' = ReadRegisters(stack, isProbeable)
  /\ UNCHANGED <<codeVars, rows, libraries>>

UpdateLibraryView ==
  /\ RefreshView("libraries")
  /\ libraries' = ListLibraries(tracer)
  /\ UNCHANGED <<codeVars, rows, registers>>

-----------------------------------------------------------------------------
\* TracerPanel's commands.

\* Resume emits a signal of its own; a pause only sends SIGSTOP and sets the status.
ToggleExecution ==
  /\ Idle /\ tracer
  /\ IF status = "kStopped"
     THEN /\ IF tstate = "stopped" THEN Continue /\ status' = "kRunning" /\ Leave
             ELSE UNCHANGED <<tracer, tstate, stack, worker, status, stop>>
          /\ turn' = 1
     ELSE /\ status \notin {"kDead", "kUnknown"} /\ status' = "kStopped"
          /\ UNCHANGED <<tracer, tstate, stack, worker, stop, turn>>
  /\ UNCHANGED <<codeVars, informationVars>>

Singlestep ==
  /\ Idle /\ tracer /\ status = "kStopped" /\ tstate = "stopped"
  /\ Continue /\ Leave
  /\ UNCHANGED <<status, turn, codeVars, informationVars>>

\* The worker may already hold the event that the kill overtakes.
AbortExecution ==
  /\ Idle /\ tracer /\ status \notin {"kDead", "kKilled"}
  /\ tstate' = "dead" /\ stack' = NoStack /\ status' = "kDead"
  /\ stop' \in {stop, NoStop}
  /\ CodeEnded /\ InformationEnded
  /\ UNCHANGED <<tracer, worker, turn>>

\* A restart, or the start of a command; both end the execution that was there.
Launch ==
  /\ Idle
  /\ tracer' = TRUE /\ worker' = TRUE
  /\ tstate' = "stopped" /\ stack' = Entry /\ status' = "kStopped" /\ stop' = NoStop
  /\ CodeStarted /\ InformationStarted
  /\ UNCHANGED turn

\* startExecution ends the tracer before it finds that the command cannot be started.
LaunchFails ==
  /\ Idle /\ tracer
  /\ tracer' = FALSE /\ worker' = FALSE
  /\ tstate' = "dead" /\ stack' = NoStack /\ status' = "kUnknown" /\ stop' = NoStop
  /\ CodeEnded /\ InformationEnded
  /\ UNCHANGED turn

Refresh == \/ RefreshSourceView \/ RefreshObjdumpView \/ UpdateStackView
           \/ UpdateVariableView \/ UpdateLibraryView

Next ==
  \/ \E where \in Stacks : StopAt(where)
  \/ Exit \/ Record
  \/ ResumeTracee \/ resetBreakpoint \/ signalReceived \/ Refresh
  \/ ToggleExecution \/ Singlestep \/ AbortExecution \/ Launch \/ LaunchFails

Spec == Init /\ [][Next]_vars

-----------------------------------------------------------------------------
Texts == {Empty, Notice(TooLarge), Notice(NotOpened)}
           \cup [file : Files, old : BOOLEAN]
CodeView == [path : Files \cup {NoFile}, text : Texts, label : Files \cup {NoFile},
             line : Int, of : Stacks \cup {Entry, NoStack},
             status : {"none", "kStopped", "kKilled", "kExited"}]

\* Every variable has its type.
TypeOK ==
  /\ obj \in CodeView /\ src \in CodeView
  /\ Len(rows.frames) <= MaxFrames + 1 /\ rows.of \in Stacks \cup {Entry, NoStack}
  /\ registers \in Stacks \cup {Entry, NoStack} /\ libraries \in BOOLEAN
  /\ tracer \in BOOLEAN /\ worker \in BOOLEAN
  /\ tstate \in {"running", "stopped", "dead"} /\ (stack # NoStack) = (tstate = "stopped")
  /\ turn \in 0 .. Len(Views)

\* The function an address is in, and where that is.
Home(pc)      == Place[FunctionAt(pc)].object

\* A highlighted line is a line of the file the tracee stands in: the view names that file,
\* the text is that file's, and it was not read for an earlier process.
Shows(view, f) == /\ view.label = f /\ view.text.file = f
                  /\ ~view.text.old
SelectionIsCurrent ==
  /\ obj.line # NoLine => Shows(obj, Home(Head(obj.of)))
  /\ src.line # NoLine => src.label \in Sources /\ Shows(src, src.label)

\* Skipping the read of the file that is displayed already (ObjdumpView::refresh) leaves the
\* file of the innermost frame off the screen, when it is one that can be displayed, only
\* while the screen has what a file that cannot be displayed left there: never by a restart,
\* a rebuilt file, an abort or a frame without a symbol.
Displayable(f) == f \in Objects \ (TooBig \cup Undumpable)
Listed(f)      == f \in Named /\ ByAddress(symtab, Place[f].start) # NoSymbol
InDisplayable  == obj.of # NoStack /\ Listed(FunctionAt(Head(obj.of)))
                    /\ Displayable(Home(Head(obj.of)))
Remains        == {Notice(TooLarge) : f \in TooBig} \cup {Empty : f \in Undumpable}
FileOrNotice   == InDisplayable => Shows(obj, Home(Head(obj.of))) \/ obj.text \in Remains

\* "Highlight the line for show the user where we are" (ObjdumpView::refresh): the line
\* is the one of the program counter, which is in an object.
LineIsCounter ==
  obj.line # NoLine =>
    LET pc == Head(obj.of)
    IN /\ Home(pc) \in Objects
       /\ Listing[Home(pc)][obj.line] = pc - Place[FunctionAt(pc)].base

\* "Iterate on the stack until we find a function we know the source file of"
\* (SourceCodeView::refresh): the highlighted source line belongs to the innermost frame
\* that has one: to the instruction a stopped tracee executed last, to the one a crashed
\* tracee stands at, to the call a caller is in.  Not claimed where a function was entered
\* by a step, nor of a caller after a crash.
LineAt(pc)      == LET f == FunctionAt(pc) IN Lines[f][pc - Place[f].start]
AtEntry(pc)     == pc = Place[FunctionAt(pc)].start
LineOfStop(pc, st) == IF st = "kStopped" THEN (IF AtEntry(pc) THEN Unknown ELSE LineAt(pc - 1))
                      ELSE LineAt(pc)
SourceLineIsRight ==
  LET kept == SubSeq(src.of, 1, Cut(src.of).size)
      i    == SelectInSeq(kept, LAMBDA pc : LineOfStop(pc, src.status) # Unknown)
      line == LineOfStop(kept[i], src.status)
      claimed == IF src.status = "kStopped"
                 THEN ~\E j \in DOMAIN kept : AtEntry(kept[j]) /\ (i = 0 \/ j < i)
                 ELSE i <= 1
  IN claimed =>
       IF i = 0 \/ line.file \in Unopenable THEN src.line = NoLine
       ELSE src.label = line.file /\ src.line = line.line - 1

\* The stack that is listed is the tracee's: each frame whose function can be named is
\* named, in order; a list that is not the whole stack says so, and no stack within the limit
\* is cut.
TraceIsStack ==
  /\ \A i \in DOMAIN rows.frames :
       LET pc == rows.of[i] IN
       FunctionAt(pc) \in Named =>
         /\ rows.frames[i].name = FunctionAt(pc)
         /\ rows.frames[i].address + rows.frames[i].offset = pc
  /\ rows.truncated \/ Len(rows.frames) = Len(rows.of)
  /\ rows.truncated => Len(rows.of) > MaxFrames

\* When the last stop was delivered and every view was told of it, what they show is of
\* one stop, and of the present one: no highlighted line, listed stack or registers beside
\* it are those of an earlier stop.
Settled == Idle /\ tracer /\ tstate # "running" /\ stop = NoStop
PanelsAgree ==
  Settled =>
    /\ obj.line # NoLine => obj.of = registers
    /\ src.line # NoLine => src.of = registers
    /\ rows.frames # <<>> => rows.of = registers
    /\ tstate = "stopped" /\ rows.frames # <<>> => rows.of = stack
    /\ rows.frames # <<>> => libraries

-----------------------------------------------------------------------------
(* What the code does not keep; see the README.                             *)

\* "If we are in the same file as previously, no need to re-read the file"
\* (ObjdumpView::refresh, line 147): then the file is on the screen.  A file over the limit
\* replaces the text and not the path of the file before it.
FileIsShown == InDisplayable => Shows(obj, Home(Head(obj.of)))

\* The registers shown beside a stopped tracee are its own: nothing clears them when an
\* execution ends.
RegistersAreCurrent == Settled /\ tstate = "stopped" => registers \in {NoStack, stack}

\* "Search the address in the symbol table" (StackTrace): a frame libunwind cannot name is
\* not taken for another function.
UnknownIsUnknown ==
  \A i \in DOMAIN rows.frames :
    FunctionAt(rows.of[i]) \notin Named => rows.frames[i].name = "????"

\* A list that says it is truncated is shorter than the stack (StackTrace::isTruncated): one
\* of a stack of just one frame over the limit is whole and says so all the same.
TruncatedIsShorter == rows.truncated => Len(rows.frames) < Len(rows.of)

-----------------------------------------------------------------------------
(* What the theorems assume of the program and its files; of the instance  *)
(* TLC checks, it evaluates these too.                                     *)

\* The symbol table is of the program that runs: what is found at the start of a function
\* is its name, in its object, loaded where the object is (TableMatchesProcess and
\* FoundInItsFile of module SymbolResolution).
TableIsRight ==
  /\ symtab \in Seq([object : Objects, base : Nat, symbols : Seq([name : STRING, addr : Int])])
  /\ \A f \in Named :
       LET found == findInTable(symtab, Place[f].start)
       IN found.symbol # NoSymbol => /\ found.symbol.name = f
                                     /\ found.table.object = Place[f].object
                                     /\ found.table.base = Place[f].base

\* Where the innermost frame stands in its object file.
Counter(st) == Head(st) - Place[FunctionAt(Head(st))].base

\* Where libunwind cannot name the function of a frame, no value of the offset it leaves
\* leads to a line, of some listing or of some source file.
NoStray ==
  \A st \in Stacks \cup {Entry} : \A offset \in Unset :
    /\ FunctionAt(Head(st)) \notin Named =>
         LET found == findInTable(symtab, Head(st) - offset)
         IN found.symbol # NoSymbol =>
              LineOf(Contents(found.table.object), Head(st) - found.table.base) = NoLine
    /\ \A i \in DOMAIN st : FunctionAt(st[i]) \notin Named =>
         \A s \in {"kStopped", "kKilled", "kExited"} :
           LineOfFrame(FrameAt(st[i], offset), s) = Unknown

\* An address of the listing ends in the digits of the program counter only where it is the
\* program counter.
Unambiguous ==
  \A st \in Stacks \cup {Entry} : FunctionAt(Head(st)) \in Named =>
    \A n \in 1 .. Len(Listing[Home(Head(st))]) :
      EndsIn(Listing[Home(Head(st))][n], Counter(st)) => Listing[Home(Head(st))][n] = Counter(st)

\* An object is loaded at one place, below its functions; only of a function the table lists
\* is a source line known, and never the first line of its file, which is not highlighted.
LinesAreTabled ==
  /\ \A f \in Functions : Place[f].base <= Place[f].start
  /\ \A f, g \in Functions : Place[f].object = Place[g].object => Place[f].base = Place[g].base
  /\ \A f \in Functions : ~Listed(f) => \A n \in DOMAIN Lines[f] : Lines[f][n] = Unknown
  /\ \A f \in Functions : \A n \in DOMAIN Lines[f] : Lines[f][n].line # 1
=============================================================================
