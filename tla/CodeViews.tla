---------------------------- MODULE CodeViews ----------------------------
(***************************************************************************)
(* The two panels that show where the tracee stands: ObjdumpView, the      *)
(* disassembly of the object file, and SourceCodeView, the source file.    *)
(* Each keeps the path of the file it last read, so as not to read it      *)
(* again at every stop.  When a view is told to refresh is in PanelViews.  *)
(*                                                                         *)
(* Files may be rebuilt between two executions: a text that was read       *)
(* before the process was made is old.  A listing is the sequence of its   *)
(* instruction addresses; a line is found by searching the text for the    *)
(* digits of the program counter followed by a colon, so that any address  *)
(* which ends in these digits is found.                                    *)
(***************************************************************************)
EXTENDS StackTrace

CONSTANTS
  Objects,        \* object files
  Sources,        \* source files
  TooBig,         \* the objects over the size limit
  Undumpable,     \* the objects objdump prints nothing for
  Unopenable,     \* the source files that cannot be opened
  Listing,        \* object -> the addresses of its instructions, in order
  Lines,          \* function -> what addr2line says of each of its offsets
  Radix           \* of the addresses as they are printed

Files  == Objects \cup Sources
NoFile == "no file"
TooLarge  == "too big"             \* what a view says in place of a file
NotOpened == "unable to open"
NoLine == -1
Unknown == [file |-> NoFile, line |-> 0]

ASSUME ViewsAssumption ==
  /\ TooBig \subseteq Objects /\ Undumpable \subseteq Objects /\ Unopenable \subseteq Sources
  /\ Objects \cap Sources = {} /\ {NoFile, TooLarge, NotOpened} \cap Files = {}
  /\ Listing \in [Objects -> Seq(Nat)]
  /\ \A f \in Functions : Lines[f] \in [0 .. Place[f].size - 1 ->
                                          [file : Sources, line : Nat \ {0}] \cup {Unknown}]
  /\ Radix \in Nat \ {0, 1}

VARIABLES
  obj,      \* ObjdumpView:    last_path, the text, the label, the highlighted line
  src       \* SourceCodeView: the same; `of' and `status' are the stop it was refreshed for

codeVars == <<obj, src>>

Empty       == [file |-> NoFile, old |-> FALSE]
Notice(why) == [file |-> why, old |-> FALSE]         \* a text in place of a file
Contents(f) == [file |-> f, old |-> FALSE]
NoView == [path |-> NoFile, text |-> Empty, label |-> NoFile, line |-> NoLine,
           of |-> <<>>, status |-> "none"]

CodeInit == obj = NoView /\ src = NoView

-----------------------------------------------------------------------------
\* CodeDisplay: of the lines counted from 0 the first is never highlighted.
Highlighted(n) == IF n <= 0 THEN NoLine ELSE n

Power[k \in 0 .. 20] == IF k = 0 THEN 1 ELSE Radix * Power[k - 1]
Digits(a)      == CHOOSE k \in 1 .. 20 : a < Power[k] /\ \A j \in 1 .. k - 1 : a >= Power[j]
EndsIn(a, b)   == a % Power[Digits(b)] = b
LineOf(text, a) ==
  IF text.file \notin Objects THEN NoLine
  ELSE LET n == SelectInSeq(Listing[text.file], LAMBDA b : EndsIn(b, a))
       IN IF n = 0 THEN NoLine ELSE Highlighted(n)

\* ObjdumpView::refresh, once the object file f of the innermost frame is known, and the
\* address a in it.
NoSymbolFound(v) == [v EXCEPT !.path = NoFile, !.text = Empty, !.line = NoLine]
\* Mutant: the line is looked for only in a file that was just read.
DisassemblyOnce(v, f, a) ==
  IF f = v.path THEN [v EXCEPT !.label = f]
  ELSE IF f \in TooBig \cup Undumpable THEN [v EXCEPT !.text = Empty, !.line = NoLine]
  ELSE [v EXCEPT !.path = f, !.text = Contents(f), !.label = f, !.line = LineOf(Contents(f), a)]
Disassembly(v, f, a) ==
  IF f = v.path THEN [v EXCEPT !.label = f, !.line = LineOf(v.text, a)]
  ELSE IF f \in TooBig     THEN [v EXCEPT !.text = Notice(TooLarge), !.line = NoLine]
  ELSE IF f \in Undumpable THEN [v EXCEPT !.text = Empty, !.line = NoLine]
  ELSE [v EXCEPT !.path = f, !.text = Contents(f), !.label = f, !.line = LineOf(Contents(f), a)]

Unselect(v) == [v EXCEPT !.line = NoLine, !.of = <<>>, !.status = "none"]

\* Mutant: the address is taken relative to the base of the executable.
InHeadObject(frame, table) == frame.address + frame.offset - symtab[1].base
InObject(frame, table) == frame.address + frame.offset - table.base

RefreshObjdump(stack, trace) ==
  IF trace.frames = <<>> THEN Unselect(obj)
  ELSE LET frame == Head(trace.frames)
           found == findInTable(symtab, frame.address)
           view  == [obj EXCEPT !.of = stack]
       IN IF found.symbol = NoSymbol THEN NoSymbolFound(view)
          ELSE Disassembly(view, found.table.object, InObject(frame, found.table))

\* SourceCodeView::refresh.
addr2Line(object, a) ==
  LET here == {f \in Functions : Place[f].object = object /\ a >= 0
                                   /\ Within(f, a + Place[f].base)}
  IN IF here = {} THEN Unknown
     ELSE LET f == CHOOSE g \in here : TRUE IN Lines[f][a + Place[f].base - Place[f].start]

\* Of a process that is paused the counter is past the instruction; not so after a crash.
LineOfFrame(frame, status) ==
  LET found == findInTable(symtab, frame.address)
  IN IF found.symbol = NoSymbol THEN Unknown
     ELSE addr2Line(found.table.object,
                    InObject(frame, found.table) - (IF status = "kStopped" THEN 1 ELSE 0))

\* Mutant: the path is kept when the file cannot be opened.
SourceKeepsPath(v, f, n) ==
  IF f = v.path THEN [v EXCEPT !.line = Highlighted(n)]
  ELSE IF f \in Unopenable THEN [v EXCEPT !.text = Notice(NotOpened), !.line = NoLine]
  ELSE [v EXCEPT !.path = f, !.text = Contents(f), !.label = f, !.line = Highlighted(n)]
Source(v, f, n) ==
  IF f = v.path THEN [v EXCEPT !.line = Highlighted(n)]
  ELSE IF f \in Unopenable
  THEN [v EXCEPT !.path = NoFile, !.text = Notice(NotOpened), !.line = NoLine]
  ELSE [v EXCEPT !.path = f, !.text = Contents(f), !.label = f, !.line = Highlighted(n)]

RefreshSource(stack, status, trace) ==
  IF trace.frames = <<>> THEN Unselect(src)
  ELSE LET i    == SelectInSeq(trace.frames, LAMBDA frame : LineOfFrame(frame, status) # Unknown)
           view == [src EXCEPT !.of = stack, !.status = status]
       IN IF i = 0 THEN [view EXCEPT !.path = NoFile, !.line = NoLine]
          ELSE LET where == LineOfFrame(trace.frames[i], status)
               IN Source(view, where.file, where.line - 1)

\* executionEnded, and executionStarted of a new process.  ObjdumpView has a last_path of
\* its own beside the one clearContents resets, which only executionEnded resets: the start
\* of an execution includes the end of the one before it, which is emitted first.
\* Mutants: the line is reset and the path is not; the path is reset to no name at all.
ForgetLine(v) == [v EXCEPT !.line = NoLine, !.of = <<>>]
ForgetAll(v)  == [v EXCEPT !.path = "", !.line = NoLine, !.of = <<>>]
Forget(v) == [v EXCEPT !.path = NoFile, !.line = NoLine, !.of = <<>>]
Clear(v)  == [Unselect(v) EXCEPT !.text = Empty]

\* Whatever text is left is of a file that may have been rebuilt since.
Aged(v)   == [v EXCEPT !.text.old = @ \/ v.text.file \in Files]

CodeEnded   == obj' = Forget(obj) /\ src' = Unselect(src)
CodeStarted == /\ obj' = Aged(Clear(Forget(obj)))
               /\ src' = Aged([Clear(src) EXCEPT !.path = NoFile])
=============================================================================
