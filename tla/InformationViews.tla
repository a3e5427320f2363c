------------------------- MODULE InformationViews -------------------------
(***************************************************************************)
(* The tabs below the code: StackTraceView, VariableView (the registers)   *)
(* and LibraryView.  Each is connected to other signals of TracerPanel and *)
(* asks other questions before it reads the tracee, so that they may be of *)
(* different moments.  When a view is told to refresh is in PanelViews.    *)
(*                                                                         *)
(* Registers are those of the stop they were read at, named by its stack.  *)
(***************************************************************************)
EXTENDS StackTrace

VARIABLES
  rows,       \* StackTraceView: the frames it lists, whether it says there are more, and
              \* the stack they are of
  registers,  \* VariableView: the stack whose registers it shows
  libraries   \* LibraryView: it lists the libraries of the tracer's debug information

informationVars == <<rows, registers, libraries>>

NoRows   == [frames |-> <<>>, truncated |-> FALSE, of |-> <<>>]
NoStack  == <<>>

InformationInit == rows = NoRows /\ registers = NoStack /\ libraries = FALSE

\* StackTraceView::updateView.  It reads the stack whatever the status of the process is.
\* Mutant: the rows of the last update are kept where there is no stack.
ListStackKept(stack, trace) ==
  IF trace.frames = <<>> THEN rows
  ELSE [frames |-> trace.frames, truncated |-> trace.is_truncated, of |-> stack]
ListStack(stack, trace) ==
  [frames    |-> trace.frames,
   truncated |-> trace.is_truncated /\ trace.frames # <<>>,
   of        |-> stack]

\* VariableView::updateView and ProcessTracer::getRegistersSnapshot: without a snapshot the
\* table is left as it was; with one that could not be read it is emptied.
ReadRegisters(stack, probeable) == IF probeable THEN stack ELSE registers

\* LibraryView::onExecutionStarted: a tracer always has debug information (readSymbols throws
\* without it).
ListLibraries(tracer) == tracer

\* executionEnded and executionStarted: the stack is cleared at both, the registers at
\* neither.
InformationEnded   == rows' = NoRows /\ libraries' = FALSE /\ UNCHANGED registers
InformationStarted == rows' = NoRows /\ libraries' = TRUE /\ UNCHANGED registers
=============================================================================
