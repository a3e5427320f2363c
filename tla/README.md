# A formal model of LDB

LDB is a graphical debugger for Linux programs: a Qt front end over `ptrace`.
This directory holds TLA+ modules of its core, TLC configurations that check
them on small instances, and TLAPS proofs for every value of the constants.
Paths below are relative to `src/`, the root of the LDB repository; line numbers
are those of the modelled commit.

## 1. Inventory of the system

| Component | State | Operations | Talks to |
|---|---|---|---|
| `Process` (`tracing/Process`) | pid, last known status, the pty, a mutex | fromCommand, resume, pause, kill, updateStatus, destruction | the kernel: fork, ptrace, kill, waitpid |
| `BreakPointTable`, `BreakPointHandler` | address → saved word, the address being reset | add, remove, removeAll, saveBreakpoints, refreshBreakPoint, resetBreakpoint | the text of the tracee, word by word |
| `ProcessTracer` | the process, its handlers, its debug information | constructor, restart, readSymbols, resume, pause, singlestep, abort | all of `tracing/` |
| `SignalHandler`, `QtSignalHandler` | pointer to the process, worker thread, `worker_exit`, `is_muted` | workerLoop, pollEvent, handleEvent, resetBreakpoint, resumeTracee, reset, stopThread | the kernel; posts slots to the GUI thread |
| `ELFParser`, `SymbolTable` | linked list of tables, one per object | parseSymbols, parseLinkMap, parseDynamicSymbols, parseLiveString, relocate, join, lookups | files, memory of the tracee |
| `DwarfReader` | tables of files and of types | three passes over each compilation unit | libdwarf; fills the symbols |
| `TracerPanel`, `TracerToolBar` | the tracer, state of the buttons | start, restart, abort, toggle, step, end, destruction | the tracer; signals of all views |
| `BreakpointsDialog` | two proxies over the symbol table, the search bar | toggle, filter | symbol table, breakpoint handler |
| `ObjdumpView`, `SourceCodeView`, `CodeDisplay` | path of the file last read, text, selected line | refresh, clear | symbol table, stack trace, objdump, addr2line |
| `PtyHandler` | descriptor, reader thread, display | workerLoop, appendOutput, sendInput, reassignTo | the pty of the process |
| `StackTrace`, `StackTraceView` | the rows listed | unwinding, update, clear | libunwind, symbol table |
| `RegistersSnapshot`, `VariableView`, `LibraryView` | the registers, the libraries listed | update, clear | ptrace, debug information |
| `Symbol`, `DebugInfo`, dialogs, logging, `apps` | records, widgets | | |

**How they interact.** There are two threads beside the tracee. The *GUI thread*
runs Qt's event loop, every slot of a widget, and all calls of ptrace: the kernel
accepts them from the thread that forked the tracee only. The *worker* of
`QtSignalHandler` polls `waitpid(WNOHANG)`, classifies what it gets, records the
status in the shared `Process` under its mutex, and posts slots to the GUI
thread: a reset of the breakpoint, a resume after an ignored signal, a refresh.
The GUI thread calls `waitpid` too, to step over a breakpoint, to kill and to
destroy. A third thread, the reader of `PtyHandler`, belongs to the terminal. The views
are connected to the panel's `signalReceived`, `executionStarted` and `executionEnded`,
each to some of them, and are called one after the other; each asks the tracer again.

**What is hard here**, and what makes each component correct:

* *Breakpoints.* ptrace pokes whole words; the trap word is computed once per life
  of the debugger; a reset takes the breakpoint out and must plant it again
  whatever the step leads to; a restart re-plants by name. Correct when the tracee
  executes only its own instructions, no breakpoint is lost or skipped, and what
  was saved is the program's own.
* *Session.* A wait status goes to whichever thread asks first, events are handled
  twice, slots run later than the state they were posted for, a restart destroys
  and re-creates objects while a worker uses them. Correct when the threads agree on
  the process, a stop is not overwritten, the buttons show the status, waits return.
* *Symbols.* Libraries move and files are rebuilt between runs. Correct when the
  table is that of the live process, leads back to the right file, and breakpoints
  stay on their functions.
* *Views.* Cached paths; a stop between the calls of two views; addresses of a running
  process turned into those of an object file, and of the byte before. Correct when a
  selected line is the program counter's in the right file, the stack listed is the
  tracee's, and once all views were told they are of one stop.
* *Terminal.* A terminated reader is not joined. Correct when nothing that the
  current process prints is lost, doubled or reordered, and a typed line arrives whole.

## 2. Modules

| Module | Models | State ↔ code |
|---|---|---|
| `BreakPointHandler` | breakpoints in the text, launch, reset | `text`, `rip`, `run`, `trapped`, `wild`: the tracee; `breakPoints`, `currentAddr`: the members of these names; `bpInstruction`: the static of `BreakPointTable::add`; `resetsDue`: resets in the GUI's queue; `hpc`: where the GUI thread is, `none` before there is a tracer; `disturbed` is a ghost, see section 3 |
| `TransparentDebugging` | what `BreakPointHandler` promises | program counter, free or held, the set of breakpoints |
| `TracerSession` | GUI thread, worker, `Process` handles, kernel | `tstate`, `notice`, `stopping`: the kernel (a process is `starting` between the fork of a restart and its stop behind `_start`); `status`, `freed`, `locked`: the handle; `gpc`, `asking`, `queue`, `shown`: GUI thread and tool bar; `hproc`, `wpc`, `event`, `worker_exit`, `is_muted`: `QtSignalHandler` |
| `SymbolTable` | the linked list of tables: pure operators | a sequence of `[object, symbols, base]` |
| `SymbolResolution` | ELFParser, save and refresh of breakpoints, rows and tabs of the dialog | `linkMap`, `elf`, `res`: locals of `parseDynamicSymbols`; `symtab`; `bps`, `saved`; `search`: the search bar; `listed`, `active`: the rows each proxy accepts; `wanted` is a ghost: the functions the user chose |
| `LiveString` | `ELFFile::parseLiveString` | `name`: memory of the tracee; `i`, the words read; `overrun`; `length` returned |
| `DwarfReader` | the three passes over compilation units | `unit`, `phase`, `die`: where the reader is; `file_tabl`, `type_tabl` as in the code; `functions`: what is filled into symbols |
| `StackTrace` | the trace made of a stack: pure operators | frames: `address`, `offset`, `name`; `is_truncated` |
| `CodeViews` | ObjdumpView and SourceCodeView | `obj`, `src`: path last read, text, label, line; their fields `of`, `status` are ghosts: the stop of the last refresh |
| `InformationViews` | StackTraceView, VariableView, LibraryView | `rows`, `registers` (named by the stop they were read at), `libraries` |
| `PanelViews` | the composition of the two under the signals of TracerPanel | `turn`: the view that is called next; `stack`, `tstate`, `stop`: the tracee and its last stop, raised, recorded, posted; `status`, `worker` |
| `PtyHandler` | the terminal | `pipe`: the pty; `reader`: threads; `queue`: posted `appendOutput`; `output`; `pty_fd` |
| `Terminal` | what `PtyHandler` promises | the process connected, how much it printed, how much of that is shown |

`MC*` modules hold the small programs, files and bytes for TLC; `*_proofs` modules
the theorems. `BreakPointHandler` composes the breakpoint table, the handler, the
launch of `ProcessTracer` and the queue of `QtSignalHandler`; `TracerSession`
composes the panel, the tool bar, the tracer, the process and the signal handler,
with a reset abstracted to its two waits, since how it changes the text is in
`BreakPointHandler`. `SymbolResolution` and `StackTrace` extend `SymbolTable`; `PanelViews`
extends both views, which extend `StackTrace`. Who collects a wait status is the subject of
`TracerSession`; `PanelViews` keeps of it that a stop is raised, then recorded, then posted,
and that a signal posted for any earlier event may be delivered at any time.

Granularity: an action is what a thread does between two points where another
thread, the tracee or the kernel can matter: a system call that blocks, taking or
releasing the mutex, the turn of the event loop. The two halves of
`Process::resume` and of the worker's handling of an event are separate steps.

### Abstractions

* Text is a sequence of bytes of which each knows where it belongs; an
  instruction is a start, a length and its successors. A tracee that executes
  anything else is *wild* and is not followed further.
* `PEEKTEXT`/`POKETEXT` of a tracee that is not stopped fail: the word read is -1
  (`Alien`), nothing is written.
* Executables are not position independent. For one that is, `readSymbols` looks
  for `_start` at its unrelocated address, does not find the tracee there and throws.
* A build of a file is the sequence of its functions. The vdso, and libraries `ELFFile`
  cannot read, are skipped (`Parsable`); an executable without a symbol table stops at the
  lookup of `_start` and gets no further. Exceptions of libelf are left out.
* A unit of debug information is the list of its files and the DIEs below its root. Below
  a function only parameters are kept; variables are looked up in the same table. Lines and
  the language of a unit are left out.
* A process's end is one `dead` state, its reaping a second one.
* The text a view holds is the file it was read from and whether that was before the
  present process was made: any file may be rebuilt between two processes.
* A stack is the sequence of its program counters. What libunwind leaves in an offset it
  did not compute is one of `Unset`.
* addr2line answers for every offset of a function with a line or with none.
* Output of the tracee is ASCII. The display drops what is more than 250 lines back
  (`PtyHandler.cpp:19`): what scrolled off counts as shown.
* `SourceCodeView::refresh` reads status, trace and the status of each frame one after the
  other (`SourceCodeView.cpp:186-209`), `RefreshSource` all at once. The worker may record a
  stop in between; the view then mixes two states of one stop until that stop's own signal,
  which comes next, refreshes it again.
* A read that fails stores a 0 before its buffer (`PtyHandler.cpp:95` with -1): undefined, and
  taken here for the end of the reader that follows.
* `std::map::insert` and `emplace` keep an existing entry, as in the code.

## 3. Runs

| Run | Asks | Bounds, and why they are enough |
|---|---|---|
| `BreakPoints` | is debugging transparent, and what survives when it is not? | the program `Prologue`: words of three bytes, four symbols a word apart of which two begin with one-byte instructions, so that a breakpoint pokes foreign bytes over the next ones, and three can follow one another at once; toggles on a stopped tracee, clicks before a posted reset has run, signals that end a step before it is made; four resets pending, what one event posts with another behind it; `bpInstruction` starts unset or left by another program |
| `Session` | do the threads agree? | two processes, as many as a restart involves at a time; two spontaneous events, so that a second one meets the first still in the queue; all six kinds of event, SIGCONT among them; the window closed, a restart that throws at its fork or later and a command that cannot be started, at any time |
| `Symbols` | do addresses and names survive restarts? | an executable with two builds, one of which renames a function, or static; a library with two names of one function, and with an `_init` as the executable has; the vdso; any order at two bases; every subset of rows as breakpoints; an empty search text and one that occurs in three of the names; restarts and new starts without bound |
| `LiveName` | when is the buffer overrun, and what is returned? | every name of up to 8 bytes, ASCII or not, with anything behind it, in a buffer of 3 words of 2 bytes: names shorter than the words, than the bytes, and longer than both |
| `Dwarf` | where are types and files right? | every unit of three types and a function in every order and with every reference; and two units out of 6 and 16, with equal or other file lists, numbered from 0 or from 1, with offsets that collide or not, nested and declared functions, names in both or in no symbol table, with a unit without a DIE in between, or damaged |
| `Views` | do the views show the tracee? | four stacks: a process is left in main, and stops in a library, in a second one called by it, whose file is over the size limit as libc's is (four frames, of which three are kept with `MaxFrames` = 2), and in the vdso, which has no symbols; two sources, one of which cannot be opened; restarts, aborts, failed starts, rebuilt files and signals of earlier events without bound |
| `Pty` | is output lost? | two executions, three characters each, chunks up to two, so that a chunk is read while the one before is still posted; one typed line of ASCII each; a restart, and any restart after an abort |

A run of expected violation checks one sentence of the documentation:

| Run | Sentence | What the trace shows |
|---|---|---|
| `BPDialog` | "Restore the good instruction of breakpoint" (`include/tracing/BreakPointHandler.h:84`) | `_start` is toggled in the dialog while the tracee is in a step: the read fails and its -1 is saved. A restart plants `_start` and keeps the word its table has; the tracee hits it, and the reset writes the -1 over the program |
| `SessionStepWait` | resetBreakpoint will "step on instruction and submit the break point" (`include/tracing/BreakPointHandler.h:74-75`) | the worker takes the wait status of the step; the GUI thread waits forever |
| `SessionHandle` | "Thread-safe process handle" (`include/tracing/Process.h:49`) | restart destroys the handle while the worker polls through it |
| `ViewsTooBig` | "If we are in the same file as previously, no need to re-read the file" (`src/gui/views/ObjdumpView.cpp:147`) | a stop in a library, a step into the big one, a step back: the notice that the file is too large stays, beside the name of the first library |
| `SymbolsShared` | "We save breakpoint for the next execution like dynamic libs can change addr" (`src/tracing/ProcessTracer.cpp:31`) | a name in two files: the breakpoint moves from the library to the executable |

**Disturbed.** The stop of a tracee posts two resets, and the code takes each step to be made
and each reset to run before the user's next click. `disturbed` records, since the launch of
the present process, that one of these did not hold: a signal ended a step of a reset before
it was made; the user toggled, resumed or stepped with a reset still posted; the second
step of the last reset ended on another breakpoint; or a breakpoint was set on a word in which
the tracee stands. What the debugger promises of the text and of the table (`SavedIsOriginal`,
`TextIntegrity`, `AllArmed`, `NoMissedBreakpoint`) is checked whether it did or not; that the
tracee executes what it should (`NeverWild`, `SettledNotTrapped`, `HitIsSteppedOver`,
`ImplementsTransparent`) as long as it did not, and section 6 shows that each fails without.
All of these events are in the run.

### Deadlock

`Session`, `SessionStepWait`, `SessionHandle`, `Symbols`, `LiveName`, `Dwarf` and `Pty` set
`CHECK_DEADLOCK FALSE`: a session stops when its window is closed, its events are used up
or the GUI thread waits forever, LDB crashes on a function that a rebuild dropped, a reader of
data is done, and a terminal is silent when its executions are over.

### Fairness

* `BreakPointHandler`: weak fairness of the tracee (the kernel runs a process that is
  not stopped) and of the handler (Qt runs what is queued). The user owes nothing.
* `TracerSession`: weak fairness of the worker, of the GUI thread and of the kernel's
  delivery of a requested stop or step. No breakpoint, signal, exit or answer to a
  question is owed.
* `PtyHandler`: weak fairness of each reader, of the event loop and of a handler of
  the panel that has begun. What it implements, `Terminal`, owes to show what was printed
  as long as something is left to show; the formula is that weak fairness written out,
  because ENABLED does not pass through a refinement mapping.

`LiveString`, `DwarfReader`, `SymbolResolution`, `CodeViews`, `InformationViews` and
`PanelViews` state no fairness: nothing is claimed there to happen in the end.
`LiveString`, `SymbolResolution` and `PtyHandler` state the types of their variables in a
`TypeOK` which no run checks.

## 4. Properties worth reading

* `ImplementsTransparent`: with an int3 executed but not undone counted as not
  executed, every step of the handler is a step of `TransparentDebugging` or none.
* `TextIntegrity`, `SavedIsOriginal`, `AllArmed`: together, the text is the program's
  own but for the words of the table, and the table can undo them.
* `StopNotOverwritten`: the reason `resume` holds its mutex over `PTRACE_CONT`.
* `ButtonsMatchStatus`, `HandlerBound`, `WaitsReturn`: what the user sees, what the
  threads point to, and that no wait other than a step's hangs.
* `NoneLeftBehind`: however the session ends in which the window is closed, every tracee
  is dead and reaped and the worker joined.
* `SteadyKeepBreakpoints`: with moved libraries and rebuilt files, for every function whose
  names the builds of its file keep together and no other file has, beside others that are
  renamed, shared or dropped; `RestartSurvives`: LDB crashes for a dropped one only.
* `TabsShowTable`: the tabs are brought up to date a row at a time, by a toggle, or as a
  whole, by the search bar and by a restart that moves every address. Of each address one
  row is true to the breakpoint table; with several names for one function the others
  may lag behind.
* `OverrunIsOneWord`: exactly which names are stored one word behind the buffer.
* `TypesAreRight`, `FilesAreRight`: where the tables that all units share are right,
  and `FilesAreRight` where they are wrong too.
* `SourceLineIsRight`: the walk over the frames, the lookup of each in the table, the base
  of its object and the byte before the counter together yield the line of the instruction
  that was executed last, in the innermost frame that has one.
* `FileOrNotice`: the object on the screen is that of the innermost frame, or one that cannot
  be displayed came in between.
* `TraceIsStack`: the list is the tracee's stack, by name and in order, or says it was cut.
* `PanelsAgree`: the views are called one after the other while the tracee may stop, and
  ask the tracee again each; once the last stop was delivered they are of one stop.
* `NothingLost`, `ImplementsTerminal`: across a restart with a reader that is not joined.

## 5. Proofs

`BreakPointHandler_proofs` proves, for every program, set of symbols and word size:

* `TypeCorrect`: `Spec => []TypeOK`. `TypeOK` is not inductive by itself: `Rearm`
  looks up `breakPoints[currentAddr]`, so `TypeInv` adds where the GUI thread is when
  an address is being reset and that this address is in the table.
* `SavedCorrect`, `TextCorrect`, `ArmedCorrect`: from `PatchInv`, the common strengthening.
  It says of every byte of the text whether it belongs to an armed breakpoint, and of
  every entry of the table that it is the original word, also between the steps of a
  launch and of a reset. Assumptions: `SpacedSites`, symbols at least a word apart
  (otherwise `add` saves bytes of another breakpoint, and the property fails), and
  `DialogOpen = FALSE`, breakpoints toggled on a stopped tracee (otherwise
  `BPDialog` shows it fail). Lemmas on `Poke` carry the arithmetic.

Its second part goes on to the flow of control:

* `NeverWildCorrect`, `SettledCorrect` and `TransparentCorrect`, the refinement of
  `TransparentDebugging`, under `EnteredSites`: `SpacedSites` and `DialogOpen = FALSE` as above,
  and `EnteredAtTop`, that no jump leads into the word of a symbol behind its first
  instruction. Instructions may be of any length, so that a breakpoint replaces several of
  them; signals may end a step, the user may click before a reset, symbols may follow
  one another. The three properties speak of a process up to the moment it is `disturbed`
  (section 3). Section 6 shows that neither `EnteredAtTop` nor this limit can be left out.
* `FlowInv` adds to `PatchInv` where the program counter is. `RunInv` says when the tracee runs
  and how many resets are posted; `TrapInv`, of a process not disturbed, that behind an int3
  it is stopped with a reset to come; `FootInv`, that it is otherwise at an instruction, and
  inside the word of an armed breakpoint only after the code put the program's own bytes
  behind the int3 (`Owned`): the trap word that carries foreign bytes there is planted while
  the tracee is elsewhere and replaced by the first reset. The refinement has one case per
  action of `Next`; most map to no step.
* `NoneMissed`: `Spec => NoMissedBreakpoint`, an action property, from `AllArmed` alone;
  it needs `SpacedSites` and `DialogOpen = FALSE` only.

`LiveString_proofs` proves both properties of the run `LiveName` for every name, word size and
buffer, with no hypothesis: `OverrunCorrect`, a word is stored behind the buffer exactly
when the name begins with as many ASCII bytes as the buffer has words, and never more
than one; and `NameCorrect`, what is returned is the name, unless a byte that is not ASCII
ends the loop, and then the words read so far. The loop invariant `LoopInv` is that every byte
the loop passed is part of the name.

`TracerSession_proofs` proves all safety of the session, for any number of processes and
events, with no hypothesis: `TypeCorrect`, `HandlerBoundCorrect`, `FreedCorrect`,
`NoneLeftCorrect`, `StopCorrect` and `ButtonsCorrect`. The common invariant has six parts:
`PhaseInv` says for each place of the GUI thread what the tracer, the handler and the process
are; `WorkerInv` that `worker_exit` and `is_muted` are set during the join and at no other time;
`LockInv` who holds the mutex; `ProcessInv` that a process was reaped before it is freed and
holds its last status until then; `StartingInv` that only a restart has a process which is not
yet the tracer's, and only one; `QueueInv` that a posted reset has its signal behind it
and that no slot outlives the handler. `ResumeInv` is the part about the mutex: between
`PTRACE_CONT` and `kRunning` a new stop is in the kernel or with the worker that waits
for the mutex. `ButtonsInv` says what is `Pending` when the buttons lag behind.

`PtyHandler_proofs` proves, for any number of executions, any output and buffer size:

* `NothingLostCorrect`, without a hypothesis. `StreamInv` says of the connected process at
  which character each part begins: the display, every posted chunk, the bytes held and the
  pty follow each other without gap or overlap. It rests on `ThreadInv` (a thread that may
  still read has the present descriptor; the others hold nothing that matters) and `FreshInv`
  (nothing of a process was read before the widget was connected to it). `NothingLost` is
  stated by sets of positions, not by filtered sequences, so that no induction is needed.
* `OneReaderCorrect`.
* `TerminalCorrect`: `Spec => Tab!Safety`, that every step of the widget is a step of
  `Terminal` or none, and its first state one of a terminal. `ShownInv`, which follows from
  `StreamInv`, says that what is shown of the connected process are the first characters it
  printed; places on the display are numbered by the characters there (`Numbered`). The
  steps of the reader and the posts map to none. What `Tab!Spec` adds, that a terminal shows
  all in the end, needs the fairness of the threads and is left to TLC.

`PanelViews_proofs` proves every property of the run `Views`, for every program, symbol table,
listing, set of stacks and limit of frames:

* `PanelsAgreeCorrect`, without a hypothesis. `AgreeInv` says, for each view that had its
  turn, of which stop what it shows is, as long as nothing has happened since. It needs
  `StopInv`: a stop that was delivered, or is about to be, left the status at which views read
  the tracee.
* `TraceCorrect` and `TypeCorrect` assume `TableIsRight`, that the symbol table is of the
  program that runs: what `TableMatchesProcess` and `FoundInItsFile` of `SymbolResolution` say.
* `FileCorrect` needs no more, whatever objects are too large or cannot be dumped; `FileInv` keeps
  that the text is that of the remembered path, or the notice of an object without one. The run
  `ViewsTooBig` shows that the notice may stay.
* `SelectionCorrect` and `CounterCorrect` assume also `NoStray`, that the offset libunwind
  leaves unset leads to no line, and the latter `Unambiguous`, that no address of a listing
  ends in another's digits: both are section 6 again. `TextInv` and `LineInv` tie path, text and
  label of a highlighted line to the stop.
* `SourceLineCorrect` assumes `TableIsRight`, `NoStray` and `LinesAreTabled`: an object is
  loaded at one place, and lines are known of functions of the table only. Its heart is
  `FrameLine`: whatever the offset, what is looked up for a frame is the line of the stop.

These hypotheses are definitions of `PanelViews`, and `MCPanelViews` assumes them, so that
TLC evaluates them on the instance it checks.

`SymbolTable_proofs` proves what the operators on tables compute, for every list of tables:
`FindsAddress` and `FindsName` (a lookup returns a symbol of the address or name asked for,
with its table), `RowIsSymbol` and `RowsOfTables` (`getSize` and `at` number the symbols of all
tables), `RelocateNew`. `getSize`, `at` and `FlattenSeq` are folds; the steps of a fold
follow once its recursive function is known to exist, which is shown by the least number at
which it would not (`MinOf`, from the well-foundedness of the natural numbers), since the
library's induction theorems cannot be cited.

`SymbolResolution_proofs` proves every property of the run `Symbols`:

* `RowsCorrect`, without a hypothesis, from `LaunchInv`: what the process, the link map and the
  three lists of tables are made of, at every stage of a launch.
* `TabsCorrect`, without one either: of the rows of an address the clicked one is always filtered
  again.
* `TableCorrect` assumes `NoPrelinked`, that no library is loaded at 0. `ReadInv` says which
  entries of the link map the tables are of while it is read, and that the builds on disk are
  those the process was made from until it runs.
* `FoundCorrect` assumes also `Apart`, that files of one process do not overlap.
* `SurvivesCorrect` assumes `NoPrelinked`. `NamesInv` says that every breakpoint is at a symbol of the
  table, and every saved name is one such a symbol had.
* `RestartCorrect` assumes `NoPrelinked` and `Apart` and proves `SteadyKeepBreakpoints`. A rebuild may
  move, rename or drop any function and names may be shared: the claim is of the groups of names
  that stay `Together`. `GroupInv` follows such a group from the address the user chose
  to the name saved when a process ends, and back to an address in the next.

A base of 0 breaks each (section 6); files that overlap are never loaded. `RestartKeepsBreakpoints`,
the same of every function, is the sentence of the source, and `SymbolsShared` shows it violated.
`MCSymbolResolution` assumes both hypotheses of its instance, and which functions are `Steady`
there, so that the property is not empty.

`DwarfReader_proofs` proves every property of the run `Dwarf` with no hypothesis, for any units,
tags, names, offsets, lists of files and number of DIEs. What is limited is what the
properties claim, since the code keeps one table for all units:

* `RightCorrect` and `CompleteCorrect` are of the functions that are defined once, in a unit
  that is `Fresh`: no earlier unit uses its offsets for a type. The first unit always is.
  `PlaceInv` says where the reader is, `EntriesInv` what an entry of `type_tabl` is and whose,
  `FoundInv` that an entry of a fresh unit is what its DIE means as far as it was followed,
  `CompleteInv` that one made after the types it names is not empty, and `FunctionsInv` the same
  of what was filled into symbols.
* What a type means is found over as many references as a unit has DIEs, since references may
  be circular. `UptoIs` gives each level from the one below, once these levels are known to exist
  (`LevelsExist`, by the least number at which they would not, as in `SymbolTable_proofs`), and
  `UptoGrows` shows that a meaning once found is kept.
* `FilesCorrect` is of every unit, fresh or not: within the first unit's list, the file of a
  function is right if and only if that list has the same file at its index. `FilesInv`: the
  table begins with the first list, and nothing is ever taken from it.

What a proof cannot reach here and TLC alone checks: `WaitsReturn`, `HitIsSteppedOver`, the part of
`ImplementsTerminal` beyond `Tab!Safety`, and all else that must happen in the end, for the
provers installed do no liveness under fairness. Every safety property of a passing run,
the action properties and the two refinements included, is a theorem under the hypotheses
named here, which the instance of its run satisfies.

## 6. Where the code departs from its documentation, without a run

The modules state these properties too; the constants show the violation. They are
left out of the runs, one sentence of each kind being enough there.

| Property | Constants | Code |
|---|---|---|
| `StepStartsSettled` (BreakPointHandler) | `BreakPoints`' | the reset is queued behind the user's click, `QtSignalHandler.cpp:60`; the step may also end on the next breakpoint |
| `SettledNotTrapped`, `HitIsSteppedOver`, `NeverWild` without `~disturbed` | `BreakPoints`' | the `waitpid` of `BreakPointHandler.cpp:80` returns for any stop: when a signal comes before the step is made, the int3 is planted again under the counter, the second step executes it, and the tracee goes on behind it |
| `ImplementsTransparent` | `Prologue` with a loop back to 9, right behind the one-byte instruction at the symbol 8 (`F(10, 1, {9, 5, 12})`) | a single step that ends there is taken for a hit of the breakpoint before it, `BreakPointHandler.cpp:48`, and the tracee set back to 8 |
| `NeverWild` | `Prologue` with a jump from one symbol into the word of another (`F(5, 1, {8, 12, 9})`) | a static trap word is poked over seven bytes of other instructions, `BreakPointTable.cpp:8` |
| `SavedIsOriginal`, `GoodInstructionRestored` | `BreakPoints`' with a symbol one byte behind another | overlapping words are saved with the other's int3 |
| `FatalMeansTerminated` (TracerSession) | `Session`'s | `SignalHandler.h:45` against `SignalHandler.cpp:89-94` |
| `DeadStaysDead` | `Session`'s | `Process.h:109-110` against `SignalHandler.cpp:91` |
| `ProbeableIsStopped` | `Session`'s | `Process.h:117-118` against `Process.cpp:262-264` |
| `ResumeKeepsBreakpoint` | `Session`'s | `SignalHandler.h:43` against `QtSignalHandler.cpp:62-68` |
| `NoOrphan` | `Session`'s | `PTRACE_O_EXITKILL` is handed to `PTRACE_TRACEME`, which takes no options (`Process.cpp:153-157`): when a restart throws, its tracee stays |
| `pc # "crashed"` (SymbolResolution) | `Symbols`' | the null pointer of a lookup is dereferenced, `BreakPointHandler.cpp:38`, when a function with a breakpoint is renamed |
| `\A row \in Rows : Shown(row)` | `Symbols`' | of two names at one address only the clicked row is filtered again, `BreakpointsDialog.cpp:176`: the other stays among those to be added |
| `TableMatchesProcess` | `Bases` with 0 | `ELFParser.cpp:236` ends the list |
| `WithinBuffer` (LiveString) | `LiveName`'s | "Ensure we have enough space" (`ELFParser.cpp:209`) lets one word more pass |
| `WholeName` | `LiveName`'s | `str[i] <= 0` with a signed char, `ELFParser.cpp:211` |
| `EveryTypeIsRight`, `EveryFileIsRight` (DwarfReader) | `Dwarf`'s | one table of types and one of files for all units; and `DwarfReader.cpp:187` takes the index as counted from 0, which DWARF before 5 does not |
| `TruncatedIsShorter` (PanelViews) | `Views`' | `is_truncated` is set also for a stack of exactly 51 frames, all of which are kept, `StackTrace.cpp:39` |
| `LineIsCounter` | a listing of `lib` without the address 2 and with 6 (`<<1, 5, 6, 9>>`) | an address that ends in the digits matches, `ObjdumpView.cpp:171`; a counter is not in the listing when objdump disassembled the bytes around it otherwise |
| `RegistersAreCurrent` | `Views`' | the registers of the process before stay beside a new one that is stopped at its entry: `VariableView` is told of signals only, `VariableView.cpp:41` |
| `UnknownIsUnknown` | `Views`' | the offset is read though `unw_get_proc_name` did not set it (`StackTrace.cpp:20-28`): a frame of the vdso may be given the name of another function |
| `LinesAreWhole` (PtyHandler) | `Lines <- Accents` | `PtyHandler.cpp:55` |
| `NoForeignOutput` | `Pty`'s | text queued before `clear`, `PtyHandler.cpp:62-74` |

More need no property: `README.md:45` says a launched program is resumed, but
`readSymbols` leaves it stopped (`ProcessTracer.cpp:74`); and a stop is not shown when
the user resumes with a reset still queued and that reset takes the next SIGTRAP
(`ButtonsMatchStatus` allows `kRunning` for this and for ignored signals); the source line
shown where a function was entered by a step is that of the byte before it, and after a
crash a caller's line is that of its return address (`SourceCodeView.cpp:209`;
`SourceLineIsRight` claims neither); a selected line is highlighted only when its index is
above 0, so never the first of a file (`CodeDisplay.cpp:95`), though `CodeDisplay.h:63` says
"Set to -1 if no line is selected"; the index of a function's file is not compared with the
length of the list (`DwarfReader.cpp:187`), and `FilesAreRight` claims nothing behind that of
the first unit; and a tracee that stops for a SIGCONT is recorded as running
(`SignalHandler.cpp:81`), so that the buttons offer to pause it.

## 7. Not modelled

`mute` and `unmute` of `QtSignalHandler`, which nothing calls (the destructor and `reset`
set the flag, and that is modelled; the wait of `QtSignalHandler.cpp:101` for a wake-up
without a predicate is reached by nothing else); the `kDetach` and `kWait` policies, `attach`
and the move operations of `Process`, which nothing uses; the set-up of the pty. `Symbol` and
`DebugInfo` are records. Of the widgets: layout, icons, the highlighting of syntax, the sort
order of the breakpoints dialog (sorting is never enabled), and `CommandDialog`, whose answer
is a choice of `TracerSession`. Logging (only the GUI thread logs) and `apps/ldb.cpp` are
output and start-up. The layout of sections and of the link map in memory, the values of
registers, libunwind's walk, and characters of several bytes split over two reads of the
terminal are data that no property tells apart. A library loaded at base 0 is a row of
section 6: no present loader does that.

## 8. Plan

1. `BreakPointHandler` with its abstract specification and the theorems of section 5;
   `TracerSession`; `SymbolTable` and `SymbolResolution`; `LiveString` with proofs;
   `DwarfReader`; `CodeViews`; `PtyHandler`. *Done.*
2. Stack traces and the information views, the composition of all views under the panel's
   signals, the closing of the window, signals during a step, the abstract terminal. *Done.*
3. Every safety property of the passing runs as a theorem, with the step refinements of
   `TransparentDebugging` and `Terminal`. *Done.*
4. To model: a composition of `TracerSession` with `BreakPointHandler` in which the reset of
   one is the step of the other; position-independent executables.
