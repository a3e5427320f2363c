---------------------------- MODULE StackTrace ----------------------------
(***************************************************************************)
(* The call stack of a stopped tracee as the debugger sees it              *)
(* (tracing/StackTrace.cpp, StackFrame.h).  libunwind walks the stack and  *)
(* names the functions it can; the constructor looks each of them up in    *)
(* the symbol table by the address where it begins.                        *)
(*                                                                         *)
(* A stack is the sequence of its program counters, innermost first; the   *)
(* empty one is that of a tracee ptrace cannot read.  A frame whose        *)
(* function libunwind does not name leaves the local variable offset as it *)
(* was, which is any member of Unset.                                      *)
(***************************************************************************)
EXTENDS SymbolTable, Integers, FiniteSets

CONSTANTS
  Functions,   \* the functions of the program and of what is mapped with it
  Place,       \* function -> [object, base, start, size]: its object file and where that is
               \* loaded, its address in memory
  Named,       \* the functions libunwind can name
  symtab,      \* the symbol table of the process
  MaxFrames,   \* frames after which a trace is cut (50)
  Unset        \* what an uninitialised offset may hold

ASSUME StackAssumption ==
  /\ Place \in [Functions -> [object : STRING, base : Nat, start : Nat, size : Nat \ {0}]]
  /\ \A f, g \in Functions :
       f # g => Place[f].start + Place[f].size <= Place[g].start
                  \/ Place[g].start + Place[g].size <= Place[f].start
  /\ Named \subseteq Functions /\ Unset \subseteq Nat
  /\ MaxFrames \in Nat \ {0}

Within(f, a)   == a \in Place[f].start .. Place[f].start + Place[f].size - 1
FunctionAt(pc) == CHOOSE f \in Functions : Within(f, pc)

\* unw_get_proc_name: the offset in the function.
Offsets(pc) == LET f == FunctionAt(pc) IN IF f \in Named THEN {pc - Place[f].start} ELSE Unset

\* A frame of the trace; the name is the symbol's, else libunwind's, else unknown.
FrameAt(pc, offset) ==
  LET address == pc - offset
      symbol  == ByAddress(symtab, address)
  IN [address |-> address, offset |-> offset,
      name |-> IF symbol # NoSymbol THEN symbol.name
               ELSE IF FunctionAt(pc) \in Named THEN FunctionAt(pc) ELSE "????"]

\* The frames kept, and whether the trace says that there are more.
\* Mutant: the size is compared with one frame more than is ever kept.
CutLate(stack) == [size |-> IF Len(stack) > MaxFrames THEN MaxFrames + 1 ELSE Len(stack),
                   is_truncated |-> Len(stack) > MaxFrames /\ MaxFrames + 1 > MaxFrames + 1]
Cut(stack) == [size |-> IF Len(stack) > MaxFrames THEN MaxFrames + 1 ELSE Len(stack),
               is_truncated |-> Len(stack) > MaxFrames]

\* The traces StackTrace's constructor can make of a stack.
getStackTrace(stack) ==
  LET cut  == Cut(stack)
      some == {offset \in [1 .. cut.size -> UNION {Offsets(pc) : pc \in ToSet(stack)}] :
                 \A i \in 1 .. cut.size : offset[i] \in Offsets(stack[i])}
  IN {[frames       |-> [i \in 1 .. cut.size |-> FrameAt(stack[i], offset[i])],
       is_truncated |-> cut.is_truncated] : offset \in some}
=============================================================================
