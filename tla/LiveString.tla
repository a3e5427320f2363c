---------------------------- MODULE LiveString ----------------------------
(***************************************************************************)
(* ELFFile::parseLiveString: the name of a library, read out of the        *)
(* tracee one ptrace word at a time into a buffer of Cap words.            *)
(*                                                                         *)
(* A byte is positive (ASCII), negative (any other, char being signed) or  *)
(* the terminating 0.  Before it reads the next word the loop looks at     *)
(* byte i of the string, where i counts the words, not the bytes, read.    *)
(***************************************************************************)
EXTENDS Integers

CONSTANTS
  Cap,        \* words in the buffer (32: 256 bytes of 8)
  WordSize,   \* bytes in a word
  Byte,       \* the bytes a name is made of, and what may lie behind it
  MaxLen      \* bound on the length of a name

ASSUME LiveStringAssumption ==
  /\ Cap \in Nat \ {0} /\ WordSize \in Nat \ {0, 1} /\ MaxLen \in Nat
  /\ Byte \subseteq Int

VARIABLES
  name,     \* the tracee's memory from the string on: Nat index -> byte
  i,        \* the words read so far
  overrun,  \* a word was stored behind the end of the buffer
  length,   \* of the string returned, -1 before it is
  pc

vars == <<name, i, overrun, length, pc>>

Index == 0 .. MaxLen
IsName(n, len) == n[len] = 0 /\ \A j \in 0 .. len - 1 : n[j] # 0

Init ==
  /\ name \in [Index -> Byte \cup {0}] /\ \E len \in Index : IsName(name, len)
  /\ i = 0 /\ overrun = FALSE /\ length = -1 /\ pc = "address"

\* The address of the name is read first; 0 and 1 are none.
ReadAddress ==
  /\ pc = "address"
  /\ \/ pc' = "reading" /\ UNCHANGED length
     \/ pc' = "nameless" /\ length' = 0
  /\ UNCHANGED <<name, i, overrun>>

\* One turn of the loop.  Its guard compares unsigned numbers, so that the first half always
\* holds and the second lets i be Cap: that word goes behind the buffer.  What this write
\* does there is undefined; it may also do no harm.
Store(ends) ==
  /\ pc = "reading"
  /\ overrun' = (i = Cap)
  /\ i' = i + 1
  /\ \/ pc' = IF ends \/ i = Cap THEN "shrinking" ELSE "reading"
     \/ i = Cap /\ pc' = "undefined"
  /\ UNCHANGED <<name, length>>

\* Mutant: the loop goes on at the end of the string.
ReadPastEnd == Store(name[i] < 0)
ReadWord    == Store(name[i] <= 0)

\* The string ends at the first 0 of what was read; behind that the buffer is 0, and when
\* it is full without one, resize is called with npos and throws.
Filled == (IF i <= Cap THEN i ELSE Cap) * WordSize

\* Mutant: the string is not shrunk.
ShrinkNot ==
  /\ pc = "shrinking" /\ length' = Filled /\ pc' = "done"
  /\ UNCHANGED <<name, i, overrun>>

Shrink ==
  /\ pc = "shrinking"
  /\ \/ /\ \E len \in Index : len < Filled /\ IsName(name, len) /\ length' = len
        /\ pc' = "done"
     \/ /\ \A j \in Index : j < Filled => name[j] # 0
        /\ IF i < Cap THEN length' = Filled /\ pc' = "done"
                      ELSE pc' = "thrown" /\ UNCHANGED length
  /\ UNCHANGED <<name, i, overrun>>

Next == ReadAddress \/ ReadWord \/ Shrink

Spec == Init /\ [][Next]_vars

-----------------------------------------------------------------------------
\* Every variable has its type.
TypeOK ==
  /\ name \in [Index -> Byte \cup {0}]
  /\ i \in 0 .. Cap + 1 /\ overrun \in BOOLEAN
  /\ length \in -1 .. Cap * WordSize
  /\ pc \in {"address", "nameless", "reading", "shrinking", "done", "thrown", "undefined"}

\* The name has no byte but ASCII ones among the first n.
Plain(n) == \A j \in Index : j < n => name[j] > 0

\* How far the loop of parseLiveString gets: a word is stored behind the buffer exactly when
\* the name begins with as many ASCII bytes as the buffer has words (32), and never more
\* than one.
OverrunIsOneWord ==
  /\ i <= Cap + 1
  /\ pc \notin {"address", "nameless", "reading"} => (overrun <=> Cap <= MaxLen /\ Plain(Cap))
  /\ pc = "reading" => ~overrun

\* What is returned (where the write behind the buffer did no harm) is the whole name or,
\* when a byte of it is not ASCII, possibly only the words read up to the one that is
\* counted by the index of that byte; a name that is refused by an exception fills the buffer.
NameOrPrefix ==
  /\ pc = "done" =>
       \/ length \in Index /\ IsName(name, length)
       \/ \E k \in Index : /\ name[k] < 0 /\ length = (k + 1) * WordSize
                           /\ \A j \in Index : j < length => name[j] # 0
  /\ pc = "thrown" => \A j \in Index : j < Cap * WordSize => name[j] # 0

\* "Ensure we have enough space to read an entire long" (parseLiveString): no word is
\* stored outside the buffer.
WithinBuffer == ~overrun

\* What is returned is the whole name, and nothing behind it.
WholeName == pc = "done" => length \in Index /\ IsName(name, length)
=============================================================================
