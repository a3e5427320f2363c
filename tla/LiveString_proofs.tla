---------------------------- MODULE LiveString_proofs ----------------------------
(***************************************************************************)
(* What parseLiveString does to a name of any length and any bytes, in     *)
(* words and buffers of any size.                                          *)
(***************************************************************************)
EXTENDS LiveString, TLAPS

Over == {"shrinking", "done", "thrown", "undefined"}

\* Every byte the loop went past is part of the name; the last one read ends the loop, unless
\* the buffer did.
LoopInv ==
  /\ i \in Nat /\ name \in [Index -> Int]
  /\ \E len \in Index : IsName(name, len)
  /\ pc \in {"address", "nameless", "reading"} \cup Over
  /\ pc \in {"address", "nameless"} => i = 0 /\ ~overrun
  /\ pc = "reading" => i <= Cap /\ i <= MaxLen /\ ~overrun /\ \A j \in 0 .. i - 1 : name[j] > 0
  /\ pc \in Over =>
       /\ i \in 1 .. Cap + 1 /\ i - 1 \in Index /\ \A j \in 0 .. i - 2 : name[j] > 0
       /\ overrun <=> i = Cap + 1
       /\ i <= Cap => name[i - 1] <= 0

LEMMA LoopInit == Init => LoopInv
<1> SUFFICES ASSUME Init PROVE LoopInv
  OBVIOUS
<1>1. name \in [Index -> Int]
  <2>1. Byte \cup {0} \subseteq Int
    BY LiveStringAssumption
  <2> QED
    BY <2>1 DEF Init
<1> QED
  BY <1>1 DEF Init, LoopInv, Over

LEMMA LoopStep == LoopInv /\ [Next]_vars => LoopInv'
<1> SUFFICES ASSUME LoopInv, [Next]_vars PROVE LoopInv'
  OBVIOUS
<1>0. Cap \in Nat \ {0} /\ MaxLen \in Nat
  BY LiveStringAssumption
<1>1. CASE ReadAddress
  BY <1>0, <1>1 DEF ReadAddress, LoopInv, Over
<1>2. CASE ReadWord
  <2>1. /\ pc = "reading" /\ i \in Nat /\ i <= Cap /\ i \in Index
        /\ \A j \in 0 .. i - 1 : name[j] > 0
    BY <1>0, <1>2 DEF ReadWord, Store, LoopInv, Index
  <2>2. /\ i' = i + 1 /\ name' = name /\ (overrun' <=> i = Cap)
        /\ pc' = (IF name[i] <= 0 \/ i = Cap THEN "shrinking" ELSE "reading")
             \/ (i = Cap /\ pc' = "undefined")
    BY <1>2 DEF ReadWord, Store
  <2>3. name[i] \in Int
    BY <2>1 DEF LoopInv
  \* The name ends before the memory looked at does.
  <2>4. name[i] > 0 => i + 1 <= MaxLen
    <3> SUFFICES ASSUME name[i] > 0, i = MaxLen PROVE FALSE
      BY <1>0, <2>1 DEF Index
    <3>1. PICK len \in Index : IsName(name, len)
      BY DEF LoopInv
    <3> QED
      BY <2>1, <3>1 DEF IsName, Index
  <2>5. CASE pc' = "reading"
    <3>1. name[i] > 0 /\ i # Cap
      BY <2>2, <2>3, <2>5
    <3> QED
      BY <1>0, <2>1, <2>2, <2>4, <2>5, <3>1 DEF LoopInv, Over
  <2>6. CASE pc' # "reading"
    <3>1. pc' \in Over /\ (i # Cap => name[i] <= 0)
      BY <2>2, <2>6 DEF Over
    <3>2. i' - 1 = i /\ i' \in 1 .. Cap + 1 /\ (i' = Cap + 1 <=> i = Cap) /\ (i' <= Cap => i # Cap)
      BY <1>0, <2>1, <2>2
    <3>3. \A j \in 0 .. i' - 2 : name[j] > 0
      BY <2>1, <2>2
    <3> QED
      BY <2>1, <2>2, <3>1, <3>2, <3>3 DEF LoopInv, Over
  <2> QED
    BY <2>5, <2>6
<1>3. CASE Shrink
  <2>1. UNCHANGED <<name, i, overrun>> /\ pc = "shrinking" /\ pc' \in {"done", "thrown"}
    BY <1>3 DEF Shrink
  <2> QED
    BY <2>1 DEF LoopInv, Over
<1>4. CASE UNCHANGED vars
  BY <1>4 DEF vars, LoopInv
<1> QED
  BY <1>1, <1>2, <1>3, <1>4 DEF Next

\* For every buffer, word size and name: a word is stored behind the buffer exactly when the
\* name begins with as many ASCII bytes as the buffer has words, and never more than one.
THEOREM OverrunCorrect == Spec => []OverrunIsOneWord
<1>1. LoopInv => OverrunIsOneWord
  <2> SUFFICES ASSUME LoopInv PROVE OverrunIsOneWord
    OBVIOUS
  <2>0. Cap \in Nat \ {0} /\ MaxLen \in Nat /\ i \in Nat
    BY LiveStringAssumption DEF LoopInv
  <2>1. i <= Cap + 1
    BY <2>0 DEF LoopInv
  <2>2. ASSUME pc \in Over PROVE overrun <=> Cap <= MaxLen /\ Plain(Cap)
    <3>1. ASSUME overrun PROVE Cap <= MaxLen /\ Plain(Cap)
      <4>1. Cap \in Index /\ \A j \in 0 .. Cap - 1 : name[j] > 0
        BY <2>0, <2>2, <3>1 DEF LoopInv
      <4> QED
        BY <2>0, <4>1 DEF Plain, Index
    <3>2. ASSUME Cap <= MaxLen, Plain(Cap) PROVE overrun
      <4>1. i <= Cap => name[i - 1] > 0
        BY <2>0, <2>2, <3>2 DEF LoopInv, Plain, Index
      <4>2. name[i - 1] \in Int
        BY <2>2 DEF LoopInv
      <4> QED
        BY <2>0, <2>2, <4>1, <4>2 DEF LoopInv
    <3> QED
      BY <3>1, <3>2
  <2>3. pc = "reading" => ~overrun
    BY DEF LoopInv
  <2> QED
    BY <2>1, <2>2, <2>3 DEF OverrunIsOneWord, LoopInv, Over
<1> QED
  BY <1>1, LoopInit, LoopStep, PTL DEF Spec

\* A word is at least a byte.
LEMMA Monotone ==
  ASSUME NEW m \in Nat, NEW n \in Nat \ {0}
  PROVE  m * n \in Nat /\ m <= m * n
<1>1. PICK k \in Nat : n = k + 1
  BY n - 1 \in Nat
<1>2. m * n = m * k + m /\ m * k \in Nat
  BY <1>1
<1> QED
  BY <1>2

\* For every name: what is returned is all of it, unless a byte that is not ASCII ends the
\* loop early; then it is the words read by then.  Only a name that fills the buffer is
\* refused.
THEOREM NameCorrect == Spec => []NameOrPrefix
<1>1. Init => NameOrPrefix
  BY DEF Init, NameOrPrefix
<1>2. LoopInv /\ NameOrPrefix /\ [Next]_vars => NameOrPrefix'
  <2> SUFFICES ASSUME LoopInv, NameOrPrefix, [Next]_vars PROVE NameOrPrefix'
    OBVIOUS
  <2>0. Cap \in Nat \ {0} /\ WordSize \in Nat \ {0} /\ MaxLen \in Nat /\ i \in Nat
    BY LiveStringAssumption DEF LoopInv
  <2>1. CASE ReadAddress \/ ReadWord
    BY <2>1 DEF ReadAddress, ReadWord, Store, NameOrPrefix
  <2>2. CASE Shrink
    <3>1. pc = "shrinking" /\ i - 1 \in Index /\ i >= 1 /\ (i <= Cap => name[i - 1] <= 0)
          /\ name[i - 1] \in Int /\ name' = name
      BY <2>0, <2>2 DEF Shrink, LoopInv, Over
    <3>2. CASE /\ \E len \in Index : len < Filled /\ IsName(name, len) /\ length' = len
               /\ pc' = "done"
      BY <3>1, <3>2 DEF NameOrPrefix
    <3>3. CASE /\ \A j \in Index : j < Filled => name[j] # 0
               /\ i < Cap /\ length' = Filled /\ pc' = "done"
      <4>1. Filled = i * WordSize /\ i <= i * WordSize /\ (i - 1) + 1 = i
        BY <2>0, <3>3, Monotone DEF Filled
      <4>2. i * WordSize \in Nat
        BY <2>0, Monotone
      <4>3. name[i - 1] < 0
        BY <2>0, <3>1, <3>3, <4>1, <4>2
      <4> QED
        BY <3>1, <3>3, <4>1, <4>3 DEF NameOrPrefix
    <3>4. CASE /\ \A j \in Index : j < Filled => name[j] # 0
               /\ ~(i < Cap) /\ pc' = "thrown"
      <4>1. Filled = Cap * WordSize
        BY <2>0, <3>4 DEF Filled
      <4> QED
        BY <3>1, <3>4, <4>1 DEF NameOrPrefix
    <3> QED
      BY <2>2, <3>2, <3>3, <3>4 DEF Shrink
  <2>3. CASE UNCHANGED vars
    BY <2>3 DEF vars, NameOrPrefix, IsName
  <2> QED
    BY <2>1, <2>2, <2>3 DEF Next
<1> QED
  BY <1>1, <1>2, LoopInit, LoopStep, PTL DEF Spec
=============================================================================
