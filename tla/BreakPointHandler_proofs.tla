------------------------- MODULE BreakPointHandler_proofs -------------------------
(***************************************************************************)
(* Theorems about BreakPointHandler, for every program and word size.      *)
(***************************************************************************)
EXTENDS BreakPointHandler, TLAPS

-----------------------------------------------------------------------------
(* The operations on words and on the table keep their types.              *)

\* The word read, the trap made of a word and the text after a poke are words and texts.
LEMMA WordTypes ==
  ASSUME NEW t \in [Code -> Byte], NEW a \in Sites
  PROVE  /\ WordAt(t, a) \in Word
         /\ Original(a) \in Word
         /\ AlienWord \in Word
         /\ \A w \in Word : WithTrap(w) \in Word /\ WithTrap(w)[0] = Int3
         /\ \A w \in Word : Poke(t, a, w) \in [Code -> Byte]
<1>1. \A i \in Offsets : a + i \in Code /\ a \in Nat
  BY GeometryAssumption, SMT DEF Offsets, Code
<1>2. 0 \in Offsets
  BY GeometryAssumption, SMT DEF Offsets
<1>3. WordAt(t, a) \in Word
  BY <1>1 DEF WordAt, Word
<1>4. Original(a) \in Word
  BY <1>1 DEF Original, Word, Byte
<1>5. AlienWord \in Word
  BY DEF AlienWord, Word, Byte
<1>6. \A w \in Word : WithTrap(w) \in Word /\ WithTrap(w)[0] = Int3
  BY <1>2 DEF WithTrap, Word, Byte
<1>7. \A w \in Word : Poke(t, a, w) \in [Code -> Byte]
  BY DEF Poke, Word
<1> QED
  BY <1>3, <1>4, <1>5, <1>6, <1>7

\* BreakPointTable::add enters the address and keeps every type.
LEMMA AddTypes ==
  ASSUME TypeOK,
         NEW t \in [Code -> Byte], NEW p \in BOOLEAN, NEW a \in Sites,
         Add(t, p, a)
  PROVE  /\ text' \in [Code -> Byte]
         /\ bpInstruction' \in Word
         /\ DOMAIN breakPoints' = DOMAIN breakPoints \cup {a}
         /\ breakPoints' \in [DOMAIN breakPoints' -> Word]
<1> DEFINE word == IF p THEN WordAt(t, a) ELSE AlienWord
           bp   == IF bpInstruction = Unset THEN WithTrap(word) ELSE bpInstruction
<1>1. word \in Word
  BY WordTypes
<1>2. bp \in Word
  BY <1>1, WordTypes DEF TypeOK
<1>3. /\ bpInstruction' = bp
      /\ text' = IF p THEN Poke(t, a, bp) ELSE t
      /\ breakPoints' = [x \in DOMAIN breakPoints \cup {a} |->
                           IF isBreakPoint(x) THEN breakPoints[x] ELSE word]
  BY DEF Add
<1>4. text' \in [Code -> Byte]
  BY <1>2, <1>3, WordTypes
<1>5. breakPoints' \in [DOMAIN breakPoints \cup {a} -> Word]
  BY <1>1, <1>3 DEF TypeOK, isBreakPoint
<1> QED
  BY <1>2, <1>3, <1>4, <1>5

\* BreakPointTable::remove drops the address and keeps every type.
LEMMA RemoveTypes ==
  ASSUME TypeOK, NEW p \in BOOLEAN, NEW a \in Sites, Remove(p, a)
  PROVE  /\ text' \in [Code -> Byte]
         /\ DOMAIN breakPoints' = DOMAIN breakPoints \ {a}
         /\ breakPoints' \in [DOMAIN breakPoints' -> Word]
<1>1. breakPoints[a] \in Word
  BY DEF Remove, TypeOK, isBreakPoint
<1>2. text' \in [Code -> Byte]
  BY <1>1, WordTypes DEF Remove, TypeOK
<1>3. breakPoints' \in [DOMAIN breakPoints \ {a} -> Word]
  BY DEF Remove, TypeOK
<1> QED
  BY <1>2, <1>3 DEF Remove

-----------------------------------------------------------------------------
(* The control invariant: what the types need to be inductive.             *)

ControlInv ==
  /\ ~trapped => rip \in Code
  /\ run \in {"running", "stepping"} /\ hpc = "idle" => resetsDue + 2 <= MaxResets
  /\ currentAddr # NoAddr <=> hpc \in {"executing", "startExec"}
  /\ currentAddr # NoAddr => currentAddr \in DOMAIN breakPoints
  /\ hpc \in {"starting", "startExec"} => Start \in DOMAIN breakPoints
  /\ hpc = "adding" => run \in {"stopped", "dead"}

TypeInv == TypeOK /\ ControlInv

LEMMA SitesInText == \A s \in Sites : s \in Code /\ s \in Nat /\ s # NoAddr
  BY GeometryAssumption, SMT DEF Code, NoAddr

LEMMA TypeInit == Init => TypeInv
<1> SUFFICES ASSUME Init PROVE TypeInv
  OBVIOUS
<1>1. Start \in Sites /\ 0 \in 0 .. MaxResets /\ MaxResets \in Nat
  BY GeometryAssumption
<1>2. Pristine \in [Code -> Byte]
  BY DEF Pristine, Byte
<1>3. bpInstruction \in Word \cup {Unset}
  <2>1. WithTrap(AlienWord) \in Word
    BY <1>1, <1>2, WordTypes
  <2> QED
    BY <2>1 DEF Init
<1>4. breakPoints \in [{} -> Word] /\ DOMAIN breakPoints = {}
  BY DEF Init
<1> QED
  BY <1>1, <1>2, <1>3, <1>4, SitesInText DEF Init, TypeInv, TypeOK, ControlInv, Control, Launching

\* One step at a time; the steps of the tracee, the handler and the user are the named
\* actions of Next.
LEMMA TypeStep == TypeInv /\ [Next]_vars => TypeInv'
<1> SUFFICES ASSUME TypeInv, [Next]_vars PROVE TypeInv'
  OBVIOUS
<1> USE DEF TypeInv
<1> DEFINE Texts == text' \in [Code -> Byte]
           Table == /\ DOMAIN breakPoints' \subseteq Sites
                    /\ breakPoints' \in [DOMAIN breakPoints' -> Word]
                    /\ bpInstruction' \in Word \cup {Unset}
<1>0. /\ MaxResets \in Nat /\ Start \in Sites /\ Sites \subseteq Insn /\ Insn \subseteq Code
      /\ LastByte \in Nat /\ \A c \in Code : c \in 0 .. LastByte
      /\ resetsDue \in Nat /\ resetsDue <= MaxResets /\ resetsDue \in Int
  <2>1. MaxResets \in Nat /\ Start \in Sites /\ Sites \subseteq Insn /\ Insn \subseteq Code
    BY GeometryAssumption
  <2>2. LastByte \in Nat /\ \A c \in Code : c \in 0 .. LastByte
    BY GeometryAssumption DEF Code
  <2>3. resetsDue \in Nat /\ resetsDue <= MaxResets /\ resetsDue \in Int
    BY <2>1 DEF TypeOK
  <2> QED
    BY <2>1, <2>2, <2>3
<1>1. CASE HitTrap
  <2>1. rip \in Code /\ rip + 1 \in Code \cup {LastByte + 1}
    BY <1>0, <1>1 DEF HitTrap, ControlInv, Code
  <2>2. resetsDue' \in 0 .. MaxResets
    BY <1>0, <1>1 DEF HitTrap, QueueResets, ControlInv, TypeOK
  <2> QED
    BY <1>1, <2>1, <2>2 DEF Disturb, HitTrap, table, TypeOK, ControlInv
<1>2. CASE ExecuteInsn
  <2>1. rip' \in Code
    BY <1>0, <1>2, GeometryAssumption DEF ExecuteInsn, Genuine
  <2>2. resetsDue' \in 0 .. MaxResets
    BY <1>0, <1>2 DEF ExecuteInsn, QueueResets, ControlInv, TypeOK
  <2> QED
    BY <1>0, <1>2, <2>1, <2>2 DEF ExecuteInsn, table, TypeOK, ControlInv
<1>3. CASE Misfetch
  BY <1>3 DEF Misfetch, table, TypeOK, ControlInv
<1>4. CASE ResetBreakpoint
  <2>1. CASE StartReset /\ hpc' = "executing"
    <3>1. rip - 1 \in DOMAIN breakPoints /\ rip - 1 \in Sites
      BY <2>1 DEF StartReset, isBreakPoint, TypeOK
    <3>2. Texts
      <4>1. breakPoints[rip - 1] \in Word
        BY <3>1 DEF TypeOK
      <4> QED
        BY <3>1, <4>1, <2>1, WordTypes DEF StartReset, TypeOK
    <3>3. currentAddr' = rip - 1 /\ rip' = rip - 1 /\ rip - 1 # NoAddr /\ rip - 1 \in Code
      BY <2>1, <3>1, SitesInText DEF StartReset
    <3>4. resetsDue' \in 0 .. MaxResets
      BY <1>0, <1>4 DEF ResetBreakpoint
    <3>5. TypeOK'
      BY <2>1, <3>1, <3>2, <3>3, <3>4 DEF StartReset, TypeOK, Control, Launching
    <3>6. ControlInv'
      BY <1>4, <2>1, <3>1, <3>3 DEF ResetBreakpoint, StartReset, ControlInv
    <3> QED
      BY <3>5, <3>6
  <2>2. CASE UNCHANGED <<tracee, table, currentAddr, hpc, toAdd, disturbed>>
    BY <1>0, <1>4, <2>2 DEF ResetBreakpoint, tracee, table, TypeOK, ControlInv
  <2> QED
    BY <1>4, <2>1, <2>2 DEF ResetBreakpoint
<1>5. CASE RestoreBreakpoint
  <2>1. currentAddr \in DOMAIN breakPoints /\ currentAddr \in Sites
    BY <1>5 DEF RestoreBreakpoint, ControlInv, TypeOK
  <2>2. Texts
    <3>1. WithTrap(breakPoints[currentAddr]) \in Word
      BY <2>1, WordTypes DEF TypeOK
    <3> QED
      BY <1>5, <2>1, <3>1, WordTypes DEF RestoreBreakpoint, Rearm, TypeOK
  <2> QED
    BY <1>5, <2>2 DEF RestoreBreakpoint, TypeOK, ControlInv, Control, Launching
<1>6. CASE ResetReturns
  BY <1>6 DEF ResetReturns, tracee, table, TypeOK, ControlInv, Control, Launching
<1>7. CASE ReachStart
  <2>1. rip - 1 \in DOMAIN breakPoints /\ rip - 1 \in Sites
    BY <1>7 DEF ReachStart, StartReset, isBreakPoint, TypeOK
  <2>2. Texts
    <3>1. breakPoints[rip - 1] \in Word
      BY <2>1 DEF TypeOK
    <3> QED
      BY <1>7, <2>1, <3>1, WordTypes DEF ReachStart, StartReset, TypeOK
  <2>3. currentAddr' = rip - 1 /\ rip' = rip - 1 /\ rip - 1 # NoAddr /\ rip - 1 \in Code
    BY <1>7, <2>1, SitesInText DEF ReachStart, StartReset
  <2> QED
    BY <1>7, <2>1, <2>2, <2>3 DEF ReachStart, StartReset, TypeOK, ControlInv, Control, Launching
<1>8. CASE RemoveStart
  <2>1. Start \in DOMAIN breakPoints /\ breakPoints[Start] \in Word
    BY <1>8 DEF RemoveStart, ControlInv, TypeOK
  <2>2. Texts
    BY <1>0, <1>8, <2>1, WordTypes DEF RemoveStart, TypeOK
  <2>3. breakPoints' \in [{} -> Word] /\ DOMAIN breakPoints' = {}
    BY <1>8 DEF RemoveStart
  <2> QED
    BY <1>8, <2>2, <2>3 DEF RemoveStart, tracee, TypeOK, ControlInv, Control, Launching
<1>9. CASE AddSaved
  <2>1. PICK a \in toAdd : Add(text, run = "stopped", a) /\ toAdd' = toAdd \ {a}
    BY <1>9 DEF AddSaved
  <2>2. a \in Sites /\ text \in [Code -> Byte] /\ (run = "stopped") \in BOOLEAN
    BY <2>1 DEF TypeOK
  <2>3. Texts /\ Table /\ DOMAIN breakPoints' = DOMAIN breakPoints \cup {a}
    BY <2>1, <2>2, AddTypes DEF TypeOK
  <2> QED
    BY <1>9, <2>1, <2>3 DEF Disturb, AddSaved, tracee, TypeOK, ControlInv
<1>10. CASE LaunchReturns
  BY <1>10 DEF LaunchReturns, tracee, table, TypeOK, ControlInv, Control, Launching
<1>11. CASE Resume \/ SingleStep
  BY <1>0, <1>11 DEF Disturb, Resume, SingleStep, Continue, UserTurn, table, TypeOK, ControlInv
<1>12. CASE Launch
  <2>1. Pristine \in [Code -> Byte]
    BY DEF Pristine, Byte
  <2>2. Add(Pristine, TRUE, Start) /\ TRUE \in BOOLEAN
    BY <1>12 DEF Launch
  <2>3. /\ Texts /\ bpInstruction' \in Word
        /\ DOMAIN breakPoints' = DOMAIN breakPoints \cup {Start}
        /\ breakPoints' \in [DOMAIN breakPoints' -> Word]
    BY <1>0, <2>1, <2>2, AddTypes
  <2>4. Table
    BY <1>0, <2>3 DEF TypeOK
  <2> QED
    BY <1>0, <1>12, <2>3, <2>4 DEF Launch, TypeOK, ControlInv, Control, Launching
<1>13. ASSUME NEW a \in Sites, ToggleBreakpoint(a) PROVE TypeInv'
  <2>1. text \in [Code -> Byte] /\ (run = "stopped") \in BOOLEAN
    BY DEF TypeOK
  <2>2. currentAddr = NoAddr /\ hpc = "idle"
    BY <1>13 DEF ToggleBreakpoint, UserTurn, ControlInv
  <2>3. Texts /\ Table
    <3>1. CASE isBreakPoint(a)
      BY <1>13, <2>1, <3>1, RemoveTypes DEF ToggleBreakpoint, TypeOK, Remove
    <3>2. CASE ~isBreakPoint(a)
      BY <1>13, <2>1, <3>2, AddTypes DEF ToggleBreakpoint, TypeOK
    <3> QED
      BY <3>1, <3>2
  <2> QED
    BY <1>13, <2>2, <2>3 DEF Disturb, ToggleBreakpoint, tracee, TypeOK, ControlInv
<1>14. CASE Interrupt
  BY <1>14 DEF Disturb, Interrupt, table, TypeOK, ControlInv
<1>15. CASE Exit
  BY <1>15 DEF Exit, table, TypeOK, ControlInv
<1>16. CASE UNCHANGED vars
  BY <1>16 DEF vars, tracee, table, TypeOK, ControlInv
<1> QED
  BY <1>1, <1>2, <1>3, <1>4, <1>5, <1>6, <1>7, <1>8, <1>9, <1>10, <1>11, <1>12, <1>13,
     <1>14, <1>15, <1>16 DEF Next, Tracee, Handler, User

\* Type correctness, for every program, word size and discipline of the user.
THEOREM TypeCorrect == Spec => []TypeOK
<1>1. TypeInv => TypeOK
  BY DEF TypeInv
<1> QED
  BY <1>1, TypeInit, TypeStep, PTL DEF Spec

-----------------------------------------------------------------------------
(* Patching.  The theorems below are about programs whose symbols are at   *)
(* least a word apart, and a user who keeps out of the breakpoints dialog  *)
(* while the tracee is not stopped: without either the words saved are not *)
(* always the program's (see the run BPDialog).                            *)

Within(x, a) == x \in a .. a + WordSize - 1
Intact(t, P) == \A x \in Code : (\A a \in P : ~Within(x, a)) => t[x] = x
Armed(t, P)  == \A a \in P : t[a] = Int3

\* A poke changes the bytes of its word and no others.
LEMMA PokeBytes ==
  ASSUME NEW t \in [Code -> Byte], NEW a \in Sites, NEW w \in Word, NEW x \in Code
  PROVE  Poke(t, a, w)[x] = IF Within(x, a) THEN w[x - a] ELSE t[x]
<1>1. a \in Nat /\ x \in Nat /\ WordSize \in Nat
  BY GeometryAssumption, SitesInText DEF Code
<1>2. x - a \in Offsets <=> Within(x, a)
  BY <1>1 DEF Offsets, Within
<1> QED
  BY <1>2 DEF Poke

LEMMA OriginalBytes ==
  ASSUME NEW a \in Sites, NEW x \in Code, Within(x, a)
  PROVE  Original(a)[x - a] = x
<1>1. a \in Nat /\ x \in Nat /\ WordSize \in Nat
  BY GeometryAssumption, SitesInText DEF Code
<1> QED
  BY <1>1 DEF Original, Within, Offsets

\* Writing the original word at a leaves the text intact but for the other breakpoints;
\* writing any word there leaves it intact but for a as well.
LEMMA PokeIntact ==
  ASSUME NEW t \in [Code -> Byte], NEW P \in SUBSET Sites, NEW a \in Sites, NEW w \in Word,
         Intact(t, P)
  PROVE  /\ w = Original(a) => Intact(Poke(t, a, w), P \ {a})
         /\ Intact(Poke(t, a, w), P \cup {a})
<1>1. ASSUME w = Original(a), NEW x \in Code, \A b \in P \ {a} : ~Within(x, b)
      PROVE  Poke(t, a, w)[x] = x
  <2>1. CASE Within(x, a)
    BY <1>1, <2>1, PokeBytes, OriginalBytes
  <2>2. CASE ~Within(x, a)
    BY <1>1, <2>2, PokeBytes DEF Intact
  <2> QED
    BY <2>1, <2>2
<1>2. ASSUME NEW x \in Code, \A b \in P \cup {a} : ~Within(x, b)
      PROVE  Poke(t, a, w)[x] = x
  BY <1>2, PokeBytes DEF Intact
<1> QED
  BY <1>1, <1>2 DEF Intact

\* With symbols a word apart, a poke at one disarms no other.
LEMMA PokeArmed ==
  ASSUME SpacedSites,
         NEW t \in [Code -> Byte], NEW P \in SUBSET Sites, NEW a \in Sites, NEW w \in Word,
         Armed(t, P)
  PROVE  /\ Armed(Poke(t, a, w), P \ {a})
         /\ w[0] = Int3 => Armed(Poke(t, a, w), P \cup {a})
<1>0. WordSize \in Nat \ {0} /\ \A s \in Sites : s \in Nat /\ s \in Code
  BY GeometryAssumption, SitesInText
<1>1. ASSUME NEW b \in P \ {a} PROVE Poke(t, a, w)[b] = Int3
  <2>1. b \in Sites /\ b # a /\ b \in Code
    BY <1>0
  <2>2. ~Within(b, a)
    BY <1>0, <2>1 DEF SpacedSites, Within
  <2> QED
    BY <2>1, <2>2, PokeBytes DEF Armed
<1>2. ASSUME w[0] = Int3 PROVE Poke(t, a, w)[a] = Int3
  <2>1. Within(a, a) /\ a - a = 0 /\ a \in Code
    BY <1>0 DEF Within
  <2> QED
    BY <1>2, <2>1, PokeBytes
<1> QED
  BY <1>1, <1>2 DEF Armed

\* The word at a symbol that carries no breakpoint is the program's own.
LEMMA CleanWord ==
  ASSUME SpacedSites,
         NEW t \in [Code -> Byte], NEW P \in SUBSET Sites, NEW a \in Sites \ P,
         Intact(t, P)
  PROVE  WordAt(t, a) = Original(a)
<1>1. ASSUME NEW i \in Offsets PROVE t[a + i] = a + i
  <2>1. /\ WordSize \in Nat \ {0} /\ i \in 0 .. WordSize - 1
        /\ a + WordSize - 1 \in 0 .. LastByte /\ a \in Nat /\ LastByte \in Nat
        /\ \A s \in Sites : s \in Nat
    BY GeometryAssumption, SitesInText DEF Offsets, Code
  <2>2. a + i \in Code
    BY <2>1 DEF Code
  <2>3. ASSUME NEW b \in P PROVE ~Within(a + i, b)
    <3>1. b \in Nat /\ (a + WordSize <= b \/ b + WordSize <= a)
      BY <2>1 DEF SpacedSites
    <3> QED
      BY <2>1, <3>1 DEF Within
  <2> QED
    BY <2>2, <2>3 DEF Intact
<1> QED
  BY <1>1 DEF WordAt, Original

\* The inductive invariant: the saved words are original whatever the process is doing,
\* the text is intact but for the planted breakpoints, each of which carries its int3,
\* and a launch waits nowhere but at _start.
PatchInv ==
  /\ \A a \in DOMAIN breakPoints : breakPoints[a] = Original(a)
  /\ bpInstruction = Unset \/ bpInstruction[0] = Int3
  /\ run # "dead" => Intact(text, Planted) /\ Armed(text, Planted)
  /\ hpc = "starting" => \/ run = "running" /\ rip = Start /\ ~trapped
                         \/ run = "stopped" /\ rip = Start + 1
  /\ hpc = "startExec" => /\ currentAddr = Start
                          /\ \/ run = "stepping" /\ rip = Start /\ ~trapped
                             \/ run = "stopped"
  /\ hpc = "adding" => run = "stopped"

\* Adding a breakpoint where none is planted, or one the table has already.
LEMMA AddPatch ==
  ASSUME SpacedSites, TypeOK,
         NEW t \in [Code -> Byte], NEW P \in SUBSET Sites, NEW a \in Sites,
         a \notin P \/ isBreakPoint(a),
         Intact(t, P), Armed(t, P),
         \A x \in DOMAIN breakPoints : breakPoints[x] = Original(x),
         bpInstruction = Unset \/ bpInstruction[0] = Int3,
         Add(t, TRUE, a)
  PROVE  /\ Intact(text', P \cup {a}) /\ Armed(text', P \cup {a})
         /\ \A x \in DOMAIN breakPoints' : breakPoints'[x] = Original(x)
         /\ bpInstruction'[0] = Int3
<1> DEFINE bp == IF bpInstruction = Unset THEN WithTrap(WordAt(t, a)) ELSE bpInstruction
<1>1. /\ bpInstruction' = bp
      /\ text' = Poke(t, a, bp)
      /\ breakPoints' = [x \in DOMAIN breakPoints \cup {a} |->
                           IF isBreakPoint(x) THEN breakPoints[x] ELSE WordAt(t, a)]
  BY DEF Add
<1>2. bp \in Word /\ bp[0] = Int3
  BY WordTypes DEF TypeOK
<1>3. \A x \in DOMAIN breakPoints' : breakPoints'[x] = Original(x)
  <2>1. ~isBreakPoint(a) => WordAt(t, a) = Original(a)
    BY CleanWord
  <2> QED
    BY <1>1, <2>1 DEF isBreakPoint
<1> QED
  BY <1>1, <1>2, <1>3, PokeIntact, PokeArmed

LEMMA PatchInit == Init => PatchInv
<1> SUFFICES ASSUME Init PROVE PatchInv
  OBVIOUS
<1>1. bpInstruction = Unset \/ bpInstruction[0] = Int3
  <2>1. WithTrap(AlienWord)[0] = Int3
    <3>1. Start \in Sites /\ Pristine \in [Code -> Byte]
      BY GeometryAssumption DEF Pristine, Byte
    <3> QED
      BY <3>1, WordTypes
  <2> QED
    BY <2>1 DEF Init
<1> QED
  BY <1>1 DEF Init, PatchInv

LEMMA PatchStep ==
  ASSUME SpacedSites, DialogOpen = FALSE, TypeInv, PatchInv, [Next]_vars
  PROVE  PatchInv'
<1>0. /\ TypeOK /\ ControlInv /\ text \in [Code -> Byte] /\ Start \in Sites
      /\ \A s \in Sites : s \in Nat /\ s \in Code /\ s # NoAddr /\ s # Int3
  BY GeometryAssumption, SitesInText DEF TypeInv, TypeOK, Int3, NoAddr
<1>0a. Planted \in SUBSET Sites
  BY <1>0 DEF Planted, TypeOK
<1> DEFINE Kept == /\ text' = text /\ breakPoints' = breakPoints
                   /\ bpInstruction' = bpInstruction /\ Planted' = Planted
\* Wherever the tracee waits in a launch, _start is planted in an intact text, or the
\* text is intact altogether.
<1>0b. hpc = "starting" => run # "dead" /\ text[Start] = Int3
  BY <1>0 DEF PatchInv, Planted, ControlInv, Armed
<1>0c. hpc = "startExec" => run # "dead" /\ (run = "stepping" => Genuine(rip) /\ text[rip] # Int3)
  <2> SUFFICES ASSUME hpc = "startExec", run = "stepping"
               PROVE  Genuine(rip) /\ text[rip] # Int3
    BY DEF PatchInv
  <2>1. Planted = {} /\ rip = Start
    BY DEF PatchInv, Planted
  <2>2. \A x \in Code : text[x] = x
    BY <2>1 DEF PatchInv, Intact
  <2>3. ASSUME NEW x \in Start .. Start + Len[Start] - 1 PROVE x \in Code
    <3>1. /\ Start \in Insn /\ Len[Start] \in Nat \ {0} /\ Start + Len[Start] - 1 \in Code
          /\ LastByte \in Nat /\ Start \in Nat
      BY <1>0, GeometryAssumption
    <3> QED
      BY <2>3, <3>1 DEF Code
  <2> QED
    BY <1>0, <2>1, <2>2, <2>3, GeometryAssumption DEF Genuine
<1>1. CASE HitTrap
  <2>1. Kept
    BY <1>1 DEF HitTrap, table, Planted
  <2>2. hpc # "startExec" /\ hpc # "adding"
    BY <1>0c, <1>1 DEF HitTrap, PatchInv
  <2> QED
    BY <1>1, <2>1, <2>2 DEF HitTrap, PatchInv
<1>2. CASE ExecuteInsn
  <2>1. Kept
    BY <1>2 DEF ExecuteInsn, table, Planted
  <2>2. hpc # "starting" /\ hpc # "adding"
    <3>1. Genuine(Start) => text[Start] = Start
      <4>1. Start \in Start .. Start + Len[Start] - 1
        BY <1>0, GeometryAssumption
      <4> QED
        BY <4>1 DEF Genuine
    <3> QED
      BY <1>0, <1>0b, <1>2, <3>1 DEF ExecuteInsn, PatchInv
  <2>3. run' \in {"running", "stopped"} /\ (run = "stepping" => run' = "stopped") /\ run # "dead"
    BY <1>2 DEF ExecuteInsn
  <2> QED
    BY <1>2, <2>1, <2>2, <2>3 DEF ExecuteInsn, PatchInv
<1>3. CASE Misfetch
  <2>1. Kept
    BY <1>3 DEF Misfetch, table, Planted
  <2>2. hpc \notin {"starting", "startExec", "adding"}
    BY <1>0b, <1>0c, <1>3 DEF Misfetch, PatchInv
  <2> QED
    BY <1>3, <2>1, <2>2 DEF Misfetch, PatchInv
\* The first half of a reset: the original word is back, the breakpoint not planted.
<1>4. ASSUME StartReset, hpc' \in {"executing", "startExec"}, hpc = "idle" \/ hpc = "starting",
             hpc' = "startExec" <=> hpc = "starting",
             hpc = "starting" => rip - 1 = Start
      PROVE  PatchInv'
  <2>1. rip - 1 \in DOMAIN breakPoints /\ rip - 1 \in Sites /\ currentAddr = NoAddr
    BY <1>0, <1>4 DEF StartReset, isBreakPoint, TypeOK
  <2>2. breakPoints[rip - 1] = Original(rip - 1) /\ breakPoints[rip - 1] \in Word
    BY <1>0, <2>1 DEF PatchInv, TypeOK
  <2>3. Planted' = Planted \ {rip - 1}
    <3>1. NoAddr \notin DOMAIN breakPoints /\ NoAddr # Start
      BY <1>0 DEF TypeOK
    <3>2. currentAddr' = rip - 1 /\ DOMAIN breakPoints' = DOMAIN breakPoints
      BY <1>4 DEF StartReset
    <3>3. CASE hpc = "idle"
      <4>1. Planted = DOMAIN breakPoints \ {NoAddr}
        BY <2>1, <3>3 DEF Planted
      <4>2. Planted' = DOMAIN breakPoints \ {rip - 1}
        BY <1>4, <3>2, <3>3 DEF Planted
      <4> QED
        BY <3>1, <4>1, <4>2
    <3>4. CASE hpc = "starting"
      <4>1. Planted = {Start} \ {NoAddr} /\ rip - 1 = Start
        BY <1>4, <2>1, <3>4 DEF Planted
      <4>2. Planted' = {Start} \ {rip - 1}
        BY <1>4, <3>2, <3>4 DEF Planted
      <4> QED
        BY <3>1, <4>1, <4>2
    <3> QED
      BY <1>4, <3>3, <3>4
  <2>4. Intact(text', Planted') /\ Armed(text', Planted')
    BY <1>0, <1>0a, <1>4, <2>1, <2>2, <2>3, PokeIntact, PokeArmed DEF StartReset, PatchInv
  <2> QED
    BY <1>4, <2>1, <2>4 DEF StartReset, PatchInv
<1>5. CASE ResetBreakpoint
  <2>1. CASE StartReset /\ hpc' = "executing"
    BY <1>4, <1>5, <2>1 DEF ResetBreakpoint
  <2>2. CASE UNCHANGED <<tracee, table, currentAddr, hpc, toAdd, disturbed>>
    <3>1. Kept
      BY <2>2 DEF table, Planted
    <3> QED
      BY <2>2, <3>1 DEF tracee, PatchInv
  <2> QED
    BY <1>5, <2>1, <2>2 DEF ResetBreakpoint
<1>6. CASE RestoreBreakpoint
  <2>1. /\ currentAddr \in DOMAIN breakPoints /\ currentAddr \in Sites
        /\ breakPoints[currentAddr] \in Word
    BY <1>0, <1>6 DEF RestoreBreakpoint, ControlInv, TypeOK
  <2>2. /\ WithTrap(breakPoints[currentAddr]) \in Word
        /\ WithTrap(breakPoints[currentAddr])[0] = Int3
    BY <1>0, <2>1, WordTypes
  <2>3. Planted' = Planted \cup {currentAddr}
    <3>1. NoAddr \notin DOMAIN breakPoints
      BY <1>0 DEF TypeOK
    <3>2. Planted = DOMAIN breakPoints \ {currentAddr}
      BY <1>6 DEF RestoreBreakpoint, Planted
    <3>3. Planted' = DOMAIN breakPoints \ {NoAddr}
      BY <1>6 DEF RestoreBreakpoint, Planted
    <3> QED
      BY <2>1, <3>1, <3>2, <3>3
  <2>4. run # "dead" => Intact(text', Planted') /\ Armed(text', Planted')
    BY <1>0, <1>0a, <1>6, <2>1, <2>2, <2>3, PokeIntact, PokeArmed
    DEF RestoreBreakpoint, Rearm, PatchInv
  <2> QED
    BY <1>6, <2>4 DEF RestoreBreakpoint, PatchInv
<1>7. CASE ResetReturns
  <2>1. Kept
    BY <1>7 DEF ResetReturns, table, Planted
  <2> QED
    BY <1>7, <2>1 DEF ResetReturns, tracee, PatchInv
<1>8. CASE ReachStart
  <2>1. rip - 1 = Start
    BY <1>0, <1>8 DEF ReachStart, StartReset, PatchInv
  <2> QED
    BY <1>4, <1>8, <2>1 DEF ReachStart
<1>9. CASE RemoveStart
  <2>1. run = "stopped"
    BY <1>0c, <1>9 DEF RemoveStart
  <2>2. Start \in DOMAIN breakPoints /\ breakPoints[Start] = Original(Start)
    BY <1>0, <1>9 DEF RemoveStart, ControlInv, PatchInv
  <2>3. Original(Start) \in Word
    BY <1>0, WordTypes
  <2>4. Planted = {} /\ Planted' = {}
    BY <1>9 DEF RemoveStart, Planted, PatchInv
  <2>5. Intact(text', {} \ {Start}) /\ {} \ {Start} = {}
    BY <1>0, <1>9, <2>1, <2>2, <2>3, <2>4, PokeIntact DEF RemoveStart, PatchInv
  <2> QED
    BY <1>9, <2>1, <2>4, <2>5 DEF RemoveStart, tracee, PatchInv, Armed
<1>10. CASE AddSaved
  <2>1. run = "stopped" /\ currentAddr = NoAddr
    BY <1>0, <1>10 DEF AddSaved, PatchInv, ControlInv
  <2>2. PICK a \in toAdd : Add(text, TRUE, a)
    BY <1>10, <2>1 DEF AddSaved
  <2>3. a \in Sites /\ Planted = DOMAIN breakPoints
    BY <1>0, <1>10, <2>1, <2>2 DEF AddSaved, TypeOK, Planted
  <2>4. Planted' = Planted \cup {a}
    BY <1>0, <1>10, <2>1, <2>2, <2>3, AddTypes DEF AddSaved, Planted
  <2>5. /\ Intact(text', Planted \cup {a}) /\ Armed(text', Planted \cup {a})
        /\ \A x \in DOMAIN breakPoints' : breakPoints'[x] = Original(x)
        /\ bpInstruction'[0] = Int3
    BY <1>0, <1>0a, <2>1, <2>2, <2>3, AddPatch DEF PatchInv, isBreakPoint
  <2> QED
    BY <1>10, <2>1, <2>4, <2>5 DEF AddSaved, tracee, PatchInv
<1>11. CASE LaunchReturns
  <2>1. Kept
    BY <1>11 DEF LaunchReturns, table, Planted
  <2> QED
    BY <1>11, <2>1 DEF LaunchReturns, tracee, PatchInv
<1>12. CASE Resume \/ SingleStep
  <2>1. Kept
    BY <1>12 DEF Resume, SingleStep, Continue, table, Planted
  <2> QED
    BY <1>12, <2>1 DEF Resume, SingleStep, Continue, UserTurn, PatchInv
<1>13. CASE Launch
  <2>1. Pristine \in [Code -> Byte] /\ Intact(Pristine, {}) /\ Armed(Pristine, {})
    BY DEF Pristine, Byte, Intact, Armed
  <2>2. Add(Pristine, TRUE, Start) /\ {} \in SUBSET Sites /\ Start \notin {}
    BY <1>13 DEF Launch
  <2>3. /\ Intact(text', {} \cup {Start}) /\ Armed(text', {} \cup {Start})
        /\ \A x \in DOMAIN breakPoints' : breakPoints'[x] = Original(x)
        /\ bpInstruction'[0] = Int3
    BY <1>0, <2>1, <2>2, AddPatch DEF PatchInv
  <2>4. Planted' = {} \cup {Start}
    BY <1>0, <1>13 DEF Launch, Planted, ControlInv
  <2> QED
    BY <1>13, <2>3, <2>4 DEF Launch, PatchInv
<1>14. ASSUME NEW a \in Sites, ToggleBreakpoint(a) PROVE PatchInv'
  <2>1. /\ run = "stopped" /\ hpc = "idle" /\ currentAddr = NoAddr
        /\ Planted = DOMAIN breakPoints
    BY <1>0, <1>14 DEF ToggleBreakpoint, UserTurn, ControlInv, TypeOK, Planted
  <2>2. hpc' = "idle" /\ run' = "stopped" /\ currentAddr' = NoAddr
    BY <1>14, <2>1 DEF ToggleBreakpoint, tracee
  <2>3. CASE isBreakPoint(a)
    <3>1. Remove(TRUE, a)
      BY <1>14, <2>1, <2>3 DEF ToggleBreakpoint
    <3>2. breakPoints[a] = Original(a) /\ Original(a) \in Word
      BY <1>0, <2>3, WordTypes DEF PatchInv, isBreakPoint
    <3>3. Planted' = Planted \ {a}
      BY <1>0, <2>1, <2>2, <3>1 DEF Remove, Planted
    <3>4. Intact(text', Planted') /\ Armed(text', Planted')
      BY <1>0, <1>0a, <2>1, <3>1, <3>2, <3>3, PokeIntact, PokeArmed DEF Remove, PatchInv
    <3> QED
      BY <2>2, <3>1, <3>4 DEF Remove, PatchInv
  <2>4. CASE ~isBreakPoint(a)
    <3>1. Add(text, TRUE, a) /\ a \notin Planted
      BY <1>14, <2>1, <2>4 DEF ToggleBreakpoint, isBreakPoint
    <3>2. Planted' = Planted \cup {a}
      BY <1>0, <2>1, <2>2, <3>1, AddTypes DEF Planted
    <3>3. /\ Intact(text', Planted \cup {a}) /\ Armed(text', Planted \cup {a})
          /\ \A x \in DOMAIN breakPoints' : breakPoints'[x] = Original(x)
          /\ bpInstruction'[0] = Int3
      BY <1>0, <1>0a, <2>1, <3>1, AddPatch DEF PatchInv
    <3> QED
      BY <2>2, <3>2, <3>3 DEF PatchInv
  <2> QED
    BY <2>3, <2>4
<1>15. CASE Interrupt \/ Exit
  <2>1. Kept
    BY <1>15 DEF Interrupt, Exit, table, Planted
  <2>2. hpc \notin Launching /\ hpc' = hpc /\ run # "dead"
    BY <1>15 DEF Interrupt, Exit, Launching
  <2> QED
    BY <2>1, <2>2 DEF PatchInv, Launching
<1>16. CASE UNCHANGED vars
  <2>1. Kept
    BY <1>16 DEF vars, table, Planted
  <2> QED
    BY <1>16, <2>1 DEF vars, tracee, PatchInv
<1> QED
  BY <1>1, <1>2, <1>3, <1>5, <1>6, <1>7, <1>8, <1>9, <1>10, <1>11, <1>12, <1>13, <1>14,
     <1>15, <1>16 DEF Next, Tracee, Handler, User

\* Removing or stepping over a breakpoint gives the program back its own bytes, for every
\* program whose symbols are a word apart.
THEOREM SavedCorrect ==
  ASSUME SpacedSites, DialogOpen = FALSE
  PROVE  Spec => []SavedIsOriginal
<1>1. PatchInv => SavedIsOriginal
  BY DEF PatchInv, SavedIsOriginal
<1>2. TypeInv /\ PatchInv /\ [Next]_vars => PatchInv'
  BY PatchStep
<1> QED
  BY <1>1, <1>2, TypeInit, TypeStep, PatchInit, PTL DEF Spec

\* Nothing is left behind in the text by a remove, a reset or a launch.
THEOREM TextCorrect ==
  ASSUME SpacedSites, DialogOpen = FALSE
  PROVE  Spec => []TextIntegrity
<1>1. PatchInv => TextIntegrity
  BY DEF PatchInv, TextIntegrity, Intact, Within
<1>2. TypeInv /\ PatchInv /\ [Next]_vars => PatchInv'
  BY PatchStep
<1> QED
  BY <1>1, <1>2, TypeInit, TypeStep, PatchInit, PTL DEF Spec

\* No breakpoint of the table ever loses its int3 while the tracee may run freely.
THEOREM ArmedCorrect ==
  ASSUME SpacedSites, DialogOpen = FALSE
  PROVE  Spec => []AllArmed
<1>1. TypeInv /\ PatchInv => AllArmed
  BY SitesInText DEF TypeInv, TypeOK, ControlInv, PatchInv, AllArmed, Armed, Planted
<1>2. TypeInv /\ PatchInv /\ [Next]_vars => PatchInv'
  BY PatchStep
<1> QED
  BY <1>1, <1>2, TypeInit, TypeStep, PatchInit, PTL DEF Spec

-----------------------------------------------------------------------------
(* The handler is transparent: what the tracee executes, and the           *)
(* refinement of TransparentDebugging.  The theorems hold for every        *)
(* program that enters its symbols at the top, whatever signals it gets    *)
(* and whenever the user acts, until one of the events that `disturbed'    *)
(* records.                                                                *)

\* What the theorems of this part assume of the program and the user.
EnteredSites == SpacedSites /\ EnteredAtTop /\ DialogOpen = FALSE

\* The tail of the word at a is the program's own.
Owned(a) == \A x \in a + 1 .. a + WordSize - 1 : text[x] = x

\* Where the tracee may run, and what a launch that is over leaves.
RunInv ==
  /\ run = "running" => hpc \in {"idle", "starting"}
  /\ hpc = "none" => run = "dead"
  /\ hpc \in {"none", "idle", "executing", "beyond"} => toAdd = {}

\* A tracee that stands behind an int3 is stopped, and a reset for it is due.
TrapInv ==
  /\ ~wild
  /\ trapped => run = "stopped" /\ hpc \in {"idle", "beyond", "starting"}
  /\ hpc = "starting" /\ run = "stopped" => trapped
  /\ trapped /\ hpc # "starting" => isBreakPoint(rip - 1) /\ resetsDue > 0

\* One that does not stands at an instruction, and where this is inside the word of a
\* breakpoint, that has been hit: a reset wrote the program's own bytes there.  It stands
\* behind the first byte only while a reset steps over it.
FootInv ==
  run # "dead" /\ ~trapped =>
    /\ rip \in Insn
    /\ \A a \in Planted : Inside(a) => Owned(a)
    /\ hpc \in {"idle", "adding"} \/ (hpc = "beyond" /\ run = "stopped") => ~isBreakPoint(rip - 1)
    /\ hpc = "executing" /\ run = "stepping" => rip = currentAddr

FlowInv == RunInv /\ (~disturbed => TrapInv /\ FootInv)

-----------------------------------------------------------------------------
(* What the tracee fetches.                                                *)

LEMMA Geometry ==
  /\ WordSize \in Nat \ {0, 1} /\ LastByte \in Nat
  /\ \A s \in Sites : s \in Nat /\ s \in Code /\ s \in Insn /\ s # NoAddr /\ s # Int3
  /\ \A a \in Insn : /\ a \in Nat /\ a \in Code /\ Len[a] \in Nat \ {0} /\ Succ[a] \subseteq Insn
                     /\ a + Len[a] - 1 \in Code /\ a # Int3
BY GeometryAssumption, SitesInText DEF Code, Int3, NoAddr

LEMMA PlantedSites == TypeInv => Planted \subseteq Sites
BY GeometryAssumption DEF Planted, TypeInv, TypeOK

\* At an instruction of the program the tracee fetches an int3 if a breakpoint is planted
\* there, and the program's own bytes if not.
LEMMA Fetch ==
  ASSUME EnteredSites, TypeInv, PatchInv, FootInv, run # "dead", ~trapped
  PROVE  /\ rip \in Insn /\ rip \in Nat
         /\ rip \in Planted => text[rip] = Int3
         /\ rip \notin Planted => Genuine(rip) /\ text[rip] # Int3
<1>1. Intact(text, Planted) /\ Armed(text, Planted) /\ rip \in Insn
  BY DEF PatchInv, FootInv
<1>2. rip \in Planted => text[rip] = Int3
  BY <1>1 DEF Armed
<1>4. /\ rip \in Nat /\ Len[rip] \in Nat \ {0} /\ WordSize \in Nat /\ LastByte \in Nat
      /\ rip + Len[rip] - 1 \in 0 .. LastByte /\ rip # Int3
  BY <1>1, Geometry DEF Code
<1>5. ASSUME rip \notin Planted, NEW x \in rip .. rip + Len[rip] - 1
      PROVE  text[x] = x
  <2>1. x \in Code /\ x \in Nat
    BY <1>4, <1>5 DEF Code
  <2>2. ASSUME NEW s \in Planted, Within(x, s) PROVE text[x] = x
    <3>1. s \in Sites /\ s \in Nat /\ s # rip
      BY <1>5, PlantedSites, Geometry
    <3>2. ~(rip < s)
      <4>1. rip < s => rip + Len[rip] <= s
        BY <1>1, <3>1 DEF EnteredSites, EnteredAtTop
      <4> QED
        BY <1>4, <1>5, <2>1, <2>2, <3>1, <4>1 DEF Within
    <3>3. Inside(s) /\ x \in s + 1 .. s + WordSize - 1
      BY <1>4, <1>5, <2>1, <2>2, <3>1, <3>2 DEF Within, Inside
    <3> QED
      BY <3>3 DEF FootInv, Owned
  <2> QED
    BY <1>1, <2>1, <2>2 DEF Intact
<1>6. rip \in rip .. rip + Len[rip] - 1
  BY <1>4
<1>7. rip \notin Planted => Genuine(rip) /\ text[rip] = rip
  BY <1>1, <1>5, <1>6 DEF Genuine
<1> QED
  BY <1>1, <1>2, <1>4, <1>7

\* What is fetched and executed is no int3.
LEMMA Executed ==
  ASSUME ExecuteInsn
  PROVE  /\ rip \in Insn /\ rip' \in Insn /\ rip' \in Succ[rip] /\ rip \in Nat /\ rip' \in Nat
         /\ text[rip] # Int3
<1>1. rip \in Insn /\ rip' \in Succ[rip] /\ Genuine(rip)
  BY DEF ExecuteInsn, Genuine
<1>2. rip \in rip .. rip + Len[rip] - 1
  BY <1>1, Geometry
<1>3. text[rip] = rip
  BY <1>1, <1>2 DEF Genuine
<1> QED
  BY <1>1, <1>3, Geometry

\* Behind the first byte of a breakpoint the tracee comes by executing its instruction
\* only, and inside its word from that word only.
LEMMA ComesFromTop ==
  ASSUME EnteredSites, NEW a \in Sites, NEW b \in Insn, NEW x \in Succ[b]
  PROVE  /\ x - 1 = a => b = a
         /\ x \in a + 1 .. a + WordSize - 1 /\ b # a => b \in a + 1 .. a + WordSize - 1
<1>1. x \in Insn /\ x \in Nat /\ a \in Nat /\ b \in Nat /\ WordSize \in Nat \ {0, 1}
  BY Geometry
<1>2. x \in a + 1 .. a + WordSize - 1 =>
        b \in a .. a + WordSize - 1 /\ (x = a + 1 => b = a)
  BY <1>1 DEF EnteredSites, EnteredAtTop
<1>3. x - 1 = a => x = a + 1 /\ x \in a + 1 .. a + WordSize - 1
  BY <1>1
<1> QED
  BY <1>1, <1>2, <1>3

\* Symbols are not inside one another's words.
LEMMA NotInside ==
  ASSUME EnteredSites, NEW a \in Sites, NEW b \in Sites
  PROVE  /\ b \notin a + 1 .. a + WordSize - 1
         /\ a # b => \A x \in a + 1 .. a + WordSize - 1 : ~Within(x, b)
<1>1. a \in Nat /\ b \in Nat /\ WordSize \in Nat \ {0, 1}
  BY Geometry
<1>2. a # b => a + WordSize <= b \/ b + WordSize <= a
  BY DEF EnteredSites, SpacedSites
<1> QED
  BY <1>1, <1>2 DEF Within

\* A poke at one symbol leaves the tail of another's word alone; writing the program's own
\* word, with or without the int3, makes the tail the program's own.
LEMMA PokeOwned ==
  ASSUME EnteredSites, NEW t \in [Code -> Byte], NEW a \in Sites, NEW b \in Sites,
         NEW w \in Word
  PROVE  /\ a # b => \A x \in a + 1 .. a + WordSize - 1 : Poke(t, b, w)[x] = t[x]
         /\ w \in {Original(a), WithTrap(Original(a))} =>
              \A x \in a + 1 .. a + WordSize - 1 : Poke(t, a, w)[x] = x
<1>1. /\ a \in Nat /\ WordSize \in Nat \ {0, 1} /\ LastByte \in Nat
      /\ a + WordSize - 1 \in 0 .. LastByte
  BY Geometry, GeometryAssumption DEF Code
<1>2. ASSUME NEW x \in a + 1 .. a + WordSize - 1
      PROVE  x \in Code /\ Within(x, a) /\ x - a \in Offsets /\ x - a # 0
  BY <1>1, <1>2 DEF Code, Within, Offsets
<1>3. ASSUME a # b, NEW x \in a + 1 .. a + WordSize - 1
      PROVE  Poke(t, b, w)[x] = t[x]
  BY <1>2, <1>3, NotInside, PokeBytes
<1>4. ASSUME w \in {Original(a), WithTrap(Original(a))}, NEW x \in a + 1 .. a + WordSize - 1
      PROVE  Poke(t, a, w)[x] = x
  <2>1. Poke(t, a, w)[x] = w[x - a]
    BY <1>2, PokeBytes
  <2>2. w[x - a] = Original(a)[x - a]
    BY <1>2, <1>4 DEF WithTrap, Original
  <2> QED
    BY <1>2, <2>1, <2>2, OriginalBytes
<1> QED
  BY <1>3, <1>4

-----------------------------------------------------------------------------
(* The flow of control is inductive.                                       *)

LEMMA FlowInit == Init => FlowInv
BY DEF Init, FlowInv, RunInv, TrapInv, FootInv

LEMMA RunStep ==
  ASSUME DialogOpen = FALSE, TypeInv, PatchInv, RunInv, [Next]_vars
  PROVE  RunInv'
<1> USE DEF RunInv
<1>1. CASE HitTrap \/ ExecuteInsn \/ Misfetch \/ Interrupt \/ Exit
  BY <1>1 DEF HitTrap, ExecuteInsn, Misfetch, Interrupt, Exit
<1>2. CASE ResetBreakpoint
  BY <1>2 DEF ResetBreakpoint, StartReset, tracee
<1>3. CASE RestoreBreakpoint
  BY <1>3 DEF RestoreBreakpoint
<1>4. CASE ResetReturns
  BY <1>4 DEF ResetReturns, tracee
<1>5. CASE ReachStart
  BY <1>5 DEF ReachStart, StartReset
<1>6. CASE RemoveStart
  BY <1>6 DEF RemoveStart, tracee
<1>7. CASE AddSaved
  BY <1>7 DEF AddSaved, tracee
<1>8. CASE LaunchReturns
  BY <1>8 DEF LaunchReturns, tracee, PatchInv
<1>9. CASE Resume \/ SingleStep
  BY <1>9 DEF Resume, SingleStep, Continue, UserTurn
<1>10. CASE Launch
  BY <1>10 DEF Launch
<1>11. ASSUME NEW a \in Sites, ToggleBreakpoint(a) PROVE RunInv'
  BY <1>11 DEF ToggleBreakpoint, UserTurn, tracee
<1>12. CASE UNCHANGED vars
  BY <1>12 DEF vars, tracee
<1> QED
  BY <1>1, <1>2, <1>3, <1>4, <1>5, <1>6, <1>7, <1>8, <1>9, <1>10, <1>11, <1>12
  DEF Next, Tracee, Handler, User

\* A reset that does something finds the tracee behind an int3.
LEMMA OnlyTrapsAreReset ==
  ASSUME TypeInv, TrapInv, FootInv, StartReset, hpc \in {"idle", "starting"}
  PROVE  /\ trapped /\ rip - 1 \in Sites /\ run = "stopped" /\ run' = "stepping" /\ ~trapped'
         /\ rip' = currentAddr' /\ rip' = rip - 1 /\ rip' \in Sites
<1>1. rip - 1 \in Sites /\ isBreakPoint(rip - 1) /\ run = "stopped"
  BY DEF StartReset, isBreakPoint, TypeInv, TypeOK
<1>2. trapped
  BY <1>1 DEF TrapInv, FootInv
<1> QED
  BY <1>1, <1>2 DEF StartReset

\* Where the tracee hits an int3, a breakpoint is planted.
LEMMA TrapsArePlanted ==
  ASSUME EnteredSites, TypeInv, PatchInv, RunInv, FootInv, HitTrap
  PROVE  /\ rip \in Planted /\ rip \in Sites /\ rip \in Nat /\ (rip + 1) - 1 = rip
         /\ hpc \notin {"executing", "startExec", "adding"}
         /\ hpc # "starting" => isBreakPoint(rip)
<1>1. rip \in Planted /\ rip \in Nat
  BY Fetch DEF HitTrap
<1>2. rip \in Sites
  BY <1>1, PlantedSites
<1>3. hpc # "executing"
  BY <1>1 DEF HitTrap, RunInv, FootInv, Planted
<1>4. hpc # "startExec"
  BY <1>1 DEF HitTrap, PatchInv, Planted
<1>5. hpc # "adding"
  BY DEF HitTrap, PatchInv
<1>6. hpc # "starting" => isBreakPoint(rip)
  BY <1>1, <1>4 DEF Planted, isBreakPoint
<1>7. (rip + 1) - 1 = rip
  BY <1>1
<1> QED
  BY <1>1, <1>2, <1>3, <1>4, <1>5, <1>6, <1>7

\* Pokes of a symbol's own word, or of one that is entered from elsewhere, keep the tails
\* of the breakpoints the tracee stands inside.
LEMMA FeetStay ==
  ASSUME EnteredSites, TypeInv, NEW b \in Sites, NEW w \in Word,
         text' = Poke(text, b, w), NEW Q \in SUBSET Sites, NEW P \in SUBSET Sites,
         Q \subseteq P \cup {b},
         \A a \in P : Inside(a) => Owned(a),
         w \in {Original(b), WithTrap(Original(b))} \/ ~Inside(b) \/ b \notin Q
  PROVE  \A a \in Q : Inside(a) => \A x \in a + 1 .. a + WordSize - 1 : text'[x] = x
<1> SUFFICES ASSUME NEW a \in Q, Inside(a)
             PROVE  \A x \in a + 1 .. a + WordSize - 1 : text'[x] = x
  OBVIOUS
<1>1. text \in [Code -> Byte]
  BY DEF TypeInv, TypeOK
<1>2. CASE a # b
  <2>1. \A x \in a + 1 .. a + WordSize - 1 : text'[x] = text[x]
    BY <1>1, <1>2, PokeOwned
  <2>2. Owned(a)
    BY <1>2
  <2> QED
    BY <2>1, <2>2 DEF Owned
<1>3. CASE a = b
  <2>1. w \in {Original(b), WithTrap(Original(b))}
    BY <1>3
  <2> QED
    BY <1>1, <1>3, <2>1, PokeOwned
<1> QED
  BY <1>2, <1>3

\* Only a launch makes a process undisturbed.
LEMMA StaysDisturbed ==
  ASSUME [Next]_vars, ~disturbed', ~Launch
  PROVE  ~disturbed
<1>1. CASE HitTrap \/ Interrupt
  BY <1>1, Zenon DEF HitTrap, Interrupt, Disturb
<1>2. CASE ExecuteInsn \/ Misfetch \/ Exit
  BY <1>2 DEF ExecuteInsn, Misfetch, Exit
<1>3. CASE ResetBreakpoint \/ RestoreBreakpoint \/ ResetReturns \/ ReachStart
  BY <1>3 DEF ResetBreakpoint, RestoreBreakpoint, ResetReturns, ReachStart, StartReset
<1>4. CASE RemoveStart \/ LaunchReturns
  BY <1>4 DEF RemoveStart, LaunchReturns
<1>5. CASE AddSaved
  BY <1>5, Zenon DEF AddSaved, Disturb
<1>6. CASE Resume \/ SingleStep
  BY <1>6, Zenon DEF Resume, SingleStep, Continue, Disturb
<1>7. ASSUME NEW a \in Sites, ToggleBreakpoint(a) PROVE ~disturbed
  BY <1>7, Zenon DEF ToggleBreakpoint, Disturb
<1>8. CASE UNCHANGED vars
  BY <1>8 DEF vars
<1> QED
  BY <1>1, <1>2, <1>3, <1>4, <1>5, <1>6, <1>7, <1>8 DEF Next, Tracee, Handler, User

LEMMA FlowStep ==
  ASSUME EnteredSites, TypeInv, PatchInv, FlowInv, [Next]_vars
  PROVE  FlowInv'
<1>0. /\ TypeOK /\ ControlInv /\ DialogOpen = FALSE /\ text \in [Code -> Byte]
      /\ Start \in Sites /\ RunInv /\ resetsDue \in Nat /\ Planted \in SUBSET Sites
  <2>1. Planted \subseteq Sites
    BY PlantedSites
  <2>2. resetsDue \in Nat
    BY GeometryAssumption DEF TypeInv, TypeOK
  <2> QED
    BY <2>1, <2>2, GeometryAssumption DEF TypeInv, TypeOK, EnteredSites, FlowInv
<1>1. RunInv'
  BY <1>0, RunStep
<1> SUFFICES ASSUME ~disturbed' PROVE TrapInv' /\ FootInv'
  BY <1>1 DEF FlowInv
<1>2. CASE Launch
  <2>1. /\ ~wild' /\ ~trapped' /\ run' = "running" /\ hpc' = "starting" /\ rip' = Start
        /\ currentAddr' = currentAddr /\ currentAddr = NoAddr
    BY <1>0, <1>2 DEF Launch, ControlInv
  <2>2. Planted' = {Start}
    BY <1>0, <2>1, Geometry DEF Planted
  <2>3. ~Inside(Start)'
    BY <1>0, <2>1, NotInside DEF Inside
  <2> QED
    BY <1>0, <2>1, <2>2, <2>3, Geometry DEF TrapInv, FootInv
<1> SUFFICES ASSUME ~Launch PROVE TrapInv' /\ FootInv'
  BY <1>2
<1> USE DEF TrapInv
\* Every other action keeps what disturbed the process.
<1>3. ~disturbed /\ TrapInv /\ FootInv
  BY StaysDisturbed DEF FlowInv
\* An action that leaves the text, the table, the program counter and the handler alone.
<1>4. ASSUME UNCHANGED <<rip, trapped, table, currentAddr, hpc>>, run # "dead" \/ run' = "dead",
             hpc = "beyond" /\ run' = "stopped" => run = "stopped",
             hpc = "executing" /\ run' = "stepping" => run = "stepping"
      PROVE  FootInv'
  <2>1. Planted' = Planted /\ isBreakPoint(rip - 1)' = isBreakPoint(rip - 1)
    BY <1>4 DEF Planted, isBreakPoint, table
  <2>2. \A a : Inside(a)' = Inside(a) /\ Owned(a)' = Owned(a)
    BY <1>4 DEF Inside, Owned, table
  <2> QED
    BY <1>3, <1>4, <2>1, <2>2 DEF FootInv
<1>5. CASE HitTrap
  <2>1. /\ rip \in Planted /\ (rip + 1) - 1 = rip
        /\ hpc \notin {"executing", "startExec", "adding"}
        /\ hpc # "starting" => isBreakPoint(rip)
    BY <1>0, <1>3, <1>5, TrapsArePlanted
  <2>2. hpc \in {"idle", "beyond", "starting"}
    BY <1>0, <1>5, <2>1 DEF HitTrap, RunInv, TypeOK, Control, Launching
  <2>3. hpc # "starting" => resetsDue' > 0
    <3>1. ~(hpc = "beyond" /\ resetsDue = 0)
      BY <1>5, Zenon DEF HitTrap, Disturb
    <3>2. resetsDue' = IF hpc = "idle" THEN resetsDue + 2 ELSE resetsDue
      BY <1>5 DEF HitTrap, QueueResets
    <3> QED
      BY <1>0, <2>2, <3>1, <3>2
  <2>4. trapped' /\ rip' = rip + 1 /\ breakPoints' = breakPoints /\ hpc' = hpc /\ run' = "stopped"
    BY <1>5 DEF HitTrap, table
  <2>5. hpc # "starting" => isBreakPoint(rip - 1)'
    BY <2>1, <2>4 DEF isBreakPoint
  <2> QED
    BY <1>3, <1>5, <2>2, <2>3, <2>4, <2>5 DEF HitTrap, FootInv
<1>6. CASE ExecuteInsn
  <2>1. /\ rip \in Insn /\ rip' \in Insn /\ rip' \in Succ[rip] /\ rip \in Nat /\ rip' \in Nat
        /\ text[rip] # Int3 /\ run # "dead" /\ ~trapped /\ ~trapped'
    BY <1>6, Executed DEF ExecuteInsn
  <2>2. UNCHANGED <<wild, text, breakPoints, currentAddr, hpc>>
    BY <1>6 DEF ExecuteInsn, table
  <2>3. rip \notin Planted /\ Planted' = Planted
    BY <1>3, <2>1, <2>2 DEF PatchInv, Armed, Planted
  <2>4. hpc # "starting"
    BY <1>0, <1>6, <2>3, Geometry DEF ExecuteInsn, PatchInv, Planted, ControlInv, RunInv
  <2>5. ASSUME NEW a \in Planted, Inside(a)' PROVE Owned(a)'
    <3>1. a \in Sites /\ a # rip
      BY <1>0, <2>3, <2>5
    <3>2. Inside(a)
      BY <2>1, <2>5, <3>1, <1>0, ComesFromTop DEF Inside
    <3> QED
      BY <1>3, <2>1, <2>2, <2>5, <3>2 DEF FootInv, Owned
  <2>6. hpc \in {"idle", "adding", "beyond"} => ~isBreakPoint(rip - 1)'
    <3> SUFFICES ASSUME hpc \in {"idle", "adding", "beyond"}, isBreakPoint(rip - 1)' PROVE FALSE
      OBVIOUS
    <3>1. rip' - 1 \in DOMAIN breakPoints /\ rip' - 1 \in Sites
      BY <1>0, <2>2 DEF isBreakPoint, TypeOK
    <3>2. rip = rip' - 1
      BY <1>0, <2>1, <3>1, ComesFromTop
    <3>3. rip \in Planted
      BY <1>0, <3>1, <3>2, Geometry DEF Planted, ControlInv
    <3> QED
      BY <2>3, <3>3
  <2>7. run = "stepping" => run' = "stopped"
    BY <1>6 DEF ExecuteInsn
  <2>8. hpc' = "executing" => run' # "stepping"
    BY <1>0, <1>6, <2>2 DEF ExecuteInsn, RunInv
  <2> QED
    BY <1>3, <2>1, <2>2, <2>3, <2>4, <2>5, <2>6, <2>8 DEF FootInv
<1>7. ~Misfetch
  <2> SUFFICES ASSUME Misfetch PROVE FALSE
    OBVIOUS
  <2>1. run # "dead" /\ ~trapped
    BY <1>3 DEF Misfetch
  <2>2. text[rip] = Int3 \/ Genuine(rip)
    BY <1>0, <1>3, <2>1, Fetch
  <2> QED
    BY <2>1, <2>2 DEF Misfetch
\* A reset takes the tracee back to the breakpoint, whose word is the program's own.
<1>8. ASSUME StartReset, hpc = "idle" \/ hpc = "starting",
             hpc' = IF hpc = "idle" THEN "executing" ELSE "startExec"
      PROVE  TrapInv' /\ FootInv'
  <2>1. /\ trapped /\ rip - 1 \in Sites /\ run = "stopped" /\ run' = "stepping" /\ ~trapped'
        /\ rip' = currentAddr' /\ rip' = rip - 1 /\ rip' \in Sites
    BY <1>3, <1>8, OnlyTrapsAreReset
  <2>2. Planted' \subseteq Sites
    BY <1>0, <1>8 DEF Planted, StartReset, TypeOK
  <2>3. \A a \in Planted' : ~Inside(a)'
    BY <2>1, <2>2, NotInside DEF Inside
  <2>4. ~wild'
    BY <1>3, <1>8 DEF StartReset
  <2> QED
    BY <1>8, <2>1, <2>3, <2>4, Geometry DEF FootInv
<1>9. CASE ResetBreakpoint
  <2>1. CASE StartReset /\ hpc' = "executing"
    BY <1>8, <1>9, <2>1 DEF ResetBreakpoint
  <2>2. CASE UNCHANGED <<tracee, table, currentAddr, hpc, toAdd, disturbed>> /\ ~(run = "stopped" /\ isBreakPoint(rip - 1))
    <3>1. ~trapped /\ UNCHANGED <<rip, run, trapped, wild, table, currentAddr, hpc>>
      BY <1>3, <1>9, <2>2 DEF ResetBreakpoint, tracee
    <3>2. FootInv'
      BY <1>4, <3>1
    <3> QED
      BY <1>3, <3>1, <3>2
  <2> QED
    BY <1>9, <2>1, <2>2 DEF ResetBreakpoint
<1>10. CASE RestoreBreakpoint
  <2>1. /\ currentAddr \in Sites /\ breakPoints[currentAddr] = Original(currentAddr)
        /\ hpc = "executing" /\ hpc' = "beyond" /\ ~trapped /\ ~trapped' /\ ~wild' /\ rip' = rip
        /\ breakPoints' = breakPoints /\ run' # "stopped" /\ (run' # "dead" => run = "stopped")
    BY <1>0, <1>3, <1>10 DEF RestoreBreakpoint, ControlInv, TypeOK, PatchInv
  <2>2. /\ WithTrap(Original(currentAddr)) \in Word
        /\ run = "stopped" => text' = Poke(text, currentAddr, WithTrap(Original(currentAddr)))
    BY <1>0, <1>10, <2>1, WordTypes DEF RestoreBreakpoint, Rearm
  <2>3. Planted' \subseteq Planted \cup {currentAddr} /\ Planted' \in SUBSET Sites
    BY <1>0, <1>10, <2>1 DEF RestoreBreakpoint, Planted, TypeOK
  <2>4. ASSUME run = "stopped"
        PROVE  \A a \in Planted' : Inside(a) => \A x \in a + 1 .. a + WordSize - 1 : text'[x] = x
    <3>1. \A a \in Planted : Inside(a) => Owned(a)
      BY <1>3, <2>1, <2>4 DEF FootInv
    <3> QED
      BY <1>0, <2>1, <2>2, <2>3, <2>4, <3>1, FeetStay
  <2>5. run' # "dead" => \A a \in Planted' : Inside(a)' => Owned(a)'
    BY <2>1, <2>4 DEF Inside, Owned
  <2> QED
    BY <1>3, <2>1, <2>5 DEF FootInv
<1>11. CASE ResetReturns
  <2>1. UNCHANGED <<rip, run, trapped, wild, text, breakPoints, currentAddr, resetsDue>>
    BY <1>11 DEF ResetReturns, tracee, table
  <2>2. hpc = "beyond" /\ hpc' = "idle" /\ run \in {"stopped", "dead"}
    BY <1>11 DEF ResetReturns
  <2>3. Planted' = Planted /\ isBreakPoint(rip - 1)' = isBreakPoint(rip - 1)
    BY <2>1, <2>2 DEF Planted, isBreakPoint
  <2>4. \A a : Inside(a)' = Inside(a) /\ Owned(a)' = Owned(a)
    BY <2>1 DEF Inside, Owned
  <2>5. FootInv'
    BY <1>3, <2>1, <2>2, <2>3, <2>4 DEF FootInv
  <2> QED
    BY <1>3, <2>1, <2>2, <2>3, <2>5
<1>12. CASE ReachStart
  BY <1>8, <1>12 DEF ReachStart
<1>13. CASE RemoveStart
  <2>1. UNCHANGED <<rip, run, trapped, wild>> /\ hpc' = "adding" /\ hpc = "startExec" /\ Planted' = {}
    BY <1>13 DEF RemoveStart, tracee, Planted
  <2>2. ~isBreakPoint(rip - 1)'
    BY <1>13 DEF RemoveStart, isBreakPoint
  <2> QED
    BY <1>3, <2>1, <2>2 DEF FootInv
<1>14. CASE AddSaved
  <2>1. PICK a \in toAdd : Add(text, run = "stopped", a) /\ Disturb(Inside(a))
    BY <1>14 DEF AddSaved
  <2>2. /\ UNCHANGED <<rip, run, trapped, wild, currentAddr, hpc, resetsDue>> /\ hpc = "adding"
        /\ run = "stopped" /\ a \in Sites /\ ~Inside(a) /\ ~trapped
    BY <1>0, <1>3, <1>14, <2>1 DEF AddSaved, tracee, PatchInv, TypeOK, Disturb
  <2>3. /\ Planted' \subseteq Planted \cup {a} /\ Planted' \in SUBSET Sites
        /\ \E w \in Word : text' = Poke(text, a, w)
    <3>1. DOMAIN breakPoints' = DOMAIN breakPoints \cup {a}
      BY <1>0, <2>1, <2>2, AddTypes
    <3>2. WordAt(text, a) \in Word /\ WithTrap(WordAt(text, a)) \in Word
      BY <1>0, <2>2, WordTypes
    <3>3. \E w \in Word : text' = Poke(text, a, w)
      BY <1>0, <2>1, <2>2, <3>2 DEF Add, TypeOK
    <3> QED
      BY <1>0, <2>2, <3>1, <3>3 DEF Planted, TypeOK
  <2>4. \A b \in Planted' : Inside(b) => \A x \in b + 1 .. b + WordSize - 1 : text'[x] = x
    <3>1. PICK w \in Word : text' = Poke(text, a, w)
      BY <2>3
    <3>2. \A b \in Planted : Inside(b) => Owned(b)
      BY <1>3, <2>2 DEF FootInv
    <3>3. /\ a \in Sites /\ ~Inside(a) /\ Planted \in SUBSET Sites /\ Planted' \in SUBSET Sites
          /\ Planted' \subseteq Planted \cup {a}
      BY <1>0, <2>2, <2>3
    <3> QED
      BY <3>1, <3>2, <3>3, FeetStay
  <2>5. \A b \in Planted' : Inside(b)' => Owned(b)'
    BY <2>2, <2>4 DEF Inside, Owned
  <2>6. ~isBreakPoint(rip - 1)'
    <3>1. DOMAIN breakPoints' = DOMAIN breakPoints \cup {a}
      BY <1>0, <2>1, <2>2, AddTypes
    <3>2. ~isBreakPoint(rip - 1) /\ rip \in Nat
      BY <1>3, <2>2, Geometry DEF FootInv
    <3>3. rip - 1 # a
      BY <2>2, <3>2, Geometry DEF Inside
    <3> QED
      BY <2>2, <3>1, <3>2, <3>3 DEF isBreakPoint
  <2> QED
    BY <1>3, <2>2, <2>5, <2>6 DEF FootInv
<1>15. CASE LaunchReturns
  <2>1. UNCHANGED <<rip, run, trapped, wild, text, breakPoints, currentAddr>> /\ hpc = "adding" /\ hpc' = "idle"
    BY <1>15 DEF LaunchReturns, tracee, table
  <2>2. Planted' = Planted /\ isBreakPoint(rip - 1)' = isBreakPoint(rip - 1)
    BY <2>1 DEF Planted, isBreakPoint
  <2>3. \A a : Inside(a)' = Inside(a) /\ Owned(a)' = Owned(a)
    BY <2>1 DEF Inside, Owned
  <2>4. ~trapped
    BY <1>3, <2>1
  <2> QED
    BY <1>3, <2>1, <2>2, <2>3, <2>4 DEF FootInv
<1>16. CASE Resume \/ SingleStep
  <2>1. /\ UNCHANGED <<rip, trapped, wild, table, currentAddr, hpc>> /\ hpc = "idle" /\ run = "stopped"
        /\ resetsDue = 0
    <3>1. ~(resetsDue > 0)
      BY <1>16, Zenon DEF Resume, SingleStep, Continue, Disturb
    <3> QED
      BY <1>0, <1>16, <3>1 DEF Resume, SingleStep, Continue, UserTurn
  <2>2. ~trapped
    BY <1>3, <2>1
  <2>3. FootInv'
    BY <1>4, <2>1
  <2> QED
    BY <1>3, <2>1, <2>2, <2>3
<1>17. ASSUME NEW a \in Sites, ToggleBreakpoint(a) PROVE TrapInv' /\ FootInv'
  <2>1. /\ UNCHANGED <<rip, run, trapped, wild, currentAddr, resetsDue, hpc>> /\ hpc = "idle"
        /\ run = "stopped" /\ resetsDue = 0 /\ ~trapped /\ currentAddr = NoAddr
        /\ isBreakPoint(a) \/ ~Inside(a)
    <3>1. ~(resetsDue > 0) /\ (isBreakPoint(a) \/ ~Inside(a))
      BY <1>17, Zenon DEF ToggleBreakpoint, Disturb
    <3> QED
      BY <1>0, <1>3, <1>17, <3>1 DEF ToggleBreakpoint, UserTurn, tracee, ControlInv
  <2>2. Planted = DOMAIN breakPoints /\ Planted' = DOMAIN breakPoints'
    BY <1>0, <1>1, <2>1, TypeStep, Geometry DEF Planted, TypeOK, TypeInv
  <2>3. ~isBreakPoint(rip - 1) /\ rip \in Nat
    BY <1>3, <2>1, Geometry DEF FootInv
  <2>4. /\ DOMAIN breakPoints' \subseteq DOMAIN breakPoints \cup {a}
        /\ isBreakPoint(a) => a \notin DOMAIN breakPoints'
        /\ \E w \in Word : text' = Poke(text, a, w)
    <3>1. CASE isBreakPoint(a)
      <4>1. breakPoints[a] \in Word
        BY <1>0, <3>1 DEF isBreakPoint, TypeOK
      <4> QED
        BY <1>17, <2>1, <3>1, <4>1 DEF ToggleBreakpoint, Remove
    <3>2. CASE ~isBreakPoint(a)
      <4>1. WordAt(text, a) \in Word /\ WithTrap(WordAt(text, a)) \in Word
        BY <1>0, WordTypes
      <4> QED
        BY <1>0, <1>17, <2>1, <3>2, <4>1 DEF ToggleBreakpoint, Add, TypeOK
    <3> QED
      BY <3>1, <3>2
  <2>5. PICK w \in Word : text' = Poke(text, a, w)
    BY <2>4
  <2>6. \A b \in Planted' : Inside(b) => \A x \in b + 1 .. b + WordSize - 1 : text'[x] = x
    <3>1. Planted' \in SUBSET Sites /\ Planted' \subseteq Planted \cup {a}
      BY <1>0, <2>2, <2>4 DEF TypeOK
    <3>2. \A b \in Planted : Inside(b) => Owned(b)
      BY <1>3, <2>1 DEF FootInv
    <3>3. ~Inside(a) \/ a \notin Planted'
      BY <2>1, <2>2, <2>4
    <3>4. Planted \in SUBSET Sites
      BY <1>0
    <3> QED
      BY <2>5, <3>1, <3>2, <3>3, <3>4, FeetStay
  <2>7. \A b \in Planted' : Inside(b)' => Owned(b)'
    BY <2>1, <2>6 DEF Inside, Owned
  <2>8. ~isBreakPoint(rip - 1)'
    <3>1. rip - 1 = a => Inside(a)
      BY <2>3, Geometry DEF Inside
    <3>2. rip - 1 # a \/ a \notin DOMAIN breakPoints'
      BY <2>1, <2>4, <3>1
    <3> QED
      BY <2>1, <2>3, <2>4, <3>2 DEF isBreakPoint
  <2> QED
    BY <1>3, <2>1, <2>7, <2>8 DEF FootInv
<1>18. CASE Interrupt \/ Exit
  <2>1. /\ UNCHANGED <<rip, trapped, wild, table, currentAddr, hpc, resetsDue>> /\ ~trapped
        /\ run # "dead" /\ hpc # "starting"
    BY <1>3, <1>18 DEF Interrupt, Exit, Launching
  <2>2. run' = "dead" \/ (run' = "stopped" /\ hpc \notin {"executing", "beyond"})
    BY <1>18 DEF Interrupt, Exit, Disturb
  <2>3. FootInv'
    BY <1>4, <2>1, <2>2
  <2> QED
    BY <1>3, <2>1, <2>3
<1>19. CASE UNCHANGED vars
  <2>1. UNCHANGED <<rip, run, trapped, wild, table, currentAddr, hpc, resetsDue>>
    BY <1>19 DEF vars, tracee
  <2>2. isBreakPoint(rip - 1)' = isBreakPoint(rip - 1)
    BY <2>1 DEF isBreakPoint, table
  <2>3. FootInv'
    BY <1>4, <2>1
  <2> QED
    BY <1>3, <2>1, <2>2, <2>3
<1> QED
  BY <1>5, <1>6, <1>7, <1>9, <1>10, <1>11, <1>12, <1>13, <1>14, <1>15, <1>16, <1>17,
     <1>18, <1>19 DEF Next, Tracee, Handler, User

-----------------------------------------------------------------------------
(* The theorems.                                                           *)

\* Everything the theorems below rest on holds in every state.
LEMMA AlwaysFlow ==
  ASSUME EnteredSites
  PROVE  Spec => [](TypeInv /\ PatchInv /\ FlowInv)
<1>1. TypeInv /\ PatchInv /\ [Next]_vars => PatchInv'
  BY PatchStep DEF EnteredSites
<1>2. TypeInv /\ PatchInv /\ FlowInv /\ [Next]_vars => FlowInv'
  BY FlowStep
<1> QED
  BY <1>1, <1>2, TypeInit, TypeStep, PatchInit, FlowInit, PTL DEF Spec

\* The tracee never executes anything but its own instructions, however breakpoints are
\* set, hit, stepped over and restarted, until something disturbs the resets.
THEOREM NeverWildCorrect ==
  ASSUME EnteredSites
  PROVE  Spec => []NeverWild
<1>1. FlowInv => NeverWild
  BY DEF FlowInv, TrapInv, NeverWild
<1> QED
  BY <1>1, AlwaysFlow, PTL

\* Once the resets a stop queued have run, the tracee does not stand behind an int3: the
\* user never continues it past an instruction that was not executed.
THEOREM SettledCorrect ==
  ASSUME EnteredSites
  PROVE  Spec => []SettledNotTrapped
<1>1. FlowInv => SettledNotTrapped
  BY DEF FlowInv, TrapInv, SettledNotTrapped
<1> QED
  BY <1>1, AlwaysFlow, PTL

\* A tracee that runs freely executes no instruction that carries a breakpoint: the
\* int3 is there, whatever was toggled, stepped over or restarted before.
THEOREM NoneMissed ==
  ASSUME SpacedSites, DialogOpen = FALSE
  PROVE  Spec => NoMissedBreakpoint
<1>1. ASSUME AllArmed, run = "running", hpc = "idle", ExecuteInsn
      PROVE  ~isBreakPoint(rip)
  <2>1. rip \in Insn /\ text[rip] = rip /\ rip \in Nat
    <3>1. rip \in Insn /\ rip \in Nat /\ Len[rip] \in Nat \ {0}
      BY <1>1, GeometryAssumption DEF ExecuteInsn, Genuine, Code
    <3>2. rip \in rip .. rip + Len[rip] - 1
      BY <3>1
    <3> QED
      BY <1>1, <3>1, <3>2 DEF ExecuteInsn, Genuine
  <2>2. isBreakPoint(rip) => text[rip] = Int3
    BY <1>1 DEF AllArmed, isBreakPoint
  <2> QED
    BY <2>1, <2>2 DEF Int3
<1>2. AllArmed => [(run = "running" /\ hpc = "idle" /\ ExecuteInsn) => ~isBreakPoint(rip)]_vars
  BY <1>1
<1>3. Spec => []AllArmed
  BY ArmedCorrect
<1> QED
  BY <1>2, <1>3, PTL DEF Spec, NoMissedBreakpoint

-----------------------------------------------------------------------------
(* The refinement of TransparentDebugging.                                 *)

\* The abstract state: the instruction the program is to execute next, whether it runs
\* freely, and the breakpoints in force.
Pc    == IF trapped THEN rip - 1 ELSE rip
Mode  == IF run = "running" /\ hpc = "idle" THEN "free" ELSE "held"
InForce == IF hpc \in {"starting", "startExec"} THEN toAdd ELSE DOMAIN breakPoints \cup toAdd

\* One step of the handler is one step of the transparent debugger, or none.
LEMMA StepIsTransparent ==
  ASSUME EnteredSites, TypeInv, PatchInv, FlowInv, [Next]_vars, ~disturbed'
  PROVE  \/ /\ Mode = "free" => Pc \notin InForce
            /\ Pc' \in Succ[Pc] /\ UNCHANGED <<Mode, InForce>>
         \/ Mode = "free" /\ Mode' = "held" /\ UNCHANGED <<Pc, InForce>>
         \/ Mode = "held" /\ Mode' = "free" /\ UNCHANGED <<Pc, InForce>>
         \/ /\ Mode = "held"
            /\ \E s \in Sites : InForce' = (InForce \ {s}) \cup ({s} \ InForce)
            /\ UNCHANGED <<Pc, Mode>>
         \/ Pc' = Start /\ Mode' = "held" /\ UNCHANGED InForce
         \/ UNCHANGED <<Pc, Mode, InForce>>
<1> DEFINE Advances == /\ Mode = "free" => Pc \notin InForce
                       /\ Pc' \in Succ[Pc] /\ UNCHANGED <<Mode, InForce>>
           Holds    == Mode = "free" /\ Mode' = "held" /\ UNCHANGED <<Pc, InForce>>
           Releases == Mode = "held" /\ Mode' = "free" /\ UNCHANGED <<Pc, InForce>>
           Toggles  == /\ Mode = "held"
                       /\ \E s \in Sites : InForce' = (InForce \ {s}) \cup ({s} \ InForce)
                       /\ UNCHANGED <<Pc, Mode>>
           Launches == Pc' = Start /\ Mode' = "held" /\ UNCHANGED InForce
           Stutters == UNCHANGED <<Pc, Mode, InForce>>
<1> SUFFICES Advances \/ Holds \/ Releases \/ Toggles \/ Launches \/ Stutters
  OBVIOUS
<1>0. TypeOK /\ ControlInv /\ DialogOpen = FALSE
  BY DEF TypeInv, EnteredSites
<1>1. hpc \in {"none", "idle", "executing", "beyond"} => InForce = DOMAIN breakPoints
  BY DEF InForce, FlowInv, RunInv
<1>2. CASE HitTrap
  <2>1. ~trapped /\ trapped' /\ rip' = rip + 1 /\ rip \in Int
    BY <1>0, <1>2, SitesInText, GeometryAssumption DEF HitTrap, TypeOK, Code
  <2>2. Pc' = Pc
    BY <2>1 DEF Pc
  <2>3. UNCHANGED <<hpc, breakPoints, toAdd>> /\ run' = "stopped"
    BY <1>2 DEF HitTrap, table
  <2>4. InForce' = InForce /\ Mode' = "held"
    BY <2>3 DEF InForce, Mode
  <2> QED
    BY <2>2, <2>4 DEF Mode
<1>3. CASE ExecuteInsn
  <2>1. ~trapped /\ ~trapped' /\ rip' \in Succ[rip]
    BY <1>3 DEF ExecuteInsn
  <2>2. Mode = "free" => ~isBreakPoint(rip)
    <3>1. Mode = "free" => rip \notin Planted
      <4>1. rip \in Insn /\ rip \in Nat /\ Len[rip] \in Nat \ {0}
        BY <1>3, GeometryAssumption DEF ExecuteInsn, Genuine, Code
      <4>2. rip \in rip .. rip + Len[rip] - 1
        BY <4>1
      <4>3. text[rip] = rip
        BY <1>3, <4>2 DEF ExecuteInsn, Genuine
      <4>4. rip \in Planted => text[rip] = Int3
        BY <1>3 DEF ExecuteInsn, PatchInv, Armed
      <4> QED
        BY <4>1, <4>3, <4>4 DEF Int3
    <3>2. Mode = "free" /\ isBreakPoint(rip) => rip \in Planted
      BY <1>0, <1>3, SitesInText DEF Mode, Planted, isBreakPoint, TypeOK, ControlInv
    <3> QED
      BY <3>1, <3>2
  <2>3. UNCHANGED <<hpc, breakPoints, toAdd>> /\ (run' = run \/ (run = "stepping" /\ run' = "stopped"))
    BY <1>3 DEF ExecuteInsn, table
  <2>4. UNCHANGED <<Mode, InForce>>
    BY <2>3 DEF Mode, InForce
  <2>5. Mode = "free" => InForce = DOMAIN breakPoints
    BY <1>1 DEF Mode
  <2> QED
    BY <2>1, <2>2, <2>4, <2>5 DEF Pc, isBreakPoint
<1>4. CASE Misfetch \/ Interrupt \/ Exit
  <2>1. UNCHANGED <<rip, trapped, hpc, breakPoints, toAdd>> /\ run' # "running"
    BY <1>4 DEF Misfetch, Interrupt, Exit, table
  <2>2. UNCHANGED <<Pc, InForce>> /\ Mode' = "held"
    BY <2>1 DEF Pc, InForce, Mode
  <2> QED
    BY <2>2 DEF Mode
\* A reset only undoes the int3: the program is where it was.
<1>5. ASSUME StartReset, hpc \in {"idle", "starting"} PROVE Pc' = Pc
  <2>1. TrapInv /\ FootInv
    BY <1>5, Zenon DEF StartReset, FlowInv
  <2> QED
    BY <1>5, <2>1, OnlyTrapsAreReset DEF Pc
<1>6. CASE ResetBreakpoint
  <2>1. CASE StartReset /\ hpc' = "executing"
    <3>1. hpc = "idle" /\ run = "stopped" /\ breakPoints' = breakPoints /\ toAdd' = toAdd
      BY <1>6, <2>1 DEF ResetBreakpoint, StartReset
    <3>2. UNCHANGED <<Mode, InForce>>
      BY <2>1, <3>1 DEF Mode, InForce
    <3> QED
      BY <1>5, <2>1, <3>1, <3>2
  <2>2. CASE UNCHANGED <<tracee, table, currentAddr, hpc, toAdd, disturbed>>
    BY <2>2 DEF tracee, table, Pc, Mode, InForce
  <2> QED
    BY <1>6, <2>1, <2>2 DEF ResetBreakpoint
<1>7. CASE RestoreBreakpoint
  BY <1>7 DEF RestoreBreakpoint, Pc, Mode, InForce
<1>8. CASE ResetReturns
  BY <1>8 DEF ResetReturns, tracee, table, Pc, Mode, InForce
<1>9. CASE ReachStart
  <2>1. UNCHANGED <<Mode, InForce>>
    BY <1>9 DEF ReachStart, StartReset, Mode, InForce
  <2> QED
    BY <1>5, <1>9, <2>1 DEF ReachStart
<1>10. CASE RemoveStart
  <2>1. InForce' = {} \cup toAdd /\ InForce = toAdd
    BY <1>10 DEF RemoveStart, InForce
  <2>2. UNCHANGED <<Pc, Mode>>
    BY <1>10 DEF RemoveStart, tracee, Pc, Mode
  <2> QED
    BY <2>1, <2>2
<1>11. CASE AddSaved
  <2>1. PICK a \in toAdd : Add(text, run = "stopped", a) /\ toAdd' = toAdd \ {a}
    BY <1>11 DEF AddSaved
  <2>2. DOMAIN breakPoints' = DOMAIN breakPoints \cup {a}
    BY <1>0, <2>1, AddTypes DEF TypeOK
  <2>3. DOMAIN breakPoints' \cup toAdd' = DOMAIN breakPoints \cup toAdd
    BY <2>1, <2>2
  <2>4. InForce' = InForce
    BY <1>11, <2>3 DEF AddSaved, InForce
  <2> QED
    BY <1>11, <2>4 DEF AddSaved, tracee, Pc, Mode
<1>12. CASE LaunchReturns
  <2>1. run = "stopped"
    BY <1>12 DEF LaunchReturns, PatchInv
  <2> QED
    BY <1>12, <2>1 DEF LaunchReturns, tracee, table, Pc, Mode, InForce
<1>13. CASE Resume \/ SingleStep
  <2>1. /\ UNCHANGED <<rip, trapped, breakPoints, hpc, toAdd>> /\ hpc = "idle"
        /\ run = "stopped" /\ run' \in {"running", "stepping"}
    BY <1>13 DEF Resume, SingleStep, Continue, UserTurn, table
  <2> QED
    BY <2>1 DEF Pc, Mode, InForce
<1>14. CASE Launch
  <2>1. hpc \in {"none", "idle"} /\ toAdd' = DOMAIN breakPoints /\ hpc' = "starting" /\ rip' = Start /\ ~trapped'
    BY <1>14 DEF Launch
  <2>2. InForce' = InForce
    BY <1>1, <2>1 DEF InForce
  <2> QED
    BY <2>1, <2>2 DEF Pc, Mode
<1>15. ASSUME NEW a \in Sites, ToggleBreakpoint(a) PROVE Toggles
  <2>1. hpc = "idle" /\ hpc' = "idle" /\ run = "stopped" /\ UNCHANGED <<tracee, toAdd>> /\ toAdd = {}
    BY <1>0, <1>15 DEF ToggleBreakpoint, UserTurn, FlowInv, RunInv
  <2>2. InForce = DOMAIN breakPoints /\ InForce' = DOMAIN breakPoints'
    BY <2>1 DEF InForce
  <2>3. DOMAIN breakPoints' = (DOMAIN breakPoints \ {a}) \cup ({a} \ DOMAIN breakPoints)
    <3>1. CASE isBreakPoint(a)
      <4>1. DOMAIN breakPoints' = DOMAIN breakPoints \ {a}
        BY <1>15, <3>1 DEF ToggleBreakpoint, Remove
      <4> QED
        BY <3>1, <4>1 DEF isBreakPoint
    <3>2. CASE ~isBreakPoint(a)
      <4>1. DOMAIN breakPoints' = DOMAIN breakPoints \cup {a}
        BY <1>15, <3>2 DEF ToggleBreakpoint, Add
      <4> QED
        BY <3>2, <4>1 DEF isBreakPoint
    <3> QED
      BY <3>1, <3>2
  <2>4. UNCHANGED <<Pc, Mode>> /\ Mode = "held"
    BY <2>1 DEF tracee, Pc, Mode
  <2> QED
    BY <2>2, <2>3, <2>4
<1>16. CASE UNCHANGED vars
  BY <1>16 DEF vars, tracee, table, Pc, Mode, InForce
<1> QED
  BY <1>2, <1>3, <1>4, <1>6, <1>7, <1>8, <1>9, <1>10, <1>11, <1>12, <1>13, <1>14, <1>15,
     <1>16 DEF Next, Tracee, Handler, User

\* The handler implements the transparent debugger: the program counter moves along the
\* program's own control flow, and nothing but a toggle changes the breakpoints in force,
\* in every step before something disturbs the resets of the process.
THEOREM TransparentCorrect ==
  ASSUME EnteredSites
  PROVE  Spec => ImplementsTransparent
<1>1. Init => Transparent!Init
  BY DEF Init, Transparent!Init
<1>2. TypeInv /\ PatchInv /\ FlowInv /\ [Next]_vars
        => [~disturbed' => [Transparent!Next]_(Transparent!vars)]_vars
  BY StepIsTransparent
  DEF Pc, Mode, InForce, Transparent!Next, Transparent!Advance, Transparent!Hold,
      Transparent!Release, Transparent!Toggle, Transparent!Relaunch, Transparent!vars
<1> QED
  BY <1>1, <1>2, AlwaysFlow, PTL DEF Spec, ImplementsTransparent
=============================================================================
