------------------------- MODULE DwarfReader_proofs -------------------------
(***************************************************************************)
(* Theorems about DwarfReader: the types and files of functions, for every *)
(* object file.                                                            *)
(***************************************************************************)
EXTENDS DwarfReader, TLAPS, SequenceTheorems, NaturalsInduction, WellFoundedInduction

\* A set of numbers has a smallest element.
LEMMA Smallest ==
  ASSUME NEW T, T \subseteq Nat, T # {}
  PROVE  \E x \in T : \A y \in T : x <= y
<1>1. PICK x \in T : \A y \in T : ~(<<y, x>> \in OpToRel(<, Nat))
  BY NatLessThanWellFounded, WFMin, Zenon
<1>2. \A y \in T : ~(y < x)
  BY <1>1 DEF OpToRel
<1>3. \A y \in T : x <= y
  BY <1>2
<1> QED
  BY <1>3

-----------------------------------------------------------------------------
(* What the DIEs mean: the types that are found over so many references.   *)

\* The type at offset o, given those that are found over one reference less.
Refer(u, below, o) ==
  LET d == u.dies[o] IN
    IF d.tag = Base THEN <<d.name>>
    ELSE IF d.tag \in Derived /\ below[d.ref] # Unknown THEN <<d.tag>> \o below[d.ref] ELSE Unknown

Levels(u, g, m) ==
  g = [n \in 0 .. m |->
         [o \in 0 .. Len(u.dies) |->
            IF o = NoRef \/ n = 0 THEN Unknown ELSE Refer(u, g[n - 1], o)]]

LEMMA LevelsExist ==
  ASSUME NEW u, NEW n \in Nat
  PROVE  \E g : Levels(u, g, n)
<1> DEFINE bad == {m \in Nat : ~ \E g : Levels(u, g, m)}
<1> SUFFICES ASSUME bad # {} PROVE FALSE
  OBVIOUS
<1>1. PICK m \in bad : \A k \in bad : m <= k
  <2>1. bad \subseteq Nat
    OBVIOUS
  <2> HIDE DEF bad
  <2> QED
    BY <2>1, Smallest
<1>2. CASE m = 0
  <2> DEFINE g == [k \in 0 .. 0 |-> [o \in 0 .. Len(u.dies) |-> Unknown]]
  <2>1. g = [k \in 0 .. 0 |->
               [o \in 0 .. Len(u.dies) |->
                  IF o = NoRef \/ k = 0 THEN Unknown ELSE Refer(u, g[k - 1], o)]]
    OBVIOUS
  <2> QED
    BY <1>1, <1>2, <2>1 DEF Levels
<1>3. CASE m # 0
  <2>1. m - 1 \in Nat /\ m - 1 \notin bad
    BY <1>1, <1>3
  <2>2. PICK g : Levels(u, g, m - 1)
    BY <2>1
  <2> DEFINE Level(below, k) ==
               [o \in 0 .. Len(u.dies) |->
                  IF o = NoRef \/ k = 0 THEN Unknown ELSE Refer(u, below, o)]
             h == [k \in 0 .. m |-> IF k = m THEN Level(g[m - 1], m) ELSE g[k]]
  <2>3. g = [k \in 0 .. m - 1 |-> Level(g[k - 1], k)]
    BY <2>2 DEF Levels
  <2> HIDE DEF Level
  <2>4. ASSUME NEW k \in 0 .. m PROVE h[k] = Level(h[k - 1], k)
    <3>1. CASE k = m
      <4>1. h[k - 1] = g[m - 1]
        BY <1>3, <2>1, <3>1
      <4> QED
        BY <3>1, <4>1
    <3>2. CASE k # m /\ k # 0
      <4>1. k \in 0 .. m - 1 /\ k - 1 \in 0 .. m /\ k - 1 # m
        BY <2>1, <3>2
      <4>2. h[k] = g[k] /\ h[k - 1] = g[k - 1]
        BY <3>2, <4>1
      <4> QED
        BY <2>3, <4>1, <4>2
    <3>3. CASE k = 0
      <4>1. 0 \in 0 .. m - 1 /\ h[k] = g[0]
        BY <1>3, <2>1, <3>3
      <4>2. g[0] = Level(g[0 - 1], 0)
        BY <2>3, <4>1
      <4>3. \A x, y : Level(x, 0) = Level(y, 0)
        BY DEF Level
      <4> QED
        BY <3>3, <4>1, <4>2, <4>3
    <3> QED
      BY <3>1, <3>2, <3>3
  <2>5. h = [k \in 0 .. m |-> h[k]]
    OBVIOUS
  <2> HIDE DEF h
  <2>6. h = [k \in 0 .. m |-> Level(h[k - 1], k)]
    BY <2>4, <2>5
  <2>7. Levels(u, h, m)
    BY <2>6 DEF Levels, Level
  <2> QED
    BY <1>1, <2>7
<1> QED
  BY <1>2, <1>3

\* The types of a unit as they are found over up to n references.
Upto(u) == CHOOSE g : Levels(u, g, Len(u.dies))

LEMMA MeaningIs ==
  ASSUME NEW u
  PROVE  Meaning(u) = Upto(u)[Len(u.dies)]
BY DEF Meaning, Upto, Levels, Refer

LEMMA UptoIs ==
  ASSUME NEW u, Len(u.dies) \in Nat, NEW n \in 0 .. Len(u.dies), NEW o \in 0 .. Len(u.dies)
  PROVE  Upto(u)[n][o] = IF o = NoRef \/ n = 0 THEN Unknown ELSE Refer(u, Upto(u)[n - 1], o)
<1> DEFINE Level(below, k) ==
             [x \in 0 .. Len(u.dies) |->
                IF x = NoRef \/ k = 0 THEN Unknown ELSE Refer(u, below, x)]
           g == Upto(u)
<1>0. Levels(u, g, Len(u.dies))
  BY LevelsExist DEF Upto
<1>1. g = [k \in 0 .. Len(u.dies) |-> Level(g[k - 1], k)]
  BY <1>0 DEF Levels
<1> HIDE DEF g, Level
<1>2. g[n] = Level(g[n - 1], n)
  BY <1>1
<1>3. \A below : Level(below, n)[o] = IF o = NoRef \/ n = 0 THEN Unknown ELSE Refer(u, below, o)
  BY DEF Level
<1> QED
  BY <1>2, <1>3 DEF g

\* What a DIE is, and where it refers to.
LEMMA DieTyped ==
  ASSUME NEW u \in Units, NEW k \in DOMAIN u.dies
  PROVE  /\ u.dies \in Seq(Dies) /\ Len(u.dies) \in Nat /\ DOMAIN u.dies = 1 .. Len(u.dies)
         /\ u.dies[k] \in Dies /\ u.dies[k] \in Range(u.dies)
<1>1. u.dies \in Seq(Dies)
  BY DEF Units
<1>2. Len(u.dies) \in Nat /\ DOMAIN u.dies = 1 .. Len(u.dies)
  BY <1>1, LenProperties
<1>3. u.dies[k] \in Dies
  BY <1>1, <1>2, ElementOfSeq
<1> QED
  BY <1>1, <1>2, <1>3 DEF Range

\* A unit whose references are to DIEs of its own.
RefsIn(u) == \A d \in Range(u.dies) : {d.ref} \cup Range(d.params) \subseteq 0 .. Len(u.dies)

LEMMA RefIn ==
  ASSUME NEW u \in Units, RefsIn(u), NEW k \in DOMAIN u.dies
  PROVE  /\ u.dies[k].ref \in 0 .. Len(u.dies) /\ u.dies[k].ref \in Uses(u)
         /\ u.dies[k].params \in Seq(Nat)
         /\ \A i \in DOMAIN u.dies[k].params :
              u.dies[k].params[i] \in 0 .. Len(u.dies) /\ u.dies[k].params[i] \in Uses(u)
<1> DEFINE d == u.dies[k]
           refs == {d.ref} \cup Range(d.params)
<1>1. d \in Range(u.dies) /\ d \in Dies
  BY DieTyped
<1>2. refs \subseteq 0 .. Len(u.dies)
  BY <1>1 DEF RefsIn
<1>3. refs \subseteq Uses(u)
  BY <1>1 DEF Uses
<1>4. \A i \in DOMAIN d.params : d.params[i] \in refs
  BY DEF Range
<1>5. d.params \in Seq(Nat)
  BY <1>1 DEF Dies
<1> QED
  BY <1>2, <1>3, <1>4, <1>5

\* What is found over n references is found over one more.
LEMMA UptoGrows ==
  ASSUME NEW u \in Units, RefsIn(u),
         NEW m \in Nat, m < Len(u.dies), NEW q \in 0 .. Len(u.dies), Upto(u)[m][q] # Unknown
  PROVE  Upto(u)[m + 1][q] = Upto(u)[m][q]
<1> DEFINE L   == Len(u.dies)
           bad == {n \in Nat : n < L /\ \E o \in 0 .. L : /\ Upto(u)[n][o] # Unknown
                                                        /\ Upto(u)[n + 1][o] # Upto(u)[n][o]}
<1>1. L \in Nat /\ DOMAIN u.dies = 1 .. L
  BY LenProperties DEF Units
<1> SUFFICES ASSUME bad # {} PROVE FALSE
  OBVIOUS
<1>2. PICK n \in bad : \A k \in bad : n <= k
  <2>1. bad \subseteq Nat
    OBVIOUS
  <2> HIDE DEF bad
  <2> QED
    BY <2>1, Smallest
<1>3. PICK o \in 0 .. L : Upto(u)[n][o] # Unknown /\ Upto(u)[n + 1][o] # Upto(u)[n][o]
  BY <1>2
<1>4. n \in Nat /\ n < L
  BY <1>2
<1> HIDE DEF bad
<1>5. n # 0 /\ o # NoRef /\ Upto(u)[n][o] = Refer(u, Upto(u)[n - 1], o)
  <2>1. n \in 0 .. L
    BY <1>1, <1>4
  <2>2. Upto(u)[n][o] = IF o = NoRef \/ n = 0 THEN Unknown ELSE Refer(u, Upto(u)[n - 1], o)
    BY <1>1, <2>1, UptoIs
  <2> QED
    BY <1>3, <2>2
<1>6. Upto(u)[n + 1][o] = Refer(u, Upto(u)[n], o)
  <2> DEFINE k == n + 1
  <2>2. k \in 0 .. L /\ k # 0 /\ k - 1 = n
    BY <1>1, <1>4
  <2> HIDE DEF k
  <2>3. Upto(u)[k][o] = IF o = NoRef \/ k = 0 THEN Unknown ELSE Refer(u, Upto(u)[k - 1], o)
    BY <1>1, <2>2, UptoIs
  <2>4. Upto(u)[k][o] = Refer(u, Upto(u)[n], o)
    BY <1>5, <2>2, <2>3
  <2> QED
    BY <2>4 DEF k
<1>7. n - 1 \in Nat /\ n - 1 < L /\ n - 1 \notin bad /\ n - 1 + 1 = n
  <2>1. n - 1 \in Nat /\ n - 1 < L /\ n - 1 + 1 = n /\ ~ n <= n - 1
    BY <1>1, <1>4, <1>5
  <2> QED
    BY <1>2, <2>1
<1>8. \A r \in 0 .. L : Upto(u)[n - 1][r] # Unknown => Upto(u)[n][r] = Upto(u)[n - 1][r]
  BY <1>7 DEF bad
<1>9. u.dies[o].ref \in 0 .. L
  BY <1>1, <1>5, RefIn DEF NoRef
<1> QED
  BY <1>3, <1>5, <1>6, <1>8, <1>9 DEF Refer

\* Only a type is found.
LEMMA FoundIsType ==
  ASSUME NEW u \in Units, RefsIn(u),
         NEW n \in 0 .. Len(u.dies), NEW o \in 0 .. Len(u.dies), Upto(u)[n][o] # Unknown
  PROVE  o \in TypesOf(u)
<1>1. u.dies \in Seq(Dies)
  BY DEF Units
<1>2. Len(u.dies) \in Nat /\ DOMAIN u.dies = 1 .. Len(u.dies)
  BY <1>1, LenProperties
<1>3. o # NoRef /\ Refer(u, Upto(u)[n - 1], o) # Unknown
  BY <1>2, UptoIs
<1>4. o \in DOMAIN u.dies
  BY <1>2, <1>3 DEF NoRef
<1>5. u.dies[o].tag \in Derived \cup {Base}
  BY <1>3 DEF Refer
<1> QED
  BY <1>4, <1>5 DEF TypesOf

-----------------------------------------------------------------------------
(* The tables.                                                             *)

\* The units whose types the walk has begun to read, and how many references it has followed
\* of those of the present one.
Begun == {j \in 1 .. unit : j < unit \/ phase \notin {"files", "failed"}}
Followed == IF phase = "basic" THEN 1
            ELSE IF phase = "derived" THEN die - 1 ELSE Len(Unit.dies)

\* Where the reader is.
PlaceInv ==
  /\ program \in Programs /\ unit \in 1 .. Len(program)
  /\ phase \in {"files", "basic", "derived", "functions", "done", "failed"}
  /\ die \in Nat \ {0}
  /\ phase \in {"basic", "derived"} => die >= 2 /\ (die > 2 => die <= Len(Unit.dies))
  /\ phase = "functions" /\ die > 1 => die <= Len(Unit.dies)
  /\ phase = "done" => unit = Len(program)

\* An entry of the table of types is named, and of a unit that was begun; in a fresh unit
\* it is the type that is found over the references followed.
Parts       == STRING \cup Derived
TypeStrings == Seq(Parts) \ {Unknown}
EntriesInv  == \A o \in DOMAIN type_tabl :
  type_tabl[o] \in TypeStrings /\ \E j \in Begun : o \in Listable(program[j])
FoundInv == unit \in Begun /\ Fresh(unit) =>
  \A o \in DOMAIN type_tabl \cap Uses(Unit) : type_tabl[o] = Upto(Unit)[Followed][o]

\* In a unit in which a type is named before its use, none that was passed is missing.
Passed(o)     == phase \in {"functions", "done"} \/ (phase = "derived" /\ o < die)
BasePassed(o) == phase = "derived" \/ (phase = "basic" /\ o < die)
CompleteInv == unit \in Begun /\ InOrder(Unit) =>
  \A o \in TypesOf(Unit) :
    /\ Passed(o) /\ Meaning(Unit)[o] # Unknown => o \in DOMAIN type_tabl
    /\ BasePassed(o) /\ Unit.dies[o].tag = Base => o \in DOMAIN type_tabl

\* Just the functions that were visited are known, and what is known of one of a fresh unit
\* is what its DIE says.
Visited(j, k) == j < unit \/ (j = unit /\ (phase = "done" \/ (phase = "functions" /\ k < die)))
FunctionOf(u, d, f) ==
  /\ f.type \in {Meaning(u)[d.ref], Unknown}
  /\ DOMAIN f.args = DOMAIN d.params
  /\ \A i \in DOMAIN d.params : f.args[i] \in {Meaning(u)[d.params[i]], Unknown}
  /\ InOrder(u) => /\ f.type = Meaning(u)[d.ref]
                   /\ f.args = [i \in DOMAIN d.params |-> Meaning(u)[d.params[i]]]
FunctionsInv ==
  \A j \in 1 .. Len(program) : \A k \in Sole(j) :
    LET d == program[j].dies[k]
    IN /\ d.name \in DOMAIN functions <=> Visited(j, k)
       /\ Visited(j, k) /\ Fresh(j) => FunctionOf(program[j], d, functions[d.name])

DwarfInv == PlaceInv /\ EntriesInv /\ FoundInv /\ CompleteInv /\ FunctionsInv

LEMMA InFront ==
  ASSUME NEW S, NEW t \in S, NEW q \in Seq(S)
  PROVE  <<t>> \o q \in Seq(S) /\ <<t>> \o q # <<>>
<1>1. <<t>> \in Seq(S) /\ Len(<<t>>) = 1
  OBVIOUS
<1>2. <<t>> \o q \in Seq(S) /\ Len(<<t>> \o q) = Len(<<t>>) + Len(q)
  BY <1>1, ConcatProperties
<1>3. Len(q) \in Nat /\ Len(<<>>) = 0
  BY LenProperties
<1>4. <<t>> \o q # <<>>
  BY <1>1, <1>2, <1>3
<1> QED
  BY <1>2, <1>4

LEMMA UnitTyped ==
  ASSUME PlaceInv, NEW j \in 1 .. Len(program)
  PROVE  /\ program \in Programs /\ DOMAIN program = 1 .. Len(program) /\ Len(program) \in Nat
         /\ program[j] \in Units
         /\ Len(program[j].dies) \in Nat /\ DOMAIN program[j].dies = 1 .. Len(program[j].dies)
         /\ RefsIn(program[j])
<1>1. program \in Seq(Units)
  BY DwarfAssumption DEF PlaceInv
<1>2. DOMAIN program = 1 .. Len(program) /\ Len(program) \in Nat
  BY <1>1, LenProperties
<1>3. program[j] \in Units
  BY <1>1, <1>2, ElementOfSeq
<1>4. program[j] \in Range(program)
  BY <1>2 DEF Range
<1>5. program[j].dies \in Seq(Dies)
  BY <1>3 DEF Units
<1>6. Len(program[j].dies) \in Nat /\ DOMAIN program[j].dies = 1 .. Len(program[j].dies)
  BY <1>5, LenProperties
<1>7. program \in Programs
  BY DEF PlaceInv
<1>8. RefsIn(program[j])
  BY <1>4, <1>7, DwarfAssumption DEF RefsIn
<1> QED
  BY <1>2, <1>3, <1>6, <1>7, <1>8

\* The unit that is read, and where in it the reader may be.
LEMMA PresentUnit ==
  ASSUME PlaceInv
  PROVE  /\ unit \in 1 .. Len(program) /\ Len(program) \in Nat /\ Unit = program[unit]
         /\ Unit \in Units /\ RefsIn(Unit) /\ Unit.dies \in Seq(Dies)
         /\ Len(Unit.dies) \in Nat /\ DOMAIN Unit.dies = 1 .. Len(Unit.dies)
         /\ Begun = 1 .. (IF phase \in {"files", "failed"} THEN unit - 1 ELSE unit)
<1>1. unit \in 1 .. Len(program)
  BY DEF PlaceInv
<1>2. Len(program) \in Nat
  BY <1>1, UnitTyped
<1>3. Begun = 1 .. (IF phase \in {"files", "failed"} THEN unit - 1 ELSE unit)
  BY <1>1, <1>2 DEF Begun
<1>4. Unit \in Units => Unit.dies \in Seq(Dies)
  BY DEF Units
<1> QED
  BY <1>1, <1>3, <1>4, UnitTyped DEF Unit

LEMMA DwarfInit == Init => DwarfInv
<1> SUFFICES ASSUME Init PROVE DwarfInv
  OBVIOUS
<1>1. /\ program \in Programs /\ unit = 1 /\ phase = "files" /\ die = 1
      /\ DOMAIN type_tabl = {} /\ DOMAIN functions = {}
  BY DEF Init
<1>2. Len(program) \in Nat \ {0}
  BY <1>1, DwarfAssumption, EmptySeq, LenProperties
<1>3. PlaceInv
  BY <1>1, <1>2 DEF PlaceInv
<1>4. unit \notin Begun
  BY <1>1 DEF Begun
<1>5. \A j \in 1 .. Len(program) : \A k : ~ Visited(j, k)
  BY <1>1, <1>2 DEF Visited
<1> QED
  BY <1>1, <1>3, <1>4, <1>5 DEF DwarfInv, EntriesInv, FoundInv, CompleteInv, FunctionsInv

\* Insert on an offset that is not in the table yet, and on one that is.
LEMMA Inserted ==
  ASSUME NEW o, NEW t, Insert(o, t)
  PROVE  /\ DOMAIN type_tabl' = DOMAIN type_tabl \cup {o}
         /\ \A p \in DOMAIN type_tabl : type_tabl'[p] = type_tabl[p]
         /\ o \notin DOMAIN type_tabl => type_tabl'[o] = t
BY DEF Insert

\* As long as no function is visited nothing changes in what is known of them.
LEMMA FunctionsKept ==
  ASSUME PlaceInv, FunctionsInv, UNCHANGED <<program, unit, functions>>,
         phase \in {"files", "basic", "derived"}, phase' # "done", phase' = "functions" => die' = 1
  PROVE  FunctionsInv'
<1>1. unit \in Nat
  BY PresentUnit
<1>2. ASSUME NEW j \in 1 .. Len(program), NEW k \in Sole(j) PROVE Visited(j, k)' <=> Visited(j, k)
  <2>1. k \in 1 .. Len(program[j].dies) /\ Len(program[j].dies) \in Nat
    BY <1>2, UnitTyped DEF Sole, Definitions
  <2>2. ~ k < 1
    BY <2>1
  <2> QED
    BY <1>1, <2>2 DEF Visited
<1>3. \A j : Sole(j)' = Sole(j) /\ (Fresh(j)' <=> Fresh(j))
  BY DEF Sole, Definitions, Fresh
<1> QED
  BY <1>2, <1>3 DEF FunctionsInv

LEMMA FilesNext ==
  ASSUME DwarfInv, LoadFileTable
  PROVE  DwarfInv'
<1>1. /\ phase = "files" /\ phase' = "basic" /\ die' = 2
      /\ UNCHANGED <<program, unit, type_tabl, functions>>
  BY DEF LoadFileTable
<1>2. PlaceInv /\ EntriesInv /\ FunctionsInv
  BY DEF DwarfInv
<1>3. /\ unit \in 1 .. Len(program) /\ Len(program) \in Nat /\ Unit = program[unit]
      /\ Len(Unit.dies) \in Nat /\ DOMAIN Unit.dies = 1 .. Len(Unit.dies)
  BY <1>2, PresentUnit
<1>4. Begun = 1 .. unit - 1 /\ Begun' = 1 .. unit /\ Unit' = Unit
  BY <1>1, <1>3 DEF Begun, Unit
<1>5. PlaceInv'
  BY <1>1, <1>2, <1>4 DEF PlaceInv
<1>6. EntriesInv'
  <2>1. 1 .. unit - 1 \subseteq 1 .. unit
    BY <1>3
  <2> QED
    BY <1>1, <1>2, <1>4, <2>1 DEF EntriesInv
\* The first entry of a fresh unit is not made yet.
<1>7. FoundInv'
  <2> SUFFICES ASSUME Fresh(unit), NEW o \in DOMAIN type_tabl, o \in Uses(Unit) PROVE FALSE
    <3>1. Fresh(unit)' <=> Fresh(unit)
      BY <1>1 DEF Fresh
    <3> QED
      BY <1>1, <1>4, <3>1 DEF FoundInv
  <2>1. PICK i \in 1 .. unit - 1 : o \in Listable(program[i])
    BY <1>2, <1>4 DEF EntriesInv
  <2> QED
    BY <1>3, <2>1 DEF Fresh
<1>8. CompleteInv'
  <2> SUFFICES ASSUME InOrder(Unit), NEW o \in TypesOf(Unit)
               PROVE  ~ Passed(o)' /\ ~ BasePassed(o)'
    BY <1>1, <1>4 DEF CompleteInv
  <2>1. o \in 1 .. Len(Unit.dies) /\ o # 1
    BY <1>3 DEF InOrder, Listable, TypesOf
  <2>2. ~ o < 2
    BY <1>3, <2>1
  <2> QED
    BY <1>1, <2>2 DEF Passed, BasePassed
<1>9. FunctionsInv'
  BY <1>1, <1>2, FunctionsKept
<1> QED
  BY <1>5, <1>6, <1>7, <1>8, <1>9 DEF DwarfInv

LEMMA ThrowsNext ==
  ASSUME DwarfInv, ReadCuThrows
  PROVE  DwarfInv'
<1>1. /\ phase = "files" /\ phase' = "failed"
      /\ UNCHANGED <<program, unit, die, type_tabl, functions>>
  BY DEF ReadCuThrows, tables
<1>2. PlaceInv /\ EntriesInv /\ FunctionsInv
  BY DEF DwarfInv
<1>3. Begun' = Begun /\ unit \notin Begun' /\ Unit' = Unit
  <2>1. unit \in Nat
    BY <1>2, PresentUnit
  <2> QED
    BY <1>1, <2>1 DEF Begun, Unit
<1>4. PlaceInv'
  BY <1>1, <1>2, <1>3 DEF PlaceInv
<1>5. EntriesInv'
  BY <1>1, <1>2, <1>3 DEF EntriesInv
<1>6. FoundInv' /\ CompleteInv'
  BY <1>1, <1>3 DEF FoundInv, CompleteInv
<1>7. FunctionsInv'
  BY <1>1, <1>2, FunctionsKept
<1> QED
  BY <1>4, <1>5, <1>6, <1>7 DEF DwarfInv

\* Where a unit keeps its types and what it refers to.
LEMMA UsesIn ==
  ASSUME NEW u \in Units, RefsIn(u)
  PROVE  /\ Uses(u) \subseteq 0 .. Len(u.dies) /\ Listable(u) \subseteq Uses(u)
         /\ Listable(u) \subseteq TypesOf(u) /\ TypesOf(u) \subseteq 1 .. Len(u.dies)
<1> DEFINE refs == UNION {{d.ref} \cup Range(d.params) : d \in Range(u.dies)}
<1>1. refs \subseteq 0 .. Len(u.dies)
  BY DEF RefsIn
<1>2. TypesOf(u) \subseteq 1 .. Len(u.dies) /\ Len(u.dies) \in Nat
  BY LenProperties DEF Units, TypesOf
<1>3. 1 .. Len(u.dies) \subseteq 0 .. Len(u.dies)
  BY <1>2
<1>4. Listable(u) \subseteq TypesOf(u)
  BY DEF Listable
<1> HIDE DEF refs
<1>5. Uses(u) = Listable(u) \cup refs
  BY DEF Uses, refs
<1> QED
  BY <1>1, <1>2, <1>3, <1>4, <1>5

LEMMA BasicNext ==
  ASSUME DwarfInv, LoadBasicTypeMap
  PROVE  DwarfInv'
<1> DEFINE L == Len(Unit.dies)
           Named == Sibling /\ Die.tag = Base
<1>1. /\ phase = "basic" /\ UNCHANGED <<program, unit, functions>>
      /\ IF die < L THEN die' = die + 1 /\ phase' = phase ELSE die' = 2 /\ phase' = "derived"
      /\ IF Named THEN Insert(die, <<Die.name>>) ELSE type_tabl' = type_tabl
  BY DEF LoadBasicTypeMap, Advance
<1>2. PlaceInv /\ EntriesInv /\ FoundInv /\ CompleteInv /\ FunctionsInv
  BY DEF DwarfInv
<1>3. /\ unit \in 1 .. Len(program) /\ Len(program) \in Nat /\ Unit = program[unit]
      /\ Unit \in Units /\ RefsIn(Unit) /\ L \in Nat /\ DOMAIN Unit.dies = 1 .. L
  BY <1>2, PresentUnit
<1>4. die \in Nat /\ die >= 2 /\ (die > 2 => die <= L)
  BY <1>1, <1>2, <1>3 DEF PlaceInv
<1>5. /\ Begun = 1 .. unit /\ Begun' = 1 .. unit /\ unit \in 1 .. unit
      /\ Followed = 1 /\ Followed' = 1 /\ Unit' = Unit
  <2>1. Begun = 1 .. unit /\ Begun' = 1 .. unit /\ unit \in 1 .. unit
    BY <1>1, <1>3 DEF Begun
  <2>2. Unit' = Unit /\ Followed = 1
    BY <1>1 DEF Unit, Followed
  <2>3. Followed' = 1
    BY <1>1, <1>4, <2>2 DEF Followed
  <2> QED
    BY <2>1, <2>2, <2>3
<1>6. PlaceInv'
  <2>1. die' \in Nat \ {0} /\ die' >= 2 /\ (die' > 2 => die' <= L) /\ phase' \in {"basic", "derived"}
    BY <1>1, <1>3, <1>4
  <2> QED
    BY <1>1, <1>2, <1>5, <2>1 DEF PlaceInv
<1>7. ASSUME Named
      PROVE  /\ die \in Listable(Unit) /\ die \in 1 .. L /\ <<Die.name>> \in TypeStrings
             /\ Upto(Unit)[1][die] = <<Die.name>>
  <2>1. die \in 1 .. L /\ Die = Unit.dies[die] /\ ~ Die.nested /\ Die.tag = Base
    BY <1>3, <1>4, <1>7 DEF Sibling, Die
  <2>2. die \in Listable(Unit)
    <3>1. die \in TypesOf(Unit)
      BY <1>3, <2>1 DEF TypesOf
    <3>2. die # 1
      BY <1>4
    <3> QED
      BY <2>1, <3>1, <3>2 DEF Listable
  <2>3. <<Die.name>> \in TypeStrings
    <3>1. Die.name \in Parts
      BY <1>3, <2>1, DieTyped DEF Dies, Parts
    <3> QED
      BY <3>1 DEF TypeStrings, Unknown
  <2>4. die \in 0 .. L /\ 1 \in 0 .. L /\ die # NoRef /\ 1 # 0
    BY <1>3, <2>1 DEF NoRef
  <2>5. Upto(Unit)[1][die] = Refer(Unit, Upto(Unit)[1 - 1], die)
    BY <1>3, <2>4, UptoIs
  <2> QED
    BY <2>1, <2>2, <2>3, <2>5 DEF Refer
<1> HIDE DEF L, Named
<1>8. /\ DOMAIN type_tabl \subseteq DOMAIN type_tabl'
      /\ \A p \in DOMAIN type_tabl : type_tabl'[p] = type_tabl[p]
      /\ \A p \in DOMAIN type_tabl' \ DOMAIN type_tabl :
           Named /\ p = die /\ type_tabl'[p] = <<Die.name>>
      /\ Named => die \in DOMAIN type_tabl'
  <2>1. CASE Named
    <3>1. Insert(die, <<Die.name>>)
      BY <1>1, <2>1
    <3> QED
      BY <2>1, <3>1, Inserted
  <2>2. CASE ~ Named
    BY <1>1, <2>2
  <2> QED
    BY <2>1, <2>2
<1>9. EntriesInv'
  <2>1. ASSUME NEW o \in DOMAIN type_tabl'
        PROVE  type_tabl'[o] \in TypeStrings /\ \E j \in 1 .. unit : o \in Listable(program[j])
    <3>1. CASE o \in DOMAIN type_tabl
      BY <1>2, <1>5, <1>8, <3>1 DEF EntriesInv
    <3>2. CASE o \notin DOMAIN type_tabl
      BY <1>3, <1>5, <1>7, <1>8, <3>2
    <3> QED
      BY <3>1, <3>2
  <2> QED
    BY <1>1, <1>5, <2>1 DEF EntriesInv
<1>10. FoundInv'
  <2>1. Fresh(unit)' <=> Fresh(unit)
    BY <1>1 DEF Fresh
  <2>2. ASSUME Fresh(unit), NEW o \in DOMAIN type_tabl' \cap Uses(Unit)
        PROVE  type_tabl'[o] = Upto(Unit)[1][o]
    <3>1. CASE o \in DOMAIN type_tabl
      BY <1>2, <1>5, <1>8, <2>2, <3>1 DEF FoundInv
    <3>2. CASE o \notin DOMAIN type_tabl
      BY <1>7, <1>8, <2>2, <3>2
    <3> QED
      BY <3>1, <3>2
  <2> QED
    BY <1>1, <1>5, <2>1, <2>2 DEF FoundInv
<1>11. CompleteInv'
  <2> SUFFICES ASSUME InOrder(Unit), NEW o \in TypesOf(Unit)
               PROVE  /\ ~ Passed(o)'
                      /\ BasePassed(o)' /\ Unit.dies[o].tag = Base => o \in DOMAIN type_tabl'
    BY <1>1, <1>5 DEF CompleteInv
  <2>1. o \in 1 .. L /\ o # 1 /\ ~ Unit.dies[o].nested
    <3>1. TypesOf(Unit) \subseteq 1 .. L
      BY <1>3, UsesIn DEF L
    <3> QED
      BY <3>1 DEF InOrder, Listable
  <2>2. ~ Passed(o)'
    BY <1>1, <1>3, <2>1 DEF Passed
  <2>3. BasePassed(o)' => BasePassed(o) \/ o = die
    BY <1>1, <1>3, <1>4, <2>1 DEF BasePassed
  <2>4. o = die /\ Unit.dies[o].tag = Base => Named
    BY <2>1 DEF Named, Sibling, Die, L
  <2>5. BasePassed(o) /\ Unit.dies[o].tag = Base => o \in DOMAIN type_tabl
    BY <1>2, <1>5 DEF CompleteInv
  <2> QED
    BY <1>8, <2>2, <2>3, <2>4, <2>5
<1>12. FunctionsInv'
  BY <1>1, <1>2, FunctionsKept
<1> QED
  BY <1>6, <1>9, <1>10, <1>11, <1>12 DEF DwarfInv

LEMMA DerivedNext ==
  ASSUME DwarfInv, LoadComplexeTypeMap
  PROVE  DwarfInv'
<1> DEFINE L == Len(Unit.dies)
           Extends == Sibling /\ Die.tag \in Derived /\ Die.ref \in DOMAIN type_tabl
           type == <<Die.tag>> \o type_tabl[Die.ref]
<1>1. /\ phase = "derived" /\ UNCHANGED <<program, unit, functions>>
      /\ IF die < L THEN die' = die + 1 /\ phase' = phase ELSE die' = 1 /\ phase' = "functions"
      /\ IF Extends THEN Insert(die, type) ELSE type_tabl' = type_tabl
  BY DEF LoadComplexeTypeMap, Advance
<1>2. PlaceInv /\ EntriesInv /\ FoundInv /\ CompleteInv /\ FunctionsInv
  BY DEF DwarfInv
<1>3. /\ unit \in 1 .. Len(program) /\ Len(program) \in Nat /\ Unit = program[unit]
      /\ Unit \in Units /\ RefsIn(Unit) /\ L \in Nat /\ DOMAIN Unit.dies = 1 .. L
  BY <1>2, PresentUnit
<1>4. die \in Nat /\ die >= 2 /\ (die > 2 => die <= L)
  BY <1>1, <1>2, <1>3 DEF PlaceInv
<1>5. /\ Begun = 1 .. unit /\ Begun' = 1 .. unit /\ unit \in 1 .. unit /\ Unit' = Unit
      /\ Followed = die - 1 /\ Followed' = (IF die < L THEN die ELSE L)
  <2>1. Begun = 1 .. unit /\ Begun' = 1 .. unit /\ unit \in 1 .. unit
    BY <1>1, <1>3 DEF Begun
  <2>2. Unit' = Unit /\ Followed = die - 1
    BY <1>1 DEF Unit, Followed
  <2>3. Followed' = (IF die < L THEN die ELSE L)
    BY <1>1, <1>3, <1>4, <2>2 DEF Followed
  <2> QED
    BY <2>1, <2>2, <2>3
<1>6. PlaceInv'
  <2>1. /\ die' \in Nat \ {0} /\ phase' \in {"derived", "functions"}
        /\ phase' = "derived" => die' >= 2 /\ (die' > 2 => die' <= L)
        /\ phase' = "functions" => die' = 1
    BY <1>1, <1>3, <1>4
  <2> QED
    BY <1>1, <1>2, <1>5, <2>1 DEF PlaceInv
<1>7. Uses(Unit) \subseteq 0 .. L /\ TypesOf(Unit) \subseteq 1 .. L /\ Listable(Unit) \subseteq Uses(Unit)
  BY <1>3, UsesIn
\* One reference more is followed, which changes no type that was found.
<1>8. ASSUME Fresh(unit), NEW o \in DOMAIN type_tabl \cap Uses(Unit)
      PROVE  /\ type_tabl[o] = Upto(Unit)[die - 1][o] /\ type_tabl[o] # Unknown
             /\ type_tabl[o] = Upto(Unit)[Followed'][o]
  <2>1. type_tabl[o] = Upto(Unit)[die - 1][o]
    BY <1>2, <1>5, <1>8 DEF FoundInv
  <2>2. type_tabl[o] # Unknown
    BY <1>2 DEF EntriesInv, TypeStrings
  <2>3. o \in 0 .. L
    BY <1>7
  <2>4. CASE die <= L
    <3>1. die - 1 \in Nat /\ die - 1 < L /\ die - 1 + 1 = die /\ Followed' = die
      BY <1>3, <1>4, <1>5, <2>4
    <3>2. Upto(Unit)[die - 1 + 1][o] = Upto(Unit)[die - 1][o]
      BY <1>3, <2>1, <2>2, <2>3, <3>1, UptoGrows
    <3> QED
      BY <2>1, <2>2, <3>1, <3>2
  <2>5. CASE ~ die <= L /\ L >= 1
    <3>1. Followed' = die - 1
      BY <1>3, <1>4, <1>5, <2>5
    <3> QED
      BY <2>1, <2>2, <3>1
  <2>6. CASE ~ L >= 1
    <3>1. 0 \in 0 .. L /\ o = NoRef /\ die = 2 /\ o \notin TypesOf(Unit)
      BY <1>3, <1>4, <1>7, <2>3, <2>6 DEF NoRef
    <3>2. PICK j \in 1 .. unit : o \in Listable(program[j])
      BY <1>2, <1>5 DEF EntriesInv
    <3>3. o \in 1 .. Len(program[j].dies)
      <4>1. j \in 1 .. Len(program)
        BY <1>3, <3>2
      <4>2. Listable(program[j]) \subseteq 1 .. Len(program[j].dies)
        BY <1>2, <4>1, UnitTyped, UsesIn
      <4> QED
        BY <3>2, <4>2
    <3> QED
      BY <3>1, <3>3 DEF NoRef
  <2> QED
    BY <2>4, <2>5, <2>6
<1>9. ASSUME Extends
      PROVE  /\ die \in Listable(Unit) /\ die \in 1 .. L /\ Die = Unit.dies[die]
             /\ type \in TypeStrings /\ Followed' = die
             /\ Fresh(unit) => Upto(Unit)[die][die] = type
  <2>1. die \in 1 .. L /\ Die = Unit.dies[die] /\ ~ Die.nested /\ Die.tag \in Derived
        /\ Die.ref \in DOMAIN type_tabl
    BY <1>3, <1>4, <1>9 DEF Sibling, Die
  <2>2. die \in Listable(Unit)
    <3>1. die \in TypesOf(Unit)
      BY <1>3, <2>1 DEF TypesOf
    <3>2. die # 1
      BY <1>4
    <3> QED
      BY <2>1, <3>1, <3>2 DEF Listable
  <2>3. Followed' = die
    BY <1>3, <1>4, <1>5, <2>1
  <2>4. type \in TypeStrings
    <3>1. type_tabl[Die.ref] \in Seq(Parts)
      BY <1>2, <2>1, Zenon DEF EntriesInv, TypeStrings
    <3>2. Die.tag \in Parts
      BY <2>1, Zenon DEF Parts
    <3>3. type \in Seq(Parts) /\ type # <<>>
      BY <3>1, <3>2, InFront, Zenon
    <3> QED
      BY <3>3, Zenon DEF TypeStrings, Unknown
  <2>5. ASSUME Fresh(unit) PROVE Upto(Unit)[die][die] = type
    <3>1. Die.ref \in Uses(Unit)
      BY <1>3, <2>1, RefIn
    <3>2. type_tabl[Die.ref] = Upto(Unit)[die - 1][Die.ref] /\ type_tabl[Die.ref] # Unknown
      BY <1>8, <2>1, <2>5, <3>1
    <3>3. die \in 0 .. L /\ die # NoRef /\ die # 0
      BY <1>3, <2>1 DEF NoRef
    <3>4. Upto(Unit)[die][die] = Refer(Unit, Upto(Unit)[die - 1], die)
      BY <1>3, <3>3, UptoIs
    <3>5. Die.tag # Base
      BY <2>1 DEF Derived, Base
    <3> QED
      BY <2>1, <3>2, <3>4, <3>5 DEF Refer
  <2> QED
    BY <2>1, <2>2, <2>3, <2>4, <2>5
<1> HIDE DEF L, Extends, type
<1>10. /\ DOMAIN type_tabl \subseteq DOMAIN type_tabl'
       /\ \A p \in DOMAIN type_tabl : type_tabl'[p] = type_tabl[p]
       /\ \A p \in DOMAIN type_tabl' \ DOMAIN type_tabl :
            Extends /\ p = die /\ type_tabl'[p] = type
       /\ Extends => die \in DOMAIN type_tabl'
  <2>1. CASE Extends
    <3>1. Insert(die, type)
      BY <1>1, <2>1
    <3> QED
      BY <2>1, <3>1, Inserted
  <2>2. CASE ~ Extends
    BY <1>1, <2>2
  <2> QED
    BY <2>1, <2>2
<1>11. EntriesInv'
  <2>1. ASSUME NEW o \in DOMAIN type_tabl'
        PROVE  type_tabl'[o] \in TypeStrings /\ \E j \in 1 .. unit : o \in Listable(program[j])
    <3>1. CASE o \in DOMAIN type_tabl
      BY <1>2, <1>5, <1>10, <3>1 DEF EntriesInv
    <3>2. CASE o \notin DOMAIN type_tabl
      BY <1>3, <1>5, <1>9, <1>10, <3>2
    <3> QED
      BY <3>1, <3>2
  <2> QED
    BY <1>1, <1>5, <2>1 DEF EntriesInv
<1>12. FoundInv'
  <2>1. Fresh(unit)' <=> Fresh(unit)
    BY <1>1 DEF Fresh
  <2>2. ASSUME Fresh(unit), NEW o \in DOMAIN type_tabl' \cap Uses(Unit)
        PROVE  type_tabl'[o] = Upto(Unit)[Followed'][o]
    <3>1. CASE o \in DOMAIN type_tabl
      BY <1>8, <1>10, <2>2, <3>1
    <3>2. CASE o \notin DOMAIN type_tabl
      BY <1>9, <1>10, <2>2, <3>2
    <3> QED
      BY <3>1, <3>2
  <2> QED
    BY <1>1, <1>5, <2>1, <2>2 DEF FoundInv
<1>13. CompleteInv'
  <2> SUFFICES ASSUME InOrder(Unit), NEW o \in TypesOf(Unit)
               PROVE  /\ Passed(o)' /\ Meaning(Unit)[o] # Unknown => o \in DOMAIN type_tabl'
                      /\ BasePassed(o)' /\ Unit.dies[o].tag = Base => o \in DOMAIN type_tabl'
    BY <1>1, <1>5 DEF CompleteInv
  <2>1. o \in 1 .. L /\ o # 1 /\ ~ Unit.dies[o].nested /\ Unit.dies[o].ref < o
        /\ Unit.dies[o].tag \in Derived \cup {Base}
    BY <1>7 DEF InOrder, Listable, TypesOf
  <2>2. Passed(o)' => o < die \/ o = die
    BY <1>1, <1>3, <1>4, <2>1 DEF Passed
  <2>3. \A p \in TypesOf(Unit) :
          /\ p < die /\ Meaning(Unit)[p] # Unknown => p \in DOMAIN type_tabl
          /\ Unit.dies[p].tag = Base => p \in DOMAIN type_tabl
    BY <1>1, <1>2, <1>5 DEF CompleteInv, Passed, BasePassed
  <2>4. ASSUME o = die, Meaning(Unit)[o] # Unknown PROVE o \in DOMAIN type_tabl'
    <3>1. CASE Unit.dies[o].tag = Base
      BY <1>10, <2>3, <3>1
    <3>2. CASE Unit.dies[o].tag \in Derived
      <4> DEFINE r == Unit.dies[o].ref
      <4>1. L - 1 \in Nat /\ L - 1 < L /\ L - 1 + 1 = L /\ L \in 0 .. L /\ L - 1 \in 0 .. L
            /\ o \in 0 .. L /\ L # 0
        BY <1>3, <2>1
      <4>2. Upto(Unit)[L][o] # Unknown
        BY <2>4, MeaningIs DEF L
      <4>3. Upto(Unit)[L][o] = Refer(Unit, Upto(Unit)[L - 1], o)
        BY <1>3, <4>1, <4>2, UptoIs DEF L
      <4>4. Upto(Unit)[L - 1][r] # Unknown
        BY <3>2, <4>2, <4>3 DEF Refer, Base, Derived
      <4>5. r \in 0 .. L
        BY <1>3, <2>1, RefIn DEF L
      <4>6. r \in TypesOf(Unit)
        BY <1>3, <4>1, <4>4, <4>5, FoundIsType DEF L
      <4>7. Upto(Unit)[L - 1 + 1][r] = Upto(Unit)[L - 1][r]
        BY <1>3, <4>1, <4>4, <4>5, UptoGrows DEF L
      <4>8. Meaning(Unit)[r] # Unknown
        BY <4>1, <4>4, <4>7, MeaningIs DEF L
      <4>9. r \in DOMAIN type_tabl
        BY <2>1, <2>3, <2>4, <4>6, <4>8
      <4>10. Extends
        BY <1>3, <2>1, <2>4, <3>2, <4>9 DEF Extends, Sibling, Die, L
      <4> QED
        BY <1>10, <2>4, <4>10
    <3> QED
      BY <2>1, <3>1, <3>2
  <2> QED
    BY <1>10, <2>2, <2>3, <2>4
<1>14. FunctionsInv'
  BY <1>1, <1>2, FunctionsKept
<1> QED
  BY <1>6, <1>11, <1>12, <1>13, <1>14 DEF DwarfInv

\* What the tables say of an offset that a function of a fresh unit refers to.
LEMMA LookedUp ==
  ASSUME PlaceInv, EntriesInv, FoundInv, CompleteInv, phase = "functions", Fresh(unit),
         NEW r \in 0 .. Len(Unit.dies), r \in Uses(Unit)
  PROVE  /\ Lookup(r) \in {Meaning(Unit)[r], Unknown}
         /\ InOrder(Unit) => Lookup(r) = Meaning(Unit)[r]
<1> DEFINE L == Len(Unit.dies)
<1>1. unit \in Begun /\ Unit \in Units /\ RefsIn(Unit) /\ L \in Nat /\ L \in 0 .. L
  BY PresentUnit DEF Begun
<1>2. r \in DOMAIN type_tabl => type_tabl[r] = Meaning(Unit)[r]
  <2>1. Followed = L
    BY DEF Followed
  <2> QED
    BY <1>1, <2>1, MeaningIs DEF FoundInv
<1>3. InOrder(Unit) /\ Meaning(Unit)[r] # Unknown => r \in DOMAIN type_tabl
  <2> SUFFICES ASSUME InOrder(Unit), Meaning(Unit)[r] # Unknown PROVE r \in DOMAIN type_tabl
    OBVIOUS
  <2>1. Upto(Unit)[L][r] # Unknown
    BY MeaningIs
  <2>2. r \in TypesOf(Unit)
    BY <1>1, <2>1, FoundIsType
  <2> QED
    BY <1>1, <2>2 DEF CompleteInv, Passed
<1> QED
  BY <1>2, <1>3 DEF Lookup

\* Nothing is found where there is no reference.
LEMMA NothingMeant ==
  ASSUME NEW u \in Units
  PROVE  Meaning(u)[NoRef] = Unknown
<1>1. Len(u.dies) \in Nat
  BY LenProperties DEF Units
<1>2. NoRef \in 0 .. Len(u.dies) /\ Len(u.dies) \in 0 .. Len(u.dies)
  BY <1>1 DEF NoRef
<1> QED
  BY <1>1, <1>2, UptoIs, MeaningIs

LEMMA EmptyEntry ==
  ASSUME NEW e, e = [type |-> Unknown, args |-> <<>>, file |-> ""]
  PROVE  e.type = Unknown /\ e.args = <<>> /\ e.file = ""
<1>1. e.type = Unknown
  OBVIOUS
<1>2. e.args = <<>>
  OBVIOUS
<1>3. e.file = ""
  OBVIOUS
<1> QED
  BY <1>1, <1>2, <1>3

\* What is filled into a symbol that has no entry.
LEMMA FilledFirst ==
  ASSUME NEW d, d.params \in Seq(Nat), d.name \notin DOMAIN functions
  PROVE  LET f == Fill(d, Entry(d.name))
         IN /\ f.type = (IF d.ref = NoRef THEN Unknown ELSE Lookup(d.ref))
            /\ f.args = [i \in DOMAIN d.params |-> Lookup(d.params[i])]
            /\ f.file = (IF d.file = NoFile THEN "" ELSE FileAt(d.file))
<1> DEFINE S == {Lookup(x) : x \in Nat}
           args == [i \in DOMAIN d.params |-> Lookup(d.params[i])]
<1>1. DOMAIN d.params = 1 .. Len(d.params) /\ Len(d.params) \in Nat
      /\ \A i \in DOMAIN d.params : d.params[i] \in Nat
  BY LenProperties, ElementOfSeq
<1>2. \A i \in 1 .. Len(d.params) : Lookup(d.params[i]) \in S
  BY <1>1
<1> HIDE DEF S
<1>3. args \in Seq(S)
  BY <1>1, <1>2
<1>4. <<>> \o args = args
  BY <1>3, ConcatEmptySeq
<1>5. Entry(d.name) = [type |-> Unknown, args |-> <<>>, file |-> ""]
  BY DEF Entry
<1> HIDE DEF args
<1>6. parseFunction(d.params, <<>>) = args
  BY <1>4 DEF parseFunction, args
<1> DEFINE e == Entry(d.name)
<1> HIDE DEF e
<1>7. e = [type |-> Unknown, args |-> <<>>, file |-> ""]
  BY <1>5 DEF e
<1>8. e.type = Unknown /\ e.args = <<>> /\ e.file = ""
  BY <1>7, EmptyEntry, Zenon
<1> DEFINE f == Fill(d, e)
<1>9. f.type = (IF d.ref = NoRef THEN Unknown ELSE Lookup(d.ref))
  BY <1>8 DEF Fill
<1>10. f.args = args
  BY <1>6, <1>8 DEF Fill
<1>11. f.file = (IF d.file = NoFile THEN "" ELSE FileAt(d.file))
  BY <1>8 DEF Fill
<1> QED
  BY <1>9, <1>10, <1>11, Zenon DEF args, e

LEMMA FunctionsNext ==
  ASSUME DwarfInv, GetDieAndSiblings
  PROVE  DwarfInv'
<1> DEFINE L == Len(Unit.dies)
           Fills == die <= L /\ Defines(Die)
           f == Fill(Die, Entry(Die.name))
<1>1. PlaceInv /\ EntriesInv /\ FoundInv /\ CompleteInv /\ FunctionsInv
  BY DEF DwarfInv
<1>2. /\ unit \in 1 .. Len(program) /\ Len(program) \in Nat /\ Unit = program[unit]
      /\ Unit \in Units /\ RefsIn(Unit) /\ L \in Nat /\ DOMAIN Unit.dies = 1 .. L
  BY <1>1, PresentUnit
<1>3. /\ phase = "functions" /\ UNCHANGED <<program, type_tabl>>
      /\ IF ~ Fills THEN functions' = functions
         ELSE functions' = [n \in DOMAIN functions \cup {Die.name} |->
                              IF n = Die.name THEN Fill(Die, Entry(n)) ELSE functions[n]]
      /\ IF die < L THEN die' = die + 1 /\ unit' = unit /\ phase' = phase
         ELSE /\ die' = 1
              /\ IF unit < Len(program) THEN unit' = unit + 1 /\ phase' = "files"
                 ELSE phase' = "done" /\ unit' = unit
  <2>1. die \in Nat
    BY <1>1 DEF PlaceInv
  <2>2. (die > Len(Unit.dies) \/ ~Defines(Die)) <=> ~ Fills
    BY <1>2, <2>1
  <2> QED
    BY <2>2 DEF GetDieAndSiblings
<1>4. die \in Nat /\ die >= 1 /\ (die > 1 => die <= L)
  BY <1>1, <1>2, <1>3 DEF PlaceInv
<1>5. PlaceInv'
  <2>1. CASE die < L
    BY <1>1, <1>2, <1>3, <1>4, <2>1 DEF PlaceInv, Unit
  <2>2. CASE ~ die < L
    BY <1>1, <1>2, <1>3, <2>2 DEF PlaceInv
  <2> QED
    BY <2>1, <2>2
<1>6. Begun = 1 .. unit /\ Begun' = 1 .. unit
  BY <1>2, <1>3 DEF Begun
<1>7. EntriesInv'
  BY <1>1, <1>3, <1>6 DEF EntriesInv
<1>8. FoundInv' /\ CompleteInv'
  <2>1. CASE unit' = unit + 1
    <3>1. unit' \notin Begun'
      BY <1>2, <1>6, <2>1
    <3> QED
      BY <3>1 DEF FoundInv, CompleteInv
  <2>2. CASE unit' = unit
    <3>1. Unit' = Unit /\ Followed = L /\ phase' \in {"functions", "done"} /\ unit \in Begun
      BY <1>2, <1>3, <1>6, <2>2 DEF Unit, Followed
    <3>2. Followed' = L
      BY <3>1 DEF Followed
    <3>3. \A o : (Passed(o)' <=> Passed(o)) /\ ~ BasePassed(o)'
      BY <1>3, <3>1 DEF Passed, BasePassed
    <3>4. Fresh(unit)' <=> Fresh(unit)
      BY <1>3, <2>2 DEF Fresh
    <3>5. FoundInv'
      BY <1>1, <1>3, <2>2, <3>1, <3>2, <3>4 DEF FoundInv
    <3>6. CompleteInv'
      BY <1>1, <1>3, <3>1, <3>3 DEF CompleteInv
    <3> QED
      BY <3>5, <3>6
  <2> QED
    BY <1>3, <2>1, <2>2
\* The functions visited now are those before and the one that is filled.
<1>9. ASSUME NEW j \in 1 .. Len(program), NEW k \in Sole(j)
      PROVE  /\ k \in 1 .. Len(program[j].dies) /\ Defines(program[j].dies[k])
             /\ Visited(j, k)' <=> (Visited(j, k) \/ (j = unit /\ k = die))
             /\ ~ (Visited(j, k) /\ j = unit /\ k = die)
             /\ j = unit /\ k = die => Fills /\ Die = program[j].dies[k]
             /\ Fills /\ program[j].dies[k].name = Die.name => j = unit /\ k = die
  <2>1. k \in 1 .. Len(program[j].dies) /\ Defines(program[j].dies[k])
        /\ Len(program[j].dies) \in Nat
    BY <1>1, <1>9, UnitTyped DEF Sole, Definitions
  <2>2. Visited(j, k)' <=> (Visited(j, k) \/ (j = unit /\ k = die))
    <3>1. j = unit => k <= L
      BY <1>2, <2>1
    <3>2. CASE die < L
      BY <1>2, <1>3, <1>4, <2>1, <3>2 DEF Visited
    <3>3. CASE ~ die < L
      BY <1>2, <1>3, <1>4, <2>1, <3>1, <3>3 DEF Visited
    <3> QED
      BY <3>2, <3>3
  <2>3. ~ (Visited(j, k) /\ j = unit /\ k = die)
    BY <1>2, <1>3, <1>4 DEF Visited
  <2>4. j = unit /\ k = die => Fills /\ Die = program[j].dies[k]
    BY <1>2, <1>4, <2>1 DEF Die
  <2>5. ASSUME Fills, program[j].dies[k].name = Die.name PROVE j = unit /\ k = die
    <3>1. die \in Definitions(unit) /\ Die = program[unit].dies[die] /\ unit \in DOMAIN program
      <4>1. DOMAIN program = 1 .. Len(program)
        BY <1>1, <1>2, UnitTyped
      <4> QED
        BY <1>2, <1>4, <2>5, <4>1 DEF Definitions, Die
    <3> QED
      BY <1>9, <2>5, <3>1 DEF Sole
  <2> QED
    BY <2>1, <2>2, <2>3, <2>4, <2>5
<1>10. ASSUME Fills, Fresh(unit), Die.name \notin DOMAIN functions
       PROVE  FunctionOf(Unit, Die, f)
  <2>1. die \in DOMAIN Unit.dies /\ Die = Unit.dies[die]
    BY <1>2, <1>4, <1>10 DEF Die
  <2>2. /\ Die.ref \in 0 .. L /\ Die.ref \in Uses(Unit) /\ Die.params \in Seq(Nat)
        /\ \A i \in DOMAIN Die.params : Die.params[i] \in 0 .. L /\ Die.params[i] \in Uses(Unit)
    BY <1>2, <2>1, RefIn
  <2>3. \A r \in 0 .. L : r \in Uses(Unit) =>
          /\ Lookup(r) \in {Meaning(Unit)[r], Unknown}
          /\ InOrder(Unit) => Lookup(r) = Meaning(Unit)[r]
    BY <1>1, <1>3, <1>10, LookedUp
  <2>4. Meaning(Unit)[NoRef] = Unknown
    BY <1>2, NothingMeant
  <2>5. /\ f.type = (IF Die.ref = NoRef THEN Unknown ELSE Lookup(Die.ref))
        /\ f.args = [i \in DOMAIN Die.params |-> Lookup(Die.params[i])]
    BY <1>10, <2>2, FilledFirst
  <2> HIDE DEF f
  <2>6. /\ f.type \in {Meaning(Unit)[Die.ref], Unknown}
        /\ InOrder(Unit) => f.type = Meaning(Unit)[Die.ref]
    BY <2>2, <2>3, <2>4, <2>5
  <2>7. /\ DOMAIN f.args = DOMAIN Die.params
        /\ \A i \in DOMAIN Die.params : f.args[i] \in {Meaning(Unit)[Die.params[i]], Unknown}
    BY <2>2, <2>3, <2>5
  <2>8. InOrder(Unit) => f.args = [i \in DOMAIN Die.params |-> Meaning(Unit)[Die.params[i]]]
    BY <2>2, <2>3, <2>5
  <2> QED
    BY <2>6, <2>7, <2>8 DEF FunctionOf
<1> HIDE DEF L, Fills, f
<1>11. FunctionsInv'
  <2>1. \A j : Sole(j)' = Sole(j) /\ (Fresh(j)' <=> Fresh(j))
    BY <1>3 DEF Sole, Definitions, Fresh
  <2>2. ASSUME NEW j \in 1 .. Len(program), NEW k \in Sole(j)
        PROVE  LET d == program[j].dies[k]
               IN /\ d.name \in DOMAIN functions' <=> Visited(j, k)'
                  /\ Visited(j, k)' /\ Fresh(j) => FunctionOf(program[j], d, functions'[d.name])
    <3> DEFINE d == program[j].dies[k]
    <3>1. /\ d.name \in DOMAIN functions <=> Visited(j, k)
          /\ Visited(j, k) /\ Fresh(j) => FunctionOf(program[j], d, functions[d.name])
      BY <1>1, <2>2 DEF FunctionsInv
    <3>2. CASE j = unit /\ k = die
      <4>1. Fills /\ Die = d /\ d.name \notin DOMAIN functions /\ Visited(j, k)'
        BY <1>9, <2>2, <3>1, <3>2
      <4>2. d.name \in DOMAIN functions' /\ functions'[d.name] = f
        BY <1>3, <4>1 DEF f
      <4> QED
        BY <1>2, <1>10, <3>2, <4>1, <4>2
    <3>3. CASE ~ (j = unit /\ k = die)
      <4>1. /\ Visited(j, k)' <=> Visited(j, k)
            /\ ~ Fills \/ d.name # Die.name
        BY <1>9, <2>2, <3>3
      <4>2. /\ d.name \in DOMAIN functions' <=> d.name \in DOMAIN functions
            /\ d.name \in DOMAIN functions => functions'[d.name] = functions[d.name]
        BY <1>3, <4>1
      <4> QED
        BY <3>1, <4>1, <4>2
    <3> QED
      BY <3>2, <3>3
  <2> QED
    BY <1>3, <2>1, <2>2 DEF FunctionsInv
<1> QED
  BY <1>5, <1>7, <1>8, <1>11 DEF DwarfInv

LEMMA AlwaysDwarf == Spec => []DwarfInv
<1>1. DwarfInv /\ [Next]_vars => DwarfInv'
  <2> SUFFICES ASSUME DwarfInv, [Next]_vars PROVE DwarfInv'
    OBVIOUS
  <2>1. CASE UNCHANGED vars
    BY <2>1 DEF vars, tables, DwarfInv, PlaceInv, EntriesInv, FoundInv, CompleteInv, FunctionsInv,
                Begun, Followed, Passed, BasePassed, Visited, Unit, Fresh, Sole, Definitions
  <2> QED
    BY <2>1, FilesNext, ThrowsNext, BasicNext, DerivedNext, FunctionsNext DEF Next
<1> QED
  BY <1>1, DwarfInit, PTL DEF Spec

\* The entry of a function that was read.
LEMMA ReadIs ==
  ASSUME PlaceInv, FunctionsInv, NEW j \in DOMAIN program, NEW d \in Read(j)
  PROVE  /\ d.name \in DOMAIN functions
         /\ Fresh(j) => FunctionOf(program[j], d, functions[d.name])
<1>1. PICK k \in Sole(j) : d = program[j].dies[k] /\ d.name \in DOMAIN functions
  BY DEF Read
<1>2. j \in 1 .. Len(program)
  BY PresentUnit, UnitTyped
<1> QED
  BY <1>1, <1>2 DEF FunctionsInv

\* TypesAreRight: whatever the order in which a fresh unit of a file names and uses its types,
\* the single pass of loadComplexeTypeMap gives each return and parameter type as it is, or
\* not at all.
THEOREM RightCorrect == Spec => []TypesAreRight
<1>1. DwarfInv => TypesAreRight
  BY ReadIs DEF DwarfInv, TypesAreRight, RightIn, FunctionOf
<1> QED
  BY <1>1, AlwaysDwarf, PTL

\* TypesAreComplete: the single pass is enough for a fresh unit that names each type before
\* its use.
THEOREM CompleteCorrect == Spec => []TypesAreComplete
<1>1. ASSUME DwarfInv, phase = "done", NEW j \in DOMAIN program, Fresh(j), InOrder(program[j])
      PROVE  CompleteIn(j)
  <2>1. PlaceInv /\ FunctionsInv
    BY <1>1 DEF DwarfInv
  <2>2. j \in 1 .. Len(program) /\ Len(program) \in Nat /\ unit = Len(program)
    BY <1>1, <2>1, PresentUnit, UnitTyped DEF PlaceInv
  <2>3. ASSUME NEW k \in Sole(j)
        PROVE  /\ program[j].dies[k].name \in DOMAIN functions
               /\ FunctionOf(program[j], program[j].dies[k], functions[program[j].dies[k].name])
    <3>1. Visited(j, k)
      BY <1>1, <2>2 DEF Visited
    <3> QED
      BY <1>1, <2>1, <2>2, <3>1 DEF FunctionsInv
  <2>4. \A k \in Sole(j) : program[j].dies[k] \in Read(j)
    BY <2>3 DEF Read
  <2> QED
    BY <1>1, <2>3, <2>4 DEF CompleteIn, FunctionOf
<1>2. DwarfInv => TypesAreComplete
  BY <1>1 DEF TypesAreComplete
<1> QED
  BY <1>2, AlwaysDwarf, PTL
-----------------------------------------------------------------------------
(* The files.                                                              *)

\* The list of files begins with that of the first unit; what is known of a function is the
\* file it has there at its index.
Begins(tabl) ==
  (\A i \in DOMAIN program[1].files : tabl[i] = program[1].files[i])
    /\ Len(program[1].files) <= Len(tabl)
FilesInv ==
  /\ file_tabl \in Seq(STRING)
  /\ IF phase \in {"files", "failed"} /\ unit = 1 THEN file_tabl = <<>> ELSE Begins(file_tabl)
  /\ \A j \in 1 .. Len(program) : \A k \in Sole(j) :
       LET d == program[j].dies[k]
       IN d.name \in DOMAIN functions /\ d.file + 1 \in DOMAIN program[1].files
            => functions[d.name].file = program[1].files[d.file + 1]

LEMMA FilesOfUnit ==
  ASSUME PlaceInv, NEW j \in 1 .. Len(program)
  PROVE  /\ program[j].files \in Seq(STRING) /\ Len(program[j].files) \in Nat
         /\ DOMAIN program[j].files = 1 .. Len(program[j].files)
<1>1. program[j].files \in Seq(STRING)
  BY UnitTyped DEF Units
<1> QED
  BY <1>1, LenProperties

\* A function that is defined once is filled in once.
LEMMA FilledOnce ==
  ASSUME PlaceInv, FunctionsInv, GetDieAndSiblings,
         NEW j \in 1 .. Len(program), NEW k \in Sole(j),
         program[j].dies[k].name \in DOMAIN functions'
  PROVE  LET d == program[j].dies[k]
         IN \/ d.name \in DOMAIN functions /\ functions'[d.name] = functions[d.name]
            \/ d.name \notin DOMAIN functions /\ functions'[d.name] = Fill(d, Entry(d.name))
<1> DEFINE d == program[j].dies[k]
<1>1. d.name \in DOMAIN functions <=> Visited(j, k)
  BY DEF FunctionsInv
<1>2. /\ unit \in 1 .. Len(program) /\ Unit = program[unit] /\ DOMAIN program = 1 .. Len(program)
      /\ Len(Unit.dies) \in Nat /\ DOMAIN Unit.dies = 1 .. Len(Unit.dies)
      /\ die \in Nat /\ die >= 1 /\ unit \in Nat
  BY PresentUnit, UnitTyped DEF PlaceInv
<1>3. CASE die > Len(Unit.dies) \/ ~Defines(Die) \/ d.name # Die.name
  <2>1. d.name \in DOMAIN functions /\ functions'[d.name] = functions[d.name]
    BY <1>3 DEF GetDieAndSiblings
  <2> QED
    BY <2>1
<1>4. CASE ~ (die > Len(Unit.dies)) /\ Defines(Die) /\ d.name = Die.name
  <2>1. die \in Definitions(unit) /\ Die = program[unit].dies[die]
    BY <1>2, <1>4 DEF Definitions, Die
  <2>2. unit = j /\ die = k
    BY <1>2, <1>4, <2>1 DEF Sole
  <2>3. ~ Visited(j, k)
    BY <1>2, <2>2 DEF Visited, GetDieAndSiblings
  <2>4. functions'[d.name] = Fill(d, Entry(d.name))
    BY <1>2, <1>4, <2>1, <2>2 DEF GetDieAndSiblings
  <2> QED
    BY <1>1, <2>3, <2>4
<1> QED
  BY <1>3, <1>4

LEMMA FilesInvNext ==
  ASSUME DwarfInv, FilesInv, [Next]_vars
  PROVE  FilesInv'
<1> DEFINE files == program[1].files
<1>1. PlaceInv /\ FunctionsInv /\ unit \in 1 .. Len(program) /\ Len(program) \in Nat
  BY PresentUnit DEF DwarfInv
<1>2. files \in Seq(STRING) /\ DOMAIN files = 1 .. Len(files) /\ Len(files) \in Nat
  <2>1. 1 \in 1 .. Len(program)
    BY <1>1
  <2> QED
    BY <1>1, <2>1, FilesOfUnit
<1>3. file_tabl \in Seq(STRING) /\ Len(file_tabl) \in Nat /\ DOMAIN file_tabl = 1 .. Len(file_tabl)
  BY LenProperties DEF FilesInv
<1>4. CASE LoadFileTable
  <2>1. /\ phase = "files" /\ phase' = "basic" /\ UNCHANGED <<program, unit, functions>>
        /\ file_tabl' = file_tabl \o program[unit].files
    BY <1>4 DEF LoadFileTable, Unit
  <2>2. program[unit].files \in Seq(STRING) /\ Len(program[unit].files) \in Nat
    BY <1>1, FilesOfUnit
  <2> HIDE DEF files
  <2>3. /\ file_tabl' \in Seq(STRING)
        /\ Len(file_tabl') = Len(file_tabl) + Len(program[unit].files)
        /\ \A i \in 1 .. Len(file_tabl) + Len(program[unit].files) :
             file_tabl'[i] = IF i <= Len(file_tabl) THEN file_tabl[i]
                             ELSE program[unit].files[i - Len(file_tabl)]
    BY <1>3, <2>1, <2>2, ConcatProperties
  <2>4. Begins(file_tabl)'
    <3>1. CASE unit = 1
      <4>1. file_tabl = <<>>
        BY <2>1, <3>1 DEF FilesInv
      <4>2. file_tabl' = files
        <5>1. file_tabl' = <<>> \o files
          BY <2>1, <3>1, <4>1 DEF files
        <5> QED
          BY <1>2, <5>1, ConcatEmptySeq
      <4> QED
        BY <1>2, <2>1, <4>2 DEF Begins, files
    <3>2. CASE unit # 1
      <4>1. Begins(file_tabl)
        BY <3>2 DEF FilesInv
      <4>2. (\A i \in 1 .. Len(files) : file_tabl[i] = files[i]) /\ Len(files) <= Len(file_tabl)
        BY <1>2, <4>1 DEF Begins, files
      <4>3. ASSUME NEW i \in 1 .. Len(files) PROVE file_tabl'[i] = files[i]
        <5>1. i \in 1 .. Len(file_tabl) + Len(program[unit].files) /\ i <= Len(file_tabl)
          BY <1>2, <1>3, <2>2, <4>2
        <5> QED
          BY <2>3, <4>2, <5>1
      <4>4. Len(files) <= Len(file_tabl')
        BY <1>2, <1>3, <2>2, <2>3, <4>2
      <4> QED
        BY <1>2, <2>1, <4>3, <4>4 DEF Begins, files
    <3> QED
      BY <3>1, <3>2
  <2>5. \A j : Sole(j)' = Sole(j)
    BY <2>1 DEF Sole, Definitions
  <2> QED
    BY <2>1, <2>3, <2>4, <2>5 DEF FilesInv
<1>5. CASE LoadBasicTypeMap \/ LoadComplexeTypeMap \/ ReadCuThrows
  <2>1. /\ UNCHANGED <<program, unit, file_tabl, functions>>
        /\ phase' \in {"files", "failed"} <=> phase \in {"files", "failed"}
    BY <1>5 DEF LoadBasicTypeMap, LoadComplexeTypeMap, ReadCuThrows, Advance, tables
  <2>2. \A j : Sole(j)' = Sole(j)
    BY <2>1 DEF Sole, Definitions
  <2> QED
    BY <2>1, <2>2 DEF FilesInv, Begins
<1>6. CASE GetDieAndSiblings
  <2>1. /\ phase = "functions" /\ UNCHANGED <<program, file_tabl>>
        /\ phase' = "files" => unit' = unit + 1
        /\ phase' # "failed"
    BY <1>6 DEF GetDieAndSiblings
  <2>2. Begins(file_tabl) /\ Begins(file_tabl)'
    BY <2>1 DEF FilesInv, Begins
  <2>3. ~ (phase' \in {"files", "failed"} /\ unit' = 1)
    BY <1>1, <2>1
  <2>4. ASSUME NEW j \in 1 .. Len(program), NEW k \in Sole(j),
               program[j].dies[k].name \in DOMAIN functions',
               program[j].dies[k].file + 1 \in DOMAIN files
        PROVE  functions'[program[j].dies[k].name].file = files[program[j].dies[k].file + 1]
    <3> DEFINE d == program[j].dies[k]
    <3>1. \/ d.name \in DOMAIN functions /\ functions'[d.name] = functions[d.name]
          \/ d.name \notin DOMAIN functions /\ functions'[d.name] = Fill(d, Entry(d.name))
      BY <1>1, <1>6, <2>4, FilledOnce
    <3>2. CASE d.name \in DOMAIN functions /\ functions'[d.name] = functions[d.name]
      BY <2>4, <3>2 DEF FilesInv
    <3>3. CASE d.name \notin DOMAIN functions /\ functions'[d.name] = Fill(d, Entry(d.name))
      <4>1. d \in Dies
        BY <1>1, <2>4, UnitTyped, DieTyped DEF Sole, Definitions
      <4>2. d.file \in Nat \cup {-1} /\ d.params \in Seq(Nat)
        BY <4>1 DEF Dies, NoFile
      <4>3. d.file # NoFile
        BY <1>2, <2>4, <4>2 DEF NoFile
      <4>4. d.file + 1 \in DOMAIN file_tabl /\ file_tabl[d.file + 1] = files[d.file + 1]
        BY <1>2, <1>3, <2>2, <2>4 DEF Begins
      <4>5. Fill(d, Entry(d.name)).file = FileAt(d.file)
        BY <3>3, <4>2, <4>3, FilledFirst
      <4> QED
        BY <3>3, <4>4, <4>5 DEF FileAt
    <3> QED
      BY <3>1, <3>2, <3>3
  <2>5. \A j : Sole(j)' = Sole(j)
    BY <2>1 DEF Sole, Definitions
  <2> QED
    BY <1>3, <2>1, <2>2, <2>3, <2>4, <2>5 DEF FilesInv
<1>7. CASE UNCHANGED vars
  BY <1>7 DEF vars, tables, FilesInv, Begins, Sole, Definitions
<1> QED
  BY <1>4, <1>5, <1>6, <1>7 DEF Next

\* FilesAreRight: as units append their files to one list and index it from 0, the file of a
\* function is right exactly where its unit means the one that the first unit has there.
THEOREM FilesCorrect == Spec => []FilesAreRight
<1>1. Init => FilesInv
  <2> SUFFICES ASSUME Init PROVE FilesInv
    OBVIOUS
  <2>1. file_tabl = <<>> /\ phase = "files" /\ unit = 1 /\ DOMAIN functions = {}
    BY DEF Init
  <2> QED
    BY <2>1 DEF FilesInv
<1>2. DwarfInv /\ DwarfInv' /\ FilesInv /\ [Next]_vars => FilesInv'
  BY FilesInvNext
<1>3. DwarfInv /\ FilesInv => FilesAreRight
  <2> SUFFICES ASSUME DwarfInv, FilesInv, NEW j \in DOMAIN program, NEW d \in Read(j),
                      Number(program[j], d) \in DOMAIN program[j].files,
                      d.file + 1 \in DOMAIN program[1].files
               PROVE  FileIsRight(j, d) <=>
                        program[1].files[d.file + 1] = program[j].files[Number(program[j], d)]
    BY DEF FilesAreRight
  <2>1. j \in 1 .. Len(program)
    BY PresentUnit, UnitTyped DEF DwarfInv
  <2>2. PICK k \in Sole(j) : d = program[j].dies[k] /\ d.name \in DOMAIN functions
    BY DEF Read
  <2>3. functions[d.name].file = program[1].files[d.file + 1]
    BY <2>1, <2>2 DEF FilesInv
  <2> QED
    BY <2>3 DEF FileIsRight
<1> QED
  BY <1>1, <1>2, <1>3, AlwaysDwarf, PTL DEF Spec
=============================================================================
