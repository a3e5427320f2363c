------------------------- MODULE SymbolTable_proofs -------------------------
(***************************************************************************)
(* Lemmas about the operations of a symbol table, for every list of tables. *)
(***************************************************************************)
EXTENDS SymbolTable, TLAPS, SequenceTheorems, NaturalsInduction, WellFoundedInduction

\* A set of numbers has a smallest element: what a search from the front finds.
LEMMA MinOf ==
  ASSUME NEW T, T \subseteq Nat, T # {}
  PROVE  Min(T) \in T /\ \A y \in T : Min(T) <= y
<1>1. PICK x \in T : \A y \in T : ~(<<y, x>> \in OpToRel(<, Nat))
  BY NatLessThanWellFounded, WFMin, Zenon
<1>2. \A y \in T : ~(y < x)
  BY <1>1 DEF OpToRel
<1>3. \A y \in T : x <= y
  BY <1>2
<1> QED
  BY <1>3 DEF Min

\* The largest number of a set that reaches up to m is m.
LEMMA MaxOf ==
  ASSUME NEW m \in Nat, NEW s, s \subseteq 1 .. m, m \in s
  PROVE  Max(s) = m
<1>1. \A y \in s : m >= y
  OBVIOUS
<1>2. \A x \in s : (\A y \in s : x >= y) => x = m
  OBVIOUS
<1> DEFINE most == CHOOSE x \in s : \A y \in s : x >= y
<1>3. most \in s /\ \A y \in s : most >= y
  BY <1>1
<1> QED
  BY <1>2, <1>3, Zenon DEF Max

-----------------------------------------------------------------------------
(* The folds.                                                              *)

\* The function getSize is computed by: a set of indices is taken apart from its largest.
Sizes(g, list, m) ==
  g = [s \in SUBSET (1 .. m) |->
         IF s = {} THEN 0 ELSE g[s \ {Max(s)}] + Len(list[Max(s)].symbols)]

LEMMA SizesExists ==
  ASSUME NEW list, NEW n \in Nat
  PROVE  \E g : Sizes(g, list, n)
<1> DEFINE bad == {m \in Nat : ~ \E g : Sizes(g, list, m)}
<1> SUFFICES ASSUME bad # {} PROVE FALSE
  OBVIOUS
<1>1. PICK m \in Nat : m \in bad /\ \A k \in bad : m <= k
  <2>1. bad \subseteq Nat
    OBVIOUS
  <2> HIDE DEF bad
  <2> QED
    BY <2>1, MinOf
<1>2. CASE m = 0
  <2> DEFINE g == [s \in SUBSET (1 .. 0) |-> 0]
  <2>1. \A s \in SUBSET (1 .. 0) : s = {}
    OBVIOUS
  <2>2. g = [s \in SUBSET (1 .. 0) |->
               IF s = {} THEN 0 ELSE g[s \ {Max(s)}] + Len(list[Max(s)].symbols)]
    BY <2>1
  <2> QED
    BY <1>1, <1>2, <2>2 DEF Sizes
<1>3. CASE m # 0
  <2>1. m - 1 \in Nat /\ m - 1 \notin bad
    BY <1>1, <1>3
  <2>2. PICK g : Sizes(g, list, m - 1)
    BY <2>1
  <2> DEFINE T(s) == g[s \ {m}] + Len(list[m].symbols)
             h == [s \in SUBSET (1 .. m) |-> IF m \in s THEN T(s) ELSE g[s]]
  <2>3. ASSUME NEW s \in SUBSET (1 .. m)
        PROVE  h[s] = IF s = {} THEN 0 ELSE h[s \ {Max(s)}] + Len(list[Max(s)].symbols)
    <3>1. CASE m \in s
      <4>1. Max(s) = m /\ s \ {m} \in SUBSET (1 .. m) /\ m \notin s \ {m}
        BY <3>1, MaxOf
      <4> QED
        BY <3>1, <4>1
    <3>2. CASE m \notin s
      <4>1. s \in SUBSET (1 .. m - 1)
        BY <1>3, <3>2
      <4>2. g[s] = IF s = {} THEN 0 ELSE g[s \ {Max(s)}] + Len(list[Max(s)].symbols)
        BY <2>2, <4>1 DEF Sizes
      <4>3. h[s \ {Max(s)}] = g[s \ {Max(s)}]
        BY <3>2
      <4> QED
        BY <3>2, <4>2, <4>3
    <3> QED
      BY <3>1, <3>2
  <2>4. Sizes(h, list, m)
    <3>1. h = [s \in SUBSET (1 .. m) |-> h[s]]
      OBVIOUS
    <3> HIDE DEF h
    <3> QED
      BY <2>3, <3>1 DEF Sizes
  <2> QED
    BY <1>1, <2>4
<1> QED
  BY <1>2, <1>3

\* getSize adds the size of each table.
LEMMA SizeFold ==
  ASSUME NEW list, NEW n \in Nat, DOMAIN list = 1 .. n
  PROVE  \E g : /\ Sizes(g, list, n)
                /\ getSize(list) = g[1 .. n]
<1> DEFINE g == CHOOSE g : Sizes(g, list, n)
<1>1. Sizes(g, list, n)
  BY SizesExists
<1>2. getSize(list) = g[1 .. n]
  BY DEF getSize, FoldLeft, MapThenFoldSet, Sizes
<1> QED
  BY <1>1, <1>2

\* The same of at, whose walk carries the index that is left and the symbol it found.
Step(walk, table) ==
  IF walk.symbol # NoSymbol THEN walk
  ELSE IF walk.index < Len(table.symbols)
  THEN [walk EXCEPT !.symbol = table.symbols[walk.index + 1]]
  ELSE [walk EXCEPT !.index = @ - Len(table.symbols)]
Walks(g, list, index, m) ==
  g = [s \in SUBSET (1 .. m) |->
         IF s = {} THEN [index |-> index, symbol |-> NoSymbol]
         ELSE Step(g[s \ {Max(s)}], list[Max(s)])]

LEMMA WalksExists ==
  ASSUME NEW list, NEW index, NEW n \in Nat
  PROVE  \E g : Walks(g, list, index, n)
<1> DEFINE bad == {m \in Nat : ~ \E g : Walks(g, list, index, m)}
           Base == [index |-> index, symbol |-> NoSymbol]
<1> SUFFICES ASSUME bad # {} PROVE FALSE
  OBVIOUS
<1>1. PICK m \in Nat : m \in bad /\ \A k \in bad : m <= k
  <2>1. bad \subseteq Nat
    OBVIOUS
  <2> HIDE DEF bad
  <2> QED
    BY <2>1, MinOf
<1>2. CASE m = 0
  <2> DEFINE g == [s \in SUBSET (1 .. 0) |-> Base]
  <2>1. \A s \in SUBSET (1 .. 0) : s = {}
    OBVIOUS
  <2>2. g = [s \in SUBSET (1 .. 0) |->
               IF s = {} THEN Base ELSE Step(g[s \ {Max(s)}], list[Max(s)])]
    BY <2>1
  <2> QED
    BY <1>1, <1>2, <2>2 DEF Walks
<1>3. CASE m # 0
  <2>1. m - 1 \in Nat /\ m - 1 \notin bad
    BY <1>1, <1>3
  <2>2. PICK g : Walks(g, list, index, m - 1)
    BY <2>1
  <2> DEFINE T(s) == Step(g[s \ {m}], list[m])
             h == [s \in SUBSET (1 .. m) |-> IF m \in s THEN T(s) ELSE g[s]]
  <2>3. ASSUME NEW s \in SUBSET (1 .. m)
        PROVE  h[s] = IF s = {} THEN Base ELSE Step(h[s \ {Max(s)}], list[Max(s)])
    <3>1. CASE m \in s
      <4>1. Max(s) = m /\ s \ {m} \in SUBSET (1 .. m) /\ m \notin s \ {m}
        BY <3>1, MaxOf
      <4> QED
        BY <3>1, <4>1
    <3>2. CASE m \notin s
      <4>1. s \in SUBSET (1 .. m - 1)
        BY <1>3, <3>2
      <4>2. g[s] = IF s = {} THEN Base ELSE Step(g[s \ {Max(s)}], list[Max(s)])
        BY <2>2, <4>1 DEF Walks
      <4>3. h[s \ {Max(s)}] = g[s \ {Max(s)}]
        BY <3>2
      <4> QED
        BY <3>2, <4>2, <4>3
    <3> QED
      BY <3>1, <3>2
  <2>4. Walks(h, list, index, m)
    <3>1. h = [s \in SUBSET (1 .. m) |-> h[s]]
      OBVIOUS
    <3> HIDE DEF h
    <3> QED
      BY <2>3, <3>1 DEF Walks
  <2> QED
    BY <1>1, <2>4
<1> QED
  BY <1>2, <1>3

\* at goes on from table to table until it has found the symbol.
LEMMA AtFold ==
  ASSUME NEW list, NEW index, NEW n \in Nat, DOMAIN list = 1 .. n
  PROVE  \E g : /\ Walks(g, list, index, n)
                /\ at(list, index) = g[1 .. n].symbol
<1> DEFINE g == CHOOSE g : Walks(g, list, index, n)
<1>1. Walks(g, list, index, n)
  BY WalksExists
<1>2. at(list, index) = g[1 .. n].symbol
  BY DEF at, FoldLeft, MapThenFoldSet, Walks, Step
<1> QED
  BY <1>1, <1>2

\* The concatenation FlattenSeq is computed by.
Chains(g, seqs, m) ==
  g = [i \in 1 .. m |-> IF i = 1 THEN seqs[i] ELSE g[i - 1] \o seqs[i]]

LEMMA ChainsExists ==
  ASSUME NEW seqs, NEW n \in Nat
  PROVE  \E g : Chains(g, seqs, n)
<1> DEFINE bad == {m \in Nat : ~ \E g : Chains(g, seqs, m)}
<1> SUFFICES ASSUME bad # {} PROVE FALSE
  OBVIOUS
<1>1. PICK m \in Nat : m \in bad /\ \A k \in bad : m <= k
  <2>1. bad \subseteq Nat
    OBVIOUS
  <2> HIDE DEF bad
  <2> QED
    BY <2>1, MinOf
<1>2. CASE m = 0
  <2> DEFINE g == [i \in 1 .. 0 |-> <<>>]
  <2>1. g = [i \in 1 .. 0 |-> IF i = 1 THEN seqs[i] ELSE g[i - 1] \o seqs[i]]
    OBVIOUS
  <2> QED
    BY <1>1, <1>2, <2>1 DEF Chains
<1>3. CASE m # 0
  <2>1. m - 1 \in Nat /\ m - 1 \notin bad
    BY <1>1, <1>3
  <2>2. PICK g : Chains(g, seqs, m - 1)
    BY <2>1
  <2> DEFINE T == IF m = 1 THEN seqs[m] ELSE g[m - 1] \o seqs[m]
             h == [i \in 1 .. m |-> IF i = m THEN T ELSE g[i]]
  <2>3. ASSUME NEW i \in 1 .. m
        PROVE  h[i] = IF i = 1 THEN seqs[i] ELSE h[i - 1] \o seqs[i]
    <3>1. CASE i = m
      <4>1. m # 1 => h[m - 1] = g[m - 1]
        BY <1>3
      <4> QED
        BY <3>1, <4>1
    <3>2. CASE i # m
      <4>1. i \in 1 .. m - 1
        BY <3>2
      <4>2. g[i] = IF i = 1 THEN seqs[i] ELSE g[i - 1] \o seqs[i]
        BY <2>2, <4>1 DEF Chains
      <4>3. i # 1 => h[i - 1] = g[i - 1]
        BY <4>1
      <4> QED
        BY <3>2, <4>2, <4>3
    <3> QED
      BY <3>1, <3>2
  <2>4. Chains(h, seqs, m)
    <3>1. h = [i \in 1 .. m |-> h[i]]
      OBVIOUS
    <3> HIDE DEF h
    <3> QED
      BY <2>3, <3>1 DEF Chains
  <2> QED
    BY <1>1, <2>4
<1> QED
  BY <1>2, <1>3

LEMMA FlattenFold ==
  ASSUME NEW seqs, NEW n \in Nat \ {0}, Len(seqs) = n
  PROVE  \E g : Chains(g, seqs, n) /\ FlattenSeq(seqs) = g[n]
<1> DEFINE g == CHOOSE g : Chains(g, seqs, n)
<1>1. Chains(g, seqs, n)
  BY ChainsExists
<1>2. FlattenSeq(seqs) = g[n]
  BY DEF FlattenSeq, Chains
<1> QED
  BY <1>1, <1>2

-----------------------------------------------------------------------------
(* What they compute, table by table.                                      *)

Symbols == [name : STRING, addr : Nat]
Tables(objects) == [object : objects, symbols : Seq(Symbols), base : Nat]

SizesOf(size, list, n) ==
  size[0] = 0 /\ \A k \in 1 .. n : size[k] = size[k - 1] + Len(list[k].symbols)
WalkOf(walk, list, index, n) ==
  /\ walk[0] = [index |-> index, symbol |-> NoSymbol]
  /\ \A k \in 1 .. n : walk[k] = Step(walk[k - 1], list[k])
RowsUpTo(rows, list, n) ==
  rows[0] = <<>> /\ \A k \in 1 .. n : rows[k] = rows[k - 1] \o list[k].symbols

\* The first k indices, less the last of them.
LEMMA Prefix ==
  ASSUME NEW n \in Nat, NEW k \in 1 .. n
  PROVE  /\ 1 .. k \in SUBSET (1 .. n) /\ 1 .. k # {} /\ Max(1 .. k) = k
         /\ (1 .. k) \ {k} = 1 .. k - 1
<1>1. 1 .. k \subseteq 1 .. k /\ k \in 1 .. k /\ k \in Nat
  OBVIOUS
<1>2. Max(1 .. k) = k
  BY <1>1, MaxOf
<1> QED
  BY <1>1, <1>2

LEMMA getSizeSteps ==
  ASSUME NEW list, NEW n \in Nat, DOMAIN list = 1 .. n
  PROVE  \E size : SizesOf(size, list, n) /\ getSize(list) = size[n]
<1>1. PICK g : Sizes(g, list, n) /\ getSize(list) = g[1 .. n]
  BY SizeFold
<1> DEFINE size == [k \in 0 .. n |-> g[1 .. k]]
<1>2. size[0] = 0
  BY <1>1 DEF Sizes
<1>3. ASSUME NEW k \in 1 .. n PROVE size[k] = size[k - 1] + Len(list[k].symbols)
  <2>1. g[1 .. k] = g[(1 .. k) \ {Max(1 .. k)}] + Len(list[Max(1 .. k)].symbols)
    BY <1>1, Prefix DEF Sizes
  <2>2. k \in 0 .. n /\ k - 1 \in 0 .. n
    OBVIOUS
  <2>3. size[k] = g[1 .. k] /\ size[k - 1] = g[1 .. k - 1]
    BY <2>2
  <2>4. Max(1 .. k) = k /\ (1 .. k) \ {k} = 1 .. k - 1
    BY Prefix
  <2> HIDE DEF size
  <2> QED
    BY <2>1, <2>3, <2>4, Zenon
<1>4. getSize(list) = size[n]
  BY <1>1
<1> HIDE DEF size
<1> QED
  BY <1>2, <1>3, <1>4 DEF SizesOf

LEMMA atSteps ==
  ASSUME NEW list, NEW index, NEW n \in Nat, DOMAIN list = 1 .. n
  PROVE  \E walk : WalkOf(walk, list, index, n) /\ at(list, index) = walk[n].symbol
<1>1. PICK g : Walks(g, list, index, n) /\ at(list, index) = g[1 .. n].symbol
  BY AtFold
<1> DEFINE walk == [k \in 0 .. n |-> g[1 .. k]]
<1>2. walk[0] = [index |-> index, symbol |-> NoSymbol]
  BY <1>1 DEF Walks
<1>3. ASSUME NEW k \in 1 .. n PROVE walk[k] = Step(walk[k - 1], list[k])
  <2>1. g[1 .. k] = Step(g[(1 .. k) \ {Max(1 .. k)}], list[Max(1 .. k)])
    BY <1>1, Prefix DEF Walks
  <2>2. k \in 0 .. n /\ k - 1 \in 0 .. n
    OBVIOUS
  <2>3. walk[k] = g[1 .. k] /\ walk[k - 1] = g[1 .. k - 1]
    BY <2>2
  <2>4. Max(1 .. k) = k /\ (1 .. k) \ {k} = 1 .. k - 1
    BY Prefix
  <2> HIDE DEF walk
  <2> QED
    BY <2>1, <2>3, <2>4, Zenon
<1>4. at(list, index) = walk[n].symbol
  BY <1>1
<1> HIDE DEF walk
<1> QED
  BY <1>2, <1>3, <1>4 DEF WalkOf

LEMMA FlattenSteps ==
  ASSUME NEW objects, NEW list \in Seq(Tables(objects)), NEW n \in Nat, n = Len(list)
  PROVE  \E rows : /\ RowsUpTo(rows, list, n)
                   /\ FlattenSeq([t \in DOMAIN list |-> list[t].symbols]) = rows[n]
<1> DEFINE seqs == [t \in DOMAIN list |-> list[t].symbols]
<1>1. DOMAIN seqs = 1 .. n /\ Len(seqs) = n
  OBVIOUS
<1>2. \A t \in 1 .. n : seqs[t] = list[t].symbols /\ seqs[t] \in Seq(Symbols)
  <2> SUFFICES ASSUME NEW t \in 1 .. n PROVE seqs[t] = list[t].symbols /\ seqs[t] \in Seq(Symbols)
    OBVIOUS
  <2>1. list[t] \in Tables(objects)
    BY ElementOfSeq
  <2> QED
    BY <2>1 DEF Tables
<1>3. CASE n = 0
  <2>1. FlattenSeq(seqs) = <<>>
    <3>1. FlattenSeq(seqs) = seqs
      BY <1>1, <1>3 DEF FlattenSeq
    <3>2. seqs = <<>>
      BY <1>1, <1>3
    <3> QED
      BY <3>1, <3>2
  <2> DEFINE rows == [k \in {0} |-> <<>>]
  <2>2. RowsUpTo(rows, list, n) /\ rows[n] = <<>>
    BY <1>3 DEF RowsUpTo
  <2> QED
    BY <2>1, <2>2
<1>4. CASE n # 0
  <2> HIDE DEF seqs
  <2>1. PICK g : Chains(g, seqs, n) /\ FlattenSeq(seqs) = g[n]
    BY <1>1, <1>4, FlattenFold
  <2> DEFINE rows == [k \in 0 .. n |-> IF k = 0 THEN <<>> ELSE g[k]]
  <2>2. ASSUME NEW k \in 1 .. n PROVE rows[k] = rows[k - 1] \o list[k].symbols
    <3>1. g[k] = IF k = 1 THEN seqs[k] ELSE g[k - 1] \o seqs[k]
      BY <2>1 DEF Chains
    <3>2. CASE k = 1
      <4>1. rows[k] = list[k].symbols /\ rows[k - 1] = <<>>
        BY <1>2, <3>1, <3>2
      <4> HIDE DEF rows
      <4>2. list[k].symbols \in Seq(Symbols)
        BY <1>2
      <4> QED
        BY <4>1, <4>2, ConcatEmptySeq
    <3>3. CASE k # 1
      <4>1. rows[k] = g[k] /\ rows[k - 1] = g[k - 1]
        BY <3>3
      <4> HIDE DEF rows
      <4> QED
        BY <1>2, <3>1, <3>3, <4>1
    <3> QED
      BY <3>2, <3>3
  <2>3. rows[0] = <<>> /\ rows[n] = g[n]
    BY <1>4
  <2> HIDE DEF rows
  <2>4. RowsUpTo(rows, list, n)
    BY <2>2, <2>3 DEF RowsUpTo
  <2> QED
    BY <2>1, <2>3, <2>4 DEF seqs
<1> QED
  BY <1>3, <1>4

\* Induction on the number of tables: a set of numbers that has 0 and with k - 1 also k has all.
LEMMA Upwards ==
  ASSUME NEW n \in Nat, NEW good, 0 \in good, \A k \in 1 .. n : k - 1 \in good => k \in good
  PROVE  0 .. n \subseteq good
<1> DEFINE bad == (0 .. n) \ good
<1> SUFFICES ASSUME bad # {} PROVE FALSE
  OBVIOUS
<1>1. PICK m \in bad : \A k \in bad : m <= k
  <2>1. bad \subseteq Nat
    OBVIOUS
  <2> HIDE DEF bad
  <2> QED
    BY <2>1, MinOf
<1>2. m \in 1 .. n /\ m - 1 \notin bad
  BY <1>1
<1> QED
  BY <1>1, <1>2

LEMMA TableTyped ==
  ASSUME NEW objects, NEW list \in Seq(Tables(objects)), NEW k \in 1 .. Len(list)
  PROVE  /\ list[k] \in Tables(objects)
         /\ list[k].symbols \in Seq(Symbols) /\ Len(list[k].symbols) \in Nat
         /\ list[k].object \in objects /\ list[k].base \in Nat
<1>1. list[k] \in Tables(objects)
  BY ElementOfSeq
<1>2. /\ list[k].symbols \in Seq(Symbols)
      /\ list[k].object \in objects /\ list[k].base \in Nat
  BY <1>1 DEF Tables
<1> QED
  BY <1>1, <1>2, LenProperties

LEMMA NoSymbolIsNone ==
  NoSymbol \notin Symbols
<1>1. NoSymbol.addr = -1
  BY DEF NoSymbol
<1>2. \A s \in Symbols : s.addr \in Nat
  BY DEF Symbols
<1>3. -1 \notin Nat
  OBVIOUS
<1> QED
  BY <1>1, <1>2, <1>3

\* The rows of the first k tables are as many as getSize says.
LEMMA RowsTyped ==
  ASSUME NEW objects, NEW list \in Seq(Tables(objects)), NEW n \in Nat, n = Len(list),
         NEW size, SizesOf(size, list, n), NEW rows, RowsUpTo(rows, list, n)
  PROVE  \A k \in 0 .. n : /\ rows[k] \in Seq(Symbols)
                           /\ Len(rows[k]) \in Nat /\ size[k] = Len(rows[k])
<1> DEFINE good == {k \in 0 .. n : rows[k] \in Seq(Symbols) /\ size[k] = Len(rows[k])}
<1>1. 0 \in good
  <2>1. size[0] = 0 /\ rows[0] = <<>>
    BY DEF SizesOf, RowsUpTo
  <2>2. <<>> \in Seq(Symbols) /\ Len(<<>>) = 0
    BY EmptySeq
  <2>3. rows[0] \in Seq(Symbols) /\ size[0] = Len(rows[0])
    BY <2>1, <2>2, Zenon
  <2>4. 0 \in 0 .. n
    OBVIOUS
  <2> QED
    BY <2>3, <2>4
<1>2. ASSUME NEW k \in 1 .. n, k - 1 \in good PROVE k \in good
  <2>1. /\ rows[k - 1] \in Seq(Symbols) /\ size[k - 1] = Len(rows[k - 1])
        /\ rows[k] = rows[k - 1] \o list[k].symbols
        /\ size[k] = size[k - 1] + Len(list[k].symbols)
    BY <1>2 DEF SizesOf, RowsUpTo
  <2>2. list[k].symbols \in Seq(Symbols)
    BY TableTyped
  <2>3. rows[k] \in Seq(Symbols) /\ Len(rows[k]) = Len(rows[k - 1]) + Len(list[k].symbols)
    BY <2>1, <2>2, ConcatProperties
  <2>4. Len(rows[k]) = size[k] /\ k \in 0 .. n
    BY <2>1, <2>3
  <2> QED
    BY <2>3, <2>4
<1> HIDE DEF good
<1>3. 0 .. n \subseteq good
  BY <1>1, <1>2, Upwards
<1> QED
  BY <1>3, LenProperties DEF good

\* The walk has found the row as soon as it has passed its table; before, the index that is
\* left is that of the row in the tables to come.
LEMMA WalkFinds ==
  ASSUME NEW objects, NEW list \in Seq(Tables(objects)), NEW n \in Nat, n = Len(list),
         NEW size, SizesOf(size, list, n), NEW rows, RowsUpTo(rows, list, n),
         NEW index \in Nat, NEW walk, WalkOf(walk, list, index, n)
  PROVE  \A k \in 0 .. n :
           IF index < size[k] THEN walk[k].symbol = rows[k][index + 1]
           ELSE walk[k] = [index |-> index - size[k], symbol |-> NoSymbol]
<1> DEFINE good == {k \in 0 .. n :
                      IF index < size[k] THEN walk[k].symbol = rows[k][index + 1]
                      ELSE walk[k] = [index |-> index - size[k], symbol |-> NoSymbol]}
<1>1. 0 \in good
  BY DEF SizesOf, WalkOf
<1>2. ASSUME NEW k \in 1 .. n, k - 1 \in good PROVE k \in good
  <2> DEFINE z == size[k - 1]
             own == list[k].symbols
  <2>1. /\ size[k] = z + Len(own) /\ rows[k] = rows[k - 1] \o own
        /\ walk[k] = Step(walk[k - 1], list[k])
    BY DEF SizesOf, RowsUpTo, WalkOf
  <2>2. /\ rows[k - 1] \in Seq(Symbols) /\ z = Len(rows[k - 1]) /\ z \in Nat
        /\ own \in Seq(Symbols) /\ Len(own) \in Nat
    BY RowsTyped, TableTyped
  <2> DEFINE l == Len(own)
  <2>3. z \in Nat /\ l \in Nat /\ size[k] = z + l
    BY <2>1, <2>2
  <2>6. /\ \A i \in 1 .. z : rows[k][i] = rows[k - 1][i]
        /\ \A i \in 1 .. z + l : i > z => rows[k][i] = own[i - z]
    <3>1. \A i \in 1 .. Len(rows[k - 1]) + Len(own) :
            rows[k][i] = IF i <= Len(rows[k - 1]) THEN rows[k - 1][i]
                         ELSE own[i - Len(rows[k - 1])]
      <4>1. \A i \in 1 .. Len(rows[k - 1]) + Len(own) :
              (rows[k - 1] \o own)[i] = IF i <= Len(rows[k - 1]) THEN rows[k - 1][i]
                                        ELSE own[i - Len(rows[k - 1])]
        BY <2>2, ConcatProperties
      <4> QED
        BY <2>1, <4>1, Zenon
    <3>2. \A i \in 1 .. z + l : rows[k][i] = IF i <= z THEN rows[k - 1][i] ELSE own[i - z]
      BY <2>2, <3>1, Zenon
    <3> HIDE DEF z, own, l
    <3>3. \A i \in 1 .. z : i \in 1 .. z + l /\ i <= z
      BY <2>3
    <3>4. \A i \in 1 .. z + l : i > z => ~(i <= z)
      BY <2>3
    <3> QED
      BY <3>2, <3>3, <3>4, Zenon
  <2> HIDE DEF z, l
  <2>4. CASE index < z
    <3>1. walk[k - 1].symbol = rows[k - 1][index + 1]
      BY <1>2, <2>4 DEF z
    <3>2. index + 1 \in 1 .. z /\ index < size[k]
      BY <2>3, <2>4
    <3>3. rows[k - 1][index + 1] \in Symbols
      BY <2>2, <3>2, ElementOfSeq
    <3>4. rows[k - 1][index + 1] # NoSymbol
      BY <3>3, NoSymbolIsNone
    <3>5. walk[k] = walk[k - 1]
      BY <2>1, <3>1, <3>4 DEF Step
    <3> QED
      BY <2>6, <3>1, <3>2, <3>5
  <2>5. CASE ~(index < z)
    <3> DEFINE w == [index |-> index - z, symbol |-> NoSymbol]
    <3>1. walk[k - 1] = w
      BY <1>2, <2>5 DEF z
    <3>2. w.index = index - z /\ w.symbol = NoSymbol
      OBVIOUS
    <3>3. w = [index |-> index - z, symbol |-> NoSymbol]
      OBVIOUS
    <3>4. Step(w, list[k]) = IF index - z < l THEN [w EXCEPT !.symbol = own[(index - z) + 1]]
                             ELSE [w EXCEPT !.index = (index - z) - l]
      BY <3>2 DEF Step, l
    <3> HIDE DEF w, own
    <3>5. CASE index < size[k]
      <4>1. index - z < l /\ index + 1 > z /\ index + 1 \in 1 .. z + l
            /\ (index + 1) - z = (index - z) + 1
        BY <2>3, <2>5, <3>5
      <4>2. walk[k] = [w EXCEPT !.symbol = own[(index - z) + 1]]
        BY <2>1, <3>1, <3>4, <4>1
      <4>3. walk[k].symbol = own[(index - z) + 1]
        BY <3>3, <4>2
      <4>4. rows[k][index + 1] = own[(index - z) + 1]
        BY <2>6, <4>1
      <4> QED
        BY <3>5, <4>3, <4>4
    <3>6. CASE ~(index < size[k])
      <4>1. ~(index - z < l) /\ (index - z) - l = index - size[k]
        BY <2>3, <2>5, <3>6
      <4>2. walk[k] = [w EXCEPT !.index = (index - z) - l]
        BY <2>1, <3>1, <3>4, <4>1
      <4>3. walk[k] = [index |-> index - size[k], symbol |-> NoSymbol]
        BY <3>3, <4>1, <4>2
      <4> QED
        BY <3>6, <4>3
    <3> QED
      BY <3>5, <3>6
  <2> QED
    BY <2>4, <2>5
<1> HIDE DEF good
<1>3. 0 .. n \subseteq good
  BY <1>1, <1>2, Upwards
<1> QED
  BY <1>3 DEF good

\* Every row of the first k tables is a symbol of one of them.
LEMMA RowsAreOf ==
  ASSUME NEW objects, NEW list \in Seq(Tables(objects)), NEW n \in Nat, n = Len(list),
         NEW size, SizesOf(size, list, n), NEW rows, RowsUpTo(rows, list, n)
  PROVE  \A k \in 0 .. n :
           \A i \in 1 .. Len(rows[k]) : \E t \in 1 .. k : \E j \in 1 .. Len(list[t].symbols) :
             rows[k][i] = list[t].symbols[j]
<1> DEFINE Of(k) == \A i \in 1 .. Len(rows[k]) :
                      \E t \in 1 .. k : \E j \in 1 .. Len(list[t].symbols) :
                        rows[k][i] = list[t].symbols[j]
           good == {k \in 0 .. n : Of(k)}
<1>1. 0 \in good
  <2>1. rows[0] = <<>>
    BY DEF RowsUpTo
  <2>2. Len(rows[0]) = 0
    BY <2>1
  <2> QED
    BY <2>2
<1>2. ASSUME NEW k \in 1 .. n, k - 1 \in good PROVE k \in good
  <2> DEFINE own == list[k].symbols
             z == Len(rows[k - 1])
             l == Len(own)
  <2>1. /\ rows[k] = rows[k - 1] \o own /\ rows[k - 1] \in Seq(Symbols) /\ own \in Seq(Symbols)
        /\ z \in Nat /\ l \in Nat
    <3>1. k - 1 \in 0 .. n /\ k \in 1 .. Len(list)
      OBVIOUS
    <3>2. rows[k - 1] \in Seq(Symbols) /\ z \in Nat
      BY <3>1, RowsTyped
    <3>3. own \in Seq(Symbols) /\ l \in Nat
      BY <3>1, TableTyped
    <3>4. rows[k] = rows[k - 1] \o own
      BY DEF RowsUpTo
    <3> QED
      BY <3>2, <3>3, <3>4
  <2>2. /\ Len(rows[k]) = z + l
        /\ \A i \in 1 .. z + l : rows[k][i] = IF i <= z THEN rows[k - 1][i] ELSE own[i - z]
    <3>1. /\ Len(rows[k - 1] \o own) = z + l
          /\ \A i \in 1 .. z + l :
               (rows[k - 1] \o own)[i] = IF i <= z THEN rows[k - 1][i] ELSE own[i - z]
      BY <2>1, ConcatProperties
    <3> HIDE DEF z, l
    <3> QED
      BY <2>1, <3>1, Zenon
  <2>3. \A i \in 1 .. z : \E t \in 1 .. k - 1 : \E j \in 1 .. Len(list[t].symbols) :
          rows[k - 1][i] = list[t].symbols[j]
    BY <1>2
  <2>4. z \in Nat /\ l \in Nat
    BY <2>1
  <2> HIDE DEF z, l
  <2>5. Of(k)
    <3> SUFFICES ASSUME NEW i \in 1 .. z + l
                 PROVE  \E t \in 1 .. k : \E j \in 1 .. Len(list[t].symbols) :
                          rows[k][i] = list[t].symbols[j]
      BY <2>2
    <3>1. CASE i <= z
      <4>0. i \in 1 .. z
        BY <2>4, <3>1
      <4>1. i \in 1 .. z /\ rows[k][i] = rows[k - 1][i]
        BY <2>2, <3>1, <4>0
      <4>2. PICK t \in 1 .. k - 1 : \E j \in 1 .. Len(list[t].symbols) :
                                     rows[k - 1][i] = list[t].symbols[j]
        BY <2>3, <4>1
      <4>3. t \in 1 .. k
        OBVIOUS
      <4> QED
        BY <4>1, <4>2, <4>3
    <3>2. CASE ~(i <= z)
      <4>0. i - z \in 1 .. l
        BY <2>4, <3>2
      <4>1. i - z \in 1 .. l /\ rows[k][i] = own[i - z]
        BY <2>2, <3>2, <4>0
      <4>2. k \in 1 .. k
        OBVIOUS
      <4> QED
        BY <4>1, <4>2 DEF l
    <3> QED
      BY <3>1, <3>2
  <2>6. k \in 0 .. n
    OBVIOUS
  <2> HIDE DEF Of
  <2> QED
    BY <2>5, <2>6
<1> HIDE DEF good, Of
<1>3. 0 .. n \subseteq good
  BY <1>1, <1>2, Upwards
<1>4. \A k \in 0 .. n : Of(k)
  BY <1>3 DEF good
<1> QED
  BY <1>4 DEF Of

\* The symbols of all tables.
Flattened(list) == FlattenSeq([t \in DOMAIN list |-> list[t].symbols])

\* at is the row of the concatenation, getSize its length, and the row behind the last has
\* no symbol.
LEMMA RowsOfTables ==
  ASSUME NEW objects, NEW list \in Seq(Tables(objects))
  PROVE  LET rows == Flattened(list)
         IN /\ rows \in Seq(Symbols) /\ getSize(list) = Len(rows) /\ Len(rows) \in Nat
            /\ \A row \in 0 .. Len(rows) - 1 : at(list, row) = rows[row + 1]
            /\ at(list, Len(rows)) = NoSymbol
            /\ \A i \in 1 .. Len(rows) : \E t \in 1 .. Len(list) :
                 \E j \in 1 .. Len(list[t].symbols) : rows[i] = list[t].symbols[j]
<1> DEFINE n == Len(list)
           all == Flattened(list)
<1>1. n \in Nat /\ DOMAIN list = 1 .. n
  BY LenProperties
<1> HIDE DEF n
<1>2. PICK size : SizesOf(size, list, n) /\ getSize(list) = size[n]
  BY <1>1, getSizeSteps
<1>3. PICK rows : RowsUpTo(rows, list, n) /\ all = rows[n]
  BY <1>1, FlattenSteps DEF n, Flattened
<1> HIDE DEF all
<1>4. all \in Seq(Symbols) /\ getSize(list) = Len(all) /\ Len(all) \in Nat /\ Len(all) = size[n]
  <2>1. n \in 0 .. n
    BY <1>1
  <2> QED
    BY <1>1, <1>2, <1>3, <2>1, RowsTyped DEF n
<1>5. ASSUME NEW index \in Nat
      PROVE  /\ index < Len(all) => at(list, index) = all[index + 1]
             /\ index >= Len(all) => at(list, index) = NoSymbol
  <2>1. PICK walk : WalkOf(walk, list, index, n) /\ at(list, index) = walk[n].symbol
    BY <1>1, atSteps
  <2>2. n \in 0 .. n
    BY <1>1
  <2>3. IF index < size[n] THEN walk[n].symbol = rows[n][index + 1]
        ELSE walk[n] = [index |-> index - size[n], symbol |-> NoSymbol]
    BY <1>1, <1>2, <1>3, <2>1, <2>2, WalkFinds DEF n
  <2>4. CASE index < Len(all)
    BY <1>3, <1>4, <2>1, <2>3, <2>4
  <2>5. CASE index >= Len(all)
    <3>1. walk[n] = [index |-> index - size[n], symbol |-> NoSymbol]
      BY <1>4, <2>3, <2>5
    <3> QED
      BY <1>4, <2>1, <2>5, <3>1
  <2> QED
    BY <1>4, <2>4, <2>5
<1>6. \A row \in 0 .. Len(all) - 1 : at(list, row) = all[row + 1]
  BY <1>4, <1>5
<1>7. at(list, Len(all)) = NoSymbol
  BY <1>4, <1>5
<1>8. n \in 0 .. n
  BY <1>1
<1>9. \A i \in 1 .. Len(all) : \E t \in 1 .. n : \E j \in 1 .. Len(list[t].symbols) :
        all[i] = list[t].symbols[j]
  <2>1. n = Len(list) /\ n \in Nat
    BY <1>1 DEF n
  <2>2. \A k \in 0 .. n : \A i \in 1 .. Len(rows[k]) : \E t \in 1 .. k :
          \E j \in 1 .. Len(list[t].symbols) : rows[k][i] = list[t].symbols[j]
    BY <1>2, <1>3, <2>1, RowsAreOf
  <2>3. \A i \in 1 .. Len(rows[n]) : \E t \in 1 .. n :
          \E j \in 1 .. Len(list[t].symbols) : rows[n][i] = list[t].symbols[j]
    BY <1>8, <2>2, Zenon
  <2> QED
    BY <1>3, <2>3
<1> QED
  BY <1>4, <1>6, <1>7, <1>9 DEF all, n

\* So every row is a symbol of a table.
LEMMA RowIsSymbol ==
  ASSUME NEW objects, NEW list \in Seq(Tables(objects)), NEW row \in 0 .. getSize(list) - 1
  PROVE  \E t \in Range(list) : at(list, row) \in Range(t.symbols)
<1> DEFINE rows == Flattened(list)
           l    == Len(rows)
<1>1. /\ getSize(list) = l /\ l \in Nat
      /\ \A r \in 0 .. l - 1 : at(list, r) = rows[r + 1]
      /\ \A i \in 1 .. l : \E t \in 1 .. Len(list) :
           \E j \in 1 .. Len(list[t].symbols) : rows[i] = list[t].symbols[j]
  BY RowsOfTables
<1> HIDE DEF rows, l
<1>2. row \in 0 .. l - 1 /\ row + 1 \in 1 .. l
  BY <1>1
<1>3. \E t \in 1 .. Len(list) : \E j \in 1 .. Len(list[t].symbols) :
        rows[row + 1] = list[t].symbols[j]
  BY <1>1, <1>2, Zenon
<1>4. PICK t \in 1 .. Len(list) : \E j \in 1 .. Len(list[t].symbols) :
                                   at(list, row) = list[t].symbols[j]
  BY <1>1, <1>2, <1>3
<1>5. list[t] \in Range(list) /\ list[t].symbols \in Seq(Symbols)
  BY RangeEquality, TableTyped
<1>6. at(list, row) \in Range(list[t].symbols)
  BY <1>4, <1>5, RangeEquality
<1> QED
  BY <1>5, <1>6

-----------------------------------------------------------------------------
(* The lookups, and relocate.                                              *)

\* First is a symbol that passes the test, if there is one: by address, and by name.
FirstAt(seq, a)    == First(seq, LAMBDA sym : sym.addr = a)
FirstNamed(seq, n) == First(seq, LAMBDA sym : sym.name = n)

LEMMA FirstAtAddress ==
  ASSUME NEW seq \in Seq(Symbols), NEW a
  PROVE  LET first == FirstAt(seq, a)
         IN IF \E s \in Range(seq) : s.addr = a
            THEN first \in Range(seq) /\ first.addr = a /\ first # NoSymbol
            ELSE first = NoSymbol
<1> DEFINE some == {i \in 1 .. Len(seq) : seq[i].addr = a}
           first == FirstAt(seq, a)
<1>1. first = LET i == IF some # {} THEN Min(some) ELSE 0
              IN IF i = 0 THEN NoSymbol ELSE seq[i]
  BY DEF FirstAt, First, SelectInSeq
<1>2. Range(seq) = {seq[i] : i \in 1 .. Len(seq)} /\ Len(seq) \in Nat
  BY RangeEquality, LenProperties
<1>3. CASE some # {}
  <2>1. some \subseteq Nat
    BY <1>2
  <2>2. Min(some) \in some
    BY <1>3, <2>1, MinOf
  <2>3. Min(some) \in 1 .. Len(seq) /\ seq[Min(some)].addr = a
    BY <2>2
  <2>4. first = seq[Min(some)]
    BY <1>1, <1>2, <1>3, <2>3
  <2>5. first \in Symbols
    BY <2>3, <2>4, ElementOfSeq
  <2> HIDE DEF some, first
  <2> QED
    BY <1>2, <2>3, <2>4, <2>5, NoSymbolIsNone DEF first
<1>4. CASE some = {}
  BY <1>1, <1>2, <1>4
<1> QED
  BY <1>3, <1>4

LEMMA FirstOfName ==
  ASSUME NEW seq \in Seq(Symbols), NEW n
  PROVE  LET first == FirstNamed(seq, n)
         IN IF \E s \in Range(seq) : s.name = n
            THEN first \in Range(seq) /\ first.name = n /\ first # NoSymbol
            ELSE first = NoSymbol
<1> DEFINE some == {i \in 1 .. Len(seq) : seq[i].name = n}
           first == FirstNamed(seq, n)
<1>1. first = LET i == IF some # {} THEN Min(some) ELSE 0
              IN IF i = 0 THEN NoSymbol ELSE seq[i]
  BY DEF FirstNamed, First, SelectInSeq
<1>2. Range(seq) = {seq[i] : i \in 1 .. Len(seq)} /\ Len(seq) \in Nat
  BY RangeEquality, LenProperties
<1>3. CASE some # {}
  <2>1. some \subseteq Nat
    BY <1>2
  <2>2. Min(some) \in some
    BY <1>3, <2>1, MinOf
  <2>3. Min(some) \in 1 .. Len(seq) /\ seq[Min(some)].name = n
    BY <2>2
  <2>4. first = seq[Min(some)]
    BY <1>1, <1>2, <1>3, <2>3
  <2>5. first \in Symbols
    BY <2>3, <2>4, ElementOfSeq
  <2> HIDE DEF some, first
  <2> QED
    BY <1>2, <2>3, <2>4, <2>5, NoSymbolIsNone DEF first
<1>4. CASE some = {}
  BY <1>1, <1>2, <1>4
<1> QED
  BY <1>3, <1>4

LEMMA RangeOfTables ==
  ASSUME NEW objects, NEW list \in Seq(Tables(objects))
  PROVE  /\ Range(list) = {list[t] : t \in 1 .. Len(list)} /\ Len(list) \in Nat
         /\ \A t \in Range(list) : t \in Tables(objects) /\ t.symbols \in Seq(Symbols)
<1>1. Range(list) = {list[t] : t \in 1 .. Len(list)} /\ Len(list) \in Nat
  BY RangeEquality, LenProperties
<1> QED
  BY <1>1, TableTyped

\* findInTable leads to the symbol at an address, and to the table it is in.
LEMMA FindsAddress ==
  ASSUME NEW objects, NEW list \in Seq(Tables(objects)), NEW a
  PROVE  LET found == findInTable(list, a)
         IN IF \E t \in Range(list) : \E s \in Range(t.symbols) : s.addr = a
            THEN /\ found.table \in Range(list)
                 /\ found.symbol \in Range(found.table.symbols) /\ found.symbol.addr = a
            ELSE found.symbol = NoSymbol
<1> DEFINE firstIn(t) == FirstAt(t.symbols, a)
           some == {t \in 1 .. Len(list) : firstIn(list[t]) # NoSymbol}
           found == findInTable(list, a)
<1>1. found = LET t == IF some # {} THEN Min(some) ELSE 0
              IN IF t = 0 THEN [symbol |-> NoSymbol, table |-> NoTable]
                 ELSE [symbol |-> firstIn(list[t]), table |-> list[t]]
  BY DEF findInTable, SelectInSeq, FirstAt
<1>2. ASSUME NEW t \in Range(list)
      PROVE  IF \E s \in Range(t.symbols) : s.addr = a
             THEN firstIn(t) \in Range(t.symbols) /\ firstIn(t).addr = a /\ firstIn(t) # NoSymbol
             ELSE firstIn(t) = NoSymbol
  <2>1. t.symbols \in Seq(Symbols)
    BY RangeOfTables
  <2> QED
    BY <2>1, FirstAtAddress
<1>3. Range(list) = {list[t] : t \in 1 .. Len(list)} /\ Len(list) \in Nat
  BY RangeOfTables
<1> HIDE DEF firstIn
<1>4. CASE some # {}
  <2>1. some \subseteq Nat
    BY <1>3
  <2>2. Min(some) \in some
    BY <1>4, <2>1, MinOf
  <2>3. Min(some) \in 1 .. Len(list) /\ firstIn(list[Min(some)]) # NoSymbol
    BY <2>2
  <2>4. found = [symbol |-> firstIn(list[Min(some)]), table |-> list[Min(some)]]
    BY <1>1, <1>3, <1>4, <2>3
  <2> HIDE DEF some, found
  <2>5. found.table = list[Min(some)] /\ found.symbol = firstIn(list[Min(some)])
    BY <2>4
  <2>6. list[Min(some)] \in Range(list)
    BY <1>3, <2>3
  <2> QED
    BY <1>2, <2>3, <2>5, <2>6 DEF found
<1>5. CASE some = {}
  <2>1. found.symbol = NoSymbol
    BY <1>1, <1>5
  <2>2. \A t \in 1 .. Len(list) : firstIn(list[t]) = NoSymbol
    BY <1>5
  <2> HIDE DEF some, found
  <2> QED
    BY <1>2, <1>3, <2>1, <2>2 DEF found
<1> QED
  BY <1>4, <1>5

\* operator[] on a name leads to a symbol of that name.
LEMMA FindsName ==
  ASSUME NEW objects, NEW list \in Seq(Tables(objects)), NEW n
  PROVE  IF \E t \in Range(list) : \E s \in Range(t.symbols) : s.name = n
         THEN /\ ByName(list, n).name = n /\ ByName(list, n) # NoSymbol
              /\ \E t \in Range(list) : ByName(list, n) \in Range(t.symbols)
         ELSE ByName(list, n) = NoSymbol
<1> DEFINE firstIn(t) == FirstNamed(t.symbols, n)
           some == {t \in 1 .. Len(list) : firstIn(list[t]) # NoSymbol}
<1>1. ByName(list, n) = LET t == IF some # {} THEN Min(some) ELSE 0
                        IN IF t = 0 THEN NoSymbol ELSE firstIn(list[t])
  BY DEF ByName, SelectInSeq, FirstNamed
<1>2. ASSUME NEW t \in Range(list)
      PROVE  IF \E s \in Range(t.symbols) : s.name = n
             THEN firstIn(t) \in Range(t.symbols) /\ firstIn(t).name = n /\ firstIn(t) # NoSymbol
             ELSE firstIn(t) = NoSymbol
  <2>1. t.symbols \in Seq(Symbols)
    BY RangeOfTables
  <2> QED
    BY <2>1, FirstOfName
<1>3. Range(list) = {list[t] : t \in 1 .. Len(list)} /\ Len(list) \in Nat
  BY RangeOfTables
<1> HIDE DEF firstIn
<1>4. CASE some # {}
  <2>1. some \subseteq Nat
    BY <1>3
  <2>2. Min(some) \in some
    BY <1>4, <2>1, MinOf
  <2>3. Min(some) \in 1 .. Len(list) /\ firstIn(list[Min(some)]) # NoSymbol
    BY <2>2
  <2>4. ByName(list, n) = firstIn(list[Min(some)])
    BY <1>1, <1>3, <1>4, <2>3
  <2> HIDE DEF some
  <2>5. list[Min(some)] \in Range(list)
    BY <1>3, <2>3
  <2> QED
    BY <1>2, <2>3, <2>4, <2>5
<1>5. CASE some = {}
  <2>1. ByName(list, n) = NoSymbol
    BY <1>1, <1>5
  <2>2. \A t \in 1 .. Len(list) : firstIn(list[t]) = NoSymbol
    BY <1>5
  <2> HIDE DEF some
  <2> QED
    BY <1>2, <1>3, <2>1, <2>2
<1> QED
  BY <1>4, <1>5

\* A table that was just read has every symbol moved, and knows by how much.
LEMMA RelocateNew ==
  ASSUME NEW file, NEW syms \in Seq(Symbols), NEW by \in Nat
  PROVE  relocate(<<NewTable(file, syms)>>, by)
           = <<[object  |-> file, base |-> by,
                symbols |-> [i \in DOMAIN syms |->
                               [name |-> syms[i].name, addr |-> syms[i].addr + by]]]>>
<1> DEFINE new == NewTable(file, syms)
           moved == Moved(syms, by)
           named == [i \in DOMAIN syms |-> [name |-> syms[i].name, addr |-> syms[i].addr + by]]
<1>1. moved = named
  <2>1. ASSUME NEW i \in DOMAIN syms
        PROVE  [syms[i] EXCEPT !.addr = @ + by] = [name |-> syms[i].name, addr |-> syms[i].addr + by]
    <3>1. syms[i] \in Symbols
      BY ElementOfSeq, LenProperties
    <3> QED
      BY <3>1 DEF Symbols
  <2> QED
    BY <2>1 DEF Moved
<1>2. [new EXCEPT !.symbols = moved, !.base = by] = [object |-> file, base |-> by, symbols |-> moved]
  <2>1. new = [object |-> file, symbols |-> syms, base |-> 0]
    BY DEF NewTable
  <2> HIDE DEF new, moved
  <2>2. [new EXCEPT !.symbols = moved] = [object |-> file, symbols |-> moved, base |-> 0]
    BY <2>1
  <2>3. [new EXCEPT !.symbols = moved, !.base = by]
          = [[new EXCEPT !.symbols = moved] EXCEPT !.base = by]
    BY <2>1
  <2>4. [[object |-> file, symbols |-> moved, base |-> 0] EXCEPT !.base = by]
          = [object |-> file, base |-> by, symbols |-> moved]
    OBVIOUS
  <2> QED
    BY <2>2, <2>3, <2>4, Zenon
<1>3. new.symbols = syms /\ new.base = 0
  BY DEF NewTable
<1>4. relocate(<<new>>, by) = <<[new EXCEPT !.symbols = moved, !.base = by]>>
  <2> HIDE DEF new
  <2> DEFINE list == <<new>>
  <2>1. DOMAIN list = {1} /\ list[1] = new
    OBVIOUS
  <2>2. relocate(list, by)
          = [t \in DOMAIN list |-> [list[t] EXCEPT !.symbols = Moved(list[t].symbols, by),
                                                   !.base = IF t = 1 THEN by ELSE list[t].base]]
    BY DEF relocate
  <2> HIDE DEF list
  <2>3. relocate(list, by) = [t \in {1} |-> [new EXCEPT !.symbols = moved, !.base = by]]
    BY <1>3, <2>1, <2>2
  <2> HIDE DEF moved
  <2> QED
    BY <2>3 DEF list
<1> QED
  BY <1>1, <1>2, <1>4
=============================================================================
