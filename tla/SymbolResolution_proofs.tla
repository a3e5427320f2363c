----------------------- MODULE SymbolResolution_proofs -----------------------
(***************************************************************************)
(* Theorems about SymbolResolution, for all files, builds and load         *)
(* addresses, and for any number of restarts and rebuilds.                 *)
(***************************************************************************)
EXTENDS SymbolResolution, SymbolTable_proofs, FiniteSetTheorems

\* An entry of the link map, and the table that is made of it.
Entries == [file : Files, base : Bases \cup {0}, symbols : Seq(Symbols)]
TableOf(p) ==
  [object  |-> p.file, base |-> p.base,
   symbols |-> [i \in DOMAIN p.symbols |->
                  [name |-> p.symbols[i].name, addr |-> p.symbols[i].addr + p.base]]]

\* A process has no file twice, the executable first and at 0, and no two of the libraries
\* at one place.
IsProcess(p) ==
  /\ p \in Seq(Entries) /\ Len(p) \in Nat \ {0}
  /\ p[1].file = Exe /\ p[1].base = 0
  /\ \A i \in 2 .. Len(p) : p[i].file \in Libs /\ p[i].base \in Bases
  /\ \A i, j \in 1 .. Len(p) : p[i].file = p[j].file => i = j
  /\ \A i, j \in 2 .. Len(p) : p[i].base = p[j].base /\ p[i].base # 0 => i = j
  /\ \A i \in 1 .. Len(p) : p[i].symbols \in Builds[p[i].file]

IsTable(list) == list \in Seq(Tables(Files))

\* Every variable of a launch has its type, and what is read is what is on the disk.
Disk == disk \in [Files -> UNION {Builds[f] : f \in Files}] /\ \A f \in Files : disk[f] \in Builds[f]
LaunchInv ==
  /\ Disk
  /\ IsProcess(process) /\ linkMap \in Seq(Entries)
  /\ IsTable(symtab) /\ IsTable(elf) /\ IsTable(res)
  /\ pc \in {"static", "libraries", "refresh", "idle", "crashed"}
  /\ pc # "idle" => \A i \in 1 .. Len(process) : process[i].symbols = disk[process[i].file]

-----------------------------------------------------------------------------
(* Files, entries and tables.                                              *)

LEMMA BuildTyped ==
  ASSUME NEW f \in Files, NEW x \in Builds[f]
  PROVE  x \in Seq(Symbols) /\ Range(x) = {x[i] : i \in 1 .. Len(x)} /\ Range(x) \subseteq Symbols
<1>1. x \in Seq(Symbols)
  BY SymbolsAssumption DEF Symbols
<1>2. Range(x) = {x[i] : i \in 1 .. Len(x)}
  BY <1>1, RangeEquality
<1>3. Range(x) \subseteq Symbols
  BY <1>1, RangeOfSeq
<1> QED
  BY <1>1, <1>2, <1>3

LEMMA BasesTyped ==
  Bases \subseteq Nat /\ Exe \notin Libs /\ Files = Libs \cup {Exe} /\ Readable \subseteq Files
BY SymbolsAssumption DEF Files, Readable

LEMMA EntryFields ==
  ASSUME NEW p \in Entries
  PROVE  /\ p.file \in Files /\ p.base \in Nat /\ p.base \in Bases \cup {0}
         /\ p.symbols \in Seq(Symbols)
<1>1. p.file \in Files /\ p.base \in Bases \cup {0} /\ p.symbols \in Seq(Symbols)
  BY DEF Entries
<1>2. p.base \in Nat
  <2>1. Bases \cup {0} \subseteq Nat
    BY BasesTyped
  <2> QED
    BY <1>1, <2>1, Zenon
<1> QED
  BY <1>1, <1>2

LEMMA TableOfFields ==
  ASSUME NEW p \in Entries
  PROVE  /\ TableOf(p) \in Tables(Files)
         /\ TableOf(p).object = p.file /\ TableOf(p).base = p.base
         /\ Range(TableOf(p).symbols) = {Named(s.name, s.addr + p.base) : s \in Range(p.symbols)}
<1> DEFINE syms == p.symbols
           new == [i \in DOMAIN syms |-> [name |-> syms[i].name, addr |-> syms[i].addr + p.base]]
<1>1. p.file \in Files /\ p.base \in Nat /\ syms \in Seq(Symbols)
  BY EntryFields
<1>2. TableOf(p) = [object |-> p.file, base |-> p.base, symbols |-> new]
  BY DEF TableOf
<1>3. \A i \in 1 .. Len(syms) : syms[i].name \in STRING /\ syms[i].addr \in Nat
  <2>1. \A i \in 1 .. Len(syms) : syms[i] \in Symbols
    BY <1>1, ElementOfSeq
  <2> QED
    BY <2>1 DEF Symbols
<1>4. DOMAIN syms = 1 .. Len(syms) /\ Len(syms) \in Nat
  BY <1>1, LenProperties
<1>5. /\ Range(syms) = {syms[i] : i \in 1 .. Len(syms)}
      /\ Range(new) = {new[i] : i \in 1 .. Len(syms)}
  BY <1>4 DEF Range
<1>6. ASSUME NEW i \in 1 .. Len(syms)
      PROVE  /\ new[i] \in Symbols
             /\ new[i] = Named(syms[i].name, syms[i].addr + p.base)
  <2>1. new[i] = [name |-> syms[i].name, addr |-> syms[i].addr + p.base]
    BY <1>4
  <2>2. syms[i].addr + p.base \in Nat
    BY <1>1, <1>3
  <2> HIDE DEF new
  <2> QED
    BY <1>3, <2>1, <2>2 DEF Symbols, Named
<1> HIDE DEF syms
<1>7. new \in Seq(Symbols)
  <2>1. new \in [1 .. Len(syms) -> Symbols]
    BY <1>4, <1>6
  <2> QED
    BY <1>4, <2>1
<1> HIDE DEF new
<1>8. TableOf(p) \in Tables(Files)
  BY <1>1, <1>2, <1>7 DEF Tables
<1>9. Range(new) = {Named(s.name, s.addr + p.base) : s \in Range(syms)}
  BY <1>5, <1>6
<1> QED
  BY <1>2, <1>8, <1>9 DEF syms

\* relocate gives the table of the entry; the executable's needs none.
LEMMA TableIsNew ==
  ASSUME NEW p \in Entries
  PROVE  /\ relocate(<<NewTable(p.file, p.symbols)>>, p.base) = <<TableOf(p)>>
         /\ p.base = 0 => NewTable(p.file, p.symbols) = TableOf(p)
<1>1. p.base \in Nat /\ p.symbols \in Seq(Symbols)
  BY EntryFields
<1>2. relocate(<<NewTable(p.file, p.symbols)>>, p.base) = <<TableOf(p)>>
  BY <1>1, RelocateNew DEF TableOf
<1>3. ASSUME p.base = 0 PROVE NewTable(p.file, p.symbols) = TableOf(p)
  <2> DEFINE syms == p.symbols
             new == [i \in DOMAIN syms |-> [name |-> syms[i].name, addr |-> syms[i].addr + 0]]
  <2>1. ASSUME NEW i \in DOMAIN syms
        PROVE  [name |-> syms[i].name, addr |-> syms[i].addr + 0] = syms[i]
    <3>1. syms[i] \in Symbols
      BY <1>1, ElementOfSeq, LenProperties
    <3>2. syms[i].addr + 0 = syms[i].addr
      BY <3>1 DEF Symbols
    <3> HIDE DEF syms
    <3> QED
      BY <3>1, <3>2 DEF Symbols
  <2>2. DOMAIN syms = 1 .. Len(syms)
    BY <1>1, LenProperties
  <2>3. syms = [i \in DOMAIN syms |-> syms[i]]
    BY <1>1
  <2>4. new = syms
    BY <2>1, <2>3
  <2>5. TableOf(p) = [object |-> p.file, base |-> p.base, symbols |-> new]
    BY <1>3 DEF TableOf
  <2> HIDE DEF new, syms
  <2> QED
    BY <1>3, <2>4, <2>5 DEF NewTable, syms
<1> QED
  BY <1>2, <1>3

\* The entry a process has of a file is one of its entries, and two of them are told apart
\* by their file.
LEMMA ProcessEntries ==
  ASSUME NEW p, IsProcess(p)
  PROVE  /\ Range(p) = {p[i] : i \in 1 .. Len(p)}
         /\ \A i \in 1 .. Len(p) : p[i] \in Entries
         /\ \A e \in Range(p) : /\ e \in Entries /\ e.symbols \in Builds[e.file]
                                /\ e.file = Exe => e.base = 0
                                /\ e.file # Exe => e.file \in Libs /\ e.base \in Bases
         /\ \A e, d \in Range(p) : e.file = d.file => e = d
         /\ \A e, d \in Range(p) : e.file # Exe /\ d.file # Exe /\ e.base = d.base /\ e.base # 0
                                     => e = d
<1>1. /\ Range(p) = {p[i] : i \in 1 .. Len(p)} /\ Len(p) \in Nat \ {0}
      /\ \A i \in 1 .. Len(p) : p[i] \in Entries
  BY RangeEquality, ElementOfSeq DEF IsProcess
<1>2. \A i \in 1 .. Len(p) : i = 1 \/ i \in 2 .. Len(p)
  BY <1>1
<1>3. \A i \in 1 .. Len(p) : /\ p[i].file = Exe => p[i].base = 0
                             /\ p[i].file # Exe => p[i].file \in Libs /\ p[i].base \in Bases
                             /\ p[i].file # Exe => i \in 2 .. Len(p)
  BY <1>2, SymbolsAssumption DEF IsProcess
<1>4. \A e \in Range(p) : /\ e \in Entries /\ e.symbols \in Builds[e.file]
                          /\ e.file = Exe => e.base = 0
                          /\ e.file # Exe => e.file \in Libs /\ e.base \in Bases
  BY <1>1, <1>3 DEF IsProcess
<1>5. \A e, d \in Range(p) : e.file = d.file => e = d
  BY <1>1 DEF IsProcess
<1>6. \A e, d \in Range(p) : e.file # Exe /\ d.file # Exe /\ e.base = d.base /\ e.base # 0
                                => e = d
  BY <1>1, <1>3 DEF IsProcess
<1> QED
  BY <1>1, <1>4, <1>5, <1>6
-----------------------------------------------------------------------------
(* The launch.                                                             *)

LEMMA EntryOf ==
  ASSUME Disk, NEW f \in Files, NEW b \in Bases \cup {0}
  PROVE  /\ Entry(f, b) \in Entries
         /\ Entry(f, b).file = f /\ Entry(f, b).base = b /\ Entry(f, b).symbols = disk[f]
         /\ Entry(f, b).symbols \in Builds[f]
<1>1. disk[f] \in Builds[f] /\ disk[f] \in Seq(Symbols)
  BY BuildTyped DEF Disk
<1>2. Entry(f, b) = [file |-> f, base |-> b, symbols |-> disk[f]]
  BY DEF Entry
<1> QED
  BY <1>1, <1>2 DEF Entries

\* The libraries are loaded each once, in some order.
LEMMA Orders ==
  ASSUME NEW order \in SetToSeqs(Libs)
  PROVE  LET n == Cardinality(Libs)
         IN /\ n \in Nat /\ order \in [1 .. n -> Libs]
            /\ \A i, j \in 1 .. n : order[i] = order[j] => i = j
BY SymbolsAssumption, FS_CardinalityType DEF SetToSeqs

\* The entries of a static executable: one.
LEMMA StaticLoad ==
  ASSUME Disk, NEW p, p = <<Entry(Exe, 0)>>
  PROVE  /\ IsProcess(p)
         /\ \A i \in 1 .. Len(p) : p[i].symbols = disk[p[i].file]
         /\ LinkMap(p) = SubSeq(p, 2, Len(p)) /\ LinkMap(p) \in Seq(Entries)
<1> DEFINE e == Entry(Exe, 0)
<1>1. /\ e \in Entries /\ e.file = Exe /\ e.base = 0
      /\ e.symbols = disk[Exe] /\ e.symbols \in Builds[Exe]
  <2>1. Exe \in Files /\ 0 \in Bases \cup {0}
    BY BasesTyped
  <2> QED
    BY <2>1, EntryOf
<1> HIDE DEF e
<1>2. p = <<e>> /\ p \in Seq(Entries) /\ Len(p) = 1 /\ p[1] = e
  BY <1>1 DEF e
<1>3. 1 .. 1 = {1} /\ 2 .. 1 = {}
  OBVIOUS
<1>4. IsProcess(p) /\ \A i \in 1 .. Len(p) : p[i].symbols = disk[p[i].file]
  BY <1>1, <1>2, <1>3 DEF IsProcess
<1>5. LinkMap(p) = SubSeq(p, 2, Len(p)) /\ LinkMap(p) \in Seq(Entries)
  <2>1. p # <<>>
    BY <1>2, EmptySeq
  <2> QED
    BY <1>2, <2>1, TailIsSubSeq, HeadTailProperties DEF LinkMap
<1> QED
  BY <1>4, <1>5

LEMMA LoadsAre ==
  ASSUME Disk, NEW p \in Loads
  PROVE  /\ IsProcess(p)
         /\ \A i \in 1 .. Len(p) : p[i].symbols = disk[p[i].file]
         /\ LinkMap(p) = SubSeq(p, 2, Len(p)) /\ LinkMap(p) \in Seq(Entries)
<1> DEFINE n == Cardinality(Libs)
<1>0. p = <<Entry(Exe, 0)>>
      \/ \E order \in SetToSeqs(Libs), base \in Placements : p = Loaded(order, base)
  BY DEF Loads
<1> SUFFICES ASSUME \E order \in SetToSeqs(Libs), base \in Placements : p = Loaded(order, base)
             PROVE  /\ IsProcess(p)
                    /\ \A i \in 1 .. Len(p) : p[i].symbols = disk[p[i].file]
                    /\ LinkMap(p) = SubSeq(p, 2, Len(p)) /\ LinkMap(p) \in Seq(Entries)
  BY <1>0, StaticLoad
<1>1. PICK order \in SetToSeqs(Libs), base \in Placements : p = Loaded(order, base)
  OBVIOUS
<1>2. base \in [Libs -> Bases] /\ \A f, g \in Libs : base[f] = base[g] /\ base[f] # 0 => f = g
  BY DEF Placements
<1>3. /\ n \in Nat /\ order \in [1 .. n -> Libs]
      /\ \A i, j \in 1 .. n : order[i] = order[j] => i = j
  BY Orders
<1> DEFINE libs == [i \in 1 .. n |-> Entry(order[i], base[order[i]])]
           head == <<Entry(Exe, 0)>>
<1> HIDE DEF n
<1>4. \A i \in 1 .. n : /\ libs[i] \in Entries
                        /\ libs[i].file = order[i] /\ libs[i].base = base[order[i]]
                        /\ libs[i].symbols = disk[order[i]]
  <2> SUFFICES ASSUME NEW i \in 1 .. n
               PROVE  /\ libs[i] \in Entries
                      /\ libs[i].file = order[i] /\ libs[i].base = base[order[i]]
                      /\ libs[i].symbols = disk[order[i]]
    OBVIOUS
  <2>1. order[i] \in Libs /\ order[i] \in Files /\ base[order[i]] \in Bases \cup {0}
    BY <1>2, <1>3, BasesTyped
  <2>2. libs[i] = Entry(order[i], base[order[i]])
    OBVIOUS
  <2> HIDE DEF libs
  <2> QED
    BY <2>1, <2>2, EntryOf
<1>5. Exe \in Files /\ Entry(Exe, 0) \in Entries /\ Entry(Exe, 0).file = Exe
      /\ Entry(Exe, 0).base = 0 /\ Entry(Exe, 0).symbols = disk[Exe]
  BY BasesTyped, EntryOf
<1>6. libs \in Seq(Entries) /\ Len(libs) = n
  <2>1. libs \in [1 .. n -> Entries]
    BY <1>4
  <2> QED
    BY <1>3, <2>1
<1>7. head \in Seq(Entries) /\ Len(head) = 1 /\ head[1] = Entry(Exe, 0)
  BY <1>5
<1>8. p = head \o libs
  <2>1. DOMAIN order = 1 .. n
    BY <1>3
  <2> QED
    BY <1>1, <2>1 DEF Loaded
<1> HIDE DEF libs, head
<1>9. /\ p \in Seq(Entries) /\ Len(p) = 1 + n
      /\ \A i \in 1 .. 1 + n : p[i] = IF i <= 1 THEN head[i] ELSE libs[i - 1]
  <2>1. /\ head \o libs \in Seq(Entries) /\ Len(head \o libs) = Len(head) + Len(libs)
        /\ \A i \in 1 .. Len(head) + Len(libs) :
             (head \o libs)[i] = IF i <= Len(head) THEN head[i] ELSE libs[i - Len(head)]
    BY <1>6, <1>7, ConcatProperties
  <2> QED
    BY <1>6, <1>7, <1>8, <2>1, Zenon
<1>10. p[1] = Entry(Exe, 0) /\ \A i \in 2 .. 1 + n : p[i] = libs[i - 1] /\ i - 1 \in 1 .. n
  BY <1>3, <1>7, <1>9
<1>12. \A i \in 1 .. Len(p) : i = 1 \/ i \in 2 .. 1 + n
  BY <1>3, <1>9
<1>13. Len(p) \in Nat \ {0} /\ 1 \in 1 .. Len(p) /\ 2 .. Len(p) = 2 .. 1 + n
       /\ \A i \in 2 .. 1 + n : i \in 1 .. Len(p)
  BY <1>3, <1>9
<1>14. /\ \A i \in 2 .. Len(p) : p[i].file \in Libs /\ p[i].base \in Bases
       /\ \A i, j \in 1 .. Len(p) : p[i].file = p[j].file => i = j
       /\ \A i, j \in 2 .. Len(p) : p[i].base = p[j].base /\ p[i].base # 0 => i = j
  <2>1. \A i \in 2 .. 1 + n : /\ p[i].file = order[i - 1] /\ p[i].base = base[order[i - 1]]
                              /\ order[i - 1] \in Libs /\ base[order[i - 1]] \in Bases
                              /\ order[i - 1] # Exe /\ i - 1 \in 1 .. n
    <3> SUFFICES ASSUME NEW i \in 2 .. 1 + n
                 PROVE  /\ p[i].file = order[i - 1] /\ p[i].base = base[order[i - 1]]
                        /\ order[i - 1] \in Libs /\ base[order[i - 1]] \in Bases
                        /\ order[i - 1] # Exe /\ i - 1 \in 1 .. n
      BY Zenon
    <3>1. p[i] = libs[i - 1] /\ i - 1 \in 1 .. n
      BY <1>10
    <3>2. order[i - 1] \in Libs
      BY <1>3, <3>1
    <3>3. base[order[i - 1]] \in Bases
      BY <1>2, <3>2
    <3> QED
      BY <1>4, <3>1, <3>2, <3>3, BasesTyped
  <2>2. \A i, j \in 2 .. 1 + n : i - 1 = j - 1 => i = j
    BY <1>3
  <2>3. \A i \in 2 .. Len(p) : p[i].file \in Libs /\ p[i].base \in Bases
    BY <1>13, <2>1, Zenon
  <2>4. \A i, j \in 2 .. Len(p) : p[i].base = p[j].base /\ p[i].base # 0 => i = j
    <3> SUFFICES ASSUME NEW i \in 2 .. 1 + n, NEW j \in 2 .. 1 + n,
                        p[i].base = p[j].base, p[i].base # 0
                 PROVE  i = j
      BY <1>13
    <3>1. order[i - 1] = order[j - 1]
      BY <1>2, <2>1
    <3> QED
      BY <1>3, <2>1, <2>2, <3>1
  <2>5. \A i, j \in 2 .. 1 + n : p[i].file = p[j].file => i = j
    BY <1>3, <2>1, <2>2
  <2>6. p[1].file = Exe
    BY <1>5, <1>10
  <2> QED
    BY <1>12, <2>1, <2>3, <2>4, <2>5, <2>6
<1>15. \A i \in 1 .. Len(p) : /\ p[i].symbols = disk[p[i].file]
                              /\ p[i].symbols \in Builds[p[i].file]
  <2>1. \A i \in 1 .. Len(p) : p[i].symbols = disk[p[i].file]
    BY <1>4, <1>5, <1>10, <1>12
  <2>2. \A i \in 1 .. Len(p) : p[i].file \in Files
    BY <1>5, <1>10, <1>12, <1>13, <1>14, BasesTyped
  <2> QED
    BY <2>1, <2>2 DEF Disk
<1>16. IsProcess(p)
  BY <1>5, <1>9, <1>10, <1>13, <1>14, <1>15 DEF IsProcess
<1>17. LinkMap(p) = SubSeq(p, 2, Len(p)) /\ LinkMap(p) \in Seq(Entries)
  <2>1. p # <<>>
    BY <1>9, <1>13, EmptySeq
  <2> QED
    BY <1>9, <2>1, TailIsSubSeq, HeadTailProperties DEF LinkMap
<1> QED
  BY <1>15, <1>16, <1>17
\* The dialog and the breakpoints are no part of a launch.
launchVars == <<disk, process, linkMap, symtab, elf, res, pc>>

LEMMA LaunchInit ==
  ASSUME Init
  PROVE  LaunchInv
<1>1. Disk
  BY DEF Init, Disk
<1>2. IsTable(<<>>)
  BY EmptySeq DEF IsTable
<1>3. process \in Loads
  BY DEF Init
<1> QED
  BY <1>1, <1>2, <1>3, LoadsAre DEF Init, LaunchInv

\* The table of a library is appended to those read so far.
LEMMA LibraryTable ==
  ASSUME LaunchInv, ParseLibrary, pc = "libraries", linkMap # <<>>,
         Head(linkMap).base # 0, Head(linkMap).file \in Parsable,
         Head(linkMap).symbols = disk[Head(linkMap).file]
  PROVE  res' = res \o <<TableOf(Head(linkMap))>> /\ linkMap' = Tail(linkMap)
<1> DEFINE lm == Head(linkMap)
<1>1. lm \in Entries
  BY HeadTailProperties DEF LaunchInv
<1>2. /\ linkMap' = Tail(linkMap)
      /\ res' = join(res, relocate(<<NewTable(lm.file, disk[lm.file])>>, lm.base))
  BY DEF ParseLibrary
<1> HIDE DEF lm
<1>3. relocate(<<NewTable(lm.file, lm.symbols)>>, lm.base) = <<TableOf(lm)>>
  BY <1>1, TableIsNew
<1> QED
  BY <1>2, <1>3 DEF join, lm

LEMMA LibraryTyped ==
  ASSUME LaunchInv, ParseLibrary
  PROVE  IsTable(res') /\ linkMap' \in Seq(Entries)
<1> DEFINE lm == Head(linkMap)
<1>1. /\ linkMap # <<>> /\ linkMap \in Seq(Entries) /\ IsTable(res)
      /\ lm \in Entries /\ Tail(linkMap) \in Seq(Entries) /\ <<>> \in Seq(Entries)
  BY HeadTailProperties, EmptySeq DEF LaunchInv, ParseLibrary
<1>2. lm.file \in Files /\ lm.base \in Nat
  BY <1>1, EntryFields
<1>3. IsTable(join(res, relocate(<<NewTable(lm.file, disk[lm.file])>>, lm.base)))
  <2> DEFINE e == [file |-> lm.file, base |-> lm.base, symbols |-> disk[lm.file]]
  <2>1. disk[lm.file] \in Seq(Symbols)
    BY <1>2, BuildTyped DEF LaunchInv, Disk
  <2>2. e \in Entries
    BY <1>1, <1>2, <2>1, EntryFields DEF Entries
  <2>3. e.file = lm.file /\ e.base = lm.base /\ e.symbols = disk[lm.file]
    OBVIOUS
  <2> HIDE DEF e, lm
  <2>4. relocate(<<NewTable(lm.file, disk[lm.file])>>, lm.base) = <<TableOf(e)>>
    BY <2>2, <2>3, TableIsNew
  <2>5. <<TableOf(e)>> \in Seq(Tables(Files))
    BY <2>2, TableOfFields
  <2> QED
    BY <1>1, <2>4, <2>5, ConcatProperties DEF join, IsTable
<1> HIDE DEF lm
<1>4. \/ linkMap' = <<>> /\ res' = res
      \/ linkMap' = Tail(linkMap) /\ res' = res
      \/ linkMap' = Tail(linkMap)
         /\ res' = join(res, relocate(<<NewTable(lm.file, disk[lm.file])>>, lm.base))
  BY DEF ParseLibrary, lm
<1> QED
  BY <1>1, <1>3, <1>4

LEMMA LaunchNext ==
  ASSUME LaunchInv, [Next]_vars
  PROVE  LaunchInv'
<1>1. CASE UNCHANGED launchVars
  BY <1>1 DEF LaunchInv, Disk, launchVars
<1>2. ASSUME NEW f \in Files, Recompile(f) PROVE LaunchInv'
  <2>1. PICK build \in Builds[f] : disk' = [disk EXCEPT ![f] = build]
    BY <1>2 DEF Recompile
  <2>2. Disk'
    BY <2>1 DEF LaunchInv, Disk
  <2> QED
    BY <1>2, <2>2 DEF LaunchInv, Recompile
<1>3. ASSUME NEW text \in Texts, Search(text) PROVE LaunchInv'
  BY <1>1, <1>3 DEF Search, launchVars
<1>4. ASSUME NEW row \in Rows, ToggleBreakpoint(row) PROVE LaunchInv'
  BY <1>1, <1>4 DEF ToggleBreakpoint, launchVars
<1>5. ASSUME Fork, UNCHANGED <<disk, elf, res>>, symtab' \in {symtab, <<>>} PROVE LaunchInv'
  <2>1. process' \in Loads /\ linkMap' = LinkMap(process') /\ pc' = "static"
    BY <1>5 DEF Fork
  <2>2. IsTable(<<>>)
    BY EmptySeq DEF IsTable
  <2>3. Disk /\ Disk'
    BY <1>5 DEF LaunchInv, Disk
  <2>4. /\ IsProcess(process') /\ linkMap' \in Seq(Entries)
        /\ \A i \in 1 .. Len(process') : process'[i].symbols = disk[process'[i].file]
    BY <2>1, <2>3, LoadsAre
  <2> QED
    BY <1>5, <2>1, <2>2, <2>3, <2>4 DEF LaunchInv
<1>6. CASE Restart
  BY <1>5, <1>6 DEF Restart
<1>7. CASE StartExecution
  BY <1>5, <1>7 DEF StartExecution
<1>8. CASE ParseSymbols
  <2>1. IsTable(<<>>)
    BY EmptySeq DEF IsTable
  <2>2. IsTable(elf')
    <3>1. process[1] \in Entries /\ process[1].file = Exe /\ process[1].base = 0
          /\ process[1].symbols = disk[Exe]
      BY <1>8, ProcessEntries DEF LaunchInv, IsProcess, ParseSymbols
    <3>2. elf' = <<TableOf(process[1])>>
      BY <1>8, <3>1, TableIsNew DEF ParseSymbols
    <3> QED
      BY <3>1, <3>2, TableOfFields DEF IsTable
  <2> QED
    BY <1>8, <2>1, <2>2 DEF ParseSymbols, LaunchInv, Disk
<1>9. CASE ParseLibrary
  BY <1>9, LibraryTyped DEF ParseLibrary, LaunchInv, Disk
<1>10. CASE ParseDynamicSymbols
  <2>1. IsTable(symtab') /\ IsTable(<<>>)
    BY <1>10, ConcatProperties, EmptySeq DEF ParseDynamicSymbols, LaunchInv, IsTable, join
  <2> QED
    BY <1>10, <2>1 DEF ParseDynamicSymbols, LaunchInv, Disk
<1>11. CASE RefreshBreakPoint
  BY <1>11 DEF RefreshBreakPoint, LaunchInv, Disk
<1>12. CASE UNCHANGED vars
  BY <1>1, <1>12 DEF vars, launchVars
<1> QED
  BY <1>2, <1>3, <1>4, <1>6, <1>7, <1>8, <1>9, <1>10, <1>11, <1>12 DEF Next

LEMMA AlwaysLaunch == Spec => []LaunchInv
<1>1. Init => LaunchInv
  BY LaunchInit
<1>2. LaunchInv /\ [Next]_vars => LaunchInv'
  BY LaunchNext
<1> QED
  BY <1>1, <1>2, PTL DEF Spec

\* RowsAreSymbols: getSize and at, which the model of the breakpoints dialog asks for its
\* rows, enumerate the symbols of all tables, of whatever process and however it was read.
THEOREM RowsCorrect == Spec => []RowsAreSymbols
<1>1. ASSUME LaunchInv PROVE RowsAreSymbols
  <2> DEFINE rows == Flattened(symtab)
  <2>1. symtab \in Seq(Tables(Files))
    BY <1>1 DEF LaunchInv, IsTable
  <2>2. /\ getSize(symtab) = Len(rows)
        /\ \A row \in 0 .. Len(rows) - 1 : at(symtab, row) = rows[row + 1]
        /\ at(symtab, Len(rows)) = NoSymbol
    BY <2>1, RowsOfTables
  <2> QED
    BY <2>2, Zenon DEF RowsAreSymbols, Flattened
<1> QED
  BY <1>1, AlwaysLaunch, PTL
-----------------------------------------------------------------------------
(* The table is that of the process.                                       *)

ReadUpTo(k) == {TableOf(process[i]) : i \in {j \in 2 .. k : process[j].file \in Parsable}}

\* While the link map is read, the tables of the entries that were passed are there; after
\* that, those of the whole process.
ReadInv ==
  /\ pc = "static" => linkMap = SubSeq(process, 2, Len(process))
  /\ pc = "libraries" =>
       \E k \in 1 .. Len(process) :
         /\ linkMap = SubSeq(process, k + 1, Len(process))
         /\ elf = <<TableOf(process[1])>> /\ Range(res) = ReadUpTo(k)
  /\ pc \in {"refresh", "idle"} =>
       Range(symtab) = {TableOf(p) : p \in Mapped}

LEMMA ReadParsed ==
  ASSUME LaunchInv, ReadInv, ParseSymbols
  PROVE  ReadInv'
<1>1. process[1] \in Entries /\ process[1].file = Exe /\ process[1].base = 0
      /\ process[1].symbols = disk[Exe] /\ 1 \in 1 .. Len(process)
  BY ProcessEntries DEF LaunchInv, IsProcess, ParseSymbols
<1>2. elf' = <<TableOf(process[1])>> /\ res' = <<>> /\ pc' = "libraries"
      /\ process' = process /\ linkMap' = SubSeq(process, 1 + 1, Len(process))
  <2>1. elf' = <<TableOf(process[1])>> /\ res' = <<>> /\ pc' = "libraries" /\ process' = process
    BY <1>1, TableIsNew DEF ParseSymbols
  <2>2. linkMap' = SubSeq(process, 2, Len(process)) /\ 1 + 1 = 2
    BY DEF ParseSymbols, ReadInv
  <2> QED
    BY <2>1, <2>2
<1>3. Range(<<>>) = {}
  BY DEF Range
<1>4. ReadUpTo(1)' = {}
  BY DEF ReadUpTo
<1> QED
  BY <1>1, <1>2, <1>3, <1>4 DEF ReadInv

\* One more entry is passed; the table of a library is appended to those before.
LEMMA ReadLibrary ==
  ASSUME NoPrelinked, LaunchInv, ReadInv, ParseLibrary
  PROVE  ReadInv'
<1> DEFINE n == Len(process)
           lm == Head(linkMap)
<1>1. PICK k \in 1 .. n :
        /\ linkMap = SubSeq(process, k + 1, n)
        /\ elf = <<TableOf(process[1])>> /\ Range(res) = ReadUpTo(k)
  BY DEF ReadInv, ParseLibrary
<1>2. /\ linkMap # <<>> /\ pc = "libraries"
      /\ UNCHANGED <<disk, process, symtab, elf, pc>>
  BY DEF ParseLibrary
<1>3. n \in Nat \ {0} /\ process \in Seq(Entries) /\ IsTable(res)
  BY DEF LaunchInv, IsProcess
<1>4. k + 1 \in 2 .. n
  <2>1. CASE k = n
    <3>1. SubSeq(process, k + 1, n) = <<>>
      BY <1>3, <2>1, SubSeqEmpty
    <3> QED
      BY <1>1, <1>2, <3>1
  <2> QED
    BY <1>3, <2>1
<1>5. lm = process[k + 1] /\ Tail(linkMap) = SubSeq(process, (k + 1) + 1, n)
  <2>1. k + 1 \in 1 .. n /\ n \in k + 1 .. n
    BY <1>3, <1>4
  <2> QED
    BY <1>1, <1>3, <2>1, HeadTailOfSubSeq
<1>6. /\ lm.base # 0 /\ lm \in Entries /\ lm.file # Exe
      /\ lm.symbols = disk[lm.file]
  BY <1>2, <1>3, <1>4, <1>5, ProcessEntries, BasesTyped DEF LaunchInv, IsProcess, NoPrelinked
<1>7. k + 1 \in 1 .. n
  BY <1>3, <1>4
<1> HIDE DEF n, lm
<1>8. 2 .. k + 1 = (2 .. k) \cup {k + 1}
  BY <1>3, <1>4
<1>9. ASSUME linkMap' = Tail(linkMap), Range(res') = ReadUpTo(k + 1) PROVE ReadInv'
  <2>1. ReadUpTo(k + 1)' = ReadUpTo(k + 1)
    BY <1>2 DEF ReadUpTo
  <2>2. /\ linkMap' = SubSeq(process', (k + 1) + 1, Len(process'))
        /\ k + 1 \in 1 .. Len(process') /\ elf' = <<TableOf(process'[1])>>
    BY <1>1, <1>2, <1>5, <1>7, <1>9 DEF n
  <2>3. pc' = "libraries"
    BY <1>2
  <2> QED
    BY <1>9, <2>1, <2>2, <2>3 DEF ReadInv
<1>10. CASE lm.file \notin Parsable
  <2>1. linkMap' = Tail(linkMap) /\ res' = res
    BY <1>6, <1>10 DEF ParseLibrary, lm
  <2>2. ReadUpTo(k + 1) = ReadUpTo(k)
    BY <1>5, <1>8, <1>10 DEF ReadUpTo
  <2> QED
    BY <1>1, <1>9, <2>1, <2>2
<1>11. CASE lm.file \in Parsable
  <2>1. res' = res \o <<TableOf(lm)>> /\ linkMap' = Tail(linkMap)
    BY <1>2, <1>6, <1>11, LibraryTable DEF lm
  <2>2. ReadUpTo(k + 1) = ReadUpTo(k) \cup {TableOf(lm)}
    BY <1>5, <1>8, <1>11 DEF ReadUpTo
  <2>3. /\ TableOf(lm) \in Tables(Files) /\ TableOf(lm).object = lm.file
        /\ res \in Seq(Tables(Files)) /\ <<TableOf(lm)>> \in Seq(Tables(Files))
    BY <1>3, <1>6, TableOfFields DEF IsTable
  <2>4. Range(<<TableOf(lm)>>) = {TableOf(lm)}
    BY DEF Range
  <2>5. Range(res') = ReadUpTo(k + 1)
    <3>1. Range(res \o <<TableOf(lm)>>) = Range(res) \cup Range(<<TableOf(lm)>>)
      BY <2>3, RangeConcatenation
    <3> QED
      BY <1>1, <2>1, <2>2, <2>4, <3>1, Zenon
  <2> QED
    BY <1>9, <2>1, <2>5
<1> QED
  BY <1>10, <1>11

\* At the end of the link map every entry was passed.
LEMMA ReadDynamic ==
  ASSUME LaunchInv, ReadInv, ParseDynamicSymbols
  PROVE  ReadInv'
<1> DEFINE n == Len(process)
           exe == TableOf(process[1])
<1>1. PICK k \in 1 .. n :
        /\ linkMap = SubSeq(process, k + 1, n)
        /\ elf = <<exe>> /\ Range(res) = ReadUpTo(k)
  BY DEF ReadInv, ParseDynamicSymbols
<1>2. /\ n \in Nat \ {0} /\ process \in Seq(Entries) /\ res \in Seq(Tables(Files))
      /\ process[1] \in Entries /\ process[1].file = Exe /\ 1 \in 1 .. n
      /\ Range(process) = {process[i] : i \in 1 .. n}
      /\ \A i \in 1 .. n : process[i] \in Entries
  <2>1. IsProcess(process) /\ res \in Seq(Tables(Files))
    BY DEF LaunchInv, IsTable
  <2>2. /\ Range(process) = {process[i] : i \in 1 .. n}
        /\ \A i \in 1 .. n : process[i] \in Entries
    BY <2>1, ProcessEntries
  <2>3. n \in Nat \ {0} /\ process \in Seq(Entries) /\ process[1].file = Exe
    BY <2>1 DEF IsProcess
  <2> HIDE DEF n
  <2>4. 1 \in 1 .. n
    BY <2>3
  <2> QED
    BY <2>1, <2>2, <2>3, <2>4
<1>3. k = n
  <2>1. linkMap = <<>>
    BY DEF ParseDynamicSymbols
  <2>2. \A i \in k + 1 .. n : process[i] \in Entries
    BY <1>2
  <2> HIDE DEF n
  <2>3. Len(SubSeq(process, k + 1, n)) = IF k + 1 <= n THEN n - (k + 1) + 1 ELSE 0
    BY <1>2, <2>2, SubSeqProperties
  <2>4. Len(SubSeq(process, k + 1, n)) = 0
    <3>1. Len(<<>>) = 0
      BY EmptySeq
    <3> QED
      BY <1>1, <2>1, <3>1, Zenon
  <2> QED
    BY <1>2, <2>3, <2>4
<1>4. symtab' = <<exe>> \o res /\ pc' = "refresh" /\ process' = process
  BY <1>1 DEF ParseDynamicSymbols, join
<1>5. exe \in Tables(Files) /\ exe.object = Exe /\ <<exe>> \in Seq(Tables(Files))
  BY <1>2, TableOfFields
<1>6. Range(<<exe>>) = {exe}
  BY DEF Range
<1> HIDE DEF exe
<1>7. Range(symtab') = {exe} \cup ReadUpTo(n)
  <2>1. Range(<<exe>> \o res) = Range(<<exe>>) \cup Range(res)
    <3>1. <<exe>> \in Seq(Tables(Files)) /\ res \in Seq(Tables(Files))
      BY <1>2, <1>5
    <3> QED
      BY <3>1, RangeConcatenation
  <2> QED
    BY <1>1, <1>3, <1>4, <1>6, <2>1, Zenon
<1>8. {exe} \cup ReadUpTo(n) = {TableOf(p) : p \in Mapped}
  <2>1. \A i \in 1 .. n : i = 1 \/ i \in 2 .. n
    BY <1>2
  <2>2. \A i \in 2 .. n : i \in 1 .. n
    BY <1>2
  <2>3. Mapped = {process[1]} \cup {process[i] : i \in {j \in 2 .. n : process[j].file \in Parsable}}
    <3>1. \A i \in 2 .. n : process[i].file # Exe
      BY BasesTyped DEF LaunchInv, IsProcess
    <3>2. Mapped = {p \in {process[i] : i \in 1 .. n} : p.file \in Parsable \cup {Exe}}
      BY <1>2 DEF Mapped
    <3> HIDE DEF n
    <3> QED
      BY <1>2, <2>1, <2>2, <3>1, <3>2
  <2> HIDE DEF n
  <2> QED
    BY <2>3 DEF ReadUpTo, exe
<1>9. Mapped' = Mapped
  BY <1>4 DEF Mapped
<1> QED
  BY <1>4, <1>7, <1>8, <1>9 DEF ReadInv

LEMMA ReadNext ==
  ASSUME NoPrelinked, LaunchInv, ReadInv, [Next]_vars
  PROVE  ReadInv'
<1>1. ASSUME UNCHANGED <<process, linkMap, symtab, elf, res>>,
             pc' = pc \/ (pc = "refresh" /\ pc' \in {"idle", "crashed"})
      PROVE  ReadInv'
  BY <1>1 DEF ReadInv, ReadUpTo, Mapped
<1>2. ASSUME NEW f \in Files, Recompile(f) PROVE ReadInv'
  BY <1>1, <1>2 DEF Recompile
<1>3. ASSUME NEW text \in Texts, Search(text) PROVE ReadInv'
  BY <1>1, <1>3 DEF Search
<1>4. ASSUME NEW row \in Rows, ToggleBreakpoint(row) PROVE ReadInv'
  BY <1>1, <1>4 DEF ToggleBreakpoint
<1>5. ASSUME Fork PROVE ReadInv'
  <2>1. process' \in Loads /\ linkMap' = LinkMap(process') /\ pc' = "static"
    BY <1>5 DEF Fork
  <2>2. linkMap' = SubSeq(process', 2, Len(process'))
    BY <2>1, LoadsAre DEF LaunchInv
  <2> QED
    BY <2>1, <2>2 DEF ReadInv
<1>6. CASE Restart
  BY <1>5, <1>6 DEF Restart
<1>7. CASE StartExecution
  BY <1>5, <1>7 DEF StartExecution
<1>8. CASE ParseSymbols
  BY <1>8, ReadParsed
<1>9. CASE ParseLibrary
  BY <1>9, ReadLibrary
<1>10. CASE ParseDynamicSymbols
  BY <1>10, ReadDynamic
<1>11. CASE RefreshBreakPoint
  <2>1. pc' \in {"idle", "crashed"} /\ pc = "refresh" /\ UNCHANGED <<process, linkMap, symtab, elf, res>>
    BY <1>11 DEF RefreshBreakPoint
  <2> QED
    BY <1>1, <2>1
<1>12. CASE UNCHANGED vars
  BY <1>1, <1>12 DEF vars
<1> QED
  BY <1>2, <1>3, <1>4, <1>6, <1>7, <1>8, <1>9, <1>10, <1>11, <1>12 DEF Next

LEMMA AlwaysRead ==
  ASSUME NoPrelinked
  PROVE  Spec => []ReadInv
<1>1. Init => ReadInv
  <2> SUFFICES ASSUME Init PROVE ReadInv
    OBVIOUS
  <2>1. Disk /\ process \in Loads /\ linkMap = LinkMap(process) /\ pc = "static"
    BY DEF Init, Disk
  <2>2. linkMap = SubSeq(process, 2, Len(process))
    BY <2>1, LoadsAre
  <2> QED
    BY <2>1, <2>2 DEF ReadInv
<1>2. LaunchInv /\ ReadInv /\ [Next]_vars => ReadInv'
  BY ReadNext
<1> QED
  BY <1>1, <1>2, AlwaysLaunch, PTL DEF Spec

\* TableMatchesProcess: after any launch the table holds the symbols of the executable and
\* of every library that can be read, at the addresses they have in this process.
THEOREM TableCorrect ==
  ASSUME NoPrelinked
  PROVE  Spec => []TableMatchesProcess
<1>1. LaunchInv /\ ReadInv => TableMatchesProcess
  <2> SUFFICES ASSUME LaunchInv, ReadInv, pc = "idle"
               PROVE  UNION {Range(t.symbols) : t \in Range(symtab)}
                        = UNION {{Named(s.name, s.addr + p.base) : s \in Range(p.symbols)} : p \in Mapped}
    BY DEF TableMatchesProcess
  <2>1. Range(symtab) = {TableOf(p) : p \in Mapped}
    BY DEF ReadInv
  <2>2. \A p \in Mapped : p \in Entries
    BY ProcessEntries DEF LaunchInv, Mapped
  <2>3. \A p \in Mapped :
          Range(TableOf(p).symbols) = {Named(s.name, s.addr + p.base) : s \in Range(p.symbols)}
    BY <2>2, TableOfFields
  <2>4. {Range(t.symbols) : t \in Range(symtab)} = {Range(TableOf(p).symbols) : p \in Mapped}
    BY <2>1
  <2>5. {Range(TableOf(p).symbols) : p \in Mapped}
          = {{Named(s.name, s.addr + p.base) : s \in Range(p.symbols)} : p \in Mapped}
    BY <2>3
  <2> QED
    BY <2>4, <2>5
<1> QED
  BY <1>1, AlwaysLaunch, AlwaysRead, PTL
-----------------------------------------------------------------------------
(* From an address back to a file.                                         *)

LEMMA MappedEntries ==
  ASSUME LaunchInv, NEW p \in Mapped
  PROVE  /\ p \in Range(process) /\ p \in Entries /\ p.file \in Readable /\ p.base \in LoadedAt(p.file)
         /\ p.symbols \in Builds[p.file] /\ p.symbols \in Seq(Symbols) /\ p.base \in Nat
         /\ Range(p.symbols) \subseteq Symbols
<1>1. p \in Range(process) /\ p.file \in Readable
  BY DEF Mapped, Readable
<1>2. /\ p \in Entries /\ p.symbols \in Builds[p.file]
      /\ p.file = Exe => p.base = 0
      /\ p.file # Exe => p.file \in Libs /\ p.base \in Bases
  BY <1>1, ProcessEntries DEF LaunchInv
<1>3. p.file \in Files /\ p.base \in Nat
  BY <1>2, EntryFields
<1>4. p.symbols \in Seq(Symbols) /\ Range(p.symbols) \subseteq Symbols
  BY <1>2, <1>3, BuildTyped
<1>5. p.base \in LoadedAt(p.file)
  BY <1>2 DEF LoadedAt
<1> QED
  BY <1>1, <1>2, <1>3, <1>4, <1>5

\* An address is in one file only.
LEMMA OneFile ==
  ASSUME NoPrelinked, Apart, LaunchInv, NEW p \in Mapped, NEW q \in Mapped,
         NEW s \in Range(p.symbols), NEW u \in Range(q.symbols),
         s.addr + p.base = u.addr + q.base
  PROVE  p = q /\ s.addr = u.addr
<1>1. /\ p.file \in Readable /\ p.base \in LoadedAt(p.file) /\ p.symbols \in Builds[p.file]
      /\ q.file \in Readable /\ q.base \in LoadedAt(q.file) /\ q.symbols \in Builds[q.file]
      /\ p \in Range(process) /\ q \in Range(process)
  BY MappedEntries
<1>2. p.file = q.file \/ p.base = q.base
  BY <1>1 DEF Apart
<1>3. p = q
  <2>1. CASE p.file = q.file
    BY <1>1, <2>1, ProcessEntries DEF LaunchInv
  <2>2. CASE p.file # q.file
    <3>1. p.base = q.base
      BY <1>2, <2>2
    <3>2. p.file # Exe /\ q.file # Exe /\ p.base # 0
      BY <1>1, <2>2, <3>1 DEF LoadedAt, NoPrelinked
    <3> QED
      BY <1>1, <3>1, <3>2, ProcessEntries DEF LaunchInv
  <2> QED
    BY <2>1, <2>2
<1>4. s.addr = u.addr
  <2>1. s.addr \in Nat /\ u.addr \in Nat /\ p.base \in Nat
    <3>1. s \in Symbols /\ u \in Symbols /\ p.base \in Nat
      BY MappedEntries
    <3> QED
      BY <3>1 DEF Symbols
  <2>2. s.addr + p.base = u.addr + p.base
    BY <1>3
  <2>3. \A a, b, c \in Nat : a + c = b + c => a = b
    OBVIOUS
  <2> QED
    BY <2>1, <2>2, <2>3, Zenon
<1> QED
  BY <1>3, <1>4

\* The lookup of an address at which a file of the process has a symbol leads to the table of
\* that file, and to a symbol of it at that address.
LEMMA Found ==
  ASSUME NoPrelinked, Apart, LaunchInv, ReadInv, pc \in {"refresh", "idle"},
         NEW p \in Mapped, NEW s \in Range(p.symbols)
  PROVE  LET found == findInTable(symtab, s.addr + p.base)
         IN /\ found.table = TableOf(p)
            /\ \E u \in Range(p.symbols) : u.addr = s.addr /\ found.symbol.name = u.name
<1> DEFINE a == s.addr + p.base
           found == findInTable(symtab, a)
<1>1. symtab \in Seq(Tables(Files)) /\ Range(symtab) = {TableOf(q) : q \in Mapped}
  BY DEF LaunchInv, IsTable, ReadInv
<1>2. \A q \in Mapped :
        Range(TableOf(q).symbols) = {Named(u.name, u.addr + q.base) : u \in Range(q.symbols)}
  BY MappedEntries, TableOfFields
<1>3. TableOf(p) \in Range(symtab) /\ Named(s.name, a) \in Range(TableOf(p).symbols)
      /\ Named(s.name, a).addr = a
  BY <1>1, <1>2 DEF Named
<1> HIDE DEF a, found
<1>4. /\ found.table \in Range(symtab)
      /\ found.symbol \in Range(found.table.symbols) /\ found.symbol.addr = a
  BY <1>1, <1>3, FindsAddress DEF found
<1>5. PICK q \in Mapped : found.table = TableOf(q)
  BY <1>1, <1>4
<1>6. PICK u \in Range(q.symbols) : found.symbol = Named(u.name, u.addr + q.base)
  BY <1>2, <1>4, <1>5
<1>7. found.symbol.name = u.name /\ u.addr + q.base = a
  BY <1>4, <1>6 DEF Named
<1>8. p = q /\ s.addr = u.addr
  BY <1>7, OneFile DEF a
<1> QED
  BY <1>5, <1>7, <1>8 DEF found, a

\* FoundInItsFile: what the code views disassemble, and hand to addr2line, for an address of
\* the process is the file it is in, and the address it has there.
THEOREM FoundCorrect ==
  ASSUME NoPrelinked, Apart
  PROVE  Spec => []FoundInItsFile
<1>1. LaunchInv /\ ReadInv => FoundInItsFile
  <2> SUFFICES ASSUME LaunchInv, ReadInv, pc = "idle", NEW p \in Mapped, NEW s \in Range(p.symbols)
               PROVE  LET found == findInTable(symtab, s.addr + p.base)
                      IN /\ found.table.object = p.file
                         /\ s.addr + p.base - found.table.base = s.addr
    BY DEF FoundInItsFile
  <2> DEFINE found == findInTable(symtab, s.addr + p.base)
  <2>1. found.table = TableOf(p)
    BY Found
  <2>2. found.table.object = p.file /\ found.table.base = p.base
    BY <2>1, MappedEntries, TableOfFields
  <2>3. s.addr \in Nat /\ p.base \in Nat
    <3>1. s \in Symbols /\ p.base \in Nat
      BY MappedEntries
    <3> QED
      BY <3>1 DEF Symbols
  <2>4. \A a, b \in Nat : a + b - b = a
    OBVIOUS
  <2> HIDE DEF found
  <2>5. s.addr + p.base - found.table.base = s.addr
    BY <2>2, <2>3, <2>4, Zenon
  <2> QED
    BY <2>2, <2>5 DEF found
<1> QED
  BY <1>1, AlwaysLaunch, AlwaysRead, PTL

-----------------------------------------------------------------------------
(* The tabs of the dialog.                                                 *)

LEMMA TabsNext ==
  ASSUME TabsShowTable, [Next]_vars
  PROVE  TabsShowTable'
<1>1. ASSUME UNCHANGED <<symtab, bps, dialog>>, pc' = "idle" => pc = "idle" PROVE TabsShowTable'
  BY <1>1 DEF TabsShowTable, Shown, Rows, Active, Listed, dialog
<1>2. ASSUME pc' # "idle" PROVE TabsShowTable'
  BY <1>2 DEF TabsShowTable
<1>3. ASSUME NEW f \in Files, Recompile(f) PROVE TabsShowTable'
  BY <1>1, <1>3 DEF Recompile
<1>4. ASSUME NEW text \in Texts, Search(text) PROVE TabsShowTable'
  <2>1. /\ pc = "idle" /\ search' = text /\ UNCHANGED <<symtab, bps, active, pc>>
        /\ listed' = {row \in Rows : Listed(row, bps, text)}
    BY <1>4 DEF Search
  <2>2. Rows' = Rows
    BY <2>1 DEF Rows
  <2>3. \A row \in Rows : Shown(row) => Shown(row)'
    BY <2>1 DEF Shown, Active, Listed
  <2> QED
    BY <2>1, <2>2, <2>3 DEF TabsShowTable
<1>5. ASSUME NEW row \in Rows, ToggleBreakpoint(row) PROVE TabsShowTable'
  <2> DEFINE a == at(symtab, row).addr
  <2>1. /\ pc = "idle" /\ UNCHANGED <<symtab, search, pc>>
        /\ bps' = IF a \in bps THEN bps \ {a} ELSE bps \cup {a}
        /\ listed' = {r \in listed \cup {row} : r = row => Listed(row, bps', search)}
        /\ active' = {r \in active \cup {row} : r = row => Active(row, bps')}
    BY <1>5 DEF ToggleBreakpoint, Refilter
  <2>2. Rows' = Rows
    BY <2>1 DEF Rows
  <2>3. \A r : /\ Active(r, bps)' <=> Active(r, bps')
               /\ Listed(r, bps, search)' <=> Listed(r, bps', search)
    BY <2>1 DEF Active, Listed
  <2>4. Shown(row)'
    BY <2>1, <2>3 DEF Shown
  <2>5. ASSUME NEW r \in Rows, at(symtab, r).addr # a, Shown(r) PROVE Shown(r)'
    <3>1. /\ Active(r, bps') <=> Active(r, bps)
          /\ Listed(r, bps', search) <=> Listed(r, bps, search)
      BY <2>1, <2>5 DEF Active, Listed
    <3>2. r # row
      BY <2>5
    <3> QED
      BY <2>1, <2>3, <2>5, <3>1, <3>2 DEF Shown
  <2>6. ASSUME NEW r \in Rows
        PROVE  \E twin \in Rows : at(symtab, twin).addr = at(symtab, r).addr /\ Shown(twin)'
    <3>1. CASE at(symtab, r).addr = a
      BY <2>4, <3>1
    <3>2. CASE at(symtab, r).addr # a
      <4>1. PICK twin \in Rows : at(symtab, twin).addr = at(symtab, r).addr /\ Shown(twin)
        BY <2>1 DEF TabsShowTable
      <4> HIDE DEF a
      <4> QED
        BY <2>5, <3>2, <4>1
    <3> QED
      BY <3>1, <3>2
  <2> QED
    BY <2>1, <2>2, <2>6 DEF TabsShowTable
<1>6. CASE RefreshBreakPoint
  <2>1. CASE pc' # "idle"
    BY <1>2, <2>1
  <2>2. CASE pc' = "idle"
    <3>1. /\ UNCHANGED <<symtab, search>>
          /\ listed' = {row \in Rows : Listed(row, bps', search)}
          /\ active' = {row \in Rows : Active(row, bps')}
      BY <1>6, <2>2 DEF RefreshBreakPoint, MakeModel
    <3>2. Rows' = Rows
      BY <3>1 DEF Rows
    <3>3. \A row \in Rows : Shown(row)'
      BY <3>1 DEF Shown, Active, Listed
    <3> QED
      BY <3>1, <3>2, <3>3 DEF TabsShowTable
  <2> QED
    BY <2>1, <2>2
<1>7. ASSUME Restart \/ StartExecution PROVE TabsShowTable'
  BY <1>2, <1>7 DEF Restart, StartExecution, Fork
<1>8. ASSUME ParseSymbols \/ ParseLibrary \/ ParseDynamicSymbols PROVE TabsShowTable'
  BY <1>2, <1>8 DEF ParseSymbols, ParseLibrary, ParseDynamicSymbols
<1>9. CASE UNCHANGED vars
  BY <1>1, <1>9 DEF vars
<1> QED
  BY <1>3, <1>4, <1>5, <1>6, <1>7, <1>8, <1>9 DEF Next

\* TabsShowTable, without any hypothesis: toggling a breakpoint filters only the row that was
\* clicked again, which is enough for every address to have a row that is shown right.
THEOREM TabsCorrect == Spec => []TabsShowTable
<1>1. Init => TabsShowTable
  BY DEF Init, TabsShowTable
<1>2. TabsShowTable /\ [Next]_vars => TabsShowTable'
  BY TabsNext
<1> QED
  BY <1>1, <1>2, PTL DEF Spec
-----------------------------------------------------------------------------
(* The breakpoints over a restart: by their names.                         *)

\* Every breakpoint is at a symbol of the process, and from the end of a process to the next
\* every name is one that such a symbol had.
HasSymbol(a) == \E p \in Mapped : \E s \in Range(p.symbols) : a = s.addr + p.base
HadName(n)   == \E f \in Readable : \E x \in Builds[f] : n \in NamesOf(x)
NamesInv ==
  /\ pc = "idle" => saved = {} /\ \A a \in bps : HasSymbol(a)
  /\ \A n \in saved : HadName(n)
  /\ RestartSurvives

\* A symbol of the table is one of a file of the process, and the other way round.
LEMMA TableSymbols ==
  ASSUME LaunchInv, ReadInv, pc \in {"refresh", "idle"}
  PROVE  /\ symtab \in Seq(Tables(Files))
         /\ \A t \in Range(symtab) : \A s \in Range(t.symbols) :
              \E p \in Mapped : \E u \in Range(p.symbols) :
                s.name = u.name /\ s.addr = u.addr + p.base
         /\ \A p \in Mapped : \A u \in Range(p.symbols) :
              \E t \in Range(symtab) : \E s \in Range(t.symbols) :
                s.name = u.name /\ s.addr = u.addr + p.base
<1>1. symtab \in Seq(Tables(Files)) /\ Range(symtab) = {TableOf(q) : q \in Mapped}
  BY DEF LaunchInv, IsTable, ReadInv
<1>2. \A q \in Mapped :
        Range(TableOf(q).symbols) = {Named(u.name, u.addr + q.base) : u \in Range(q.symbols)}
  BY MappedEntries, TableOfFields
<1>3. \A n, a : Named(n, a).name = n /\ Named(n, a).addr = a
  BY DEF Named
<1>4. ASSUME NEW t \in Range(symtab), NEW s \in Range(t.symbols)
      PROVE  \E p \in Mapped : \E u \in Range(p.symbols) :
               s.name = u.name /\ s.addr = u.addr + p.base
  <2>1. PICK p \in Mapped : t = TableOf(p)
    BY <1>1
  <2>2. PICK u \in Range(p.symbols) : s = Named(u.name, u.addr + p.base)
    BY <1>2, <1>4, <2>1
  <2> QED
    BY <1>3, <2>2
<1>5. ASSUME NEW p \in Mapped, NEW u \in Range(p.symbols)
      PROVE  \E t \in Range(symtab) : \E s \in Range(t.symbols) :
               s.name = u.name /\ s.addr = u.addr + p.base
  <2>1. TableOf(p) \in Range(symtab)
    BY <1>1
  <2>2. Named(u.name, u.addr + p.base) \in Range(TableOf(p).symbols)
    BY <1>2
  <2> QED
    BY <1>3, <2>1, <2>2
<1> QED
  BY <1>1, <1>4, <1>5

\* operator[] finds every name that a file of the process has, and no other.
LEMMA NameFound ==
  ASSUME LaunchInv, ReadInv, pc = "refresh", NEW n
  PROVE  IF \E p \in Mapped : n \in NamesOf(p.symbols)
         THEN /\ ByName(symtab, n) # NoSymbol
              /\ \E p \in Mapped : \E u \in Range(p.symbols) :
                   u.name = n /\ ByName(symtab, n).addr = u.addr + p.base
         ELSE ByName(symtab, n) = NoSymbol
<1> DEFINE sym == ByName(symtab, n)
<1>1. /\ symtab \in Seq(Tables(Files))
      /\ \A t \in Range(symtab) : \A s \in Range(t.symbols) :
           \E p \in Mapped : \E u \in Range(p.symbols) :
             s.name = u.name /\ s.addr = u.addr + p.base
      /\ \A p \in Mapped : \A u \in Range(p.symbols) :
           \E t \in Range(symtab) : \E s \in Range(t.symbols) :
             s.name = u.name /\ s.addr = u.addr + p.base
  BY TableSymbols
<1>2. IF \E t \in Range(symtab) : \E s \in Range(t.symbols) : s.name = n
      THEN sym.name = n /\ sym # NoSymbol /\ \E t \in Range(symtab) : sym \in Range(t.symbols)
      ELSE sym = NoSymbol
  BY <1>1, FindsName
<1>3. (\E t \in Range(symtab) : \E s \in Range(t.symbols) : s.name = n)
        <=> \E p \in Mapped : n \in NamesOf(p.symbols)
  BY <1>1 DEF NamesOf
<1> HIDE DEF sym
<1>4. ASSUME \E p \in Mapped : n \in NamesOf(p.symbols)
      PROVE  /\ sym # NoSymbol
             /\ \E p \in Mapped : \E u \in Range(p.symbols) :
                  u.name = n /\ sym.addr = u.addr + p.base
  <2>1. /\ sym.name = n /\ sym # NoSymbol
        /\ \E t \in Range(symtab) : sym \in Range(t.symbols)
    BY <1>2, <1>3, <1>4
  <2>2. PICK p \in Mapped : \E u \in Range(p.symbols) :
          sym.name = u.name /\ sym.addr = u.addr + p.base
    BY <1>1, <2>1
  <2> QED
    BY <2>1, <2>2
<1>5. ASSUME ~ \E p \in Mapped : n \in NamesOf(p.symbols) PROVE sym = NoSymbol
  BY <1>2, <1>3, <1>5
<1> QED
  BY <1>4, <1>5 DEF sym

\* findInTable finds a symbol at the address of every breakpoint.
LEMMA AddressFound ==
  ASSUME LaunchInv, ReadInv, pc = "idle", NEW a, HasSymbol(a)
  PROVE  \E p \in Mapped : \E u \in Range(p.symbols) :
           u.addr + p.base = a /\ findInTable(symtab, a).symbol.name = u.name
<1> DEFINE sym == findInTable(symtab, a).symbol
<1>1. /\ symtab \in Seq(Tables(Files))
      /\ \A t \in Range(symtab) : \A s \in Range(t.symbols) :
           \E p \in Mapped : \E u \in Range(p.symbols) :
             s.name = u.name /\ s.addr = u.addr + p.base
      /\ \A p \in Mapped : \A u \in Range(p.symbols) :
           \E t \in Range(symtab) : \E s \in Range(t.symbols) :
             s.name = u.name /\ s.addr = u.addr + p.base
  BY TableSymbols
<1>2. \E t \in Range(symtab) : \E s \in Range(t.symbols) : s.addr = a
  BY <1>1 DEF HasSymbol
<1>3. sym.addr = a /\ \E t \in Range(symtab) : sym \in Range(t.symbols)
  BY <1>1, <1>2, FindsAddress
<1> HIDE DEF sym
<1> QED
  BY <1>1, <1>3 DEF sym

\* The address of a row is that of a symbol.
LEMMA RowAddress ==
  ASSUME LaunchInv, ReadInv, pc = "idle", NEW row \in Rows
  PROVE  HasSymbol(at(symtab, row).addr)
<1>1. symtab \in Seq(Tables(Files))
  BY TableSymbols
<1>2. PICK t \in Range(symtab) : at(symtab, row) \in Range(t.symbols)
  BY <1>1, RowIsSymbol DEF Rows
<1> QED
  BY <1>2, TableSymbols DEF HasSymbol

LEMMA NamesNext ==
  ASSUME LaunchInv, ReadInv, NamesInv, [Next]_vars
  PROVE  NamesInv'
<1>1. ASSUME UNCHANGED <<process, bps, saved, pc>> PROVE NamesInv'
  BY <1>1 DEF NamesInv, RestartSurvives, HasSymbol, HadName, Mapped
<1>2. \A n : HadName(n)' <=> HadName(n)
  BY DEF HadName
<1>3. ASSUME NEW f \in Files, Recompile(f) PROVE NamesInv'
  BY <1>1, <1>3 DEF Recompile
<1>4. ASSUME NEW text \in Texts, Search(text) PROVE NamesInv'
  BY <1>1, <1>4 DEF Search
<1>5. ASSUME NEW row \in Rows, ToggleBreakpoint(row) PROVE NamesInv'
  <2> DEFINE a == at(symtab, row).addr
  <2>1. /\ pc = "idle" /\ UNCHANGED <<process, saved, pc>>
        /\ bps' = IF a \in bps THEN bps \ {a} ELSE bps \cup {a}
    BY <1>5 DEF ToggleBreakpoint
  <2>2. HasSymbol(a) /\ saved = {} /\ \A b \in bps : HasSymbol(b)
    BY <2>1, RowAddress DEF NamesInv
  <2> HIDE DEF a
  <2>3. \A b \in bps' : HasSymbol(b)
    BY <2>1, <2>2
  <2>4. \A b : HasSymbol(b)' <=> HasSymbol(b)
    BY <2>1 DEF HasSymbol, Mapped
  <2> QED
    BY <2>1, <2>2, <2>3, <2>4 DEF NamesInv, RestartSurvives
<1>6. CASE Restart
  <2>1. /\ pc = "idle" /\ pc' = "static"
        /\ saved' = {findInTable(symtab, a).symbol.name : a \in bps}
    BY <1>6 DEF Restart, Fork
  <2>2. ASSUME NEW a \in bps PROVE HadName(findInTable(symtab, a).symbol.name)
    <3>1. HasSymbol(a)
      BY <2>1 DEF NamesInv
    <3>2. PICK p \in Mapped : \E u \in Range(p.symbols) :
            u.addr + p.base = a /\ findInTable(symtab, a).symbol.name = u.name
      BY <2>1, <3>1, AddressFound
    <3>3. p.file \in Readable /\ p.symbols \in Builds[p.file]
      BY MappedEntries
    <3> QED
      BY <3>2, <3>3 DEF HadName, NamesOf
  <2>3. \A n \in saved' : HadName(n)
    BY <2>1, <2>2
  <2> QED
    BY <1>2, <2>1, <2>3 DEF NamesInv, RestartSurvives
<1>7. CASE StartExecution
  <2>1. pc = "idle" /\ pc' = "static" /\ saved' = saved
    BY <1>7 DEF StartExecution, Fork
  <2> QED
    BY <1>2, <2>1 DEF NamesInv, RestartSurvives
<1>8. CASE ParseSymbols \/ ParseLibrary \/ ParseDynamicSymbols
  <2>1. pc' \in {"libraries", "refresh"} /\ saved' = saved
    BY <1>8 DEF ParseSymbols, ParseLibrary, ParseDynamicSymbols
  <2> QED
    BY <1>2, <2>1 DEF NamesInv, RestartSurvives
<1>9. CASE RefreshBreakPoint
  <2>1. pc = "refresh" /\ process' = process /\ Mapped' = Mapped
    BY <1>9 DEF RefreshBreakPoint, Mapped
  <2>2. CASE \E n \in saved : ByName(symtab, n) = NoSymbol
    <3>1. pc' = "crashed" /\ saved' = saved
      BY <1>9, <2>2 DEF RefreshBreakPoint
    <3>2. PICK n \in saved : ByName(symtab, n) = NoSymbol
      BY <2>2
    <3>3. \A p \in Mapped : n \notin NamesOf(p.symbols)
      BY <2>1, <3>2, NameFound
    <3>4. HadName(n) /\ \A m \in saved : HadName(m)
      BY <3>2 DEF NamesInv
    <3>5. RestartSurvives'
      BY <2>1, <3>1, <3>2, <3>3, <3>4 DEF RestartSurvives, HadName
    <3> QED
      BY <1>2, <3>1, <3>4, <3>5 DEF NamesInv
  <2>3. CASE \A n \in saved : ByName(symtab, n) # NoSymbol
    <3>1. /\ pc' = "idle" /\ saved' = {}
          /\ bps' = {ByName(symtab, n).addr : n \in saved}
      BY <1>9, <2>3 DEF RefreshBreakPoint
    <3>2. \A n \in saved : HasSymbol(ByName(symtab, n).addr)
      BY <2>1, <2>3, NameFound DEF HasSymbol
    <3>3. \A b : HasSymbol(b)' <=> HasSymbol(b)
      BY <2>1 DEF HasSymbol
    <3> QED
      BY <3>1, <3>2, <3>3 DEF NamesInv, RestartSurvives
  <2> QED
    BY <2>2, <2>3
<1>10. CASE UNCHANGED vars
  BY <1>1, <1>10 DEF vars
<1> QED
  BY <1>3, <1>4, <1>5, <1>6, <1>7, <1>8, <1>9, <1>10 DEF Next

LEMMA AlwaysNames ==
  ASSUME NoPrelinked
  PROVE  Spec => []NamesInv
<1>1. Init => NamesInv
  BY DEF Init, NamesInv, RestartSurvives
<1>2. LaunchInv /\ ReadInv /\ NamesInv /\ [Next]_vars => NamesInv'
  BY NamesNext
<1> QED
  BY <1>1, <1>2, AlwaysLaunch, AlwaysRead, PTL DEF Spec

\* RestartSurvives: saveBreakpoints finds a name for every breakpoint, and the only name that
\* refreshBreakPoint does not find is one that is in no file of the new process.
THEOREM SurvivesCorrect ==
  ASSUME NoPrelinked
  PROVE  Spec => []RestartSurvives
<1>1. NamesInv => RestartSurvives
  BY DEF NamesInv
<1> QED
  BY <1>1, AlwaysNames, PTL
-----------------------------------------------------------------------------
(* The functions that can be told from others by their names.              *)

\* A function that has a name of a group is wanted just if it has a breakpoint, and from the
\* end of a process to the start of the next just if a name of the group was saved.
IsGroup(f, group) == f \in Readable /\ group \in SUBSET SymbolNames /\ Together(f, group)
GroupInv(f, group) ==
  /\ pc = "idle" =>
       \A n \in group : <<f, n>> \in wanted <=> FunctionAddress(<<f, n>>) \cap bps # {}
  /\ pc \in {"static", "libraries", "refresh"} =>
       \A n \in group : <<f, n>> \in wanted <=> saved \cap group # {}

\* Where the functions of a group are: all at one address, and nothing else is there.
LEMMA GroupAddress ==
  ASSUME NoPrelinked, Apart, LaunchInv, NEW f, NEW group, IsGroup(f, group),
         NEW n \in group
  PROVE  /\ \A p \in Mapped : \A s \in Range(p.symbols) :
              s.name \in group =>
                /\ p.file = f /\ FunctionAddress(<<f, n>>) = {s.addr + p.base}
                /\ FunctionsAt(s.addr + p.base) = {<<f, m>> : m \in group}
         /\ FunctionAddress(<<f, n>>) # {} =>
              \E p \in Mapped : \E s \in Range(p.symbols) : s.name = n
         /\ \A p \in Mapped : \A s \in Range(p.symbols) :
              s.addr + p.base \in FunctionAddress(<<f, n>>) => s.name \in group
<1>1. \A p \in Mapped : p.file \in Readable /\ p.symbols \in Builds[p.file] /\ p \in Range(process)
  BY MappedEntries
<1>2. ASSUME NEW p \in Mapped, NEW s \in Range(p.symbols), s.name \in group PROVE p.file = f
  BY <1>1, <1>2 DEF IsGroup, Together, NamesOf
<1>3. \A p, q \in Mapped : p.file = q.file => p = q
  BY <1>1, ProcessEntries DEF LaunchInv
<1>4. ASSUME NEW p \in Mapped, p.file = f
      PROVE  /\ group \subseteq NamesOf(p.symbols)
             /\ \A s, t \in Range(p.symbols) :
                  s.name \in group => (t.name \in group <=> t.addr = s.addr)
  BY <1>1, <1>4 DEF IsGroup, Together
<1>5. \A a : a \in FunctionAddress(<<f, n>>) <=>
               \E p \in Mapped : \E s \in Range(p.symbols) :
                 p.file = f /\ s.name = n /\ a = s.addr + p.base
  BY DEF FunctionAddress
<1>6. ASSUME NEW p \in Mapped, NEW s \in Range(p.symbols), s.name \in group
      PROVE  FunctionAddress(<<f, n>>) = {s.addr + p.base}
  <2>1. p.file = f
    BY <1>2, <1>6
  <2>2. PICK t \in Range(p.symbols) : t.name = n
    BY <1>4, <2>1 DEF NamesOf
  <2>3. t.addr = s.addr
    BY <1>4, <1>6, <2>1, <2>2
  <2>4. s.addr + p.base \in FunctionAddress(<<f, n>>)
    BY <1>5, <2>1, <2>2, <2>3
  <2>5. ASSUME NEW a \in FunctionAddress(<<f, n>>) PROVE a = s.addr + p.base
    <3>1. PICK q, v :
            q \in Mapped /\ v \in Range(q.symbols) /\ q.file = f /\ v.name = n /\ a = v.addr + q.base
      BY <1>5
    <3>2. q = p
      BY <1>3, <2>1, <3>1
    <3>3. v.addr = s.addr
      BY <1>4, <1>6, <2>1, <3>1, <3>2
    <3> QED
      BY <3>1, <3>2, <3>3
  <2> QED
    BY <2>4, <2>5
<1>7. \A a, fn : fn \in FunctionsAt(a) <=>
                   \E p \in Mapped : \E s \in Range(p.symbols) :
                     s.addr + p.base = a /\ fn = <<p.file, s.name>>
  BY DEF FunctionsAt
<1>8. ASSUME NEW p \in Mapped, NEW s \in Range(p.symbols), s.name \in group
      PROVE  FunctionsAt(s.addr + p.base) = {<<f, m>> : m \in group}
  <2> DEFINE a == s.addr + p.base
  <2>1. p.file = f
    BY <1>2, <1>8
  <2>2. ASSUME NEW m \in group PROVE <<f, m>> \in FunctionsAt(a)
    <3>1. PICK t \in Range(p.symbols) : t.name = m
      BY <1>4, <2>1 DEF NamesOf
    <3>2. t.addr = s.addr
      BY <1>4, <1>8, <2>1, <3>1
    <3> QED
      BY <1>7, <2>1, <3>1, <3>2
  <2>3. ASSUME NEW fn \in FunctionsAt(a) PROVE fn \in {<<f, m>> : m \in group}
    <3>1. PICK q, t :
            q \in Mapped /\ t \in Range(q.symbols) /\ t.addr + q.base = a /\ fn = <<q.file, t.name>>
      BY <1>7
    <3>2. q = p /\ t.addr = s.addr
      BY <3>1, OneFile
    <3>3. t \in Range(p.symbols)
      BY <3>1, <3>2
    <3>4. t.name \in group
      BY <1>4, <1>8, <2>1, <3>2, <3>3
    <3> QED
      BY <2>1, <3>1, <3>2, <3>4
  <2> QED
    BY <2>2, <2>3
<1>9. ASSUME NEW p \in Mapped, NEW s \in Range(p.symbols),
             s.addr + p.base \in FunctionAddress(<<f, n>>)
      PROVE  s.name \in group
  <2>1. PICK q, t :
          q \in Mapped /\ t \in Range(q.symbols) /\ q.file = f /\ t.name = n /\ s.addr + p.base = t.addr + q.base
    BY <1>5, <1>9
  <2>2. p = q /\ s.addr = t.addr
    BY <2>1, OneFile
  <2> QED
    BY <1>4, <2>1, <2>2
<1>10. FunctionAddress(<<f, n>>) # {} => \E p \in Mapped : \E s \in Range(p.symbols) : s.name = n
  BY <1>5
<1> QED
  BY <1>2, <1>6, <1>8, <1>9, <1>10

LEMMA GroupToggle ==
  ASSUME NoPrelinked, Apart, LaunchInv, ReadInv, NamesInv, NEW f, NEW group, IsGroup(f, group),
         GroupInv(f, group), NEW row \in Rows, ToggleBreakpoint(row)
  PROVE  GroupInv(f, group)'
<1> DEFINE a == at(symtab, row).addr
<1>1. /\ pc = "idle" /\ UNCHANGED <<process, saved, pc>>
      /\ IF a \in bps
         THEN bps' = bps \ {a} /\ wanted' = wanted \ FunctionsAt(a)
         ELSE bps' = bps \cup {a} /\ wanted' = wanted \cup FunctionsAt(a)
  BY DEF ToggleBreakpoint
<1>2. PICK p, s : p \in Mapped /\ s \in Range(p.symbols) /\ a = s.addr + p.base
  BY <1>1, RowAddress DEF HasSymbol
<1> HIDE DEF a
<1>3. \A fn : FunctionAddress(fn)' = FunctionAddress(fn)
  BY <1>1 DEF FunctionAddress, Mapped
<1>4. ASSUME NEW n \in group
      PROVE  <<f, n>> \in wanted' <=> FunctionAddress(<<f, n>>) \cap bps' # {}
  <2>1. <<f, n>> \in wanted <=> FunctionAddress(<<f, n>>) \cap bps # {}
    BY <1>1 DEF GroupInv
  <2>2. CASE s.name \in group
    <3>1. /\ FunctionAddress(<<f, n>>) = {a} /\ <<f, n>> \in FunctionsAt(a)
      BY <1>2, <2>2, GroupAddress
    <3> QED
      BY <1>1, <3>1, <2>1
  <2>3. CASE s.name \notin group
    <3>1. a \notin FunctionAddress(<<f, n>>)
      BY <1>2, <2>3, GroupAddress
    <3>2. <<f, n>> \notin FunctionsAt(a)
      BY <3>1 DEF FunctionsAt, FunctionAddress
    <3> QED
      BY <1>1, <2>1, <3>1, <3>2
  <2> QED
    BY <2>2, <2>3
<1> QED
  BY <1>1, <1>3, <1>4 DEF GroupInv

LEMMA GroupRestart ==
  ASSUME NoPrelinked, Apart, LaunchInv, ReadInv, NamesInv, NEW f, NEW group, IsGroup(f, group),
         GroupInv(f, group), Restart
  PROVE  GroupInv(f, group)'
<1>1. /\ pc = "idle" /\ pc' = "static" /\ wanted' = wanted
      /\ saved' = {findInTable(symtab, a).symbol.name : a \in bps}
  BY DEF Restart, Fork
<1>2. ASSUME NEW n \in group PROVE <<f, n>> \in wanted <=> saved' \cap group # {}
  <2>1. <<f, n>> \in wanted <=> FunctionAddress(<<f, n>>) \cap bps # {}
    BY <1>1 DEF GroupInv
  <2>2. ASSUME NEW a \in bps
        PROVE  a \in FunctionAddress(<<f, n>>) <=> findInTable(symtab, a).symbol.name \in group
    <3>1. PICK p, u :
            p \in Mapped /\ u \in Range(p.symbols) /\ u.addr + p.base = a /\ findInTable(symtab, a).symbol.name = u.name
      BY <1>1, AddressFound DEF NamesInv
    <3> QED
      BY <3>1, GroupAddress
  <2> QED
    BY <1>1, <2>1, <2>2
<1> QED
  BY <1>1, <1>2 DEF GroupInv

LEMMA GroupRefresh ==
  ASSUME NoPrelinked, Apart, LaunchInv, ReadInv, NEW f, NEW group, IsGroup(f, group),
         GroupInv(f, group), RefreshBreakPoint, pc' = "idle"
  PROVE  GroupInv(f, group)'
<1>1. /\ pc = "refresh" /\ UNCHANGED <<process, wanted>>
      /\ bps' = {ByName(symtab, n).addr : n \in saved}
      /\ \A n \in saved : ByName(symtab, n) # NoSymbol
  BY DEF RefreshBreakPoint
<1>2. \A m \in saved : \E p \in Mapped : \E u \in Range(p.symbols) :
        u.name = m /\ ByName(symtab, m).addr = u.addr + p.base
  BY <1>1, NameFound
<1>3. ASSUME NEW n \in group
      PROVE  <<f, n>> \in wanted <=> FunctionAddress(<<f, n>>) \cap bps' # {}
  <2>1. <<f, n>> \in wanted <=> saved \cap group # {}
    BY <1>1 DEF GroupInv
  <2>2. ASSUME NEW m \in saved
        PROVE  m \in group <=> ByName(symtab, m).addr \in FunctionAddress(<<f, n>>)
    <3>1. PICK p, u :
            p \in Mapped /\ u \in Range(p.symbols) /\ u.name = m /\ ByName(symtab, m).addr = u.addr + p.base
      BY <1>2
    <3> QED
      BY <3>1, GroupAddress
  <2> QED
    BY <1>1, <2>1, <2>2
<1>4. \A fn : FunctionAddress(fn)' = FunctionAddress(fn)
  BY <1>1 DEF FunctionAddress, Mapped
<1> QED
  BY <1>1, <1>3, <1>4 DEF GroupInv

LEMMA GroupNext ==
  ASSUME NoPrelinked, Apart, LaunchInv, ReadInv, NamesInv, NEW f, NEW group, IsGroup(f, group),
         GroupInv(f, group), [Next]_vars
  PROVE  GroupInv(f, group)'
<1>1. ASSUME UNCHANGED <<process, bps, saved, wanted, pc>> PROVE GroupInv(f, group)'
  BY <1>1 DEF GroupInv, FunctionAddress, Mapped
<1>2. ASSUME NEW g \in Files, Recompile(g) PROVE GroupInv(f, group)'
  BY <1>1, <1>2 DEF Recompile
<1>3. ASSUME NEW text \in Texts, Search(text) PROVE GroupInv(f, group)'
  BY <1>1, <1>3 DEF Search
<1>4. ASSUME NEW row \in Rows, ToggleBreakpoint(row) PROVE GroupInv(f, group)'
  BY <1>4, GroupToggle
<1>5. CASE Restart
  BY <1>5, GroupRestart
<1>6. CASE StartExecution
  <2>1. pc = "idle" /\ pc' = "static" /\ wanted' = {} /\ saved' = saved
    BY <1>6 DEF StartExecution, Fork
  <2>2. saved = {}
    BY <2>1 DEF NamesInv
  <2> QED
    BY <2>1, <2>2 DEF GroupInv
<1>7. CASE ParseSymbols \/ ParseLibrary \/ ParseDynamicSymbols
  <2>1. /\ pc \in {"static", "libraries"} /\ pc' \in {"libraries", "refresh"}
        /\ UNCHANGED <<saved, wanted>>
    BY <1>7 DEF ParseSymbols, ParseLibrary, ParseDynamicSymbols
  <2> QED
    BY <2>1 DEF GroupInv
<1>8. CASE RefreshBreakPoint
  <2>1. pc' \in {"idle", "crashed"}
    BY <1>8 DEF RefreshBreakPoint
  <2>2. CASE pc' = "crashed"
    BY <2>2 DEF GroupInv
  <2>3. CASE pc' = "idle"
    BY <1>8, <2>3, GroupRefresh
  <2> QED
    BY <2>1, <2>2, <2>3
<1>9. CASE UNCHANGED vars
  BY <1>1, <1>9 DEF vars
<1> QED
  BY <1>2, <1>3, <1>4, <1>5, <1>6, <1>7, <1>8, <1>9 DEF Next

AllGroups == \A f, group : IsGroup(f, group) => GroupInv(f, group)

\* SteadyKeepBreakpoints: the breakpoints go from addresses to names and, in the new process,
\* back to addresses; those of functions that are told apart by their names are where they
\* were set, whatever names other functions share, lose or are given.
THEOREM RestartCorrect ==
  ASSUME NoPrelinked, Apart
  PROVE  Spec => []SteadyKeepBreakpoints
<1>1. Init => AllGroups
  <2> SUFFICES ASSUME Init, NEW f, NEW group PROVE GroupInv(f, group)
    BY DEF AllGroups
  <2>1. wanted = {} /\ saved = {} /\ pc = "static"
    BY DEF Init
  <2> QED
    BY <2>1 DEF GroupInv
<1>2. LaunchInv /\ ReadInv /\ NamesInv /\ AllGroups /\ [Next]_vars => AllGroups'
  <2> SUFFICES ASSUME LaunchInv, ReadInv, NamesInv, AllGroups, [Next]_vars,
                      NEW f, NEW group, IsGroup(f, group)'
               PROVE  GroupInv(f, group)'
    BY DEF AllGroups
  <2>1. IsGroup(f, group)
    BY DEF IsGroup, Together
  <2> QED
    BY <2>1, GroupNext DEF AllGroups
<1>3. AllGroups => SteadyKeepBreakpoints
  <2> SUFFICES ASSUME AllGroups, pc = "idle", NEW fn \in Steady
               PROVE  fn \in wanted <=> FunctionAddress(fn) \cap bps # {}
    BY DEF SteadyKeepBreakpoints
  <2>1. fn \in Readable \X SymbolNames
    BY DEF Steady
  <2>2. PICK group \in SUBSET SymbolNames : fn[2] \in group /\ Together(fn[1], group)
    BY DEF Steady
  <2>3. fn = <<fn[1], fn[2]>> /\ IsGroup(fn[1], group)
    BY <2>1, <2>2 DEF IsGroup
  <2> QED
    BY <2>2, <2>3 DEF AllGroups, GroupInv
<1> QED
  BY <1>1, <1>2, <1>3, AlwaysLaunch, AlwaysRead, AlwaysNames, PTL DEF Spec
=============================================================================
