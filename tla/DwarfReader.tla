---------------------------- MODULE DwarfReader ----------------------------
(***************************************************************************)
(* DwarfReader: the types and the source files of functions, read from the *)
(* compilation units of one object file into the symbols of its table.     *)
(*                                                                         *)
(* A unit is the list of files its line table names and the DIEs below its *)
(* root in the order of the file, those nested in another marked.  The     *)
(* offset of a DIE counts from the start of its unit, so every unit has    *)
(* the same offsets; DIE k of a unit is at offset k.  A type is the        *)
(* sequence of what was put in front of or behind a name, the name last.   *)
(* What is below a function but for its parameters is left out: variables  *)
(* are read as these are, and the walk for functions does not go there.    *)
(* So are lines and the language of a unit, which nothing asks for.        *)
(***************************************************************************)
EXTENDS SequencesExt, Integers

CONSTANTS
  Programs,   \* sequences of units
  Symbols     \* the names in the symbol table of the file

Base     == "base"            \* also structures, typedefs and enumerations
Derived  == {"pointer", "const", "array"}
Function == "subprogram"
Other    == "other"           \* any other tag, as that of a namespace
NoRef    == 0                 \* no DW_AT_type
NoFile   == -1                \* no DW_AT_decl_file
Unknown  == <<>>              \* the empty type string

\* `first' is the number a unit gives its first file: 1, from DWARF 5 on 0.  Of a unit that
\* is not `readable' the header or the root DIE is missing or damaged.
Dies  == [tag : Derived \cup {Base, Function, Other}, name : STRING, nested : BOOLEAN,
          declaration : BOOLEAN, ref : Nat, params : Seq(Nat), file : Nat \cup {NoFile}]
Units == [files : Seq(STRING), first : {0, 1}, readable : BOOLEAN, dies : Seq(Dies)]

\* A DW_AT_type refers to a DIE of its unit.
ASSUME DwarfAssumption ==
  /\ Programs \subseteq Seq(Units) \ {<<>>}
  /\ \A p \in Programs : \A u \in Range(p) : \A d \in Range(u.dies) :
       {d.ref} \cup Range(d.params) \subseteq 0 .. Len(u.dies)

VARIABLES
  program,    \* the units of the file
  unit,       \* the one being read
  phase,      \* files, basic, derived, functions; done behind the last unit, or failed
  die,        \* the DIE of that phase
  file_tabl,  \* the file names read so far
  type_tabl,  \* offset -> type
  functions   \* name -> what was filled into its symbol

tables == <<file_tabl, type_tabl, functions>>
vars   == <<program, unit, phase, die, tables>>

Unit == program[unit]
Die  == Unit.dies[die]

Init ==
  /\ program \in Programs
  /\ unit = 1 /\ phase = "files" /\ die = 1
  /\ file_tabl = <<>> /\ type_tabl = [o \in {} |-> Unknown]
  /\ functions = [f \in {} |-> Unknown]

\* std::map::insert keeps what is there.
\* Mutants: looked up with operator[] first, which makes an entry; filed under the sibling.
InsertAfterAccess(offset, type) ==
  type_tabl' = [o \in DOMAIN type_tabl \cup {offset} |->
                  IF o \in DOMAIN type_tabl THEN type_tabl[o] ELSE Unknown]
InsertAtSibling(offset, type) ==
  type_tabl' = [o \in DOMAIN type_tabl \cup {offset + 1} |->
                  IF o \in DOMAIN type_tabl THEN type_tabl[o] ELSE type]

Insert(offset, type) ==
  type_tabl' = [o \in DOMAIN type_tabl \cup {offset} |->
                  IF o \in DOMAIN type_tabl THEN type_tabl[o] ELSE type]

Lookup(offset) == IF offset \in DOMAIN type_tabl THEN type_tabl[offset] ELSE Unknown

\* readCu, before the first walk: the header and the root DIE, then loadFileTable.
ReadCuThrows ==
  /\ phase = "files" /\ ~Unit.readable
  /\ phase' = "failed" /\ UNCHANGED <<program, unit, die, tables>>

LoadFileTable ==
  /\ phase = "files" /\ Unit.readable
  /\ file_tabl' = file_tabl \o Unit.files
  /\ phase' = "basic" /\ die' = 2      \* the walk begins behind the first child
  /\ UNCHANGED <<program, unit, type_tabl, functions>>

\* One step of a walk over the children of the root, what is nested in these passed over;
\* then on to the next phase.
Sibling == die <= Len(Unit.dies) /\ ~Die.nested
Advance(next, first) ==
  IF die < Len(Unit.dies) THEN die' = die + 1 /\ UNCHANGED phase
                          ELSE die' = first /\ phase' = next

LoadBasicTypeMap ==
  /\ phase = "basic"
  /\ IF Sibling /\ Die.tag = Base
     THEN Insert(die, <<Die.name>>) ELSE UNCHANGED type_tabl
  /\ Advance("derived", 2)
  /\ UNCHANGED <<program, unit, file_tabl, functions>>

\* A single pass: have_new_type is never set again.
LoadComplexeTypeMap ==
  /\ phase = "derived"
  /\ IF Sibling /\ Die.tag \in Derived /\ Die.ref \in DOMAIN type_tabl
     THEN Insert(die, <<Die.tag>> \o type_tabl[Die.ref]) ELSE UNCHANGED type_tabl
  /\ Advance("functions", 1)
  /\ UNCHANGED <<program, unit, file_tabl, functions>>

\* file_tabl[in_file], whose index counts from 0 and is not compared with the size.
FileFromOne(index) == IF index \in DOMAIN file_tabl THEN file_tabl[index] ELSE "outside" \* a mutant
FileAt(index) == IF index + 1 \in DOMAIN file_tabl THEN file_tabl[index + 1] ELSE "outside"

\* The arguments of a symbol are appended to, its type and file are set if the DIE has them.
parseFunction(params, args) == args \o [i \in DOMAIN params |-> Lookup(params[i])]
Entry(name) == IF name \in DOMAIN functions THEN functions[name]
               ELSE [type |-> Unknown, args |-> <<>>, file |-> ""]
Fill(f, old) == [type |-> IF f.ref = NoRef THEN old.type ELSE Lookup(f.ref),
                 args |-> parseFunction(f.params, old.args),
                 file |-> IF f.file = NoFile THEN old.file ELSE FileAt(f.file)]

\* Declarations, and functions that are not in the symbol table, are returned from.
Defines(d) == d.tag = Function /\ ~d.declaration /\ d.name \in Symbols
GetDieAndSiblings ==
  /\ phase = "functions"
  /\ functions' =
       IF die > Len(Unit.dies) \/ ~Defines(Die) THEN functions
       ELSE [n \in DOMAIN functions \cup {Die.name} |->
               IF n = Die.name THEN Fill(Die, Entry(n)) ELSE functions[n]]
  /\ IF die < Len(Unit.dies) THEN die' = die + 1 /\ UNCHANGED <<unit, phase>>
     ELSE /\ die' = 1
          /\ IF unit < Len(program) THEN unit' = unit + 1 /\ phase' = "files"
             ELSE phase' = "done" /\ UNCHANGED unit
  /\ UNCHANGED <<program, file_tabl, type_tabl>>

Next == ReadCuThrows \/ LoadFileTable \/ LoadBasicTypeMap \/ LoadComplexeTypeMap \/ GetDieAndSiblings

Spec == Init /\ [][Next]_vars

-----------------------------------------------------------------------------
\* What the DIEs mean: the type at an offset of a unit, by its references; Unknown where
\* these lead to no named type.
Meaning(u) ==
  LET upto[n \in 0 .. Len(u.dies)] ==
        [o \in 0 .. Len(u.dies) |->
           IF o = NoRef \/ n = 0 THEN Unknown
           ELSE LET d == u.dies[o] IN
             IF d.tag = Base THEN <<d.name>>
             ELSE IF d.tag \in Derived /\ upto[n - 1][d.ref] # Unknown
             THEN <<d.tag>> \o upto[n - 1][d.ref] ELSE Unknown]
  IN upto[Len(u.dies)]

TypesOf(u) == {k \in DOMAIN u.dies : u.dies[k].tag \in Derived \cup {Base}}

\* The tables are not cleared between units.  A unit is fresh if no unit before it may have
\* left a type at an offset that it uses for one of its own; the first one always is.
Listable(u) == {k \in TypesOf(u) : k # 1 /\ ~u.dies[k].nested}
Uses(u)     == Listable(u) \cup UNION {{d.ref} \cup Range(d.params) : d \in Range(u.dies)}
Fresh(j)    == \A i \in 1 .. j - 1 : Listable(program[i]) \cap Uses(program[j]) = {}

\* The definitions in unit j of functions that are defined once.
Definitions(j) == {k \in DOMAIN program[j].dies : Defines(program[j].dies[k])}
Sole(j) == {k \in Definitions(j) :
              \A i \in DOMAIN program : \A l \in Definitions(i) :
                program[i].dies[l].name = program[j].dies[k].name => i = j /\ l = k}
Read(j) == {program[j].dies[k] : k \in {k \in Sole(j) : program[j].dies[k].name \in DOMAIN functions}}

\* A type shown is never a wrong one, whatever the order in which the types of a fresh unit
\* come (loadComplexeTypeMap goes over them once): each return and parameter type is that of
\* the program, or empty, and a function has as many parameters as it is defined with.
RightIn(j) ==
  \A d \in Read(j) :
    /\ functions[d.name].type \in {Meaning(program[j])[d.ref], Unknown}
    /\ DOMAIN functions[d.name].args = DOMAIN d.params
    /\ \A i \in DOMAIN d.params :
         functions[d.name].args[i] \in {Meaning(program[j])[d.params[i]], Unknown}
TypesAreRight == \A j \in DOMAIN program : Fresh(j) => RightIn(j)

\* One pass is enough where the compiler names every type before it uses it, and the
\* first child, which the walks leave out, is no type: when all has been read, every
\* function of such a unit has the types the program gives it.
InOrder(u) == \A k \in TypesOf(u) : k \in Listable(u) /\ u.dies[k].ref < k
CompleteIn(j) ==
  \A k \in Sole(j) :
    LET d == program[j].dies[k]
    IN /\ d \in Read(j)
       /\ functions[d.name].type = Meaning(program[j])[d.ref]
       /\ functions[d.name].args = [i \in DOMAIN d.params |-> Meaning(program[j])[d.params[i]]]
TypesAreComplete ==
  phase = "done" => \A j \in DOMAIN program : Fresh(j) /\ InOrder(program[j]) => CompleteIn(j)

\* The list of files is appended to and its index counts from 0, whatever the unit: as long
\* as the first list is not left, the file shown of a function is the one its unit means
\* exactly where the first unit's list has that file there.
Number(u, d)      == d.file - u.first + 1
FileIsRight(j, d) == functions[d.name].file = program[j].files[Number(program[j], d)]
FilesAreRight ==
  \A j \in DOMAIN program : \A d \in Read(j) :
    LET u == program[j] IN
    Number(u, d) \in DOMAIN u.files /\ d.file + 1 \in DOMAIN program[1].files
      => (FileIsRight(j, d) <=> program[1].files[d.file + 1] = u.files[Number(u, d)])

-----------------------------------------------------------------------------
(* What the code does not keep; see the README.                             *)

\* Every unit has its own types and files (getDieAndSiblings looks them up by offset and by
\* number in tables that loadFileTable and loadBasicTypeMap append to, unit after unit).
EveryTypeIsRight == \A j \in DOMAIN program : RightIn(j)
EveryFileIsRight ==
  \A j \in DOMAIN program : \A d \in Read(j) :
    Number(program[j], d) \in DOMAIN program[j].files => FileIsRight(j, d)
=============================================================================
