---------------------------- MODULE SymbolTable ----------------------------
(***************************************************************************)
(* The symbol table of a traced program: a linked list of tables, one per  *)
(* object file, each with its own symbols and the base its object was      *)
(* loaded at.  The list is a sequence of tables; nullptr is the empty one. *)
(* Every lookup walks the list from its head and returns the first match.  *)
(***************************************************************************)
EXTENDS SequencesExt

NewTable(file, syms) == [object |-> file, symbols |-> syms, base |-> 0]
NoSymbol == [name |-> "", addr |-> -1]
NoTable  == NewTable("", <<>>)

getSize(list) == FoldLeft(LAMBDA count, table : count + Len(table.symbols), 0, list)

\* The index shrinks by the size of each table it passes.
\* Mutant: the index is not shrunk.
atUnshrunk(list, index) ==
  LET step(walk, table) ==
        IF walk # NoSymbol \/ index >= Len(table.symbols) THEN walk ELSE table.symbols[index + 1]
  IN FoldLeft(step, NoSymbol, list)

at(list, index) ==
  LET step(walk, table) ==
        IF walk.symbol # NoSymbol THEN walk
        ELSE IF walk.index < Len(table.symbols)
        THEN [walk EXCEPT !.symbol = table.symbols[walk.index + 1]]
        ELSE [walk EXCEPT !.index = @ - Len(table.symbols)]
  IN FoldLeft(step, [index |-> index, symbol |-> NoSymbol], list).symbol

First(seq, Test(_)) ==
  LET i == SelectInSeq(seq, Test) IN IF i = 0 THEN NoSymbol ELSE seq[i]

\* findInTable: the symbol at an address, and the table it is in.
findInTable(list, a) ==
  LET Here(sym)   == sym.addr = a
      table       == SelectInSeq(list, LAMBDA tab : First(tab.symbols, Here) # NoSymbol)
  IN IF table = 0 THEN [symbol |-> NoSymbol, table |-> NoTable]
     ELSE [symbol |-> First(list[table].symbols, Here), table |-> list[table]]

\* operator[] on a name.
\* Mutant: only the head of the list is looked at.
ByNameInHead(list, n) == First(list[1].symbols, LAMBDA sym : sym.name = n)

ByName(list, n) ==
  LET Called(sym) == sym.name = n
      table       == SelectInSeq(list, LAMBDA tab : First(tab.symbols, Called) # NoSymbol)
  IN IF table = 0 THEN NoSymbol ELSE First(list[table].symbols, Called)

\* operator[] on an address.
ByAddress(list, a) == findInTable(list, a).symbol

\* relocate moves the symbols of the whole list, but only its head keeps the base.
\* Mutants: the symbols left where they were; the base not recorded.
Moved(symbols, by) == [s \in DOMAIN symbols |-> [symbols[s] EXCEPT !.addr = @ + by]]
relocateBase(list, by)    == [t \in DOMAIN list |-> [list[t] EXCEPT !.base = by]]
relocateSymbols(list, by) == [t \in DOMAIN list |-> [list[t] EXCEPT !.symbols = Moved(@, by)]]

relocate(list, by) ==
  [t \in DOMAIN list |-> [list[t] EXCEPT !.symbols = Moved(@, by),
                                         !.base    = IF t = 1 THEN by ELSE @]]

join(list, other) == list \o other
=============================================================================
