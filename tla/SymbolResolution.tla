---------------------------- MODULE SymbolResolution ----------------------------
(***************************************************************************)
(* Where the breakpoints of LDB get their addresses from, and how they     *)
(* follow their functions from one process to the next: ELFFile            *)
(* (parseSymbols, parseLinkMap, parseDynamicSymbols), the launch sequence  *)
(* of ProcessTracer, BreakPointHandler::saveBreakpoints and                *)
(* refreshBreakPoint, and the rows of BreakpointModel with the two tabs of  *)
(* BreakpointsDialog that list them.                                       *)
(*                                                                         *)
(* Every process loads the libraries in an order and at bases of the       *)
(* kernel's choosing, and the files may be rebuilt between two processes.  *)
(* The executable itself is not position independent: parseSymbols takes   *)
(* its addresses as they are in the file.                                  *)
(***************************************************************************)
EXTENDS SymbolTable

CONSTANTS
  Exe,        \* the executable
  Libs,       \* the shared libraries it is linked to
  Parsable,   \* those ELFFile can read: not the vdso, nor a file without debug information
  Builds,     \* of each file, the symbol sequences its builds may have
  Static,     \* whether the executable may be built as a static one
  Bases,      \* the load addresses of libraries; 0 is that of a prelinked one
  Texts       \* what the search bar may hold: the set of names a text occurs in

Files == Libs \cup {Exe}
SymbolNames == UNION {{s.name : s \in Range(b)} : b \in UNION {Builds[f] : f \in Files}}

ASSUME SymbolsAssumption ==
  /\ IsFiniteSet(Libs) /\ Exe \notin Libs /\ Parsable \subseteq Libs
  /\ DOMAIN Builds = Files
  /\ \A f \in Files : Builds[f] \subseteq Seq([name : STRING, addr : Nat])
  /\ Bases \subseteq Nat /\ Static \in BOOLEAN
  /\ SymbolNames \in Texts     \* nothing typed

VARIABLES
  disk,      \* the current build of each file
  process,   \* what the live process has loaded: Exe first, then the libraries
  linkMap,   \* the link map entries still to be read
  symtab,    \* the tracer's symbol table
  elf,       \* the table of the ELFFile being read
  res,       \* the libraries' tables joined so far
  bps,       \* the addresses in the breakpoint table
  saved,     \* the names saved over a restart
  wanted,    \* the functions the user set breakpoints on: <<file, name>>
  search,    \* the text in the search bar
  listed,    \* the rows of the tab "Add breakpoints": search_proxy
  active,    \* those of "Active breakpoints": breakpoint_proxy
  pc

dialog == <<search, listed, active>>
vars == <<disk, process, linkMap, symtab, elf, res, bps, saved, wanted, dialog, pc>>

\* A process: the executable at base 0, and, unless it is static, every library somewhere.
Entry(f, b) == [file |-> f, base |-> b, symbols |-> disk[f]]
Placements ==
  {base \in [Libs -> Bases] : \A f, g \in Libs : base[f] = base[g] /\ base[f] # 0 => f = g}
Loaded(order, base) ==
  <<Entry(Exe, 0)>> \o [i \in DOMAIN order |-> Entry(order[i], base[order[i]])]
Loads == {Loaded(order, base) : order \in SetToSeqs(Libs), base \in Placements}
           \cup {p \in {<<Entry(Exe, 0)>>} : Static}

\* locateLinkMap, and the first step of parseLinkMap: the head of the link map is the
\* executable's entry, which is passed over.  A static executable has no .dynsym or no
\* DT_DEBUG: locateLinkMap returns 0, parseDynamicSymbols false, and there is none to read.
LinkMap(p) == Tail(p)

Fork ==
  /\ process' \in Loads
  /\ linkMap' = LinkMap(process')
  /\ pc' = "static"

Init ==
  /\ disk \in {d \in [Files -> UNION {Builds[f] : f \in Files}] : \A f \in Files : d[f] \in Builds[f]}
  /\ process \in Loads /\ linkMap = LinkMap(process)
  /\ symtab = <<>> /\ elf = <<>> /\ res = <<>>
  /\ bps = {} /\ saved = {} /\ wanted = {}
  /\ search = SymbolNames /\ listed = {} /\ active = {}
  /\ pc = "static"

\* A file is built again, between two processes.
Recompile(f) ==
  /\ pc = "idle"
  /\ \E build \in Builds[f] : disk' = [disk EXCEPT ![f] = build]
  /\ UNCHANGED <<process, linkMap, symtab, elf, res, bps, saved, wanted, dialog, pc>>

\* Where a function of a file is in the process, and which functions are at an address: one,
\* and its aliases.
Mapped == {p \in Range(process) : p.file \in Parsable \cup {Exe}}
FunctionAddress(fn) ==
  UNION {{s.addr + p.base : s \in {s \in Range(p.symbols) : s.name = fn[2]}} :
           p \in {p \in Mapped : p.file = fn[1]}}
FunctionsAt(a) ==
  UNION {{<<p.file, s.name>> : s \in {s \in Range(p.symbols) : s.addr + p.base = a}} :
           p \in Mapped}

\* BreakpointSortProxyModel::filterAcceptsRow of the two tabs: by the address of the row.
Rows                  == 0 .. getSize(symtab) - 1
Active(row, armed)    == at(symtab, row).addr \in armed
Listed(row, armed, t) == ~ Active(row, armed) /\ at(symtab, row).name \in t

\* makeModel and clearModel: both proxies are made anew.  (Qt fills a proxy when its tab
\* is first shown, and then with what is true at that time.)
MakeModel(armed) ==
  /\ listed' = {row \in Rows : Listed(row, armed, search)}
  /\ active' = {row \in Rows : Active(row, armed)}
  /\ UNCHANGED search

\* textChanged: the whole of search_proxy is filtered again.
Search(text) ==
  /\ pc = "idle"
  /\ search' = text
  /\ listed' = {row \in Rows : Listed(row, bps, text)}
  /\ UNCHANGED <<disk, process, linkMap, symtab, elf, res, bps, saved, wanted, active, pc>>

\* dataChanged(pos, pos): both proxies filter that row again, and no other.
\* Mutant: only the proxy that was clicked does.
RefilterClicked(row) ==
  /\ listed' = IF row \in listed THEN listed \ {row} ELSE listed
  /\ active' = IF row \in active THEN active \ {row} ELSE active
  /\ UNCHANGED search

Refilter(row) ==
  /\ listed' = {r \in listed \cup {row} : r = row => Listed(row, bps', search)}
  /\ active' = {r \in active \cup {row} : r = row => Active(row, bps')}
  /\ UNCHANGED search

\* A row of one of the tabs is double clicked: BreakpointModel::toggleBreakpoint.
ToggleBreakpoint(row) ==
  /\ pc = "idle" /\ row \in listed \cup active
  /\ LET a == at(symtab, row).addr IN
       IF a \in bps
       THEN bps' = bps \ {a} /\ wanted' = wanted \ FunctionsAt(a)
       ELSE bps' = bps \cup {a} /\ wanted' = wanted \cup FunctionsAt(a)
  /\ Refilter(row)
  /\ UNCHANGED <<disk, process, linkMap, symtab, elf, res, saved, pc>>

\* executionEnded, and ProcessTracer::restart up to readSymbols: the breakpoints are saved
\* by name, looked up in the table of the process that is gone.
Restart ==
  /\ pc = "idle"
  /\ saved' = {findInTable(symtab, a).symbol.name : a \in bps}
  /\ Fork /\ MakeModel(bps)
  /\ UNCHANGED <<disk, symtab, elf, res, bps, wanted>>

\* startExecution with a tracer: endTracer destroys it with its tables and breakpoints and
\* signals executionEnded, which leaves the dialog without rows; then a new one is made.
StartExecution ==
  /\ pc = "idle"
  /\ symtab' = <<>> /\ bps' = {} /\ wanted' = {}
  /\ listed' = {} /\ active' = {}
  /\ Fork
  /\ UNCHANGED <<disk, elf, res, saved, search>>

\* parseSymbols on the executable, which has a symbol section: readSymbols has looked up
\* _start in it.
ParseSymbols ==
  /\ pc = "static"
  /\ elf' = <<NewTable(Exe, disk[Exe])>> /\ res' = <<>>
  /\ pc' = "libraries"
  /\ UNCHANGED <<disk, process, linkMap, symtab, bps, saved, wanted, dialog>>

\* One entry of the link map.  A base of 0 ends it; a file that cannot be parsed is
\* skipped.
ParseLibrary ==
  /\ pc = "libraries" /\ linkMap # <<>>
  /\ LET lm == Head(linkMap) IN
       \/ lm.base = 0 /\ linkMap' = <<>> /\ UNCHANGED res
       \/ /\ lm.base # 0 /\ lm.file \notin Parsable
          /\ linkMap' = Tail(linkMap) /\ UNCHANGED res
       \/ /\ lm.base # 0 /\ lm.file \in Parsable
          /\ linkMap' = Tail(linkMap)
          /\ res' = join(res, relocate(<<NewTable(lm.file, disk[lm.file])>>, lm.base))
  /\ UNCHANGED <<disk, process, symtab, elf, bps, saved, wanted, dialog, pc>>

ParseDynamicSymbols ==
  /\ pc = "libraries" /\ linkMap = <<>>
  /\ symtab' = join(elf, res)
  /\ elf' = <<>> /\ res' = <<>>
  /\ pc' = "refresh"
  /\ UNCHANGED <<disk, process, linkMap, bps, saved, wanted, dialog>>

\* refreshBreakPoint dereferences what the lookup returns, a null pointer if no file has the
\* name any more; then executionStarted.
\* Mutant: the table is not emptied before the names are added.
RefreshBreakPointAdds ==
  /\ pc = "refresh"
  /\ pc' = "idle" /\ bps' = bps \cup {ByName(symtab, n).addr : n \in saved}
  /\ saved' = {} /\ MakeModel(bps')
  /\ UNCHANGED <<disk, process, linkMap, symtab, elf, res, wanted>>

RefreshBreakPoint ==
  /\ pc = "refresh"
  /\ IF \E n \in saved : ByName(symtab, n) = NoSymbol
     THEN pc' = "crashed" /\ UNCHANGED <<bps, saved, dialog>>
     ELSE /\ pc' = "idle" /\ saved' = {}
          /\ bps' = {ByName(symtab, n).addr : n \in saved}
          /\ MakeModel(bps')
  /\ UNCHANGED <<disk, process, linkMap, symtab, elf, res, wanted>>

Next ==
  \/ \E f \in Files : Recompile(f)
  \/ \E text \in Texts : Search(text)
  \/ \E row \in Rows : ToggleBreakpoint(row)
  \/ Restart \/ StartExecution \/ ParseSymbols \/ ParseLibrary \/ ParseDynamicSymbols \/ RefreshBreakPoint

Spec == Init /\ [][Next]_vars

-----------------------------------------------------------------------------
Named(n, a)  == [name |-> n, addr |-> a]
TableType(t) == /\ t.object \in Parsable \cup {Exe} /\ t.base \in Bases \cup {0}
                /\ \A s \in Range(t.symbols) : s.name \in SymbolNames /\ s.addr \in Nat

\* Every variable has its type; only a finished launch has a table, and its head is the
\* executable's.
TypeOK ==
  /\ \A f \in Files : disk[f] \in Builds[f]
  /\ \A p \in Range(process) : p.file \in Files /\ p.base \in Bases \cup {0}
  /\ Range(linkMap) \subseteq Range(process)
  /\ \A t \in Range(symtab \o elf \o res) : TableType(t)
  /\ pc \in {"static", "libraries", "refresh", "idle", "crashed"}
  /\ pc \in {"refresh", "idle"} => symtab # <<>> /\ Head(symtab).object = Exe
  /\ saved \subseteq SymbolNames /\ bps \subseteq Nat
  /\ wanted \subseteq Files \X SymbolNames
  /\ search \in Texts /\ listed \cup active \subseteq 0 .. getSize(symtab) - 1

\* The names of one address of a file that belong together: every build of the file has all
\* of them there, and no other; no other file has one.  The functions that go by such names
\* can be told from others over a rebuild.
Readable   == Parsable \cup {Exe}
NamesOf(x) == {s.name : s \in Range(x)}
Together(f, group) ==
  /\ \A x \in Builds[f] :
       /\ group \subseteq NamesOf(x)
       /\ \E u \in Range(x) : \A s \in Range(x) : s.name \in group <=> s.addr = u.addr
  /\ \A g \in Readable \ {f} : \A y \in Builds[g] : NamesOf(y) \cap group = {}
Steady ==
  {fn \in Readable \X SymbolNames :
     \E group \in SUBSET SymbolNames : fn[2] \in group /\ Together(fn[1], group)}

\* The addresses are those of the process: the symbols of the table are exactly what the
\* parsable files of this process have, at the bases this process loaded them, however
\* often it was restarted and rebuilt (relocate before join).
TableMatchesProcess ==
  pc = "idle" =>
    UNION {Range(t.symbols) : t \in Range(symtab)}
      = UNION {{Named(s.name, s.addr + p.base) : s \in Range(p.symbols)} : p \in Mapped}

\* A symbol leads back to its file: the table findInTable returns for the address of a
\* symbol is that of its object file, and the address less the base is the symbol's
\* address in that file (what the code views disassemble and hand to addr2line).
FoundInItsFile ==
  pc = "idle" =>
    \A p \in Mapped : \A s \in Range(p.symbols) :
      LET found == findInTable(symtab, s.addr + p.base)
      IN /\ found.table.object = p.file
         /\ s.addr + p.base - found.table.base = s.addr

\* The rows of the breakpoints dialog are the symbols of all tables, once each and in
\* order, and the row behind the last has none.
RowsAreSymbols ==
  LET rows == FlattenSeq([t \in DOMAIN symtab |-> symtab[t].symbols])
  IN /\ getSize(symtab) = Len(rows)
     /\ \A row \in 0 .. Len(rows) - 1 : at(symtab, row) = rows[row + 1]
     /\ at(symtab, Len(rows)) = NoSymbol

\* "We save breakpoint for the next execution like dynamic libs can change addr"
\* (ProcessTracer::restart): after any number of restarts the breakpoints are on the
\* functions the user set them on, as long as those can be told from others by their names:
\* whatever else was shared, dropped or renamed, and wherever the library went.
SteadyKeepBreakpoints ==
  pc = "idle" => \A fn \in Steady : fn \in wanted <=> FunctionAddress(fn) \cap bps # {}

\* The same of every function.
RestartKeepsBreakpoints ==
  pc = "idle" => bps = UNION {FunctionAddress(fn) : fn \in wanted}

\* "While the path may not have changed, the user may have recompiled the program in
\* between, so this is a must" (ProcessTracer::restart): the null lookup is that of a name
\* which a function with a breakpoint had, and which no file of the new process has.
RestartSurvives ==
  pc = "crashed" =>
    \E n \in saved : /\ \E f \in Readable : \E x \in Builds[f] : n \in NamesOf(x)
                     /\ \A p \in Mapped : n \notin NamesOf(p.symbols)

\* The two tabs tell of every address of a symbol whether it has a breakpoint: at rest one of
\* its rows, and that is the row if it has only one, is among the active ones just if the
\* address is in the breakpoint table, and among those to be added just if it is not and
\* the search text occurs in its name.
Shown(row) == /\ row \in active <=> Active(row, bps)
              /\ row \in listed <=> Listed(row, bps, search)
TabsShowTable ==
  pc = "idle" =>
    \A row \in Rows : \E twin \in Rows :
      at(symtab, twin).addr = at(symtab, row).addr /\ Shown(twin)

-----------------------------------------------------------------------------
(* Of the files, what has to hold for the table to lead back from an       *)
(* address to one file: the hypotheses of the theorems.                    *)

\* parseLinkMap takes an entry at 0 for the end of the link map: no library is prelinked.
NoPrelinked == 0 \notin Bases

\* No two functions of two files of a process are at one address.
LoadedAt(f) == IF f = Exe THEN {0} ELSE Bases
Apart ==
  \A f, g \in Readable : \A b \in LoadedAt(f), c \in LoadedAt(g) : f # g /\ b # c =>
    \A x \in Builds[f], y \in Builds[g] : \A s \in Range(x), u \in Range(y) :
      s.addr + b # u.addr + c
=============================================================================
