--------------------------- MODULE MCPanelViews ---------------------------
(* An executable with two functions, a library, another whose file is over the size limit, *)
(* as libc's is, and code that belongs to no file: the vdso.  One offset of the vdso that  *)
(* libunwind may be left with leads into main.                                             *)
EXTENDS PanelViews

Code == [ main |-> [object |-> "main", base |-> 10, start |-> 12, size |-> 2],
          leaf |-> [object |-> "main", base |-> 10, start |-> 14, size |-> 2],
          put  |-> [object |-> "lib", base |-> 20, start |-> 21, size |-> 2],
          libc |-> [object |-> "libc", base |-> 40, start |-> 41, size |-> 2],
          vdso |-> [object |-> "", base |-> 30, start |-> 31, size |-> 2] ]
Program == {"main", "leaf", "put", "libc", "vdso"}
Table ==
  << [object |-> "main", base |-> 10,
      symbols |-> <<[name |-> "main", addr |-> 12], [name |-> "leaf", addr |-> 14]>>],
     [object |-> "lib", base |-> 20, symbols |-> <<[name |-> "put", addr |-> 21]>>],
     [object |-> "libc", base |-> 40, symbols |-> <<[name |-> "libc", addr |-> 41]>>] >>
Known    == {"main", "leaf", "put", "libc"}
Leftover == {0, 20}

Listings == "main" :> <<2, 3, 4, 5>> @@ "lib" :> <<1, 2, 5, 9>> @@ "libc" :> <<1, 2>>

At(f, n) == [file |-> f, line |-> n]
Sourced == [ main |-> 0 :> At("main.c", 2) @@ 1 :> At("main.c", 3),
             leaf |-> 0 :> At("main.c", 6) @@ 1 :> At("main.c", 7),
             put  |-> 0 :> At("lib.c", 2) @@ 1 :> Unknown,
             libc |-> 0 :> Unknown @@ 1 :> Unknown,
             vdso |-> 0 :> Unknown @@ 1 :> Unknown ]

\* A process is left in main.  It stops in the library, called by leaf; in libc, called by
\* the library; and in the vdso, called by main.
Start == <<13>>
Deep  == {<<22, 15, 13>>, <<42, 22, 15, 13>>, <<32, 13>>}

\* The theorems are about this instance.
ASSUME HypothesesHold == TableIsRight /\ NoStray /\ Unambiguous /\ LinesAreTabled
=============================================================================
