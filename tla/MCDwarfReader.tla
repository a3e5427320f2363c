---------------------------- MODULE MCDwarfReader ----------------------------
(***************************************************************************)
(* Object files for TLC.  Every unit of four DIEs, three of them types     *)
(* that refer to any type, and a function, in every order; and two units   *)
(* of any of a few kinds, one after the other: with other file lists,      *)
(* which count from 0 or from 1, with types at the same offsets or not,    *)
(* with functions in a namespace, declarations, names that are not in the  *)
(* symbol table or are in both, without a DIE, or damaged.                 *)
(***************************************************************************)
EXTENDS DwarfReader

Named == {"f", "g"}

Plain    == [tag |-> Other, name |-> "", nested |-> FALSE, declaration |-> FALSE,
             ref |-> NoRef, params |-> <<>>, file |-> NoFile]
Int4(n)  == [Plain EXCEPT !.tag = Base, !.name = n]
To(t, r) == [Plain EXCEPT !.tag = t, !.ref = r]
Fun(n, r, q, i) == [Plain EXCEPT !.tag = Function, !.name = n, !.ref = r, !.params = q, !.file = i]
Inside(d)       == [d EXCEPT !.nested = TRUE]
Declared(d)     == [d EXCEPT !.declaration = TRUE]
Whole(files, first, dies) == [files |-> files, first |-> first, readable |-> TRUE, dies |-> dies]
Damaged == [Whole(<<>>, 0, <<>>) EXCEPT !.readable = FALSE]

\* A function at some place, and three types at the others.
Types == {Int4("int")} \cup {To("pointer", r) : r \in 0 .. 4}
SingleDies ==
  {dies \in UNION {{InsertAt(ts, k, Fun("f", r, <<2>>, 0)) : ts \in Types \X Types \X Types, k \in 1 .. 4} :
                     r \in 0 .. 4} :
     \A k \in 1 .. 4 : dies[k].ref # k}

\* Beginnings and continuations of a file: the types of the second and the last continuation
\* are where others may be already.
Firsts ==
  {Whole(<<"a.c", "a.h">>, first, dies) :
     first \in {0, 1},
     dies  \in {<<Fun("f", 2, <<2>>, 1), Int4("int")>>,
                <<Fun("f", 2, <<2, 3>>, 0), Int4("int"), To("const", 2)>>,
                <<Plain, Inside(Fun("f", 4, <<3, 4>>, 1)), Inside(Int4("own")), Int4("int")>>}}
Seconds ==
  {Whole(files, first, dies) :
     files \in {<<"a.c", "a.h">>, <<"b.c", "a.h", "b.h">>}, first \in {0, 1},
     dies  \in {<<Fun("g", 5, <<4>>, 1), Declared(Fun("f", 5, <<>>, 1)), Plain, Int4("float"),
                  To("pointer", 4)>>,
                <<Fun("g", 2, <<3, NoRef>>, 1), Int4("float"), To("array", 2)>>,
                <<Fun("f", 4, <<4>>, 2), Fun("hidden", 4, <<>>, 0), Fun("g", 5, <<>>, NoFile),
                  Int4("char"), Int4("long")>>,
                <<To("pointer", 3), Fun("g", 1, <<4>>, 0), Int4("char"), To("const", 1)>>}}

Files ==
  {<<Whole(<<"a.c", "a.h">>, 0, dies)>> : dies \in SingleDies}
    \cup {<<u, v>> : u \in Firsts, v \in Seconds}
    \cup {<<u, Whole(<<>>, 0, <<>>), v>> : u \in Firsts, v \in Seconds}
    \cup {<<u, Damaged>> : u \in Firsts}
=============================================================================
