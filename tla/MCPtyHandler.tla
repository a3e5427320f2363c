--------------------------- MODULE MCPtyHandler ---------------------------
(* What is typed, for TLC: ASCII, of as many bytes as UTF-16 units, or with an accent. *)
EXTENDS PtyHandler

Ascii   == {[units |-> 2, bytes |-> 2]}
Accents == {[units |-> 2, bytes |-> 2], [units |-> 2, bytes |-> 3]}
=============================================================================
