---------------------------- MODULE MCLiveString ----------------------------
(* Bytes for TLC: an ASCII character and one that is not. *)
EXTENDS LiveString

Utf8 == {1, -1}
=============================================================================
