---------------------------- MODULE MCGraphCache ----------------------------
(* Readers of one key scope while content is written. *)
EXTENDS GraphCache

CONSTANTS r1, r2, w1, w2, anon
=============================================================================
