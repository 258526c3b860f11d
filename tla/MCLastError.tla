------------------------------ MODULE MCLastError ------------------------------
(***************************************************************************)
(* LastError with two threads; the first has two channels, the second one. *)
(***************************************************************************)
EXTENDS LastError

CONSTANTS t1, t2, c1, c2, c3

MCOwner == [c \in {c1, c2, c3} |-> IF c = c3 THEN t2 ELSE t1]
================================================================================
