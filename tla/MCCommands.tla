------------------------------- MODULE MCCommands -------------------------------
(***************************************************************************)
(* Commands with 1- and 2-bit integers, values on either side of each edge *)
(* and files on either side of the largest count; two resources, so that a *)
(* search goes through its loop twice.                                     *)
(***************************************************************************)
EXTENDS Commands

MCInts  == {-4, -3, -1, 0, 1, 2, 3, 4}
MCSizes == {0, 2, 3, 4, 5}
MCStates == [type : {"ViInt16"}, value : {-1, 0}] \cup [type : {"ViUInt32"}, value : 0 .. 3]
================================================================================
