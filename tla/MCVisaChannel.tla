---------------------------- MODULE MCVisaChannel ----------------------------
(***************************************************************************)
(* VisaChannel on a device session and a resource manager session, with a  *)
(* 2-bit ViUInt32 and the integers around each of its edges.               *)
(***************************************************************************)
EXTENDS VisaChannel

MCHalf == 2

\* Out of range on either side, minus one (VI_TMO_INFINITE cast to int), zero
\* (VI_TMO_IMMEDIATE), INT_MAX and INT_MAX + 1.
MCScriptInts == {-4, -1, 0, 1, 2, 4}
================================================================================
