--------------------------- MODULE MCChannelOutput ---------------------------
(***************************************************************************)
(* ChannelOutput with lines of up to three bytes, so that a write can be   *)
(* cut twice, and two of the longest in all.                               *)
(***************************************************************************)
EXTENDS ChannelOutput
================================================================================
