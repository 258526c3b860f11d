---------------------------- MODULE MCChannelInput ----------------------------
(***************************************************************************)
(* ChannelInput with a buffer of two bytes and a device that sends four,   *)
(* any of them newlines: a line, or a read of three bytes, may take two    *)
(* reads of VISA, and one may bring the end of a line and the start of the *)
(* next.  A read of five bytes ends at a timeout or an empty response.     *)
(***************************************************************************)
EXTENDS ChannelInput
================================================================================
