---------------------------- MODULE MCVisaSession ----------------------------
(***************************************************************************)
(* VisaSession with two threads and three session numbers: an RM with two  *)
(* instruments, or two RMs that compete for one number.                    *)
(***************************************************************************)
EXTENDS VisaSession
================================================================================
