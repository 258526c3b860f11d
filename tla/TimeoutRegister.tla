---------------------------- MODULE TimeoutRegister ----------------------------
(***************************************************************************)
(* What a script is promised about the I/O timeout of a VISA channel       *)
(* (doc/tclvisa.tex, "IO Timeouts" and "Non-blocking IO"): each channel    *)
(* has one timeout, which the script sets, and a blocking mode, which the  *)
(* script switches.  In blocking mode the timeout is VISA's, so setting it *)
(* takes VISA's consent; in non-blocking mode it is only remembered.       *)
(* Switching the mode leaves the timeout alone, unless VISA declines it on *)
(* the way back to blocking mode: then, and only then, it may be lost.     *)
(***************************************************************************)
CONSTANTS
  Channels, Timeouts, Default,
  Answers,       \* what VISA may answer
  Accepted       \* the answer that says it did what it was asked

VARIABLES
  value,         \* the timeout of each channel
  mode,          \* mode[c] is TRUE in blocking mode
  answer         \* what VISA answered last, as visa::last-error reports it

vars == <<value, mode, answer>>

Init ==
  /\ value  = [c \in Channels |-> Default]
  /\ mode   = [c \in Channels |-> TRUE]
  /\ answer = [c \in Channels |-> Accepted]

Answered(c, answers) ==
  \E a \in answers : answer' = [answer EXCEPT ![c] = a]

Set(c) ==
  /\ \E v \in Timeouts : value' = [value EXCEPT ![c] = v]
  /\ IF mode[c] THEN Answered(c, {Accepted}) ELSE UNCHANGED answer
  /\ UNCHANGED mode

Switch(c) ==
  /\ mode' = [mode EXCEPT ![c] = ~ @]
  /\ Answered(c, Answers)
  /\ UNCHANGED value

\* VISA has just declined to take the remembered timeout back.
Lose(c) ==
  /\ ~ mode[c]
  /\ mode' = [mode EXCEPT ![c] = TRUE]
  /\ Answered(c, Answers \ {Accepted})
  /\ \E v \in Timeouts : value' = [value EXCEPT ![c] = v]

\* Any other use of VISA, a refused Set among them.
Call(c) ==
  /\ Answered(c, Answers)
  /\ UNCHANGED <<value, mode>>

Next == \E c \in Channels : Set(c) \/ Switch(c) \/ Lose(c) \/ Call(c)

Spec == Init /\ [][Next]_vars
================================================================================
