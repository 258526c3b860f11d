------------------------------- MODULE ByteStream -------------------------------
(***************************************************************************)
(* What a script is promised of the bytes that pass through a channel, in  *)
(* either direction: each byte arrives once and in order; bytes may be     *)
(* dropped on the way, but only by an operation that is seen to fail.      *)
(***************************************************************************)
EXTENDS Naturals, Sequences

VARIABLES
  pending,     \* the bytes on their way, oldest first
  arrived,     \* the bytes that have arrived, oldest first
  next,        \* the next byte to enter the stream
  failed       \* the last operation has failed

vars == <<pending, arrived, next, failed>>

Init ==
  /\ pending = << >>
  /\ arrived = << >>
  /\ next = 1
  /\ ~ failed

Run(from, to) == [i \in 1 .. to - from + 1 |-> from + i - 1]

Begin ==
  /\ ~ failed'
  /\ UNCHANGED <<pending, arrived, next>>

Enter ==
  /\ next' > next
  /\ pending' = pending \o Run(next, next' - 1)
  /\ failed' \in {failed, FALSE}
  /\ UNCHANGED arrived

Arrive ==
  /\ \E k \in 1 .. Len(pending) :
       /\ arrived' = arrived \o SubSeq(pending, 1, k)
       /\ pending' = SubSeq(pending, k + 1, Len(pending))
  /\ ~ failed'
  /\ UNCHANGED next

\* A run of pending bytes, perhaps an empty one, is lost.
Fail ==
  /\ failed'
  /\ \E i, j \in 0 .. Len(pending) :
       /\ i <= j
       /\ pending' = SubSeq(pending, 1, i) \o SubSeq(pending, j + 1, Len(pending))
  /\ UNCHANGED <<arrived, next>>

Next == Begin \/ Enter \/ Arrive \/ Fail

Spec == Init /\ [][Next]_vars
================================================================================
