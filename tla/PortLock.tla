-------------------------------- MODULE PortLock --------------------------------
(***************************************************************************)
(* What visa::lock promises the scripts (doc/tclvisa.tex, visa::lock, and  *)
(* demo/exclusive-lock.tcl): a port has at most one holder, which takes it *)
(* only when nobody has it and gives it back itself; and while it has one, *)
(* nobody else's command changes the port.  Who else waits, for how long,  *)
(* and how many VISA calls a command takes, is left open.                  *)
(***************************************************************************)
CONSTANTS Sessions, PortOf

VARIABLES
  holders,    \* the sessions that have a port to themselves: one, or none
  port,       \* the attributes of each port
  command     \* the command each session is in

vars == <<holders, port, command>>

Init == holders = [p \in {PortOf[s] : s \in Sessions} |-> {}]

Take(s) ==
  /\ holders[PortOf[s]] = {}
  /\ holders' = [holders EXCEPT ![PortOf[s]] = {s}]
  /\ UNCHANGED port

GiveBack(s) ==
  /\ holders[PortOf[s]] = {s}
  /\ holders' = [holders EXCEPT ![PortOf[s]] = {}]
  /\ UNCHANGED port

Configure(s) ==
  /\ holders[PortOf[s]] \subseteq {s}
  /\ port' = [port EXCEPT ![PortOf[s]] = port'[PortOf[s]]]
  /\ UNCHANGED holders

\* Anything else a session does.
Work == UNCHANGED <<holders, port>>

Next ==
  \E s \in Sessions :
    /\ Take(s) \/ GiveBack(s) \/ Configure(s) \/ Work
    /\ \A t \in Sessions \ {s} : UNCHANGED command[t]

Spec == Init /\ [][Next]_vars
================================================================================
