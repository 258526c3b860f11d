------------------------------- MODULE SerialPort -------------------------------
(***************************************************************************)
(* Several sessions on serial ports: the serial options of fconfigure      *)
(* (setOptionProc and getOptionProc in src/src/tclvisa/visa_channel.c) and *)
(* visa::set-attribute on one of the attributes behind them, together with *)
(* the locks of VisaLocks.                                                 *)
(*                                                                         *)
(* An option stands for up to four VISA attributes, each read or written   *)
(* by a VISA call of its own, any of which may fail.  The attributes       *)
(* belong to the port, so the calls of several sessions mix unless a       *)
(* script takes a VISA lock, as demo/exclusive-lock.tcl does.  CONN_LOST   *)
(* stands for the errors of these calls, VI_ERROR_RSRC_LOCKED included.    *)
(***************************************************************************)
EXTENDS VisaLocks

CONSTANTS
  ModeArgs,     \* the values scripts give to -mode
  ControlArgs,  \* the lists scripts give to -ttycontrol
  Declinable    \* the attributes some device does not support every value of

ASSUME PortAssumption ==
  /\ ModeArgs \subseteq [baud : Nat, parity : STRING, data : Nat, stop : Nat]
  /\ ControlArgs \subseteq Seq(STRING) \ {<< >>}

VARIABLES
  port,       \* the attributes of each port that -mode stands for
  asked       \* history: the attributes and values of the last -mode of the
              \* script, given while it believed to hold the exclusive lock;
              \* none after an error, without those VISA has warned about

vars == <<port, asked, lockVars>>

BelievesLocked(s) == \E i \in DOMAIN told[s] : told[s][i] = "exclusive"

\* A step of VisaLocks leaves the ports alone.
LocksOnly(s) ==
  /\ asked' = [asked EXCEPT ![s] = IF BelievesLocked(s)' THEN @ ELSE {}]
  /\ UNCHANGED port

Unlocked == UNCHANGED <<sessions, ex, sh, key, orphaned, told, ordered>>

-------------------------------------------------------------------------------
(* The attributes and their Tcl forms *)

Parities == [n |-> "PAR_NONE", o |-> "PAR_ODD", e |-> "PAR_EVEN",
             m |-> "PAR_MARK", s |-> "PAR_SPACE"]

StopBits == {"STOP_ONE", "STOP_ONE5", "STOP_TWO"}

\* The values VISA defines for the attributes.
Modes == [BAUD : Nat, PARITY : {Parities[p] : p \in DOMAIN Parities},
          DATA : 5 .. 8, STOP : StopBits]

toVisaStopBits(n) ==
  IF n = 1 THEN "STOP_ONE" ELSE IF n = 2 THEN "STOP_TWO" ELSE "-1"

\* Stop bits without a Tcl form are shown as VISA has them.
fromVisaStopBits_Raw(v) ==
  IF v = "STOP_ONE" THEN 1 ELSE IF v = "STOP_TWO" THEN 2 ELSE 15

\* One and a half stop bits have no Tcl form.
fromVisaStopBits(v) ==
  IF v = "STOP_ONE" THEN 1 ELSE IF v = "STOP_TWO" THEN 2 ELSE -1

toVisaParity(p) == IF p \in DOMAIN Parities THEN Parities[p] ELSE "-1"

fromVisaParity(v) ==
  IF \E p \in DOMAIN Parities : Parities[p] = v
    THEN CHOOSE p \in DOMAIN Parities : Parities[p] = v
    ELSE "-1"

\* The attributes that a mode of Tcl's stands for.
ModeOf(m) ==
  {<<"BAUD", m.baud>>, <<"PARITY", Parities[m.parity]>>, <<"DATA", m.data>>,
   <<"STOP", CASE m.stop = 1 -> "STOP_ONE" [] m.stop = 2 -> "STOP_TWO" [] OTHER -> "STOP_ONE5">>}

\* The stop bits are not looked at.
TtyParseMode_AnyStop(m) == m.parity \in DOMAIN Parities /\ m.data \in 5 .. 8

\* Any baud rate is good.  A string of another form is refused as well.
TtyParseMode(m) ==
  m.parity \in DOMAIN Parities /\ m.data \in 5 .. 8 /\ m.stop \in 1 .. 2

\* What a script may ask a port for.
Requested == UNION {ModeOf(m) : m \in {n \in ModeArgs : TtyParseMode(n)}}

-------------------------------------------------------------------------------
(* Setting options *)

Bad == <<"bad", "bad">>

\* The parity is forgotten.
setTtyAttributes_NoParity(m) ==
  <<<<"BAUD", m.baud>>, <<"DATA", m.data>>, <<"STOP", toVisaStopBits(m.stop)>>>>

\* The VISA calls of an option, in order: attribute and value.
setTtyAttributes(m) ==
  <<<<"BAUD", m.baud>>, <<"PARITY", toVisaParity(m.parity)>>,
    <<"DATA", m.data>>, <<"STOP", toVisaStopBits(m.stop)>>>>

setMode(s) ==
  \E m \in ModeArgs :
    IF TtyParseMode(m)
      THEN /\ Start(s, "-mode", setTtyAttributes(m))
           /\ asked' = [asked EXCEPT ![s] = IF BelievesLocked(s) THEN ModeOf(m) ELSE {}]
      ELSE /\ Finish(s, None, "bad", NoMode)
           /\ UNCHANGED asked

setXchar(s) == Start(s, "-xchar", <<<<"XON", "c">>, <<"XOFF", "c">>>>)

setHandshake(s) == Start(s, "-handshake", <<<<"FLOW", "flow">>>>)

\* A list with an odd number of elements, a list of more or fewer than two
\* characters, or an unknown flow control is refused before any VISA call.
setRefused(s) == Finish(s, None, "bad", NoMode)

\* An unknown signal or a value that is no boolean is met only when its turn
\* comes; an empty list changes nothing and is left out.
setControl(s) ==
  \E list \in ControlArgs :
    Start(s, "-ttycontrol", [i \in DOMAIN list |-> IF list[i] \in {"DTR", "RTS", "BREAK"}
                                                    THEN <<list[i], "state">> ELSE Bad])

\* visa::set-attribute $c $visa::ATTR_ASRL_STOP_BITS 15, one and a half of them.
tclvisa_set_attribute(s) ==
  /\ Ready(s) /\ s \in Full
  /\ Start(s, "set-attribute", <<<<"STOP", "STOP_ONE5">>>>)
  /\ asked' = [asked EXCEPT ![s] = {}]
  /\ UNCHANGED port /\ Unlocked

setOptionProc(s) ==
  /\ Ready(s) /\ s \notin Lockers
  /\ \/ setMode(s)
     \/ /\ s \in Full
        /\ setXchar(s) \/ setHandshake(s) \/ setControl(s) \/ setRefused(s)
        /\ UNCHANGED asked
  /\ UNCHANGED port /\ Unlocked

Setting == {"set-attribute", "-mode", "-xchar", "-handshake", "-ttycontrol"}

\* What viSetAttribute may return; a warning says the value is not supported.
viSetAttribute(s, attr) ==
  IF LockedOut(s) THEN {CONN_LOST}
  ELSE {SUCCESS, CONN_LOST} \cup (IF attr \in Declinable THEN {WARN} ELSE {})

\* What is left of the asked attributes after the status of a call on attr.
Kept(pairs, attr, status) ==
  CASE status = SUCCESS -> pairs
    [] status = WARN    -> {pair \in pairs : pair[1] # attr}
    [] OTHER            -> {}

\* The next VISA call of the command.  The first error ends it; so does the last
\* call, whose status is stored, except by -ttycontrol.  A warning of an earlier
\* call is dropped: setTtyAttributes goes on as if VISA had taken the value.
SetNext(s) ==
  /\ op[s].cmd \in Setting
  /\ IF op[s].todo[1] = Bad
       THEN /\ Finish(s, None, "bad", NoMode)
            /\ UNCHANGED <<port, asked>>
       ELSE LET attr == op[s].todo[1][1] IN
            \E status \in viSetAttribute(s, attr) :
              /\ port' = IF status = SUCCESS /\ attr \in DOMAIN port[PortOf[s]]
                           THEN [port EXCEPT ![PortOf[s]][attr] = op[s].todo[1][2]]
                           ELSE port
              /\ asked' = IF op[s].cmd = "-mode"
                            THEN [asked EXCEPT ![s] = Kept(@, attr, status)] ELSE asked
              /\ IF IsError(status) THEN Finish(s, status, "error", NoMode)
                 ELSE IF Len(op[s].todo) > 1
                   THEN /\ op' = [op EXCEPT ![s] = [cmd |-> op[s].cmd, todo |-> Tail(@.todo),
                                                    got |-> << >>, status |-> SUCCESS]]
                        /\ answer' = NoAnswer
                        /\ UNCHANGED erred
                 ELSE Finish(s, IF op[s].cmd = "-ttycontrol" THEN None ELSE status, "ok", NoMode)
  /\ Unlocked

-------------------------------------------------------------------------------
(* Reading options *)

\* The attributes each option reads.
Reads == [mode      |-> <<"BAUD", "PARITY", "DATA", "STOP">>,
          xchar     |-> <<"XON", "XOFF">>,
          ttystatus |-> <<"CTS", "DSR", "RI", "DCD">>,
          handshake |-> <<"FLOW">>,
          queue     |-> <<"AVAIL_NUM">>]

getOptionProc(s) ==
  /\ Ready(s) /\ s \in Full
  /\ \E option \in DOMAIN Reads : Start(s, option, Reads[option])
  /\ UNCHANGED <<port, asked>> /\ Unlocked

\* Every option stores the status of its last read.
StoredRead_Last(cmd, before, status) == status

\* The status to be stored after another read: the first error; but -ttystatus
\* stores the status of its last read, whatever became of the others.
StoredRead(cmd, before, status) ==
  IF cmd # "ttystatus" /\ IsError(before) THEN before ELSE status

getTtyAttributes(got) ==
  [baud |-> got[1], parity |-> fromVisaParity(got[2]),
   data |-> got[3], stop |-> fromVisaStopBits(got[4])]

\* The next VISA call of the command.  Only -mode ends at the first error, and
\* -ttystatus succeeds in any case, leaving out what it could not read; the
\* others succeed when every read has.
GetNext(s) ==
  /\ op[s].cmd \in DOMAIN Reads
  /\ \E read \in {SUCCESS, CONN_LOST} :
       LET cmd    == op[s].cmd
           status == StoredRead(cmd, op[s].status, read)
           value  == IF cmd = "mode" THEN port[PortOf[s]][op[s].todo[1]] ELSE "value"
           got    == IF IsError(read) THEN op[s].got ELSE Append(op[s].got, value)
           all    == Len(got) = Len(Reads[cmd])
       IN  IF Len(op[s].todo) > 1 /\ ~ (cmd = "mode" /\ IsError(read))
             THEN /\ op' = [op EXCEPT ![s] = [cmd |-> cmd, todo |-> Tail(@.todo),
                                             got |-> got, status |-> status]]
                  /\ answer' = NoAnswer
                  /\ UNCHANGED erred
             ELSE Finish(s, status, IF all \/ cmd = "ttystatus" THEN "ok" ELSE "error",
                         IF all /\ cmd = "mode" THEN getTtyAttributes(got) ELSE NoMode)
  /\ UNCHANGED <<port, asked>> /\ Unlocked

-------------------------------------------------------------------------------

Init ==
  /\ port \in [Ports -> [BAUD : {9600}, PARITY : {"PAR_NONE"}, DATA : {8}, STOP : {"STOP_ONE"}]]
  /\ asked = [s \in Sessions |-> {}]
  /\ LocksInit

VisaReturns(s) == (LockReturns(s) /\ LocksOnly(s)) \/ SetNext(s) \/ GetNext(s)

Next ==
  \E s \in sessions :
    \/ tclvisa_lock(s) /\ LocksOnly(s)
    \/ LockFails(s) /\ LocksOnly(s)
    \/ tclvisa_unlock(s) /\ LocksOnly(s)
    \/ Reopen(s) /\ LocksOnly(s)
    \/ setOptionProc(s) \/ getOptionProc(s) \/ tclvisa_set_attribute(s)
    \/ VisaReturns(s)

\* Every thread keeps running and its VISA calls return; viLock does when the
\* lock stays free or the wait is over.  A script need not unlock.
Spec == Init /\ [][Next]_vars /\ \A s \in Sessions : WF_vars(VisaReturns(s))

-------------------------------------------------------------------------------
(* Properties *)

\* What the ports may be set to, whoever sets them: every value the driver
\* passes is one VISA defines.
TypeOK ==
  /\ LocksTypeOK
  /\ port \in [Ports -> Modes]
  /\ asked \in [Sessions -> SUBSET Requested]

\* The sessions whose scripts believe to have port p to themselves.
Holders(p) == {s \in sessions : PortOf[s] = p /\ BelievesLocked(s)}

Lock == INSTANCE PortLock WITH holders <- [p \in Ports |-> Holders(p)], command <- op

\* What scripts believe of the exclusive locks makes a lock with one owner, and
\* while a script believes, no other session changes the port until it unlocks
\* or closes its channel; not even by a command that had begun before the lock
\* was granted, nor once a nested lock is undone.
ImplementsPortLock == Lock!Spec

\* In particular, only the holder's command moves on when its port changes.
OnlyHolderWrites ==
  [][\A s \in sessions : BelievesLocked(s) /\ port'[PortOf[s]] # port[PortOf[s]] =>
       \A t \in Others(s) : UNCHANGED op[t]]_vars

\* A -mode that raised no error under the exclusive lock has set each of its
\* attributes but those VISA has warned about, and they stay until the script
\* changes them.  The script need not know of the warnings: setTtyAttributes
\* drops those of its first three calls.
LockedModeIsWhole ==
  \A s \in sessions :
    op[s].cmd # "-mode" =>
      \A pair \in asked[s] : port[PortOf[s]][pair[1]] = pair[2]

\* fconfigure -mode reads a mode that -mode accepts, as a script that puts the
\* old mode back expects (demo/fconfigure.tcl), even when other sessions' calls
\* come between its four reads; only one and a half stop bits, which no -mode
\* can set, are read as -1.  Under the lock it reads what the script has set
\* (LockedModeIsWhole).
ModeReadsBack ==
  answer.cmd = "mode" /\ answer.code = "ok" =>
    /\ TtyParseMode(answer.value) \/ answer.value.stop = -1
    /\ asked[answer.by] \subseteq ModeOf(answer.value)

\* visa::last-error tells an error exactly when the command has thrown one of
\* VISA's, however many VISA calls it made; but -ttystatus suppresses errors,
\* and a -ttycontrol that succeeds leaves the last error as it was.
LastErrorExplains ==
  /\ answer.code = "error" => answer.by \in erred
  /\ answer.code = "ok" /\ answer.cmd \notin {"ttystatus", "-ttycontrol"}
       => answer.by \notin erred

\* Every command of every session returns, a lock with a timeout included,
\* whatever other sessions do; all but a lock the script lets wait forever, and
\* that one too unless other sessions, one that VISA failed to close included,
\* keep the port locked or lock it again and again.
CommandsReturn == \A s \in Sessions : []<>(op[s] = Idle \/ WaitsForever(s))
================================================================================
