------------------------------ MODULE VisaChannel ------------------------------
(***************************************************************************)
(* The channel driver's emulation of non-blocking I/O                      *)
(* (src/src/tclvisa/visa_channel.c).  VISA knows only timeouts, so the     *)
(* driver turns "non-blocking" into a zero timeout, keeps the script's     *)
(* timeout aside meanwhile and puts it back afterwards.  Three parties     *)
(* hold a piece of the state:                                              *)
(*   - VISA: the attribute VI_ATTR_TMO_VALUE of each session (tmo);        *)
(*   - the driver: VisaChannelData.blocking, .timeout and .lastError;      *)
(*   - Tcl's generic channel layer: its own non-blocking flag, changed     *)
(*     only when blockModeProc returns 0 (tclBlocking).                    *)
(* Every VISA call may fail, and every step is one command of a script.    *)
(***************************************************************************)
EXTENDS Integers, VisaStatus

CONSTANTS
  Channels,        \* the open VISA channels
  RMChannels,      \* those with isRMSession set
  Half,            \* 2^31: an int is in -Half .. Half-1
  DefaultTimeout,  \* the timeout VISA gives a new session
  ScriptInts,      \* the integers the script uses as timeouts
  LongIs64         \* a C long is wider than a ViUInt32 (LP64)

ASSUME ChannelAssumption ==
  /\ RMChannels \subseteq Channels
  /\ Half \in Nat \ {0}
  /\ DefaultTimeout \in 0 .. 2 * Half - 1
  /\ ScriptInts \subseteq Int
  /\ LongIs64 \in BOOLEAN

VARIABLES
  blocking,     \* VisaChannelData.blocking
  timeout,      \* VisaChannelData.timeout, meaningful while not blocking
  lastError,    \* VisaChannelData.lastError
  tmo,          \* VI_ATTR_TMO_VALUE of the session
  tclBlocking,  \* Tcl's CHANNEL_NONBLOCKING flag, negated
  reply,        \* what the last command told the script
  wanted,       \* history: the timeout the script last set and VISA took
  lost          \* history: VISA has declined to restore it since

vars == <<blocking, timeout, lastError, tmo, tclBlocking, reply, wanted, lost>>

-------------------------------------------------------------------------------
(* C and Tcl integers *)

Timeouts  == 0 .. 2 * Half - 1          \* ViUInt32
IMMEDIATE == 0                          \* VI_TMO_IMMEDIATE

\* Tcl_GetInt and Tcl_GetIntFromObj accept any integer of that magnitude...
FitsInt(n) == n \in 1 - 2 * Half .. 2 * Half - 1

\* ...and store it in an int, which the callers cast to ViUInt32 (the mutant
\* forgets the cast).
GetUInt32_NoCast(n) == n

GetUInt32(n) == IF n < 0 THEN n + 2 * Half ELSE n

\* (int) of a ViUInt32.
ToInt(u) == IF u >= Half THEN u - 2 * Half ELSE u

\* The conversion of a ViUInt32 to a C long.
ToLong(u) == IF LongIs64 THEN u ELSE ToInt(u)

-------------------------------------------------------------------------------
(* VISA's timeout attribute, and the driver's bookkeeping *)

\* What viSetAttribute answers: it may also warn that it does not support the
\* value, which setVisaTimeout takes for success.
AttrStatus == {SUCCESS, WARN, CONN_LOST}

\* What viGetAttribute answers.
ReadStatus == {SUCCESS, CONN_LOST}

\* VISA takes the value only when it neither refuses nor warns.
viSetTimeout(c, v, status) ==
  tmo' = IF status = SUCCESS THEN [tmo EXCEPT ![c] = v] ELSE tmo

storeLastError(c, status) ==
  lastError' = [lastError EXCEPT ![c] = status]

Reply(c, cmd, code, value) ==
  reply' = [chan |-> c, cmd |-> cmd, code |-> code, value |-> value]

\* A script's attempt to set the timeout to v: what it may rely on afterwards.
\* In non-blocking mode the driver takes it, VISA is asked later.
Request(c, v, isBlocking, status) ==
  IF isBlocking => status = SUCCESS
    THEN /\ wanted' = [wanted EXCEPT ![c] = v]
         /\ lost' = [lost EXCEPT ![c] = FALSE]
    ELSE UNCHANGED <<wanted, lost>>

\* The mode test lost: the timeout goes to VISA although the channel is
\* non-blocking.
setVisaTimeout_NoModeTest(c, isBlocking, v, status) ==
  /\ viSetTimeout(c, v, status)
  /\ storeLastError(c, status)
  /\ UNCHANGED timeout

\* In non-blocking mode the value is kept for later and VISA is not called:
\* neither the attribute nor the last error changes.
setVisaTimeout(c, isBlocking, v, status) ==
  IF isBlocking
    THEN /\ viSetTimeout(c, v, status)
         /\ storeLastError(c, status)
         /\ UNCHANGED timeout
    ELSE /\ timeout' = [timeout EXCEPT ![c] = v]
         /\ UNCHANGED <<tmo, lastError>>

setVisaTimeoutResult(isBlocking, status) ==
  IF isBlocking THEN CommandResult(status) ELSE TCL_OK

\* The value getVisaTimeout delivers, when it delivers one.
Effective(c) == IF blocking[c] THEN tmo[c] ELSE timeout[c]

getVisaTimeout(c, status) ==
  IF blocking[c] THEN storeLastError(c, status) ELSE UNCHANGED lastError

-------------------------------------------------------------------------------
(* fconfigure $c -blocking *)

\* Tcl's SetBlockMode: the flag follows only a driver that returned 0.
SetBlockMode(c, mode, result) ==
  /\ tclBlocking' = IF result = 0 THEN [tclBlocking EXCEPT ![c] = mode]
                                  ELSE tclBlocking
  /\ Reply(c, IF mode THEN "-blocking 1" ELSE "-blocking 0",
           IF result = 0 THEN TCL_OK ELSE TCL_ERROR, 0)

blockModeRM(c, mode) ==
  /\ c \in RMChannels
  /\ SetBlockMode(c, mode, -1)
  /\ UNCHANGED <<blocking, timeout, lastError, tmo, wanted, lost>>

\* The channel is already in that mode: nothing but the Tcl flag changes.
blockModeSame(c, mode) ==
  /\ c \notin RMChannels
  /\ blocking[c] = mode
  /\ SetBlockMode(c, mode, 0)
  /\ UNCHANGED <<blocking, timeout, lastError, tmo, wanted, lost>>

\* The timeout set while the flag still says non-blocking: nothing is restored.
blockModeBlocking_RestoreFirst(c) ==
  /\ c \notin RMChannels
  /\ ~ blocking[c]
  /\ blocking' = [blocking EXCEPT ![c] = TRUE]
  /\ \E status \in AttrStatus :
       /\ setVisaTimeout(c, FALSE, timeout[c], status)
       /\ SetBlockMode(c, TRUE, -1)
       /\ UNCHANGED <<wanted, lost>>

\* TCL_MODE_BLOCKING: `return setVisaTimeout(...) ? 0 : -1` tests a Tcl result
\* code, and TCL_OK is zero: a restored timeout is reported as -1, a failed
\* restore as 0.
blockModeBlocking(c) ==
  /\ c \notin RMChannels
  /\ ~ blocking[c]
  /\ blocking' = [blocking EXCEPT ![c] = TRUE]
  /\ \E status \in AttrStatus :
       /\ setVisaTimeout(c, TRUE, timeout[c], status)
       /\ SetBlockMode(c, TRUE,
            IF setVisaTimeoutResult(TRUE, status) = TCL_OK THEN -1 ELSE 0)
       /\ lost' = [lost EXCEPT ![c] = @ \/ status # SUCCESS]
  /\ UNCHANGED wanted

\* The mode is changed although the current timeout could not be read.
blockModeNonblocking_IgnoresGet(c) ==
  /\ c \notin RMChannels
  /\ blocking[c]
  /\ blocking' = [blocking EXCEPT ![c] = FALSE]
  /\ \E get \in ReadStatus, set \in AttrStatus :
       IF IsError(get)
         THEN /\ storeLastError(c, get)
              /\ SetBlockMode(c, FALSE, 1)
              /\ UNCHANGED <<timeout, tmo>>
         ELSE /\ timeout' = [timeout EXCEPT ![c] = tmo[c]]
              /\ viSetTimeout(c, IMMEDIATE, set)
              /\ storeLastError(c, set)
              /\ SetBlockMode(c, FALSE, 0)
  /\ UNCHANGED <<wanted, lost>>

\* TCL_MODE_NONBLOCKING: save the current timeout, set a zero one.  The mode
\* changes when the timeout could be read, whether or not it could be zeroed.
blockModeNonblocking(c) ==
  /\ c \notin RMChannels
  /\ blocking[c]
  /\ \E get \in ReadStatus, set \in AttrStatus :
       IF IsError(get)
         THEN /\ storeLastError(c, get)
              /\ SetBlockMode(c, FALSE, 1)
              /\ UNCHANGED <<blocking, timeout, tmo>>
         ELSE /\ timeout' = [timeout EXCEPT ![c] = tmo[c]]
              /\ viSetTimeout(c, IMMEDIATE, set)
              /\ storeLastError(c, set)
              /\ blocking' = [blocking EXCEPT ![c] = FALSE]
              /\ SetBlockMode(c, FALSE, 0)
  /\ UNCHANGED <<wanted, lost>>

-------------------------------------------------------------------------------
(* The timeout, by either interface *)

Rejected(c, cmd) ==
  /\ Reply(c, cmd, TCL_ERROR, 0)
  /\ UNCHANGED <<blocking, timeout, lastError, tmo, tclBlocking, wanted, lost>>

SetTimeout(c, cmd, n) ==
  \E status \in AttrStatus :
    /\ setVisaTimeout(c, blocking[c], GetUInt32(n), status)
    /\ Reply(c, cmd, setVisaTimeoutResult(blocking[c], status), 0)
    /\ Request(c, GetUInt32(n), blocking[c], status)
    /\ UNCHANGED <<blocking, tclBlocking>>

\* fconfigure $c -timeout n
setOptionTimeout(c, n) ==
  IF c \in RMChannels \/ ~ FitsInt(n)
    THEN Rejected(c, "fconfigure -timeout n")
    ELSE SetTimeout(c, "fconfigure -timeout n", n)

\* visa::set-attribute $c $visa::ATTR_TMO_VALUE n
tclvisa_set_attribute(c, n) ==
  IF ~ FitsInt(n)
    THEN Rejected(c, "set-attribute")
    ELSE SetTimeout(c, "set-attribute", n)

GetTimeout(c, cmd, value) ==
  \E status \in ReadStatus :
    /\ getVisaTimeout(c, status)
    /\ IF blocking[c] /\ IsError(status)
         THEN Reply(c, cmd, TCL_ERROR, 0)
         ELSE Reply(c, cmd, TCL_OK, value)
    /\ UNCHANGED <<blocking, timeout, tmo, tclBlocking, wanted, lost>>

\* The device's timeout shown in place of the script's.
getOptionTimeout_Device(c) ==
  IF c \in RMChannels THEN Rejected(c, "fconfigure -timeout")
                      ELSE GetTimeout(c, "fconfigure -timeout", ToInt(tmo[c]))

\* fconfigure $c -timeout, printed with %d
getOptionTimeout(c) ==
  IF c \in RMChannels
    THEN Rejected(c, "fconfigure -timeout")
    ELSE GetTimeout(c, "fconfigure -timeout", ToInt(Effective(c)))

\* visa::get-attribute $c $visa::ATTR_TMO_VALUE, returned as a long
tclvisa_get_attribute(c) ==
  GetTimeout(c, "get-attribute", ToLong(Effective(c)))

\* A command that makes one VISA call and stores its status, like visa::clear.
tclvisa_clear(c) ==
  \E status \in ViStatus :
    /\ storeLastError(c, status)
    /\ Reply(c, "clear", CommandResult(status), 0)
    /\ UNCHANGED <<blocking, timeout, tmo, tclBlocking, wanted, lost>>

-------------------------------------------------------------------------------

Init ==
  /\ blocking    = [c \in Channels |-> TRUE]
  /\ timeout     = [c \in Channels |-> 0]
  /\ lastError   = [c \in Channels |-> SUCCESS]
  /\ tmo         = [c \in Channels |-> DefaultTimeout]
  /\ tclBlocking = [c \in Channels |-> TRUE]
  /\ \E c \in Channels :
       reply = [chan |-> c, cmd |-> "open", code |-> TCL_OK, value |-> 0]
  /\ wanted      = [c \in Channels |-> DefaultTimeout]
  /\ lost        = [c \in Channels |-> FALSE]

Next ==
  \E c \in Channels :
    \/ \E mode \in BOOLEAN : blockModeRM(c, mode) \/ blockModeSame(c, mode)
    \/ blockModeBlocking(c)
    \/ blockModeNonblocking(c)
    \/ \E n \in ScriptInts : setOptionTimeout(c, n) \/ tclvisa_set_attribute(c, n)
    \/ getOptionTimeout(c)
    \/ tclvisa_get_attribute(c)
    \/ tclvisa_clear(c)

Spec == Init /\ [][Next]_vars

-------------------------------------------------------------------------------
(* Properties *)

Reads == {"fconfigure -timeout", "get-attribute"}

Commands == Reads \cup {"open", "-blocking 0", "-blocking 1",
                        "fconfigure -timeout n", "set-attribute", "clear"}

Replies ==
  [chan : Channels, cmd : Commands, code : {TCL_OK, TCL_ERROR}, value : Int]

\* The state has the C types: in particular every timeout VISA is ever given,
\* and every one the driver keeps, is a ViUInt32, whatever integer the script
\* passed; and an RM session never leaves blocking mode.
TypeOK ==
  /\ blocking    \in [Channels -> BOOLEAN]
  /\ timeout     \in [Channels -> Timeouts]
  /\ lastError   \in [Channels -> ViStatus]
  /\ tmo         \in [Channels -> Timeouts]
  /\ tclBlocking \in [Channels -> BOOLEAN]
  /\ reply       \in Replies
  /\ wanted      \in [Channels -> Timeouts]
  /\ lost        \in [Channels -> BOOLEAN]

\* However often the mode is switched, and whatever is set meanwhile by either
\* interface, the timeout in force once the channel blocks is the last one of
\* the script's that VISA took, unless VISA itself declined (with an error or a
\* warning) to restore it.
TimeoutKept == \A c \in Channels : lost[c] \/ Effective(c) = wanted[c]

\* Tcl's channel layer never takes a channel for a blocking one while the
\* driver is in non-blocking mode (where a zero read means "try again", which
\* a blocking channel would report to the script as an error).
TclNeverAhead == \A c \in Channels : tclBlocking[c] => blocking[c]

\* A timeout read successfully, by fconfigure or by get-attribute and in either
\* mode, denotes the script's timeout: passed back to a set command it is
\* accepted and changes nothing.
ReadBackDenotesTimeout ==
  (reply.cmd \in Reads /\ reply.code = TCL_OK) =>
     /\ FitsInt(reply.value)
     /\ GetUInt32(reply.value) = Effective(reply.chan)

\* A non-blocking channel's device has a zero timeout: the command that leaves
\* blocking mode sets it, or VISA refuses or warns and visa::last-error says so,
\* although fconfigure does not; and no command gives the device another while
\* the channel stays in that mode.
NonblockingNeverBlocks ==
  [][\A c \in Channels :
       ~ blocking'[c] =>
         IF blocking[c] THEN tmo'[c] = IMMEDIATE \/ lastError'[c] # SUCCESS
                        ELSE tmo'[c] = tmo[c]]_vars

\* The driver's two places for the timeout are together one register, whose
\* value survives every mode switch in which VISA takes it back, and which in
\* blocking mode changes only when VISA takes the new value (doc/tclvisa.tex,
\* "Non-blocking IO").
Register == INSTANCE TimeoutRegister WITH
  value    <- [c \in Channels |-> Effective(c)],
  mode     <- blocking,
  answer   <- lastError,
  Default  <- DefaultTimeout,
  Answers  <- ViStatus,
  Accepted <- SUCCESS

ImplementsRegister == Register!Spec

\* doc/tclvisa.tex:157: "When channel is reverted back to the blocking mode ...
\* timeout is restored to the previous value".  Reverting to blocking mode
\* should report success exactly when that happened; blockModeProc does not.
RevertReported ==
  [][\A c \in Channels :
       ~ blocking[c] /\ blocking'[c] =>
         (reply'.code = TCL_OK <=> tmo'[c] = timeout[c])]_vars
================================================================================
