--------------------------- MODULE VisaChannelProofs ---------------------------
(***************************************************************************)
(* Proofs about VisaChannel, for any set of channels, any integer width    *)
(* and any integers a script may pass.  One lemma per invariant, one step  *)
(* per action of Next.                                                     *)
(***************************************************************************)
EXTENDS VisaChannel, TLAPS

-------------------------------------------------------------------------------
(* Integer conversions *)

\* Whatever integer the script passes, VISA gets a ViUInt32.
LEMMA GetUInt32Type ==
  ASSUME NEW n \in Int, FitsInt(n)
  PROVE  GetUInt32(n) \in Timeouts
BY ChannelAssumption DEF GetUInt32, FitsInt, Timeouts

\* A ViUInt32 shown as an int or as a long is accepted back and is the same.
LEMMA RoundTrip ==
  ASSUME NEW u \in Timeouts, NEW n \in {ToInt(u), ToLong(u)}
  PROVE  n \in Int /\ FitsInt(n) /\ GetUInt32(n) = u
BY ChannelAssumption DEF GetUInt32, FitsInt, Timeouts, ToInt, ToLong

\* What the script reads or keeps is a ViUInt32.
LEMMA EffectiveType ==
  ASSUME TypeOK, NEW c \in Channels
  PROVE  Effective(c) \in Timeouts
BY DEF TypeOK, Effective

-------------------------------------------------------------------------------
(* Type correctness *)

\* A reply of the right types is a member of Replies.
LEMMA ReplyType ==
  ASSUME NEW c \in Channels, NEW cmd \in Commands, NEW code, NEW n \in Int,
         code \in {TCL_OK, TCL_ERROR}, Reply(c, cmd, code, n)
  PROVE  reply' \in Replies
BY DEF Reply, Replies

LEMMA CodeType ==
  ASSUME NEW status, NEW b
  PROVE  /\ CommandResult(status) \in {TCL_OK, TCL_ERROR}
         /\ setVisaTimeoutResult(b, status) \in {TCL_OK, TCL_ERROR}
BY DEF CommandResult, setVisaTimeoutResult

\* Whatever blockModeProc returns, Tcl's flag stays a Boolean.
LEMMA SetBlockModeType ==
  ASSUME NEW c \in Channels, NEW mode \in BOOLEAN, NEW result \in Int,
         tclBlocking \in [Channels -> BOOLEAN], SetBlockMode(c, mode, result)
  PROVE  reply' \in Replies /\ tclBlocking' \in [Channels -> BOOLEAN]
<1> DEFINE cmd == IF mode THEN "-blocking 1" ELSE "-blocking 0"
           code == IF result = 0 THEN TCL_OK ELSE TCL_ERROR
<1>1. cmd \in Commands
  BY DEF Commands
<1>2. code \in {TCL_OK, TCL_ERROR}
  OBVIOUS
<1>3. Reply(c, cmd, code, 0)
  BY DEF SetBlockMode
<1>4. reply' \in Replies
  <2> HIDE DEF cmd, code
  <2> QED BY <1>1, <1>2, <1>3, ReplyType
<1>5. tclBlocking' \in [Channels -> BOOLEAN]
  BY DEF SetBlockMode
<1> QED
  BY <1>4, <1>5

LEMMA InitTypeOK == Init => TypeOK
<1> SUFFICES ASSUME Init PROVE TypeOK
  OBVIOUS
<1>1. reply \in Replies
  BY DEF Init, Replies, Commands
<1>2. DefaultTimeout \in Timeouts /\ 0 \in Timeouts
  BY ChannelAssumption DEF Timeouts
<1> QED
  BY <1>1, <1>2 DEF Init, TypeOK, ViStatus

LEMMA NextTypeOK == TypeOK /\ [Next]_vars => TypeOK'
<1> SUFFICES ASSUME TypeOK, [Next]_vars PROVE TypeOK'
  OBVIOUS
<1> USE DEF TypeOK
<1>0. IMMEDIATE \in Timeouts /\ AttrStatus \subseteq ViStatus /\ ReadStatus \subseteq ViStatus
  BY ChannelAssumption DEF IMMEDIATE, Timeouts, AttrStatus, ReadStatus, ViStatus
<1>1. ASSUME NEW c \in Channels, NEW mode \in BOOLEAN, blockModeRM(c, mode)
      PROVE TypeOK'
  <2>1. reply' \in Replies /\ tclBlocking' \in [Channels -> BOOLEAN]
    BY <1>1, SetBlockModeType, -1 \in Int DEF blockModeRM
  <2> QED
    BY <1>1, <2>1 DEF blockModeRM
<1>2. ASSUME NEW c \in Channels, NEW mode \in BOOLEAN, blockModeSame(c, mode)
      PROVE TypeOK'
  <2>1. reply' \in Replies /\ tclBlocking' \in [Channels -> BOOLEAN]
    BY <1>2, SetBlockModeType DEF blockModeSame
  <2> QED
    BY <1>2, <2>1 DEF blockModeSame
<1>3. ASSUME NEW c \in Channels, blockModeBlocking(c) PROVE TypeOK'
  <2>1. PICK status \in AttrStatus :
          /\ setVisaTimeout(c, TRUE, timeout[c], status)
          /\ SetBlockMode(c, TRUE,
               IF setVisaTimeoutResult(TRUE, status) = TCL_OK THEN -1 ELSE 0)
          /\ lost' = [lost EXCEPT ![c] = @ \/ status # SUCCESS]
    BY <1>3 DEF blockModeBlocking
  <2>2. PICK result \in Int : SetBlockMode(c, TRUE, result)
    BY <2>1, -1 \in Int, 0 \in Int
  <2>3. reply' \in Replies /\ tclBlocking' \in [Channels -> BOOLEAN]
    BY <2>2, SetBlockModeType
  <2>4. tmo' \in [Channels -> Timeouts] /\ timeout' \in [Channels -> Timeouts]
        /\ lastError' \in [Channels -> ViStatus]
    BY <1>0, <2>1 DEF setVisaTimeout, viSetTimeout, storeLastError
  <2>5. lost' \in [Channels -> BOOLEAN]
    <3>1. (status # SUCCESS) \in BOOLEAN
      OBVIOUS
    <3>2. (lost[c] \/ status # SUCCESS) \in BOOLEAN
      BY <3>1
    <3> QED
      BY <2>1, <3>2
  <2> QED
    BY <1>3, <2>3, <2>4, <2>5 DEF blockModeBlocking
<1>4. ASSUME NEW c \in Channels, blockModeNonblocking(c) PROVE TypeOK'
  <2>1. PICK get \in ReadStatus, set \in AttrStatus :
          IF IsError(get)
            THEN /\ storeLastError(c, get)
                 /\ SetBlockMode(c, FALSE, 1)
                 /\ UNCHANGED <<blocking, timeout, tmo>>
            ELSE /\ timeout' = [timeout EXCEPT ![c] = tmo[c]]
                 /\ viSetTimeout(c, IMMEDIATE, set)
                 /\ storeLastError(c, set)
                 /\ blocking' = [blocking EXCEPT ![c] = FALSE]
                 /\ SetBlockMode(c, FALSE, 0)
    BY <1>4 DEF blockModeNonblocking
  <2>2. reply' \in Replies /\ tclBlocking' \in [Channels -> BOOLEAN]
    <3>1. CASE IsError(get)
      BY <2>1, <3>1, SetBlockModeType, 1 \in Int
    <3>2. CASE ~ IsError(get)
      BY <2>1, <3>2, SetBlockModeType, 0 \in Int
    <3> QED
      BY <3>1, <3>2
  <2>3. /\ tmo' \in [Channels -> Timeouts]
        /\ timeout' \in [Channels -> Timeouts]
        /\ lastError' \in [Channels -> ViStatus]
        /\ blocking' \in [Channels -> BOOLEAN]
    BY <1>0, <2>1 DEF viSetTimeout, storeLastError
  <2> QED
    BY <1>4, <2>2, <2>3 DEF blockModeNonblocking
<1>5. ASSUME NEW c \in Channels, NEW cmd \in Commands, Rejected(c, cmd)
      PROVE TypeOK'
  <2>1. reply' \in Replies
    BY <1>5, ReplyType DEF Rejected
  <2> QED
    BY <1>5, <2>1 DEF Rejected
<1>6. ASSUME NEW c \in Channels, NEW cmd \in Commands, NEW n \in Int,
             FitsInt(n), SetTimeout(c, cmd, n)
      PROVE TypeOK'
  <2>1. GetUInt32(n) \in Timeouts
    BY <1>6, GetUInt32Type
  <2>2. PICK status \in AttrStatus :
          /\ setVisaTimeout(c, blocking[c], GetUInt32(n), status)
          /\ Reply(c, cmd, setVisaTimeoutResult(blocking[c], status), 0)
          /\ Request(c, GetUInt32(n), blocking[c], status)
          /\ UNCHANGED <<blocking, tclBlocking>>
    BY <1>6 DEF SetTimeout
  <2>3. reply' \in Replies
    BY <2>2, ReplyType, CodeType
  <2>4. tmo' \in [Channels -> Timeouts] /\ timeout' \in [Channels -> Timeouts]
        /\ lastError' \in [Channels -> ViStatus]
    BY <1>0, <2>1, <2>2 DEF setVisaTimeout, viSetTimeout, storeLastError
  <2>5. wanted' \in [Channels -> Timeouts] /\ lost' \in [Channels -> BOOLEAN]
    BY <2>1, <2>2 DEF Request
  <2> QED
    BY <2>2, <2>3, <2>4, <2>5
<1>7. ASSUME NEW c \in Channels, NEW cmd \in Commands, NEW n \in Int,
             GetTimeout(c, cmd, n)
      PROVE TypeOK'
  <2>1. PICK status \in ReadStatus :
          /\ getVisaTimeout(c, status)
          /\ IF blocking[c] /\ IsError(status)
               THEN Reply(c, cmd, TCL_ERROR, 0)
               ELSE Reply(c, cmd, TCL_OK, n)
          /\ UNCHANGED <<blocking, timeout, tmo, tclBlocking, wanted, lost>>
    BY <1>7 DEF GetTimeout
  <2>2. reply' \in Replies
    <3>1. CASE blocking[c] /\ IsError(status)
      BY <2>1, <3>1, ReplyType, 0 \in Int
    <3>2. CASE ~ (blocking[c] /\ IsError(status))
      BY <2>1, <3>2, ReplyType
    <3> QED
      BY <3>1, <3>2
  <2> QED
    BY <1>0, <2>1, <2>2 DEF getVisaTimeout, storeLastError
<1>8. ASSUME NEW c \in Channels, tclvisa_clear(c) PROVE TypeOK'
  <2>1. PICK status \in ViStatus :
          /\ storeLastError(c, status)
          /\ Reply(c, "clear", CommandResult(status), 0)
          /\ UNCHANGED <<blocking, timeout, tmo, tclBlocking, wanted, lost>>
    BY <1>8 DEF tclvisa_clear
  <2>2. "clear" \in Commands /\ 0 \in Int
    BY DEF Commands
  <2>3. reply' \in Replies
    BY <2>1, <2>2, ReplyType, CodeType
  <2> QED
    BY <2>1, <2>3 DEF storeLastError
<1>9. ASSUME NEW c \in Channels, NEW n \in ScriptInts,
             setOptionTimeout(c, n) \/ tclvisa_set_attribute(c, n)
      PROVE TypeOK'
  <2>1. n \in Int
    BY ChannelAssumption
  <2> QED
    BY <2>1, <1>5, <1>6, <1>9
    DEF setOptionTimeout, tclvisa_set_attribute, Commands
<1>10. ASSUME NEW c \in Channels, getOptionTimeout(c) \/ tclvisa_get_attribute(c)
       PROVE TypeOK'
  <2>1. ToInt(Effective(c)) \in Int /\ ToLong(Effective(c)) \in Int
    BY EffectiveType, RoundTrip
  <2>2. "fconfigure -timeout" \in Commands /\ "get-attribute" \in Commands
    BY DEF Commands, Reads
  <2> QED
    BY <2>1, <2>2, <1>5, <1>7, <1>10 DEF getOptionTimeout, tclvisa_get_attribute
<1>11. CASE UNCHANGED vars
  BY <1>11 DEF vars
<1> QED
  BY <1>1, <1>2, <1>3, <1>4, <1>8, <1>9, <1>10, <1>11 DEF Next

\* Every timeout VISA is given, and every one the driver keeps, is a ViUInt32.
THEOREM TypeCorrect == Spec => []TypeOK
BY InitTypeOK, NextTypeOK, PTL DEF Spec

-------------------------------------------------------------------------------
(* The timeout survives the mode switches *)

\* The body of both set commands: the channel's value becomes n, which takes
\* VISA's consent in blocking mode, or stays.
LEMMA SetTimeoutEffect ==
  ASSUME TypeOK, NEW c \in Channels, NEW cmd, NEW n \in Int, FitsInt(n),
         SetTimeout(c, cmd, n)
  PROVE  \E taken \in BOOLEAN :
           /\ taken => /\ Effective(c)' = GetUInt32(n)
                       /\ wanted' = [wanted EXCEPT ![c] = GetUInt32(n)]
                       /\ lost' = [lost EXCEPT ![c] = FALSE]
                       /\ IF blocking[c]
                            THEN lastError' = [lastError EXCEPT ![c] = SUCCESS]
                            ELSE UNCHANGED lastError
           /\ ~ taken => /\ Effective(c)' = Effective(c)
                         /\ UNCHANGED <<wanted, lost>>
                         /\ \E a \in ViStatus : lastError' = [lastError EXCEPT ![c] = a]
           /\ \A d \in Channels \ {c} : Effective(d)' = Effective(d)
           /\ UNCHANGED <<blocking, tclBlocking>>
           /\ ~ blocking[c] => UNCHANGED tmo
           /\ \A d \in Channels \ {c} : tmo'[d] = tmo[d]
<1> USE DEF TypeOK
<1>1. PICK status \in AttrStatus :
        /\ setVisaTimeout(c, blocking[c], GetUInt32(n), status)
        /\ Request(c, GetUInt32(n), blocking[c], status)
        /\ UNCHANGED <<blocking, tclBlocking>>
  BY DEF SetTimeout
<1>2. status \in ViStatus
  BY DEF AttrStatus, ViStatus
<1>3. CASE blocking[c]
  <2>1. /\ tmo' = IF status = SUCCESS THEN [tmo EXCEPT ![c] = GetUInt32(n)] ELSE tmo
        /\ lastError' = [lastError EXCEPT ![c] = status]
        /\ timeout' = timeout
    BY <1>1, <1>3 DEF setVisaTimeout, viSetTimeout, storeLastError
  <2>2. CASE status = SUCCESS
    <3>1. /\ wanted' = [wanted EXCEPT ![c] = GetUInt32(n)]
          /\ lost' = [lost EXCEPT ![c] = FALSE]
      BY <1>1, <2>2 DEF Request
    <3>2. /\ Effective(c)' = GetUInt32(n)
          /\ \A d \in Channels \ {c} : Effective(d)' = Effective(d)
          /\ \A d \in Channels \ {c} : tmo'[d] = tmo[d]
      BY <1>1, <1>3, <2>1, <2>2 DEF Effective
    <3> WITNESS TRUE \in BOOLEAN
    <3> QED
      BY <1>1, <1>3, <2>1, <2>2, <3>1, <3>2
  <2>3. CASE status # SUCCESS
    <3>1. UNCHANGED <<wanted, lost>>
      BY <1>1, <1>3, <2>3 DEF Request
    <3>2. /\ Effective(c)' = Effective(c)
          /\ \A d \in Channels \ {c} : Effective(d)' = Effective(d)
          /\ \A d \in Channels \ {c} : tmo'[d] = tmo[d]
      BY <1>1, <1>3, <2>1, <2>3 DEF Effective
    <3> WITNESS FALSE \in BOOLEAN
    <3> QED
      BY <1>1, <1>2, <1>3, <2>1, <3>1, <3>2
  <2> QED
    BY <2>2, <2>3
<1>4. CASE ~ blocking[c]
  <2>1. timeout' = [timeout EXCEPT ![c] = GetUInt32(n)] /\ UNCHANGED <<tmo, lastError>>
    BY <1>1, <1>4 DEF setVisaTimeout
  <2>2. /\ wanted' = [wanted EXCEPT ![c] = GetUInt32(n)]
        /\ lost' = [lost EXCEPT ![c] = FALSE]
    BY <1>1, <1>4 DEF Request
  <2>3. /\ Effective(c)' = GetUInt32(n)
        /\ \A d \in Channels \ {c} : Effective(d)' = Effective(d)
    BY <1>1, <1>4, <2>1 DEF Effective
  <2> WITNESS TRUE \in BOOLEAN
  <2> QED
    BY <1>1, <1>4, <2>1, <2>2, <2>3
<1> QED
  BY <1>3, <1>4

\* The reads, the rejected commands and visa::clear: at most the last error
\* of one channel changes.
Quiet ==
  /\ UNCHANGED <<blocking, timeout, tmo, tclBlocking, wanted, lost>>
  /\ \/ UNCHANGED lastError
     \/ \E c \in Channels, a \in ViStatus : lastError' = [lastError EXCEPT ![c] = a]

LEMMA QuietActions ==
  ASSUME TypeOK, NEW c \in Channels,
         \/ getOptionTimeout(c) \/ tclvisa_get_attribute(c) \/ tclvisa_clear(c)
         \/ \E cmd \in Commands : Rejected(c, cmd)
  PROVE  Quiet
<1>1. ASSUME NEW cmd, Rejected(c, cmd) PROVE Quiet
  BY <1>1 DEF Quiet, Rejected
<1>2. ASSUME NEW cmd, NEW v, GetTimeout(c, cmd, v) PROVE Quiet
  <2>1. ReadStatus \subseteq ViStatus
    BY DEF ReadStatus, ViStatus
  <2> QED
    BY <1>2, <2>1 DEF Quiet, GetTimeout, getVisaTimeout, storeLastError
<1>3. ASSUME tclvisa_clear(c) PROVE Quiet
  BY <1>3 DEF Quiet, tclvisa_clear, storeLastError
<1> QED
  BY <1>1, <1>2, <1>3 DEF getOptionTimeout, tclvisa_get_attribute

LEMMA MinusOne == -1 # 0
OBVIOUS

LEMMA One == 1 # 0
BY SMT

LEMMA InvariantStep ==
  TypeOK /\ TimeoutKept /\ TclNeverAhead /\ [Next]_vars
    => TimeoutKept' /\ TclNeverAhead'
<1> SUFFICES ASSUME TypeOK, TimeoutKept, TclNeverAhead, [Next]_vars
             PROVE  TimeoutKept' /\ TclNeverAhead'
  OBVIOUS
<1> USE DEF TypeOK, TimeoutKept, TclNeverAhead
<1>1. ASSUME NEW c \in Channels, NEW mode \in BOOLEAN,
             blockModeRM(c, mode) \/ blockModeSame(c, mode)
      PROVE  TimeoutKept' /\ TclNeverAhead'
  <2>1. UNCHANGED <<blocking, timeout, tmo, wanted, lost>>
    BY <1>1 DEF blockModeRM, blockModeSame
  <2>2. \/ tclBlocking' = tclBlocking
        \/ blocking[c] = mode /\ tclBlocking' = [tclBlocking EXCEPT ![c] = mode]
    <3>1. CASE blockModeRM(c, mode)
      BY <3>1, MinusOne DEF blockModeRM, SetBlockMode
    <3>2. CASE blockModeSame(c, mode)
      BY <3>2 DEF blockModeSame, SetBlockMode
    <3> QED
      BY <1>1, <3>1, <3>2
  <2>3. TimeoutKept'
    BY <2>1 DEF Effective
  <2>4. TclNeverAhead'
    BY <2>1, <2>2
  <2> QED
    BY <2>3, <2>4
<1>2. ASSUME NEW c \in Channels, blockModeBlocking(c)
      PROVE  TimeoutKept' /\ TclNeverAhead'
  <2>1. PICK status \in AttrStatus :
          /\ setVisaTimeout(c, TRUE, timeout[c], status)
          /\ SetBlockMode(c, TRUE,
               IF setVisaTimeoutResult(TRUE, status) = TCL_OK THEN -1 ELSE 0)
          /\ lost' = [lost EXCEPT ![c] = @ \/ status # SUCCESS]
    BY <1>2 DEF blockModeBlocking
  <2>2. TimeoutKept'
    <3>1. CASE status # SUCCESS
      BY <1>2, <2>1, <3>1
      DEF blockModeBlocking, setVisaTimeout, viSetTimeout, Effective
    <3>2. CASE status = SUCCESS
      BY <1>2, <2>1, <3>2
      DEF blockModeBlocking, setVisaTimeout, viSetTimeout, Effective
    <3> QED
      BY <3>1, <3>2
  <2>3. TclNeverAhead'
    BY <1>2, <2>1 DEF blockModeBlocking, SetBlockMode
  <2> QED
    BY <2>2, <2>3
<1>3. ASSUME NEW c \in Channels, blockModeNonblocking(c)
      PROVE  TimeoutKept' /\ TclNeverAhead'
  <2>1. TimeoutKept'
    <3>1. \/ UNCHANGED <<blocking, timeout, tmo>>
          \/ /\ timeout' = [timeout EXCEPT ![c] = tmo[c]]
             /\ blocking' = [blocking EXCEPT ![c] = FALSE]
             /\ \A d \in Channels \ {c} : tmo'[d] = tmo[d]
      BY <1>3 DEF blockModeNonblocking, viSetTimeout
    <3>2. blocking[c] /\ UNCHANGED <<wanted, lost>>
      BY <1>3 DEF blockModeNonblocking
    <3>3. \A d \in Channels : Effective(d)' = Effective(d)
      BY <3>1, <3>2 DEF Effective
    <3> QED
      BY <3>2, <3>3
  <2>2. TclNeverAhead'
    BY <1>3 DEF blockModeNonblocking, SetBlockMode
  <2> QED
    BY <2>1, <2>2
<1>4. ASSUME Quiet
      PROVE  TimeoutKept' /\ TclNeverAhead'
  BY <1>4 DEF Quiet, Effective
<1>5. ASSUME NEW c \in Channels, NEW cmd, NEW n \in Int, FitsInt(n),
             SetTimeout(c, cmd, n)
      PROVE  TimeoutKept' /\ TclNeverAhead'
  <2>1. PICK taken \in BOOLEAN :
          /\ taken => /\ Effective(c)' = GetUInt32(n)
                      /\ wanted' = [wanted EXCEPT ![c] = GetUInt32(n)]
                      /\ lost' = [lost EXCEPT ![c] = FALSE]
          /\ ~ taken => Effective(c)' = Effective(c) /\ UNCHANGED <<wanted, lost>>
          /\ \A d \in Channels \ {c} : Effective(d)' = Effective(d)
          /\ UNCHANGED <<blocking, tclBlocking>>
    BY <1>5, SetTimeoutEffect
  <2>2. TimeoutKept'
    <3>1. CASE taken
      BY <2>1, <3>1
    <3>2. CASE ~ taken
      BY <2>1, <3>2
    <3> QED
      BY <3>1, <3>2
  <2> QED
    BY <2>1, <2>2
<1>6. ASSUME NEW c \in Channels, NEW n \in ScriptInts,
             setOptionTimeout(c, n) \/ tclvisa_set_attribute(c, n)
      PROVE  TimeoutKept' /\ TclNeverAhead'
  <2>1. n \in Int
    BY ChannelAssumption
  <2> QED
    BY <2>1, <1>4, <1>5, <1>6, QuietActions
    DEF setOptionTimeout, tclvisa_set_attribute, Commands
<1>7. CASE UNCHANGED vars
  BY <1>7 DEF vars, Effective
<1> QED
  BY <1>1, <1>2, <1>3, <1>4, <1>6, <1>7, QuietActions DEF Next

\* The last timeout of the script's that VISA took survives any sequence of mode
\* switches and settings, but for a restore that VISA declines.
THEOREM TimeoutIsKept == Spec => []TimeoutKept
<1>1. Init => TimeoutKept /\ TclNeverAhead
  BY DEF Init, TimeoutKept, TclNeverAhead, Effective
<1> QED
  BY <1>1, TypeCorrect, InvariantStep, PTL DEF Spec

\* Tcl never takes for blocking a channel whose driver does not block.
THEOREM TclIsNeverAhead == Spec => []TclNeverAhead
<1>1. Init => TimeoutKept /\ TclNeverAhead
  BY DEF Init, TimeoutKept, TclNeverAhead, Effective
<1> QED
  BY <1>1, TypeCorrect, InvariantStep, PTL DEF Spec

-------------------------------------------------------------------------------
(* The device's timeout in non-blocking mode *)

LEMMA NonblockingStep ==
  ASSUME TypeOK, [Next]_vars, NEW d \in Channels, ~ blocking[d], ~ blocking'[d]
  PROVE  tmo'[d] = tmo[d]
<1> USE DEF TypeOK
<1>1. ASSUME NEW c \in Channels, NEW mode \in BOOLEAN,
             blockModeRM(c, mode) \/ blockModeSame(c, mode)
      PROVE  tmo'[d] = tmo[d]
  BY <1>1 DEF blockModeRM, blockModeSame
<1>2. ASSUME NEW c \in Channels, blockModeBlocking(c)
      PROVE  tmo'[d] = tmo[d]
  <2>1. c # d
    BY <1>2 DEF blockModeBlocking
  <2> QED
    BY <1>2, <2>1 DEF blockModeBlocking, setVisaTimeout, viSetTimeout
<1>3. ASSUME NEW c \in Channels, blockModeNonblocking(c)
      PROVE  tmo'[d] = tmo[d]
  <2>1. c # d
    BY <1>3 DEF blockModeNonblocking
  <2> QED
    BY <1>3, <2>1 DEF blockModeNonblocking, viSetTimeout
<1>4. ASSUME NEW c \in Channels, NEW n \in ScriptInts,
             setOptionTimeout(c, n) \/ tclvisa_set_attribute(c, n)
      PROVE  tmo'[d] = tmo[d]
  <2>1. n \in Int
    BY ChannelAssumption
  <2>2. ASSUME NEW cmd, FitsInt(n), SetTimeout(c, cmd, n) PROVE tmo'[d] = tmo[d]
    BY <2>1, <2>2, SetTimeoutEffect
  <2> QED
    BY <1>4, <2>2 DEF setOptionTimeout, tclvisa_set_attribute, Rejected
<1>5. ASSUME Quiet PROVE tmo'[d] = tmo[d]
  BY <1>5 DEF Quiet
<1>6. CASE UNCHANGED vars
  BY <1>6 DEF vars
<1> QED
  BY <1>1, <1>2, <1>3, <1>4, <1>5, <1>6, QuietActions DEF Next

\* Only blockModeNonblocking leaves blocking mode, with the status of its second
\* VISA call as the last error.
LEMMA NonblockingEntered ==
  ASSUME TypeOK, [Next]_vars, NEW d \in Channels, blocking[d], ~ blocking'[d]
  PROVE  tmo'[d] = IMMEDIATE \/ lastError'[d] # SUCCESS
<1> USE DEF TypeOK
<1>1. ASSUME NEW c \in Channels, NEW mode \in BOOLEAN,
             blockModeRM(c, mode) \/ blockModeSame(c, mode)
      PROVE  FALSE
  BY <1>1 DEF blockModeRM, blockModeSame
<1>2. ASSUME NEW c \in Channels, blockModeBlocking(c)
      PROVE  FALSE
  BY <1>2 DEF blockModeBlocking
<1>3. ASSUME NEW c \in Channels, blockModeNonblocking(c)
      PROVE  tmo'[d] = IMMEDIATE \/ lastError'[d] # SUCCESS
  <2>1. c = d
    BY <1>3 DEF blockModeNonblocking
  <2>2. PICK get \in ReadStatus, set \in AttrStatus :
          /\ ~ IsError(get)
          /\ viSetTimeout(c, IMMEDIATE, set)
          /\ storeLastError(c, set)
    BY <1>3, <2>1 DEF blockModeNonblocking
  <2> QED
    BY <2>1, <2>2 DEF viSetTimeout, storeLastError
<1>4. ASSUME NEW c \in Channels, NEW n \in ScriptInts,
             setOptionTimeout(c, n) \/ tclvisa_set_attribute(c, n)
      PROVE  FALSE
  BY <1>4 DEF setOptionTimeout, tclvisa_set_attribute, Rejected, SetTimeout
<1>5. ASSUME Quiet PROVE FALSE
  BY <1>5 DEF Quiet
<1>6. CASE UNCHANGED vars
  BY <1>6 DEF vars
<1> QED
  BY <1>1, <1>2, <1>3, <1>4, <1>5, <1>6, QuietActions DEF Next

\* A channel becomes non-blocking with a zero timeout, or with a last error or
\* warning that says why not, and no command gives the device a timeout while it stays so.
THEOREM NonblockingIsKept == Spec => NonblockingNeverBlocks
<1>1. TypeOK /\ [Next]_vars =>
        [\A c \in Channels :
           ~ blocking'[c] =>
             IF blocking[c] THEN tmo'[c] = IMMEDIATE \/ lastError'[c] # SUCCESS
                            ELSE tmo'[c] = tmo[c]]_vars
  BY NonblockingStep, NonblockingEntered
<1> QED
  BY <1>1, TypeCorrect, PTL DEF Spec, NonblockingNeverBlocks

-------------------------------------------------------------------------------
(* A timeout read back denotes the script's timeout *)

\* Only the two read commands reply under their names, and their value is the
\* effective timeout, which they leave alone.
LEMMA ReadBackStep ==
  TypeOK /\ ReadBackDenotesTimeout /\ [Next]_vars => ReadBackDenotesTimeout'
<1> SUFFICES ASSUME TypeOK, ReadBackDenotesTimeout, [Next]_vars
             PROVE  ReadBackDenotesTimeout'
  OBVIOUS
<1>1. ASSUME NEW c \in Channels, NEW mode, NEW result, SetBlockMode(c, mode, result)
      PROVE  reply'.cmd \notin Reads
  BY <1>1 DEF SetBlockMode, Reply, Reads
<1>2. ASSUME NEW c \in Channels, NEW cmd, cmd \notin Reads, NEW code, NEW v,
             Reply(c, cmd, code, v)
      PROVE  reply'.cmd \notin Reads
  BY <1>2 DEF Reply
<1>3. ASSUME NEW c \in Channels, NEW cmd, Rejected(c, cmd)
      PROVE  reply'.code # TCL_OK
  BY <1>3 DEF Rejected, Reply, TCL_OK, TCL_ERROR
<1>4. ASSUME NEW c \in Channels, NEW cmd,
             NEW n \in {ToInt(Effective(c)), ToLong(Effective(c))},
             GetTimeout(c, cmd, n)
      PROVE  ReadBackDenotesTimeout'
  <2>1. UNCHANGED <<blocking, timeout, tmo>>
    BY <1>4 DEF GetTimeout
  <2>2. Effective(c)' = Effective(c)
    BY <2>1 DEF Effective
  <2>3. \/ reply'.code = TCL_ERROR
        \/ reply'.chan = c /\ reply'.value = n
    BY <1>4 DEF GetTimeout, Reply
  <2>4. FitsInt(n) /\ GetUInt32(n) = Effective(c)
    BY RoundTrip, EffectiveType
  <2>5. CASE reply'.code = TCL_ERROR
    BY <2>5 DEF ReadBackDenotesTimeout, TCL_OK, TCL_ERROR
  <2>6. CASE reply'.chan = c /\ reply'.value = n
    BY <2>2, <2>4, <2>6 DEF ReadBackDenotesTimeout
  <2> QED
    BY <2>3, <2>5, <2>6
<1>5. reply'.cmd \notin Reads \/ reply'.code # TCL_OK => ReadBackDenotesTimeout'
  BY DEF ReadBackDenotesTimeout
<1>6. ASSUME NEW c \in Channels, NEW mode \in BOOLEAN,
             \/ blockModeRM(c, mode) \/ blockModeSame(c, mode)
             \/ blockModeBlocking(c) \/ blockModeNonblocking(c)
      PROVE  ReadBackDenotesTimeout'
  <2>1. \E m, result : SetBlockMode(c, m, result)
    BY <1>6 DEF blockModeRM, blockModeSame, blockModeBlocking, blockModeNonblocking
  <2> QED
    BY <1>1, <1>5, <2>1
<1>7. ASSUME NEW c \in Channels, NEW n \in ScriptInts,
             setOptionTimeout(c, n) \/ tclvisa_set_attribute(c, n)
      PROVE  ReadBackDenotesTimeout'
  <2>1. "fconfigure -timeout n" \notin Reads /\ "set-attribute" \notin Reads
    BY DEF Reads
  <2>2. ASSUME NEW cmd, cmd \notin Reads, SetTimeout(c, cmd, n)
        PROVE  reply'.cmd \notin Reads
    BY <1>2, <2>2 DEF SetTimeout
  <2> QED
    BY <1>3, <1>5, <1>7, <2>1, <2>2 DEF setOptionTimeout, tclvisa_set_attribute
<1>8. ASSUME NEW c \in Channels, getOptionTimeout(c) \/ tclvisa_get_attribute(c)
      PROVE  ReadBackDenotesTimeout'
  BY <1>3, <1>4, <1>5, <1>8 DEF getOptionTimeout, tclvisa_get_attribute
<1>9. ASSUME NEW c \in Channels, tclvisa_clear(c)
      PROVE  ReadBackDenotesTimeout'
  <2>1. "clear" \notin Reads
    BY DEF Reads
  <2> QED
    BY <1>2, <1>5, <1>9, <2>1 DEF tclvisa_clear
<1>10. CASE UNCHANGED vars
  BY <1>10 DEF vars, ReadBackDenotesTimeout, Effective
<1> QED
  BY <1>6, <1>7, <1>8, <1>9, <1>10 DEF Next

\* A timeout read in either mode and by either interface, on 32-bit and 64-bit
\* longs, is the script's timeout once passed back.
THEOREM ReadBackIsFaithful == Spec => []ReadBackDenotesTimeout
<1>1. Init => ReadBackDenotesTimeout
  BY DEF Init, ReadBackDenotesTimeout, Reads
<1> QED
  BY <1>1, TypeCorrect, ReadBackStep, PTL DEF Spec

-------------------------------------------------------------------------------
(* Refinement of TimeoutRegister *)

Value == [c \in Channels |-> Effective(c)]

\* A step that leaves every value, mode and answer alone stutters.
LEMMA RegisterStutter ==
  ASSUME \A c \in Channels : Effective(c)' = Effective(c), blocking' = blocking,
         lastError' = lastError
  PROVE  UNCHANGED Register!vars
BY DEF Register!vars

\* One that changes no more than an answer is a call of VISA.
LEMMA RegisterCall ==
  ASSUME NEW c \in Channels, NEW a \in ViStatus,
         \A d \in Channels : Effective(d)' = Effective(d), blocking' = blocking,
         lastError' = [lastError EXCEPT ![c] = a]
  PROVE  Register!Call(c)
BY DEF Register!Call, Register!Answered

LEMMA RegisterInit == Init => Register!Init
BY DEF Init, Register!Init, Effective

LEMMA RegisterStep == TypeOK /\ [Next]_vars => [Register!Next]_(Register!vars)
<1> SUFFICES ASSUME TypeOK, [Next]_vars PROVE Register!Next \/ UNCHANGED Register!vars
  OBVIOUS
<1> USE DEF TypeOK
<1>1. ASSUME NEW c \in Channels, NEW mode \in BOOLEAN,
             blockModeRM(c, mode) \/ blockModeSame(c, mode)
      PROVE  UNCHANGED Register!vars
  BY <1>1, RegisterStutter DEF blockModeRM, blockModeSame, Effective
<1>2. ASSUME NEW c \in Channels, blockModeBlocking(c)
      PROVE  Register!Switch(c) \/ Register!Lose(c)
  <2>1. PICK status \in AttrStatus : setVisaTimeout(c, TRUE, timeout[c], status)
    BY <1>2 DEF blockModeBlocking
  <2>2. /\ ~ blocking[c]
        /\ blocking' = [blocking EXCEPT ![c] = TRUE]
        /\ blocking' = [blocking EXCEPT ![c] = ~ @]
    BY <1>2 DEF blockModeBlocking
  <2>3. lastError' = [lastError EXCEPT ![c] = status] /\ status \in ViStatus
    BY <2>1 DEF setVisaTimeout, storeLastError, AttrStatus, ViStatus
  <2>4. CASE status # SUCCESS
    <3>1. /\ \A d \in Channels \ {c} : Effective(d)' = Effective(d)
          /\ Effective(c)' = tmo[c]
      BY <2>1, <2>2, <2>4 DEF setVisaTimeout, viSetTimeout, Effective
    <3>2. Value' = [Value EXCEPT ![c] = tmo[c]]
      BY <3>1 DEF Value
    <3>3. tmo[c] \in Timeouts
      OBVIOUS
    <3>4. Register!Answered(c, ViStatus \ {SUCCESS})
      BY <2>3, <2>4 DEF Register!Answered
    <3> QED
      BY <2>2, <3>2, <3>3, <3>4 DEF Register!Lose, Value
  <2>5. CASE status = SUCCESS
    <3>1. \A d \in Channels : Effective(d)' = Effective(d)
      BY <2>1, <2>2, <2>5 DEF setVisaTimeout, viSetTimeout, Effective
    <3>2. Register!Answered(c, ViStatus)
      BY <2>3 DEF Register!Answered
    <3> QED
      BY <2>2, <3>1, <3>2 DEF Register!Switch
  <2> QED
    BY <2>4, <2>5
<1>3. ASSUME NEW c \in Channels, blockModeNonblocking(c)
      PROVE  Register!Switch(c) \/ Register!Call(c)
  <2>1. blocking[c]
    BY <1>3 DEF blockModeNonblocking
  <2>2. PICK a \in ViStatus : lastError' = [lastError EXCEPT ![c] = a]
    <3>1. ReadStatus \subseteq ViStatus /\ AttrStatus \subseteq ViStatus
      BY DEF ReadStatus, AttrStatus, ViStatus
    <3> QED
      BY <1>3, <3>1 DEF blockModeNonblocking, storeLastError
  <2>3. CASE UNCHANGED <<blocking, timeout, tmo>>
    <3>1. \A d \in Channels : Effective(d)' = Effective(d)
      BY <2>3 DEF Effective
    <3> QED
      BY <2>2, <2>3, <3>1, RegisterCall
  <2>4. CASE /\ timeout' = [timeout EXCEPT ![c] = tmo[c]]
             /\ blocking' = [blocking EXCEPT ![c] = FALSE]
             /\ \A d \in Channels \ {c} : tmo'[d] = tmo[d]
    <3>1. \A d \in Channels : Effective(d)' = Effective(d)
      BY <2>1, <2>4 DEF Effective
    <3>2. blocking' = [blocking EXCEPT ![c] = ~ @]
      BY <2>1, <2>4
    <3>3. Register!Answered(c, ViStatus)
      BY <2>2 DEF Register!Answered
    <3> QED
      BY <3>1, <3>2, <3>3 DEF Register!Switch
  <2> QED
    BY <1>3, <2>3, <2>4 DEF blockModeNonblocking, viSetTimeout
<1>4. ASSUME NEW c \in Channels, NEW n \in ScriptInts,
             setOptionTimeout(c, n) \/ tclvisa_set_attribute(c, n)
      PROVE  Register!Set(c) \/ Register!Call(c) \/ UNCHANGED Register!vars
  <2>1. n \in Int
    BY ChannelAssumption
  <2>2. ASSUME NEW cmd, FitsInt(n), SetTimeout(c, cmd, n)
        PROVE  Register!Set(c) \/ Register!Call(c)
    <3>1. PICK taken \in BOOLEAN :
            /\ taken => /\ Effective(c)' = GetUInt32(n)
                        /\ IF blocking[c]
                             THEN lastError' = [lastError EXCEPT ![c] = SUCCESS]
                             ELSE UNCHANGED lastError
            /\ ~ taken => /\ Effective(c)' = Effective(c)
                          /\ \E a \in ViStatus : lastError' = [lastError EXCEPT ![c] = a]
            /\ \A d \in Channels \ {c} : Effective(d)' = Effective(d)
            /\ UNCHANGED <<blocking, tclBlocking>>
      BY <2>1, <2>2, SetTimeoutEffect
    <3>2. GetUInt32(n) \in Timeouts
      BY <2>1, <2>2, GetUInt32Type
    <3>3. CASE taken
      <4>1. Value' = [Value EXCEPT ![c] = GetUInt32(n)]
        BY <3>1, <3>3 DEF Value
      <4>2. IF blocking[c] THEN Register!Answered(c, {SUCCESS}) ELSE UNCHANGED lastError
        BY <3>1, <3>3 DEF Register!Answered
      <4> QED
        BY <3>1, <3>2, <4>1, <4>2 DEF Register!Set, Value
    <3>4. CASE ~ taken
      <4>1. \A d \in Channels : Effective(d)' = Effective(d)
        BY <3>1, <3>4
      <4> QED
        BY <3>1, <3>4, <4>1, RegisterCall
    <3> QED
      BY <3>3, <3>4
  <2>3. ASSUME NEW cmd, Rejected(c, cmd) PROVE UNCHANGED Register!vars
    BY <2>3, RegisterStutter DEF Rejected, Effective
  <2> QED
    BY <1>4, <2>2, <2>3 DEF setOptionTimeout, tclvisa_set_attribute
<1>5. ASSUME Quiet PROVE Register!Next \/ UNCHANGED Register!vars
  <2>1. \A d \in Channels : Effective(d)' = Effective(d)
    BY <1>5 DEF Quiet, Effective
  <2> QED
    BY <1>5, <2>1, RegisterStutter, RegisterCall DEF Quiet, Register!Next
<1>6. CASE UNCHANGED vars
  BY <1>6, RegisterStutter DEF vars, Effective
<1> QED
  BY <1>1, <1>2, <1>3, <1>4, <1>5, <1>6, QuietActions DEF Next, Register!Next

\* The driver's two places for the timeout implement one register per channel,
\* whose value only a setting that VISA takes changes, or a restore that VISA has
\* just declined.
THEOREM RefinesRegister == Spec => ImplementsRegister
BY TypeCorrect, RegisterInit, RegisterStep, PTL
DEF Spec, ImplementsRegister, Register!Spec

-------------------------------------------------------------------------------
(* The modes that ChannelInput and ChannelOutput assume *)

\* Channel c as gets and puts see it between two commands, with nothing buffered.
Input(c) == INSTANCE ChannelInput WITH
  BufSize <- 1, Total <- 0, ReadSizes <- {1},
  blocking <- blocking[c], tclBlocking <- tclBlocking[c], lastError <- lastError[c],
  newlines <- {}, outgoing <- << >>, next <- 1, phase <- "idle", want <- 0, buf <- << >>,
  ret <- [result |-> 0, errno |-> "unset"], buffered <- << >>, eof <- FALSE,
  shortRead <- FALSE, delivered <- << >>, dropped <- 0, answer <- "busy",
  queue <- [in |-> -1, sent |-> 0]

Output(c) == INSTANCE ChannelOutput WITH
  MaxLine <- 1, MaxBytes <- 0,
  blocking <- blocking[c], lastError <- lastError[c], phase <- "idle", closing <- FALSE,
  queue <- << >>, ret <- [result |-> 0, errno |-> "unset"], answer <- "none",
  ready <- TRUE, received <- << >>, sent <- 0, dropped <- 0, next <- 1

\* A change of mode that ChannelInput knows, and one that ChannelOutput knows.
ModeSeen(c) ==
  /\ Input(c)!SwitchMode \/ UNCHANGED <<blocking[c], tclBlocking[c]>>
  /\ Output(c)!SwitchMode \/ UNCHANGED blocking[c]

LEMMA ModesInitially == Init => \A c \in Channels : Input(c)!Init /\ Output(c)!Init
<1> SUFFICES ASSUME Init, NEW c \in Channels PROVE Input(c)!Init /\ Output(c)!Init
  OBVIOUS
<1>1. blocking[c] = TRUE /\ tclBlocking[c] = TRUE /\ lastError[c] = SUCCESS
  BY DEF Init
<1> QED
  BY <1>1 DEF Input!Init, Output!Init, Input!NoErrno, Output!NoErrno, Input!Line, Input!NoQueue,
              Input!SUCCESS, Output!SUCCESS, SUCCESS

\* What a switch of channel c does, as the two modules say it.
LEMMA ModeSwitch ==
  ASSUME NEW c \in Channels,
         \/ blocking[c] /\ lastError'[c] = CONN_LOST
              /\ UNCHANGED <<blocking[c], tclBlocking[c]>>
         \/ blocking[c] /\ lastError'[c] \in AttrStatus
              /\ blocking'[c] = FALSE /\ tclBlocking'[c] = FALSE
         \/ ~ blocking[c] /\ blocking'[c] = TRUE /\ lastError'[c] \in AttrStatus
              /\ tclBlocking'[c] = IsError(lastError'[c])
         \/ tclBlocking'[c] = blocking[c] /\ UNCHANGED <<blocking[c], lastError[c]>>
  PROVE  ModeSeen(c)
<1>1. Input(c)!SwitchMode
  BY DEF Input!SwitchMode, Input!Configures, Input!NoQueue, Input!modeVars, Input!deviceVars,
         Input!inputVars, Input!historyVars, Input!SUCCESS, Input!WARN, Input!CONN_LOST,
         Input!IsError, SUCCESS, WARN, CONN_LOST, IsError, AttrStatus
<1>2. Output(c)!SwitchMode \/ UNCHANGED blocking[c]
  BY DEF Output!SwitchMode, Output!SUCCESS, Output!WARN, Output!CONN_LOST, SUCCESS, WARN,
         CONN_LOST, AttrStatus
<1> QED
  BY <1>1, <1>2 DEF ModeSeen

LEMMA ModeStep == TypeOK /\ TclNeverAhead /\ [Next]_vars => \A c \in Channels : ModeSeen(c)
<1> SUFFICES ASSUME TypeOK, TclNeverAhead, [Next]_vars, NEW c \in Channels
             PROVE  ModeSeen(c)
  OBVIOUS
<1>1. ASSUME UNCHANGED <<blocking[c], tclBlocking[c]>> PROVE ModeSeen(c)
  BY <1>1 DEF ModeSeen
<1>2. CASE UNCHANGED vars
  BY <1>1, <1>2 DEF vars
<1>3. ASSUME NEW d \in Channels, UNCHANGED <<blocking, tclBlocking>> PROVE ModeSeen(c)
  BY <1>1, <1>3
<1>4. ASSUME NEW d \in Channels, NEW mode \in BOOLEAN, blockModeRM(d, mode)
      PROVE  ModeSeen(c)
  BY <1>1, <1>4, MinusOne DEF blockModeRM, SetBlockMode
<1>5. ASSUME NEW d \in Channels, NEW mode \in BOOLEAN, blockModeSame(d, mode)
      PROVE  ModeSeen(c)
  <2>1. CASE c # d
    BY <1>1, <1>5, <2>1 DEF blockModeSame, SetBlockMode, TypeOK
  <2>2. CASE c = d
    <3>1. tclBlocking'[c] = blocking[c] /\ UNCHANGED <<blocking[c], lastError[c]>>
      BY <1>5, <2>2 DEF blockModeSame, SetBlockMode, TypeOK
    <3> QED
      BY <3>1, ModeSwitch
  <2> QED
    BY <2>1, <2>2
<1>6. ASSUME NEW d \in Channels, blockModeBlocking(d) PROVE ModeSeen(c)
  <2>1. CASE c # d
    BY <1>1, <1>6, <2>1 DEF blockModeBlocking, SetBlockMode, TypeOK
  <2>2. CASE c = d
    <3>1. ~ blocking[c] /\ blocking'[c] = TRUE /\ ~ tclBlocking[c]
      BY <1>6, <2>2 DEF blockModeBlocking, TypeOK, TclNeverAhead
    <3>2. PICK status \in AttrStatus :
            /\ lastError'[c] = status
            /\ SetBlockMode(c, TRUE,
                 IF setVisaTimeoutResult(TRUE, status) = TCL_OK THEN -1 ELSE 0)
      BY <1>6, <2>2 DEF blockModeBlocking, setVisaTimeout, storeLastError, TypeOK
    <3>3. CASE status \in {SUCCESS, WARN}
      <4>1. setVisaTimeoutResult(TRUE, status) = TCL_OK /\ IsError(status) = FALSE
        BY <3>3 DEF setVisaTimeoutResult, CommandResult, IsError
      <4>2. tclBlocking'[c] = FALSE
        BY <3>1, <3>2, <4>1, MinusOne DEF SetBlockMode, TypeOK
      <4> QED
        BY <3>1, <3>2, <4>1, <4>2, ModeSwitch
    <3>4. CASE status = CONN_LOST
      <4>1. setVisaTimeoutResult(TRUE, status) # TCL_OK
        BY <3>4 DEF setVisaTimeoutResult, CommandResult, IsError, CONN_LOST, SUCCESS, WARN,
                    TCL_OK, TCL_ERROR
      <4>2. tclBlocking'[c] = TRUE
        BY <3>2, <4>1 DEF SetBlockMode, TypeOK
      <4>3. IsError(status) = TRUE
        BY <3>4 DEF IsError, SUCCESS, WARN, CONN_LOST
      <4> QED
        BY <3>1, <3>2, <4>2, <4>3, ModeSwitch
    <3> QED
      BY <3>3, <3>4 DEF AttrStatus
  <2> QED
    BY <2>1, <2>2
<1>7. ASSUME NEW d \in Channels, blockModeNonblocking(d) PROVE ModeSeen(c)
  <2>1. CASE c # d
    BY <1>1, <1>7, <2>1 DEF blockModeNonblocking, SetBlockMode, TypeOK
  <2>2. CASE c = d
    <3>1. PICK get \in ReadStatus, set \in AttrStatus :
            IF IsError(get)
              THEN /\ storeLastError(c, get)
                   /\ SetBlockMode(c, FALSE, 1)
                   /\ UNCHANGED blocking
              ELSE /\ storeLastError(c, set)
                   /\ blocking' = [blocking EXCEPT ![c] = FALSE]
                   /\ SetBlockMode(c, FALSE, 0)
      BY <1>7, <2>2 DEF blockModeNonblocking
    <3>2. blocking[c]
      BY <1>7, <2>2 DEF blockModeNonblocking
    <3>3. CASE IsError(get)
      <4>0. SetBlockMode(c, FALSE, 1) /\ UNCHANGED blocking
        BY <3>1, <3>3
      <4>1. UNCHANGED <<blocking, tclBlocking>>
        BY <4>0, One DEF SetBlockMode
      <4> QED
        BY <1>1, <4>1
    <3>4. CASE ~ IsError(get)
      <4>1. lastError'[c] \in AttrStatus /\ blocking'[c] = FALSE /\ tclBlocking'[c] = FALSE
        BY <3>1, <3>4 DEF storeLastError, SetBlockMode, TypeOK
      <4> QED
        BY <3>2, <4>1, ModeSwitch
    <3> QED
      BY <3>3, <3>4
  <2> QED
    BY <2>1, <2>2
<1>8. ASSUME NEW d \in Channels, NEW n \in ScriptInts,
             setOptionTimeout(d, n) \/ tclvisa_set_attribute(d, n)
      PROVE  ModeSeen(c)
  BY <1>3, <1>8 DEF setOptionTimeout, tclvisa_set_attribute, SetTimeout, Rejected
<1>9. ASSUME NEW d \in Channels,
             getOptionTimeout(d) \/ tclvisa_get_attribute(d) \/ tclvisa_clear(d)
      PROVE  ModeSeen(c)
  BY <1>3, <1>9 DEF getOptionTimeout, tclvisa_get_attribute, GetTimeout, Rejected, tclvisa_clear
<1> QED
  BY <1>2, <1>4, <1>5, <1>6, <1>7, <1>8, <1>9 DEF Next

\* The modes that gets and puts are modelled under are those the driver really
\* goes through: whatever commands a script gives, the driver's flag and Tcl's
\* change only as SwitchMode of ChannelInput and of ChannelOutput say, and leave
\* the last error that these say.  That Tcl is never ahead is what excludes a
\* change they do not know.
THEOREM ModesAreThoseAssumed ==
  Spec => /\ \A c \in Channels : Input(c)!Init /\ Output(c)!Init
          /\ [][\A c \in Channels : ModeSeen(c)]_vars
<1>1. TypeOK /\ TclNeverAhead /\ [Next]_vars => [\A c \in Channels : ModeSeen(c)]_vars
  BY ModeStep
<1> QED
  BY <1>1, ModesInitially, TypeCorrect, TclIsNeverAhead, PTL DEF Spec
================================================================================
