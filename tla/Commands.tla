-------------------------------- MODULE Commands --------------------------------
(***************************************************************************)
(* The commands of one session that no other module has, in                *)
(* src/src/tclvisa: visa::find and visa::parse-rsrc, which search for      *)
(* resources; the file transfers; visa::get-attribute and set-attribute on *)
(* attributes other than the timeout; and the commands that make a single  *)
(* VISA call with small integers.  While a command runs, resources come    *)
(* and go, and other programs change the file.                             *)
(***************************************************************************)
EXTENDS Integers, Sequences, FiniteSets, VisaStatus

CONSTANTS
  Resources,   \* the addresses of the instruments there may be
  U16, U32,    \* 2^16 and 2^32
  BufLen,      \* the length of the string given to visa::gpib-command
  NoSecAddr,   \* VI_NO_SEC_ADDR
  Ints,        \* the integers scripts pass (a C long holds them)
  Sizes,       \* the sizes of files (a C long holds them)
  States       \* the states of attributes: their types and values

ASSUME CommandsAssumption ==
  /\ IsFiniteSet(Resources)
  /\ U16 \in Nat \ {0} /\ U32 \in Nat \ {0} /\ U16 <= U32
  /\ BufLen \in Nat
  /\ NoSecAddr \in 0 .. U16 - 1
  /\ Ints \subseteq Int
  /\ Sizes \subseteq Nat
  /\ \A a \in States :
       a \in [type : {"ViInt16"},  value : {n \in Int : -U16 <= 2 * n /\ 2 * n < U16}]
         \/ a \in [type : {"ViUInt32"}, value : 0 .. U32 - 1]

VARIABLES
  present,    \* the resources there are
  file,       \* the size of the file, or NoFile
  lastError,  \* VisaChannelData.lastError
  pc,         \* "idle", in the loop of visa::find, or about to write a file
  find,       \* the variables of visa::find, and VISA's list with what is left
  lists,      \* how many find lists VISA has open
  count,      \* the count of visa::write-from-file
  answer,     \* what the last command told the script, and the integers it gave
              \* to VISA
  moved,      \* history: the bytes the last file transfer moved
  touched     \* history: the file has changed since write-from-file began

vars == <<present, file, lastError, pc, find, lists, count, answer, moved, touched>>

\* Errors that some commands suppress, in addition to those of VisaStatus.
NFOUND   == "VI_ERROR_RSRC_NFOUND"
INV_NAME == "VI_ERROR_INV_RSRC_NAME"

NoFile   == -1
NoFind   == [list |-> << >>, name |-> "", left |-> 0, res |-> << >>,
             status |-> SUCCESS, all |-> << >>]
NoAnswer == [cmd |-> "none", args |-> << >>, code |-> "none", value |-> 0,
             values |-> << >>]

Idle == pc = "idle"

Answer(cmd, args, code, value) ==
  answer' = [NoAnswer EXCEPT !.cmd = cmd, !.args = args, !.code = code, !.value = value]

\* A command begins: the variables of the one before are gone.
Begin ==
  /\ Idle
  /\ find' = NoFind
  /\ count' = 0
  /\ moved' = 0
  /\ touched' = FALSE

-------------------------------------------------------------------------------
(* Integers *)

Bad == -1

\* Too large a value is cut off.
Tcl_GetUInt16FromObj_Truncates(n) == IF n >= 0 THEN n % U16 ELSE Bad

Tcl_GetUInt16FromObj(n) == IF n \in 0 .. U16 - 1 THEN n ELSE Bad

\* Only the sign is looked at.
Tcl_GetUInt32FromObj_NoLimit(n) == IF n >= 0 THEN n ELSE Bad

Tcl_GetUInt32FromObj(n) == IF n \in 0 .. U32 - 1 THEN n ELSE Bad

\* Tcl_GetIntFromObj takes 32-bit integers of either kind and wraps them to an
\* int; what is then negative is refused.
Tcl_GetUIntFromObj(n) ==
  IF n \in 1 - U32 .. U32 - 1 /\ 2 * (n % U32) < U32 THEN n % U32 ELSE Bad

\* A required argument followed by an optional one.
OneOrTwo == {<<i>> : i \in Ints} \cup {<<i, j>> : i, j \in Ints}
One      == {<<i>> : i \in Ints}
AtMostOne == {<< >>} \cup One

-------------------------------------------------------------------------------
(* Commands that make a single VISA call *)

Refused(cmd, args) == Answer(cmd, args, "bad", 0) /\ UNCHANGED lastError

CallStatus == {SUCCESS, WARN, CONN_LOST}

\* An integer that does not fit ends the command; otherwise VISA is called, and
\* its status stored and, if an error, thrown.
SingleCall(cmd, args, values, results) ==
  /\ Begin
  /\ IF \E i \in DOMAIN values : values[i] = Bad
       THEN Refused(cmd, args)
       ELSE \E status \in CallStatus, value \in results :
              /\ lastError' = status
              /\ answer' = [cmd |-> cmd, args |-> args, values |-> values,
                            code |-> IF IsError(status) THEN "error" ELSE "ok",
                            value |-> IF IsError(status) THEN 0 ELSE value]
  /\ UNCHANGED <<present, file, pc, lists>>

OneUInt16(cmd) ==
  \E args \in One : SingleCall(cmd, args, <<Tcl_GetUInt16FromObj(args[1])>>, {0})

tclvisa_assert_trigger     == OneUInt16("assert-trigger")
tclvisa_assert_util_signal == OneUInt16("assert-util-signal")
tclvisa_gpib_control_atn   == OneUInt16("gpib-control-atn")
tclvisa_gpib_control_ren   == OneUInt16("gpib-control-ren")
tclvisa_gpib_send_ifc      == SingleCall("gpib-send-ifc", << >>, << >>, {0})

tclvisa_assert_intr_signal ==
  \E args \in OneOrTwo :
    SingleCall("assert-intr-signal", args,
      <<Tcl_GetUInt16FromObj(args[1]),
        IF Len(args) > 1 THEN Tcl_GetUInt32FromObj(args[2]) ELSE 0>>, {0})

tclvisa_gpib_pass_control ==
  \E args \in OneOrTwo :
    SingleCall("gpib-pass-control", args,
      <<Tcl_GetUInt16FromObj(args[1]),
        IF Len(args) > 1 THEN Tcl_GetUInt16FromObj(args[2]) ELSE NoSecAddr>>, {0})

\* It returns how many bytes went out.
tclvisa_gpib_command ==
  \E args \in AtMostOne :
    LET n == IF args # << >> THEN Tcl_GetUInt32FromObj(args[1])
             ELSE IF BufLen >= U32 THEN U32 - 1 ELSE BufLen
    IN  SingleCall("gpib-command", args, <<n>>, {0, n})

SingleCalls == {"assert-trigger", "assert-util-signal", "gpib-control-atn",
                "gpib-control-ren", "gpib-send-ifc", "assert-intr-signal",
                "gpib-pass-control", "gpib-command"}

-------------------------------------------------------------------------------
(* Attributes, but for the timeout and the strings *)

Modulus(a) == IF a.type = "ViInt16" THEN U16 ELSE U32

\* The variable is not zeroed: its upper half is whatever was there.
AttributeRead_NotZeroed(a) == U32 * U32 - U32 + (a.value % Modulus(a))

\* VISA writes the bytes of the attribute into a ViInt64 that was zero.
AttributeRead(a) == a.value % Modulus(a)

\* A warning, being no VI_SUCCESS, is stored and told without a value.
tclvisa_get_attribute ==
  /\ Begin
  /\ \E a \in States, status \in CallStatus :
       /\ lastError' = status
       /\ answer' = [cmd |-> "get-attribute", args |-> <<a>>, values |-> << >>,
                     code |-> IF IsError(status) THEN "error" ELSE "ok",
                     value |-> IF status = SUCCESS THEN AttributeRead(a) ELSE 0]
  /\ UNCHANGED <<present, file, pc, lists>>

\* Tcl_GetIntFromObj takes 32-bit integers of either kind and wraps them to an
\* int, which becomes a ViAttrState of VISA.
AttributeWritten(n) == IF n \in 1 - U32 .. U32 - 1 THEN n % U32 ELSE Bad

tclvisa_set_attribute ==
  \E args \in One :
    SingleCall("set-attribute", args, <<AttributeWritten(args[1])>>, {0})

-------------------------------------------------------------------------------
(* visa::parse-rsrc *)

\* A name that is bad, or of no resource, gives an empty result: the error is
\* turned into a success before it is stored.
tclvisa_parse_rsrc ==
  /\ Begin
  /\ \E status \in {SUCCESS, WARN, NFOUND, INV_NAME, CONN_LOST} :
       LET stored == IF status \in {NFOUND, INV_NAME} THEN SUCCESS ELSE status IN
       /\ lastError' = stored
       /\ Answer("parse-rsrc", << >>, IF IsError(stored) THEN "error" ELSE "ok",
                 IF status \in {SUCCESS, WARN} THEN 1 ELSE 0)
  /\ UNCHANGED <<present, file, pc, lists>>

-------------------------------------------------------------------------------
(* visa::find *)

Orders(set) ==
  {list \in [1 .. Cardinality(set) -> set] : {list[i] : i \in DOMAIN list} = set}

\* A success is stored however the search ended.
FindEnds_StoresSuccess(status, res) ==
  /\ lastError' = SUCCESS
  /\ IF IsError(status) /\ status # NFOUND THEN Answer("find", << >>, "error", 0)
                                           ELSE Answer("find", << >>, "ok", Len(res))
  /\ pc' = "idle"

\* A missing resource is no error.  It is not stored either: the loop's last
\* call of viFindNext looks beyond the last resource, so even a good search
\* ends with that status.
FindEnds(status, res) ==
  /\ IF IsError(status) /\ status # NFOUND
       THEN /\ lastError' = status
            /\ Answer("find", << >>, "error", 0)
       ELSE /\ lastError' = SUCCESS
            /\ Answer("find", << >>, "ok", Len(res))
  /\ pc' = "idle"

tclvisa_find ==
  /\ Idle
  /\ count' = 0 /\ moved' = 0 /\ touched' = FALSE
  /\ \/ \E list \in Orders(present) :
          /\ list # << >>
          /\ find' = [list |-> Tail(list), name |-> list[1], left |-> Len(list),
                      res |-> << >>, status |-> SUCCESS, all |-> list]
          /\ lists' = lists + 1
          /\ pc' = "find"
          /\ answer' = NoAnswer
          /\ UNCHANGED lastError
     \/ \E status \in {CONN_LOST} \cup IF present = {} THEN {NFOUND} ELSE {} :
          /\ FindEnds(status, << >>)
          /\ find' = NoFind
          /\ UNCHANGED lists
  /\ UNCHANGED <<present, file>>

\* The list is left open when the search fails.
FindEnd_KeepsList ==
  /\ pc = "find"
  /\ IsError(find.status) \/ find.left = 0
  /\ lists' = IF find.status = CONN_LOST THEN lists ELSE lists - 1
  /\ FindEnds(find.status, find.res)
  /\ UNCHANGED <<present, file, find, count, moved, touched>>

FindEnd ==
  /\ pc = "find"
  /\ IsError(find.status) \/ find.left = 0
  /\ lists' = lists - 1
  /\ FindEnds(find.status, find.res)
  /\ UNCHANGED <<present, file, find, count, moved, touched>>

\* What viFindNext may deliver: the next name, that there is none, or an error.
viFindNext ==
  IF find.list = << >>
    THEN {[find EXCEPT !.status = NFOUND], [find EXCEPT !.status = CONN_LOST]}
    ELSE {[find EXCEPT !.name = Head(find.list), !.list = Tail(find.list)],
          [find EXCEPT !.status = CONN_LOST]}

\* The next name is asked for first, so the first one is missed.
FindNext_AsksFirst ==
  /\ pc = "find" /\ ~ IsError(find.status) /\ find.left > 0
  /\ \E next \in viFindNext :
       find' = [next EXCEPT !.res = Append(@, next.name), !.left = @ - 1]
  /\ UNCHANGED <<present, file, lastError, pc, lists, count, answer, moved,
                 touched>>

\* The body of the loop: the name is taken, then the next one asked for.
FindNext ==
  /\ pc = "find" /\ ~ IsError(find.status) /\ find.left > 0
  /\ \E next \in viFindNext :
       find' = [next EXCEPT !.res = Append(@, find.name), !.left = @ - 1]
  /\ UNCHANGED <<present, file, lastError, pc, lists, count, answer, moved,
                 touched>>

-------------------------------------------------------------------------------
(* File transfers *)

Lesser(m, n) == IF m < n THEN m ELSE n

\* The result is the count that was asked for.
TransferEnds_TellsAsked(cmd, args, status, asked, k) ==
  /\ lastError' = status
  /\ moved' = k
  /\ IF IsError(status) /\ status # TMO THEN Answer(cmd, args, "error", 0)
                                        ELSE Answer(cmd, args, "ok", asked)

\* A timeout is stored but not thrown.  The result is VISA's count.
TransferEnds(cmd, args, status, asked, k) ==
  /\ lastError' = status
  /\ moved' = k
  /\ IF IsError(status) /\ status # TMO THEN Answer(cmd, args, "error", 0)
                                        ELSE Answer(cmd, args, "ok", k)

getFileSize == IF file = NoFile THEN 0 ELSE file

\* The count is the script's, or the size of the file at this moment.
write_from_file ==
  /\ Idle
  /\ find' = NoFind /\ moved' = 0 /\ touched' = FALSE
  /\ \E args \in AtMostOne :
       LET n == IF args = << >> THEN getFileSize ELSE Tcl_GetUIntFromObj(args[1])
       IN  IF n = Bad
             THEN Refused("write-from-file", args) /\ count' = 0 /\ UNCHANGED pc
             ELSE /\ Answer("write-from-file", args, "none", 0)
                  /\ count' = n
                  /\ pc' = "write"
                  /\ UNCHANGED lastError
  /\ UNCHANGED <<present, file, lists>>

\* VISA opens the file only now, and takes the count for 32 bits.
viWriteFromFile ==
  /\ pc = "write"
  /\ LET n == count % U32
         most == Lesser(n, getFileSize)
     IN  \E status \in IF file = NoFile THEN {FILE_ERROR}
                       ELSE {SUCCESS, TMO, CONN_LOST} :
           \E k \in IF status = SUCCESS THEN {most} ELSE {0, Lesser(1, most)} :
             TransferEnds("write-from-file", answer.args, status, n, k)
  /\ pc' = "idle"
  /\ UNCHANGED <<present, file, find, lists, count, touched>>

\* The file is overwritten by what is read before the count, an end mark, a
\* timeout or an error, unless it cannot be opened.
read_to_file ==
  /\ Idle
  /\ find' = NoFind /\ count' = 0 /\ touched' = FALSE
  /\ \E args \in One :
       LET n == Tcl_GetUIntFromObj(args[1]) IN
       IF n = Bad
         THEN Refused("read-to-file", args) /\ moved' = 0 /\ UNCHANGED file
         ELSE \/ /\ TransferEnds("read-to-file", args, FILE_ERROR, n, 0)
                 /\ UNCHANGED file
              \/ \E status \in {SUCCESS, TMO, CONN_LOST}, k \in {0, n} :
                   /\ status = TMO => k < n
                   /\ TransferEnds("read-to-file", args, status, n, k)
                   /\ file' = k
  /\ UNCHANGED <<present, pc, lists>>

-------------------------------------------------------------------------------
(* The environment *)

ResourcesChange ==
  /\ present' \in SUBSET Resources
  /\ UNCHANGED <<file, lastError, pc, find, lists, count, answer, moved, touched>>

FileChanges ==
  /\ file' \in Sizes \cup {NoFile}
  /\ touched' = TRUE
  /\ UNCHANGED <<present, lastError, pc, find, lists, count, answer, moved>>

-------------------------------------------------------------------------------

Init ==
  /\ present \in SUBSET Resources
  /\ file \in Sizes \cup {NoFile}
  /\ lastError = SUCCESS
  /\ pc = "idle"
  /\ find = NoFind
  /\ lists = 0
  /\ count = 0
  /\ answer = NoAnswer
  /\ moved = 0
  /\ touched = FALSE

Next ==
  \/ tclvisa_assert_trigger \/ tclvisa_assert_util_signal
  \/ tclvisa_gpib_control_atn \/ tclvisa_gpib_control_ren
  \/ tclvisa_gpib_send_ifc \/ tclvisa_assert_intr_signal
  \/ tclvisa_gpib_pass_control \/ tclvisa_gpib_command
  \/ tclvisa_get_attribute \/ tclvisa_set_attribute
  \/ tclvisa_parse_rsrc
  \/ tclvisa_find \/ FindNext \/ FindEnd
  \/ write_from_file \/ viWriteFromFile \/ read_to_file
  \/ ResourcesChange \/ FileChanges

Spec == Init /\ [][Next]_vars

-------------------------------------------------------------------------------
(* Properties *)

Ok(cmd) == answer.cmd = cmd /\ answer.code = "ok"

\* VISA's parameters are ViUInt16 and ViUInt32, and a C long holds what the
\* commands keep in one.
TypeOK ==
  /\ present \subseteq Resources
  /\ file \in Nat \cup {NoFile}
  /\ lastError \in {SUCCESS, WARN, TMO, CONN_LOST, FILE_ERROR, NFOUND, INV_NAME}
  /\ pc \in {"idle", "find", "write"}
  /\ find.left \in Nat
  /\ lists \in Nat
  /\ count \in Nat
  /\ answer.values \in Seq(0 .. U32 - 1)
  /\ answer.code \in {"none", "bad", "error", "ok"}
  /\ moved \in 0 .. U32 - 1
  /\ touched \in BOOLEAN

\* A search that is not reported as failed has found every resource there was
\* when it began, once each and in VISA's order, although they come and go
\* while it runs.
FindIsComplete == Idle /\ Ok("find") => find.res = find.all

\* VISA's find list is closed again however the search ends.
FindListClosed == lists = IF pc = "find" THEN 1 ELSE 0

\* The errors a command may suppress (doc/tclvisa.tex:236-254).
Suppressed(cmd) ==
  CASE cmd \in {"write-from-file", "read-to-file"} -> {TMO}
    [] cmd = "find"       -> {NFOUND}
    [] cmd = "parse-rsrc" -> {NFOUND, INV_NAME}
    [] OTHER              -> {}

\* When a command threw an error, visa::last-error tells one; after a command
\* that succeeded it tells none, neither of an earlier command nor of a call on
\* the way, but for an error this very command is documented to suppress.  The
\* document says that visa::last-error returns those as well: file transfers
\* do so, while visa::find and visa::parse-rsrc store a success in their place
\* (find.c:60, parse_rsrc.c:45); this property accepts either.
LastErrorExplains ==
  /\ answer.code = "error" => IsError(lastError)
  /\ answer.code = "ok" => ~ IsError(lastError) \/ lastError \in Suppressed(answer.cmd)

Width(cmd, i) ==
  IF cmd = "gpib-command" \/ (cmd = "assert-intr-signal" /\ i = 2) THEN U32 ELSE U16

\* An integer reaches VISA as the script gave it, or the command is refused and
\* VISA not called; and none that fits is refused.
IntegersReachVisa ==
  answer.cmd \in SingleCalls =>
    LET fits == \A i \in DOMAIN answer.args :
                  answer.args[i] \in 0 .. Width(answer.cmd, i) - 1
    IN  /\ answer.code = "bad" <=> ~ fits
        /\ fits => \A i \in DOMAIN answer.args : answer.values[i] = answer.args[i]

\* visa::get-attribute tells the state of an attribute, if it is not negative;
\* a negative one, like VI_TRIG_SW (-1) of VI_ATTR_TRIG_ID, reads as a positive
\* number, but as one that denotes it: visa::set-attribute takes any number it
\* has read, and the attribute keeps all its bits.
AttributeRoundTrip ==
  Ok("get-attribute") /\ lastError = SUCCESS =>
    LET a == answer.args[1] IN
      /\ a.value >= 0 => answer.value = a.value
      /\ AttributeWritten(answer.value) # Bad
      /\ (AttributeWritten(answer.value) - a.value) % Modulus(a) = 0

\* A file transfer tells how many bytes it moved; and, without a count, a
\* success means the whole of a file smaller than 4 GB that nobody has changed.
TransferIsTold ==
  /\ Ok("write-from-file") \/ Ok("read-to-file") => answer.value = moved
  /\ Ok("write-from-file") /\ answer.args = << >> /\ lastError = SUCCESS
       /\ ~ touched /\ file < U32 => answer.value = file

\* doc/tclvisa.tex:979: "count: number of bytes to be written.  If omitted,
\* entire file is written."
EntireFileWritten ==
  Ok("write-from-file") /\ answer.args = << >> /\ lastError = SUCCESS /\ ~ touched
    => answer.value = file
================================================================================
