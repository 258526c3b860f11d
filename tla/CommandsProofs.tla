----------------------------- MODULE CommandsProofs -----------------------------
(***************************************************************************)
(* What visa::find, the single-call commands and the file transfers        *)
(* promise, for any resources, integers, widths and sizes of files.  The   *)
(* loop of visa::find has the invariant Searching, about the place where   *)
(* it is; visa::write-from-file the invariant Writing, about the size it   *)
(* took before VISA opened the file.                                       *)
(***************************************************************************)
EXTENDS Commands, FiniteSetTheorems, TLAPS

-------------------------------------------------------------------------------
(* visa::find *)

Finds == [list : Seq(Resources), name : Resources, left : Nat, res : Seq(Resources),
          status : {SUCCESS, NFOUND, CONN_LOST}, all : Seq(Resources)]

\* find.all is a list of resources, and find.res what the loop has of it: the
\* names before find.left.  While VISA answers, find.name is the next one, and
\* VISA has the rest; VISA says that there is none only after the last.
Searching ==
  /\ find \in Finds
  /\ Len(find.all) = Len(find.res) + find.left
  /\ \A i \in 1 .. Len(find.res) : find.res[i] = find.all[i]
  /\ find.status = SUCCESS =>
       /\ find.left = 1 + Len(find.list)
       /\ find.name = find.all[Len(find.res) + 1]
       /\ \A i \in 1 .. Len(find.list) : find.list[i] = find.all[Len(find.res) + 1 + i]
  /\ find.status = NFOUND => find.left = 0

FindInv ==
  /\ present \subseteq Resources
  /\ pc \in {"idle", "find", "write"}
  /\ pc = "find" => Searching
  /\ pc = "write" => answer.cmd # "find"
  /\ FindIsComplete
  /\ FindListClosed

LEMMA Statuses ==
  /\ SUCCESS # NFOUND /\ SUCCESS # CONN_LOST /\ NFOUND # CONN_LOST
  /\ ~ IsError(SUCCESS) /\ IsError(NFOUND) /\ IsError(CONN_LOST)
BY DEF SUCCESS, NFOUND, CONN_LOST, IsError, WARN

\* A list of the resources present is a sequence of resources.
LEMMA OrdersAreSequences ==
  ASSUME NEW list \in Orders(present), present \subseteq Resources
  PROVE  list \in Seq(Resources)
<1>1. Cardinality(present) \in Nat
  BY CommandsAssumption, FS_Subset, FS_CardinalityType
<1> QED
  BY <1>1 DEF Orders

\* A command that is not visa::find, or a change outside.
LEMMA FindQuiet ==
  ASSUME FindInv, pc # "find", pc' \in {"idle", "write"}, lists' = lists,
         present' \subseteq Resources, answer'.cmd # "find"
  PROVE  FindInv'
BY DEF FindInv, FindIsComplete, FindListClosed, Idle, Ok

LEMMA FindBegins ==
  ASSUME FindInv, tclvisa_find PROVE FindInv'
<1>1. Idle /\ pc = "idle" /\ present' = present
  BY DEF tclvisa_find, Idle
<1>2. ASSUME NEW list \in Orders(present), list # << >>,
             find' = [list |-> Tail(list), name |-> list[1], left |-> Len(list),
                      res |-> << >>, status |-> SUCCESS, all |-> list],
             lists' = lists + 1, pc' = "find", answer' = NoAnswer
      PROVE  FindInv'
  <2>1. list \in Seq(Resources)
    BY OrdersAreSequences DEF FindInv
  <2>2. /\ Len(list) \in Nat \ {0}
        /\ Tail(list) \in Seq(Resources) /\ Len(Tail(list)) = Len(list) - 1
        /\ \A i \in 1 .. Len(list) - 1 : Tail(list)[i] = list[i + 1]
        /\ list[1] \in Resources
    BY <2>1, <1>2
  <2>3. Searching'
    BY <2>1, <2>2, <1>2, Statuses DEF Searching, Finds
  <2>4. FindListClosed'
    BY <1>1, <1>2 DEF FindInv, FindListClosed
  <2> QED
    BY <2>3, <2>4, <1>1, <1>2 DEF FindInv, FindIsComplete, Idle
<1>3. ASSUME NEW status, FindEnds(status, << >>), find' = NoFind, lists' = lists
      PROVE  FindInv'
  BY <1>1, <1>3 DEF FindEnds, NoFind, FindInv, FindIsComplete, FindListClosed, Idle
<1> QED
  BY <1>2, <1>3 DEF tclvisa_find

\* The body of the loop keeps Searching: the name taken is the next one.
LEMMA FindLoops ==
  ASSUME FindInv, FindNext PROVE FindInv'
<1>1. /\ pc = "find" /\ pc' = "find" /\ ~ IsError(find.status) /\ find.left > 0
      /\ lists' = lists /\ present' = present
  BY DEF FindNext
<1>2. Searching /\ find.status = SUCCESS
  BY <1>1, Statuses DEF FindInv, Searching, Finds
<1>3. PICK next \in viFindNext :
        find' = [next EXCEPT !.res = Append(@, find.name), !.left = @ - 1]
  BY DEF FindNext
<1>4. /\ find.res \in Seq(Resources) /\ find.name \in Resources
      /\ Append(find.res, find.name) \in Seq(Resources)
      /\ Len(Append(find.res, find.name)) = Len(find.res) + 1
      /\ \A i \in 1 .. Len(find.res) : Append(find.res, find.name)[i] = find.res[i]
      /\ Append(find.res, find.name)[Len(find.res) + 1] = find.name
  BY <1>2 DEF Searching, Finds
<1>5. /\ find.left = 1 + Len(find.list)
      /\ Len(find.res) \in Nat /\ Len(find.list) \in Nat
      /\ Len(find.all) = Len(find.res) + find.left
      /\ find.name = find.all[Len(find.res) + 1]
      /\ find.list \in Seq(Resources) /\ find.left \in Nat
  BY <1>2 DEF Searching, Finds
<1>6. PICK r \in Nat, left \in Nat, n \in Nat :
        r = Len(find.res) /\ left = find.left /\ n = Len(find.list)
  BY <1>5
<1>7. \A i \in 1 .. Len(find.res) + 1 : Append(find.res, find.name)[i] = find.all[i]
  BY <1>2, <1>4, <1>5 DEF Searching, Finds
<1>8. CASE next.status # SUCCESS
  <2>1. /\ next \in {[find EXCEPT !.status = NFOUND], [find EXCEPT !.status = CONN_LOST]}
        /\ next.status = NFOUND => find.list = << >>
    BY <1>2, <1>3, <1>8, Statuses DEF viFindNext, Searching, Finds
  <2>2. /\ find'.list = find.list /\ find'.name = find.name /\ find'.all = find.all
        /\ find'.res = Append(find.res, find.name)
        /\ find'.left = find.left - 1
        /\ find'.status = next.status /\ next.status \in {NFOUND, CONN_LOST}
    BY <1>2, <1>3, <2>1 DEF Searching, Finds
  <2>3. find' \in Finds
    <3>1. find' = [list |-> find.list, name |-> find.name, left |-> find.left - 1,
                   res |-> Append(find.res, find.name), status |-> next.status,
                   all |-> find.all]
      BY <1>2, <1>3, <2>1 DEF Searching, Finds
    <3>2. find.left - 1 \in Nat
      BY <1>1, <1>5
    <3> QED
      BY <1>2, <1>4, <2>2, <3>1, <3>2 DEF Searching, Finds
  <2>4. find'.status = NFOUND => find'.left = 0
    BY <2>1, <2>2, <1>5
  <2>5. Len(find'.all) = Len(find'.res) + find'.left
    <3>1. Len(find'.res) = Len(find.res) + 1
      BY <2>2, <1>4
    <3>2. Len(find.all) = r + left /\ Len(find'.res) = r + 1 /\ find'.left = left - 1
      BY <3>1, <2>2, <1>5, <1>6
    <3> QED
      BY <3>2, <2>2
  <2>6. \A i \in 1 .. Len(find'.res) : find'.res[i] = find'.all[i]
    BY <2>2, <1>4, <1>7
  <2>7. Searching'
    BY <2>2, <2>3, <2>4, <2>5, <2>6, Statuses DEF Searching
  <2> QED
    BY <2>7, <1>1 DEF FindInv, FindIsComplete, FindListClosed, Idle
<1>9. CASE next.status = SUCCESS
  <2>1. find.list # << >> /\ next = [find EXCEPT !.name = Head(find.list), !.list = Tail(find.list)]
    BY <1>2, <1>3, <1>9, Statuses DEF viFindNext, Searching, Finds
  <2>2. /\ find'.list = Tail(find.list) /\ find'.name = Head(find.list)
        /\ find'.all = find.all
        /\ find'.res = Append(find.res, find.name)
        /\ find'.left = find.left - 1
        /\ find'.status = SUCCESS
    BY <1>2, <1>3, <2>1 DEF Searching, Finds
  <2>3. /\ Tail(find.list) \in Seq(Resources) /\ Head(find.list) \in Resources
        /\ Head(find.list) = find.list[1]
        /\ Len(Tail(find.list)) = Len(find.list) - 1
        /\ \A i \in 1 .. Len(find.list) - 1 : Tail(find.list)[i] = find.list[i + 1]
        /\ Len(find.list) \in Nat \ {0} /\ Len(find.res) \in Nat
    BY <2>1, <1>4, <1>5
  <2>4. find' \in Finds
    <3>1. find' = [list |-> Tail(find.list), name |-> Head(find.list),
                   left |-> find.left - 1, res |-> Append(find.res, find.name),
                   status |-> SUCCESS, all |-> find.all]
      BY <1>2, <1>3, <2>1 DEF Searching, Finds
    <3>2. find.left - 1 \in Nat
      BY <1>1, <1>5
    <3> QED
      BY <1>2, <1>4, <2>3, <3>1, <3>2 DEF Searching, Finds
  <2>5. \A i \in 1 .. Len(find.list) : find.list[i] = find.all[Len(find.res) + 1 + i]
    BY <1>2 DEF Searching, Finds
  <2>6. find'.name = find.all[Len(find.res) + 2]
    BY <2>2, <2>3, <2>5
  <2>7. ASSUME NEW i \in 1 .. Len(find.list) - 1
        PROVE  Tail(find.list)[i] = find.all[Len(find.res) + 2 + i]
    <3>1. Tail(find.list)[i] = find.list[i + 1] /\ i + 1 \in 1 .. Len(find.list)
      BY <2>3
    <3>2. find.list[i + 1] = find.all[Len(find.res) + 1 + (i + 1)]
      BY <3>1, <2>5
    <3>3. PICK k \in Nat : k = i
      BY <2>3
    <3>4. r + 1 + (k + 1) = r + 2 + k
      BY <3>3
    <3> QED
      BY <3>1, <3>2, <3>3, <3>4, <1>6
  <2>8. /\ Len(find'.all) = Len(find'.res) + find'.left
        /\ find'.left = 1 + Len(find'.list)
    <3>1. Len(find'.list) = Len(find.list) - 1 /\ Len(find'.res) = Len(find.res) + 1
      BY <2>2, <2>3, <1>4
    <3>2. Len(find.all) = r + left /\ Len(find'.res) = r + 1 /\ find'.left = left - 1
      BY <3>1, <2>2, <1>5, <1>6
    <3>3. left = 1 + n /\ Len(find'.list) = n - 1
      BY <3>1, <1>5, <1>6
    <3> QED
      BY <3>2, <3>3, <2>2
  <2>9. \A i \in 1 .. Len(find'.res) : find'.res[i] = find'.all[i]
    BY <2>2, <1>4, <1>7
  <2>10. find'.name = find'.all[Len(find'.res) + 1]
    BY <2>2, <2>3, <2>6, <1>4
  <2>11. \A i \in 1 .. Len(find'.list) : find'.list[i] = find'.all[Len(find'.res) + 1 + i]
    <3> SUFFICES ASSUME NEW i \in 1 .. Len(find.list) - 1
                 PROVE  Tail(find.list)[i] = find.all[Len(find.res) + 1 + 1 + i]
      BY <2>2, <2>3, <1>4
    <3> QED
      BY <2>3, <2>7
  <2>12. Searching'
    BY <2>2, <2>4, <2>8, <2>9, <2>10, <2>11, Statuses DEF Searching
  <2> QED
    BY <2>12, <1>1 DEF FindInv, FindIsComplete, FindListClosed, Idle
<1> QED
  BY <1>8, <1>9

\* A search that ends without an error has found everything.
LEMMA FindIsDone ==
  ASSUME FindInv, FindEnd PROVE FindInv'
<1>1. /\ pc = "find" /\ pc' = "idle" /\ find' = find /\ present' = present
      /\ lists' = lists - 1
      /\ IsError(find.status) \/ find.left = 0
  BY DEF FindEnd, FindEnds
<1>2. Searching /\ lists = 1
  BY <1>1 DEF FindInv, FindListClosed
<1>3. ASSUME answer'.code = "ok" PROVE find.res = find.all
  <2>1. ~ IsError(find.status) \/ find.status = NFOUND
    BY <1>3 DEF FindEnd, FindEnds, Answer, NoAnswer
  <2>2. find.left = 0
    BY <2>1, <1>1, <1>2 DEF Searching, Finds
  <2>3. find.res \in Seq(Resources) /\ find.all \in Seq(Resources)
    BY <1>2 DEF Searching, Finds
  <2>4. Len(find.res) = Len(find.all)
    BY <2>2, <2>3, <1>2 DEF Searching, Finds
  <2> QED
    BY <2>3, <2>4, <1>2 DEF Searching, Finds
<1>4. FindIsComplete' /\ FindListClosed'
  BY <1>1, <1>2, <1>3 DEF FindIsComplete, FindListClosed, Ok
<1> QED
  BY <1>1, <1>4 DEF FindInv

\* What a command tells the script.
LEMMA Answers ==
  ASSUME NEW cmd, NEW args, NEW code, NEW value, Answer(cmd, args, code, value)
  PROVE  answer' = [cmd |-> cmd, args |-> args, code |-> code, value |-> value,
                    values |-> << >>]
BY DEF Answer, NoAnswer

\* A command that makes a single call.
LEMMA SingleIsQuiet ==
  ASSUME NEW cmd, NEW args, NEW values, NEW results,
         SingleCall(cmd, args, values, results)
  PROVE  /\ pc = "idle" /\ pc' = "idle" /\ lists' = lists
         /\ present' = present /\ file' = file /\ answer'.cmd = cmd
         /\ moved' = 0 /\ touched' = FALSE
<1>1. answer'.cmd = cmd
  <2>1. CASE Refused(cmd, args)
    BY <2>1, Answers DEF Refused
  <2>2. CASE ~ Refused(cmd, args)
    BY <2>2 DEF SingleCall
  <2> QED
    BY <2>1, <2>2
<1> QED
  BY <1>1 DEF SingleCall, Begin, Idle

FewerNext ==
  \/ tclvisa_get_attribute \/ tclvisa_set_attribute \/ tclvisa_parse_rsrc
  \/ write_from_file \/ viWriteFromFile \/ read_to_file

CallNext ==
  \/ tclvisa_assert_trigger \/ tclvisa_assert_util_signal
  \/ tclvisa_gpib_control_atn \/ tclvisa_gpib_control_ren
  \/ tclvisa_gpib_send_ifc \/ tclvisa_assert_intr_signal
  \/ tclvisa_gpib_pass_control \/ tclvisa_gpib_command

\* The one they are.
IsSingle == \E cmd, args, values, results :
              cmd \in SingleCalls /\ SingleCall(cmd, args, values, results)

LEMMA OneIsSingle ==
  ASSUME NEW cmd \in SingleCalls, OneUInt16(cmd) PROVE IsSingle
<1>1. PICK args \in One : SingleCall(cmd, args, <<Tcl_GetUInt16FromObj(args[1])>>, {0})
  BY DEF OneUInt16
<1> QED
  BY <1>1 DEF IsSingle

LEMMA CallsAreSingle ==
  ASSUME CallNext PROVE IsSingle
<1>1. CASE \/ tclvisa_assert_trigger \/ tclvisa_assert_util_signal
           \/ tclvisa_gpib_control_atn \/ tclvisa_gpib_control_ren
  BY <1>1, OneIsSingle
     DEF tclvisa_assert_trigger, tclvisa_assert_util_signal,
         tclvisa_gpib_control_atn, tclvisa_gpib_control_ren, SingleCalls
<1>2. CASE tclvisa_gpib_send_ifc
  <2>1. SingleCall("gpib-send-ifc", << >>, << >>, {0})
    BY <1>2 DEF tclvisa_gpib_send_ifc
  <2> QED
    BY <2>1 DEF IsSingle, SingleCalls
<1>3. CASE tclvisa_assert_intr_signal
  <2>1. PICK args, values : SingleCall("assert-intr-signal", args, values, {0})
    BY <1>3 DEF tclvisa_assert_intr_signal
  <2> QED
    BY <2>1 DEF IsSingle, SingleCalls
<1>4. CASE tclvisa_gpib_pass_control
  <2>1. PICK args, values : SingleCall("gpib-pass-control", args, values, {0})
    BY <1>4 DEF tclvisa_gpib_pass_control
  <2> QED
    BY <2>1 DEF IsSingle, SingleCalls
<1>5. CASE tclvisa_gpib_command
  <2>1. PICK args, values, results : SingleCall("gpib-command", args, values, results)
    BY <1>5 DEF tclvisa_gpib_command
  <2> QED
    BY <2>1 DEF IsSingle, SingleCalls
<1> QED
  BY <1>1, <1>2, <1>3, <1>4, <1>5 DEF CallNext

LEMMA FindOthers ==
  ASSUME FindInv, CallNext \/ FewerNext PROVE FindInv'
<1>1. CASE CallNext
  <2>1. PICK cmd \in SingleCalls :
          \E args, values, results : SingleCall(cmd, args, values, results)
    BY <1>1, CallsAreSingle DEF IsSingle
  <2>2. cmd # "find"
    BY DEF SingleCalls
  <2> QED
    BY <2>1, <2>2, SingleIsQuiet, FindQuiet DEF FindInv
<1>2. CASE tclvisa_get_attribute \/ tclvisa_parse_rsrc
  <2>1. /\ pc = "idle" /\ pc' = pc /\ lists' = lists /\ present' = present
        /\ answer'.cmd \in {"get-attribute", "parse-rsrc"}
    BY <1>2, Answers DEF tclvisa_get_attribute, tclvisa_parse_rsrc, Begin, Idle
  <2> QED
    BY <2>1, FindQuiet DEF FindInv
<1>3. CASE tclvisa_set_attribute
  <2>1. PICK args \in One :
          SingleCall("set-attribute", args, <<AttributeWritten(args[1])>>, {0})
    BY <1>3 DEF tclvisa_set_attribute
  <2>2. /\ pc = "idle" /\ pc' = "idle" /\ lists' = lists /\ present' = present
        /\ answer'.cmd = "set-attribute"
    BY <2>1, SingleIsQuiet
  <2> QED
    BY <2>2, FindQuiet DEF FindInv
<1>4. CASE write_from_file
  BY <1>4, Answers, FindQuiet DEF write_from_file, Idle, Refused, FindInv
<1>5. CASE viWriteFromFile
  BY <1>5, Answers, FindQuiet DEF viWriteFromFile, TransferEnds, FindInv
<1>6. CASE read_to_file
  BY <1>6, Answers, FindQuiet DEF read_to_file, Idle, Refused, TransferEnds, FindInv
<1> QED
  BY <1>1, <1>2, <1>3, <1>4, <1>5, <1>6 DEF FewerNext

LEMMA FindStep ==
  ASSUME FindInv, [Next]_vars PROVE FindInv'
<1>1. CASE CallNext \/ FewerNext
  BY <1>1, FindOthers
<1>2. CASE tclvisa_find
  BY <1>2, FindBegins
<1>3. CASE FindNext
  BY <1>3, FindLoops
<1>4. CASE FindEnd
  BY <1>4, FindIsDone
<1>5. CASE ResourcesChange \/ FileChanges \/ UNCHANGED vars
  <2>1. /\ find' = find /\ pc' = pc /\ lists' = lists /\ answer' = answer
        /\ present' \subseteq Resources
    BY <1>5 DEF ResourcesChange, FileChanges, vars, FindInv
  <2> QED
    BY <2>1 DEF FindInv, Searching, Finds, FindIsComplete, FindListClosed, Idle, Ok
<1> QED
  BY <1>1, <1>2, <1>3, <1>4, <1>5 DEF Next, CallNext, FewerNext

LEMMA FindInitially ==
  ASSUME Init PROVE FindInv
<1>1. /\ present \subseteq Resources /\ pc = "idle" /\ lists = 0
      /\ answer.cmd = "none"
  BY DEF Init, NoAnswer
<1> QED
  BY <1>1 DEF FindInv, FindIsComplete, FindListClosed, Idle, Ok

\* Whatever resources there are, in whatever order VISA lists them, and
\* although they come and go while visa::find runs: a search that is not told
\* as failed has found all that there were when it began.
THEOREM FindComplete == Spec => []FindIsComplete
<1>1. FindInv => FindIsComplete
  BY DEF FindInv
<1> QED
  BY <1>1, FindInitially, FindStep, PTL DEF Spec

\* However a search ends, VISA has no find list open when visa::find returns.
THEOREM FindCloses == Spec => []FindListClosed
<1>1. FindInv => FindListClosed
  BY DEF FindInv
<1> QED
  BY <1>1, FindInitially, FindStep, PTL DEF Spec

-------------------------------------------------------------------------------
(* The last error *)

LEMMA ErrorStep ==
  ASSUME LastErrorExplains, [Next]_vars PROVE LastErrorExplains'
<1>1. ASSUME NEW cmd, NEW args, NEW values, NEW results,
             SingleCall(cmd, args, values, results)
      PROVE  LastErrorExplains'
  <2>1. CASE Refused(cmd, args)
    <3>1. answer'.code = "bad"
      BY <2>1, Answers DEF Refused
    <3> QED
      BY <3>1 DEF LastErrorExplains, Ok
  <2>2. CASE ~ Refused(cmd, args)
    <3>1. PICK status \in CallStatus :
            /\ lastError' = status
            /\ answer'.code = IF IsError(status) THEN "error" ELSE "ok"
      BY <1>1, <2>2 DEF SingleCall
    <3> QED
      BY <3>1 DEF LastErrorExplains
  <2> QED
    BY <2>1, <2>2
<1>2. CASE CallNext
  BY <1>1, <1>2, CallsAreSingle DEF IsSingle
<1>3. CASE tclvisa_set_attribute
  BY <1>1, <1>3 DEF tclvisa_set_attribute
<1>4. CASE tclvisa_get_attribute
  <2>1. PICK status \in CallStatus :
          /\ lastError' = status
          /\ answer'.code = IF IsError(status) THEN "error" ELSE "ok"
    BY <1>4 DEF tclvisa_get_attribute
  <2> QED
    BY <2>1 DEF LastErrorExplains
<1>5. CASE tclvisa_parse_rsrc
  <2>1. PICK stored \in {SUCCESS, WARN, NFOUND, INV_NAME, CONN_LOST} :
          /\ lastError' = stored
          /\ answer'.code = IF IsError(stored) THEN "error" ELSE "ok"
    BY <1>5, Answers DEF tclvisa_parse_rsrc
  <2> QED
    BY <2>1 DEF LastErrorExplains
<1>6. ASSUME NEW status, NEW res, FindEnds(status, res)
      PROVE  LastErrorExplains'
  BY <1>6, Answers, Statuses DEF FindEnds, LastErrorExplains
<1>7. CASE tclvisa_find
  <2>1. CASE answer' = NoAnswer
    BY <2>1 DEF NoAnswer, LastErrorExplains
  <2>2. CASE answer' # NoAnswer
    <3>1. PICK status : FindEnds(status, << >>)
      BY <1>7, <2>2 DEF tclvisa_find
    <3> QED
      BY <1>6, <3>1
  <2> QED
    BY <2>1, <2>2
<1>8. CASE FindEnd
  BY <1>6, <1>8 DEF FindEnd
<1>9. ASSUME NEW cmd \in {"write-from-file", "read-to-file"}, NEW args, NEW status,
             NEW n, NEW k, TransferEnds(cmd, args, status, n, k)
      PROVE  LastErrorExplains'
  <2>1. TMO \in Suppressed(cmd)
    BY <1>9 DEF Suppressed
  <2>2. answer'.cmd = cmd /\ lastError' = status
    BY <1>9, Answers DEF TransferEnds
  <2>3. CASE IsError(status) /\ status # TMO
    <3>1. answer'.code = "error"
      BY <1>9, <2>3, Answers DEF TransferEnds
    <3> QED
      BY <2>2, <2>3, <3>1 DEF LastErrorExplains
  <2>4. CASE ~ (IsError(status) /\ status # TMO)
    <3>1. answer'.code = "ok"
      BY <1>9, <2>4, Answers DEF TransferEnds
    <3> QED
      BY <2>1, <2>2, <2>4, <3>1 DEF LastErrorExplains
  <2> QED
    BY <2>3, <2>4
<1>10. CASE viWriteFromFile
  BY <1>9, <1>10 DEF viWriteFromFile
<1>11. CASE write_from_file
  <2>1. answer'.code \in {"bad", "none"}
    BY <1>11, Answers DEF write_from_file, Refused
  <2> QED
    BY <2>1 DEF LastErrorExplains
<1>12. CASE read_to_file
  <2>1. CASE \E args : Refused("read-to-file", args)
    <3>1. answer'.code = "bad"
      BY <2>1, Answers DEF Refused
    <3> QED
      BY <3>1 DEF LastErrorExplains
  <2>2. CASE ~ \E args : Refused("read-to-file", args)
    BY <1>9, <1>12, <2>2 DEF read_to_file
  <2> QED
    BY <2>1, <2>2
<1>13. CASE FindNext \/ ResourcesChange \/ FileChanges \/ UNCHANGED vars
  BY <1>13 DEF FindNext, ResourcesChange, FileChanges, vars, LastErrorExplains
<1> QED
  BY <1>2, <1>3, <1>4, <1>5, <1>7, <1>8, <1>10, <1>11, <1>12, <1>13
     DEF Next, CallNext

\* After any of these commands visa::last-error tells an error if the command
\* threw one, and none of an earlier command or call if it succeeded, but for an
\* error that this command is documented to suppress.
THEOREM ErrorsExplained == Spec => []LastErrorExplains
<1>1. Init => LastErrorExplains
  BY DEF Init, LastErrorExplains, NoAnswer
<1> QED
  BY <1>1, ErrorStep, PTL DEF Spec

-------------------------------------------------------------------------------
(* Integers *)

Fits(cmd, args) == \A i \in DOMAIN args : args[i] \in 0 .. Width(cmd, i) - 1

LEMMA SingleIsExact ==
  ASSUME NEW cmd \in SingleCalls, NEW args, NEW values, NEW results,
         SingleCall(cmd, args, values, results),
         (\E i \in DOMAIN values : values[i] = Bad) <=> ~ Fits(cmd, args),
         Fits(cmd, args) => \A i \in DOMAIN args : values[i] = args[i]
  PROVE  IntegersReachVisa'
<1>1. CASE Fits(cmd, args)
  <2>1. PICK status \in CallStatus, value \in results :
          answer' = [cmd |-> cmd, args |-> args, values |-> values,
                     code |-> IF IsError(status) THEN "error" ELSE "ok",
                     value |-> IF IsError(status) THEN 0 ELSE value]
    BY <1>1 DEF SingleCall
  <2>2. answer'.cmd = cmd /\ answer'.args = args /\ answer'.values = values
        /\ answer'.code # "bad"
    BY <2>1
  <2> QED
    BY <1>1, <2>2 DEF IntegersReachVisa, Fits
<1>2. CASE ~ Fits(cmd, args)
  <2>1. answer'.cmd = cmd /\ answer'.args = args /\ answer'.code = "bad"
    BY <1>2, Answers DEF SingleCall, Refused
  <2> QED
    BY <1>2, <2>1 DEF IntegersReachVisa, Fits
<1> QED
  BY <1>1, <1>2

LEMMA OthersAnswer ==
  ASSUME \/ tclvisa_set_attribute \/ tclvisa_get_attribute \/ tclvisa_parse_rsrc
         \/ tclvisa_find \/ FindEnd
         \/ write_from_file \/ viWriteFromFile \/ read_to_file
  PROVE  /\ answer'.cmd \notin SingleCalls
         /\ answer'.cmd = "get-attribute" => tclvisa_get_attribute
<1> USE DEF SingleCalls
<1>1. CASE tclvisa_set_attribute
  <2>1. PICK args : SingleCall("set-attribute", args, <<AttributeWritten(args[1])>>, {0})
    BY <1>1 DEF tclvisa_set_attribute
  <2>2. answer'.cmd = "set-attribute"
    BY <2>1, SingleIsQuiet
  <2> QED
    BY <2>2
<1>2. CASE tclvisa_get_attribute
  <2>1. answer'.cmd = "get-attribute"
    BY <1>2 DEF tclvisa_get_attribute
  <2> QED
    BY <1>2, <2>1
<1>3. CASE tclvisa_parse_rsrc
  <2>1. answer'.cmd = "parse-rsrc"
    BY <1>3, Answers DEF tclvisa_parse_rsrc
  <2> QED
    BY <2>1
<1>4. CASE tclvisa_find \/ FindEnd
  <2>1. answer'.cmd \in {"find", "none"}
    BY <1>4, Answers DEF tclvisa_find, FindEnd, FindEnds, NoAnswer
  <2> QED
    BY <2>1
<1>5. CASE write_from_file \/ viWriteFromFile
  <2>1. answer'.cmd = "write-from-file"
    BY <1>5, Answers DEF write_from_file, viWriteFromFile, TransferEnds, Refused
  <2> QED
    BY <2>1
<1>6. CASE read_to_file
  <2>1. answer'.cmd = "read-to-file"
    BY <1>6, Answers DEF read_to_file, TransferEnds, Refused
  <2> QED
    BY <2>1
<1> QED
  BY <1>1, <1>2, <1>3, <1>4, <1>5, <1>6

LEMMA ExactStep ==
  ASSUME IntegersReachVisa, [Next]_vars PROVE IntegersReachVisa'
<1> USE DEF Bad
<1>1. \A n \in Int : /\ Tcl_GetUInt16FromObj(n) = Bad <=> n \notin 0 .. U16 - 1
                     /\ n \in 0 .. U16 - 1 => Tcl_GetUInt16FromObj(n) = n
                     /\ Tcl_GetUInt32FromObj(n) = Bad <=> n \notin 0 .. U32 - 1
                     /\ n \in 0 .. U32 - 1 => Tcl_GetUInt32FromObj(n) = n
  BY CommandsAssumption DEF Tcl_GetUInt16FromObj, Tcl_GetUInt32FromObj
<1>2. ASSUME NEW cmd \in SingleCalls \ {"gpib-command"}, OneUInt16(cmd)
      PROVE  IntegersReachVisa'
  <2>1. PICK n \in Ints :
          SingleCall(cmd, <<n>>, <<Tcl_GetUInt16FromObj(n)>>, {0})
    BY <1>2 DEF OneUInt16, One
  <2>2. n \in Int /\ Width(cmd, 1) = U16
    BY CommandsAssumption DEF Width
  <2>3. Fits(cmd, <<n>>) <=> n \in 0 .. U16 - 1
    BY <2>2 DEF Fits
  <2> QED
    BY <1>1, <2>1, <2>2, <2>3, SingleIsExact
<1>3. CASE \/ tclvisa_assert_trigger \/ tclvisa_assert_util_signal
           \/ tclvisa_gpib_control_atn \/ tclvisa_gpib_control_ren
  BY <1>2, <1>3
     DEF tclvisa_assert_trigger, tclvisa_assert_util_signal,
         tclvisa_gpib_control_atn, tclvisa_gpib_control_ren, SingleCalls
<1>4. CASE tclvisa_gpib_send_ifc
  <2>1. Fits("gpib-send-ifc", << >>)
    BY DEF Fits
  <2> QED
    BY <1>4, <2>1, SingleIsExact DEF tclvisa_gpib_send_ifc, SingleCalls
<1>5. CASE tclvisa_assert_intr_signal
  <2> DEFINE cmd == "assert-intr-signal"
  <2>1. PICK args \in OneOrTwo :
          SingleCall(cmd, args,
            <<Tcl_GetUInt16FromObj(args[1]),
              IF Len(args) > 1 THEN Tcl_GetUInt32FromObj(args[2]) ELSE 0>>, {0})
    BY <1>5 DEF tclvisa_assert_intr_signal
  <2>2. Width(cmd, 1) = U16 /\ Width(cmd, 2) = U32 /\ cmd \in SingleCalls
    BY DEF Width, SingleCalls
  <2>3. CASE \E i \in Ints : args = <<i>>
    <3>1. PICK i \in Ints : args = <<i>>
      BY <2>3
    <3>2. SingleCall(cmd, args, <<Tcl_GetUInt16FromObj(i), 0>>, {0})
      BY <2>1, <3>1
    <3>3. i \in Int /\ (Fits(cmd, args) <=> i \in 0 .. U16 - 1)
      BY <2>2, <3>1, CommandsAssumption DEF Fits
    <3> HIDE DEF cmd
    <3> QED
      BY <1>1, <2>2, <3>1, <3>2, <3>3, SingleIsExact
  <2>4. CASE \E i, j \in Ints : args = <<i, j>>
    <3>1. PICK i \in Ints, j \in Ints : args = <<i, j>>
      BY <2>4
    <3>2. SingleCall(cmd, args, <<Tcl_GetUInt16FromObj(i), Tcl_GetUInt32FromObj(j)>>, {0})
      BY <2>1, <3>1
    <3>3. /\ i \in Int /\ j \in Int
          /\ Fits(cmd, args) <=> i \in 0 .. U16 - 1 /\ j \in 0 .. U32 - 1
      BY <2>2, <3>1, CommandsAssumption DEF Fits
    <3> HIDE DEF cmd
    <3> QED
      BY <1>1, <2>2, <3>1, <3>2, <3>3, SingleIsExact
  <2> QED
    BY <2>1, <2>3, <2>4 DEF OneOrTwo
<1>6. CASE tclvisa_gpib_pass_control
  <2> DEFINE cmd == "gpib-pass-control"
  <2>1. PICK args \in OneOrTwo :
          SingleCall(cmd, args,
            <<Tcl_GetUInt16FromObj(args[1]),
              IF Len(args) > 1 THEN Tcl_GetUInt16FromObj(args[2]) ELSE NoSecAddr>>, {0})
    BY <1>6 DEF tclvisa_gpib_pass_control
  <2>2. Width(cmd, 1) = U16 /\ Width(cmd, 2) = U16 /\ cmd \in SingleCalls
    BY DEF Width, SingleCalls
  <2>3. CASE \E i \in Ints : args = <<i>>
    <3>1. PICK i \in Ints : args = <<i>>
      BY <2>3
    <3>2. SingleCall(cmd, args, <<Tcl_GetUInt16FromObj(i), NoSecAddr>>, {0})
      BY <2>1, <3>1
    <3>3. /\ i \in Int /\ NoSecAddr # Bad
          /\ Fits(cmd, args) <=> i \in 0 .. U16 - 1
      BY <2>2, <3>1, CommandsAssumption DEF Fits
    <3> HIDE DEF cmd
    <3> QED
      BY <1>1, <2>2, <3>1, <3>2, <3>3, SingleIsExact
  <2>4. CASE \E i, j \in Ints : args = <<i, j>>
    <3>1. PICK i \in Ints, j \in Ints : args = <<i, j>>
      BY <2>4
    <3>2. SingleCall(cmd, args, <<Tcl_GetUInt16FromObj(i), Tcl_GetUInt16FromObj(j)>>, {0})
      BY <2>1, <3>1
    <3>3. /\ i \in Int /\ j \in Int
          /\ Fits(cmd, args) <=> i \in 0 .. U16 - 1 /\ j \in 0 .. U16 - 1
      BY <2>2, <3>1, CommandsAssumption DEF Fits
    <3> HIDE DEF cmd
    <3> QED
      BY <1>1, <2>2, <3>1, <3>2, <3>3, SingleIsExact
  <2> QED
    BY <2>1, <2>3, <2>4 DEF OneOrTwo
<1>7. CASE tclvisa_gpib_command
  <2> DEFINE cmd == "gpib-command"
  <2> DEFINE length(args) == IF args # << >> THEN Tcl_GetUInt32FromObj(args[1])
                             ELSE IF BufLen >= U32 THEN U32 - 1 ELSE BufLen
  <2>0. PICK args \in AtMostOne :
          \E results : SingleCall(cmd, args, <<length(args)>>, results)
    BY <1>7 DEF tclvisa_gpib_command
  <2>1. PICK n, results : n = length(args) /\ SingleCall(cmd, args, <<n>>, results)
    BY <2>0
  <2>2. Width(cmd, 1) = U32 /\ cmd \in SingleCalls
    BY DEF Width, SingleCalls
  <2>3. CASE args = << >>
    <3>1. n # Bad
      BY <2>1, <2>3, CommandsAssumption
    <3>2. Fits(cmd, args)
      BY <2>3 DEF Fits
    <3>3. \A i \in DOMAIN args : <<n>>[i] = args[i]
      BY <2>3
    <3>4. ~ \E i \in DOMAIN <<n>> : <<n>>[i] = Bad
      BY <3>1
    <3> HIDE DEF cmd
    <3> QED
      BY <2>1, <2>2, <3>2, <3>3, <3>4, SingleIsExact
  <2>4. CASE \E i \in Ints : args = <<i>>
    <3>1. PICK i \in Ints : args = <<i>>
      BY <2>4
    <3>2. n = Tcl_GetUInt32FromObj(i)
      BY <2>1, <3>1
    <3>3. i \in Int /\ (Fits(cmd, args) <=> i \in 0 .. U32 - 1)
      BY <2>2, <3>1, CommandsAssumption DEF Fits
    <3> HIDE DEF cmd
    <3> QED
      BY <1>1, <2>1, <2>2, <3>1, <3>2, <3>3, SingleIsExact
  <2> QED
    BY <2>1, <2>3, <2>4 DEF AtMostOne, One
<1>8. CASE \/ tclvisa_set_attribute \/ tclvisa_get_attribute \/ tclvisa_parse_rsrc
           \/ tclvisa_find \/ FindEnd
           \/ write_from_file \/ viWriteFromFile \/ read_to_file
  <2>1. answer'.cmd \notin SingleCalls
    BY <1>8, OthersAnswer
  <2> QED
    BY <2>1 DEF IntegersReachVisa
<1>9. CASE FindNext \/ ResourcesChange \/ FileChanges \/ UNCHANGED vars
  BY <1>9 DEF FindNext, ResourcesChange, FileChanges, vars, IntegersReachVisa
<1> QED
  BY <1>3, <1>4, <1>5, <1>6, <1>7, <1>8, <1>9 DEF Next

\* Whatever integer a script passes, for any widths of VISA's parameters: VISA is
\* given that integer, or is not called at all; and what fits is never refused.
THEOREM IntegersExact == Spec => []IntegersReachVisa
<1>1. Init => IntegersReachVisa
  BY DEF Init, IntegersReachVisa, NoAnswer, SingleCalls
<1> QED
  BY <1>1, ExactStep, PTL DEF Spec

-------------------------------------------------------------------------------
(* Attributes *)

\* Of the numbers that are congruent to v, % takes the one below m.
LEMMA Small == ASSUME NEW m \in Nat \ {0}, NEW v \in 0 .. m - 1 PROVE v % m = v
OBVIOUS

LEMMA Negative ==
  ASSUME NEW m \in Nat \ {0}, NEW v \in Int, v < 0, -m <= v
  PROVE  v % m = v + m
OBVIOUS

LEMMA Whole == ASSUME NEW m \in Nat \ {0} PROVE 0 % m = 0 /\ m % m = 0
OBVIOUS

\* What is read is the attribute's state or, of a negative one, its complement;
\* as a number of 32 bits it can be written, as it is.
LEMMA ReadAndWritten ==
  ASSUME NEW a \in States
  PROVE  /\ a.value >= 0 => AttributeRead(a) = a.value
         /\ AttributeWritten(AttributeRead(a)) # Bad
         /\ (AttributeWritten(AttributeRead(a)) - a.value) % Modulus(a) = 0
<1> DEFINE v == a.value
           m == Modulus(a)
           r == AttributeRead(a)
<1>1. m \in Nat \ {0} /\ m <= U32 /\ v \in Int /\ -m <= v /\ v < m
  <2>1. CASE a \in [type : {"ViInt16"}, value : {n \in Int : -U16 <= 2 * n /\ 2 * n < U16}]
    <3>1. m = U16 /\ v \in Int /\ -U16 <= 2 * v /\ 2 * v < U16
      BY <2>1 DEF Modulus
    <3> QED
      BY <3>1, CommandsAssumption
  <2>2. CASE a \in [type : {"ViUInt32"}, value : 0 .. U32 - 1]
    <3>1. m = U32 /\ v \in 0 .. U32 - 1
      BY <2>2 DEF Modulus
    <3> QED
      BY <3>1, CommandsAssumption
  <2> QED
    BY <2>1, <2>2, CommandsAssumption
<1>2. r = v % m
  BY DEF AttributeRead
<1>3. U32 \in Nat \ {0}
  BY CommandsAssumption
<1> HIDE DEF v, m, r
<1>4. CASE v >= 0
  <2>1. r = v /\ r \in 0 .. U32 - 1
    BY <1>1, <1>2, <1>3, <1>4, Small
  <2>2. AttributeWritten(r) = r
    BY <1>3, <2>1, Small DEF AttributeWritten
  <2>3. (AttributeWritten(r) - v) % m = 0
    <3>1. AttributeWritten(r) - v = 0
      BY <1>1, <2>1, <2>2
    <3> QED
      BY <1>1, <3>1, Whole
  <2> QED
    BY <2>1, <2>2, <2>3 DEF v, m, r, Bad
<1>5. CASE v < 0
  <2>1. r = v + m /\ r \in 0 .. U32 - 1
    BY <1>1, <1>2, <1>3, <1>5, Negative
  <2>2. AttributeWritten(r) = r
    BY <1>3, <2>1, Small DEF AttributeWritten
  <2>3. (AttributeWritten(r) - v) % m = 0
    <3>1. AttributeWritten(r) - v = m
      BY <1>1, <2>1, <2>2
    <3> QED
      BY <1>1, <3>1, Whole
  <2>4. ~ (v >= 0)
    BY <1>1, <1>5
  <2> QED
    BY <2>1, <2>2, <2>3, <2>4 DEF v, m, r, Bad
<1> QED
  BY <1>1, <1>4, <1>5

LEMMA AttributeStep ==
  ASSUME AttributeRoundTrip, [Next]_vars PROVE AttributeRoundTrip'
<1>1. CASE tclvisa_get_attribute
  <2>1. PICK a \in States, status \in CallStatus :
          /\ lastError' = status
          /\ answer' = [cmd |-> "get-attribute", args |-> <<a>>, values |-> << >>,
                        code |-> IF IsError(status) THEN "error" ELSE "ok",
                        value |-> IF status = SUCCESS THEN AttributeRead(a) ELSE 0]
    BY <1>1 DEF tclvisa_get_attribute
  <2>2. /\ answer'.args[1] = a
        /\ lastError' = SUCCESS => answer'.value = AttributeRead(a)
    BY <2>1
  <2> QED
    BY <2>2, ReadAndWritten DEF AttributeRoundTrip
<1>2. CASE answer'.cmd # "get-attribute"
  BY <1>2 DEF AttributeRoundTrip, Ok
<1>3. CASE CallNext
  <2>1. PICK cmd \in SingleCalls :
          \E args, values, results : SingleCall(cmd, args, values, results)
    BY <1>3, CallsAreSingle DEF IsSingle
  <2>2. answer'.cmd = cmd
    BY <2>1, SingleIsQuiet
  <2> QED
    BY <1>2, <2>2 DEF SingleCalls
<1>4. CASE UNCHANGED <<answer, lastError>>
  BY <1>4 DEF AttributeRoundTrip, Ok
<1> QED
  BY <1>1, <1>2, <1>3, <1>4, OthersAnswer
     DEF Next, CallNext, FindNext, ResourcesChange, FileChanges, vars

\* A number that visa::get-attribute has told can be given to visa::set-attribute
\* again and keeps all bits of the attribute, whatever its type and state.
THEOREM AttributesRoundTrip == Spec => []AttributeRoundTrip
<1>1. Init => AttributeRoundTrip
  BY DEF Init, AttributeRoundTrip, NoAnswer, Ok
<1> QED
  BY <1>1, AttributeStep, PTL DEF Spec

-------------------------------------------------------------------------------
(* File transfers *)

\* Between the size taken and VISA's opening of the file, nobody but another
\* program can make the count wrong.
Writing ==
  /\ count \in Nat
  /\ answer.cmd = "write-from-file" /\ answer.code = "none"
  /\ answer.args = << >> /\ ~ touched => count = getFileSize

TransferInv ==
  /\ file \in Nat \cup {NoFile}
  /\ pc \in {"idle", "find", "write"}
  /\ pc = "write" => Writing
  /\ TransferIsTold

\* A command that transfers no file.
LEMMA TransferQuiet ==
  ASSUME TransferInv, pc # "write", pc' \in {"idle", "find"}, file' = file,
         answer'.cmd \notin {"write-from-file", "read-to-file"}
  PROVE  TransferInv'
BY DEF TransferInv, TransferIsTold, Ok

LEMMA SizeIsNat ==
  ASSUME TransferInv
  PROVE  getFileSize \in Nat /\ (file # NoFile => getFileSize = file)
BY DEF TransferInv, getFileSize, NoFile

LEMMA CountsAreNat ==
  ASSUME NEW n \in Int, Tcl_GetUIntFromObj(n) # Bad
  PROVE  Tcl_GetUIntFromObj(n) \in Nat
BY CommandsAssumption DEF Tcl_GetUIntFromObj, Bad

LEMMA WriteBegins ==
  ASSUME TransferInv, write_from_file PROVE TransferInv'
<1> DEFINE size(args) == IF args = << >> THEN getFileSize ELSE Tcl_GetUIntFromObj(args[1])
<1>0. PICK args \in AtMostOne :
        IF size(args) = Bad
          THEN Refused("write-from-file", args) /\ count' = 0 /\ UNCHANGED pc
          ELSE /\ Answer("write-from-file", args, "none", 0)
               /\ count' = size(args)
               /\ pc' = "write"
  BY DEF write_from_file
<1>1. PICK n :
        /\ n = size(args)
        /\ IF n = Bad
             THEN Refused("write-from-file", args) /\ count' = 0 /\ UNCHANGED pc
             ELSE /\ Answer("write-from-file", args, "none", 0)
                  /\ count' = n
                  /\ pc' = "write"
  BY <1>0
<1>2. pc = "idle" /\ file' = file /\ moved' = 0 /\ touched' = FALSE
  BY DEF write_from_file, Idle
<1>3. CASE n = Bad
  <2>1. answer'.code = "bad" /\ pc' = "idle"
    BY <1>1, <1>2, <1>3, Answers DEF Refused
  <2> QED
    BY <2>1, <1>2 DEF TransferInv, TransferIsTold, Ok
<1>4. CASE n # Bad
  <2>1. /\ answer'.cmd = "write-from-file" /\ answer'.code = "none"
        /\ answer'.args = args /\ pc' = "write" /\ count' = n
    BY <1>1, <1>4, Answers
  <2>2. n \in Nat
    <3>1. CASE args = << >>
      BY <1>1, <3>1, SizeIsNat
    <3>2. CASE args # << >>
      <4>1. PICK i \in Ints : args = <<i>>
        BY <3>2 DEF AtMostOne, One
      <4>2. args[1] \in Int
        BY <4>1, CommandsAssumption
      <4> QED
        BY <1>1, <1>4, <3>2, <4>2, CountsAreNat
    <3> QED
      BY <3>1, <3>2
  <2>3. Writing'
    BY <1>1, <1>2, <2>1, <2>2 DEF Writing, getFileSize, NoFile
  <2> QED
    BY <1>2, <2>1, <2>3 DEF TransferInv, TransferIsTold, Ok
<1> QED
  BY <1>3, <1>4

LEMMA WriteEnds ==
  ASSUME TransferInv, viWriteFromFile PROVE TransferInv'
<1>1. Writing /\ pc' = "idle" /\ file' = file /\ touched' = touched
  BY DEF TransferInv, viWriteFromFile
<1>2. PICK n, most, status, k :
        /\ n = count % U32 /\ most = Lesser(n, getFileSize)
        /\ status = SUCCESS => k = most /\ file # NoFile
        /\ TransferEnds("write-from-file", answer.args, status, n, k)
  BY Statuses DEF viWriteFromFile, FILE_ERROR, SUCCESS
<1>3. /\ lastError' = status /\ moved' = k
      /\ answer'.cmd = "write-from-file" /\ answer'.args = answer.args
      /\ answer'.code = "ok" => answer'.value = k
  BY <1>2, Answers DEF TransferEnds
<1>4. ASSUME answer.args = << >>, status = SUCCESS, ~ touched, file < U32
      PROVE  k = file
  <2>1. count = file /\ file \in Nat /\ getFileSize = file
    BY <1>1, <1>2, <1>4, SizeIsNat DEF Writing, TransferInv
  <2>2. file % U32 = file
    BY <1>4, <2>1, CommandsAssumption
  <2> QED
    BY <1>2, <1>4, <2>1, <2>2 DEF Lesser
<1> QED
  BY <1>1, <1>3, <1>4 DEF TransferInv, TransferIsTold, Ok

LEMMA ReadEnds ==
  ASSUME TransferInv, read_to_file PROVE TransferInv'
<1>1. pc = "idle" /\ pc' = "idle"
  BY DEF read_to_file, Idle
<1>2. PICK args \in One :
        LET n == Tcl_GetUIntFromObj(args[1]) IN
        IF n = Bad
          THEN Refused("read-to-file", args) /\ moved' = 0 /\ UNCHANGED file
          ELSE \/ /\ TransferEnds("read-to-file", args, FILE_ERROR, n, 0)
                  /\ UNCHANGED file
               \/ \E status \in {SUCCESS, TMO, CONN_LOST}, k \in {0, n} :
                    /\ status = TMO => k < n
                    /\ TransferEnds("read-to-file", args, status, n, k)
                    /\ file' = k
  BY DEF read_to_file
<1> DEFINE n == Tcl_GetUIntFromObj(args[1])
<1>3. CASE n = Bad
  <2>1. answer'.code = "bad" /\ file' = file
    BY <1>2, <1>3, Answers DEF Refused
  <2> QED
    BY <1>1, <2>1 DEF TransferInv, TransferIsTold, Ok
<1>4. CASE n # Bad
  <2>1. n \in Nat
    <3>1. args[1] \in Int
      BY CommandsAssumption DEF One
    <3> QED
      BY <1>2, <1>4, <3>1, CountsAreNat
  <2>2. /\ answer'.cmd = "read-to-file"
        /\ answer'.code = "ok" => answer'.value = moved'
        /\ file' \in {file, 0, n}
    BY <1>2, <1>4, Answers DEF TransferEnds
  <2> QED
    BY <1>1, <2>1, <2>2 DEF TransferInv, TransferIsTold, Ok
<1> QED
  BY <1>3, <1>4

LEMMA TransferStep ==
  ASSUME TransferInv, [Next]_vars PROVE TransferInv'
<1>1. CASE CallNext
  <2>1. PICK cmd \in SingleCalls :
          \E args, values, results : SingleCall(cmd, args, values, results)
    BY <1>1, CallsAreSingle DEF IsSingle
  <2>2. cmd \notin {"write-from-file", "read-to-file"}
    BY DEF SingleCalls
  <2> QED
    BY <2>1, <2>2, SingleIsQuiet, TransferQuiet
<1>2. CASE tclvisa_set_attribute
  <2>1. PICK args : SingleCall("set-attribute", args, <<AttributeWritten(args[1])>>, {0})
    BY <1>2 DEF tclvisa_set_attribute
  <2>2. /\ pc = "idle" /\ pc' = "idle" /\ file' = file
        /\ answer'.cmd = "set-attribute"
    BY <2>1, SingleIsQuiet
  <2> QED
    BY <2>2, TransferQuiet
<1>3. CASE tclvisa_get_attribute \/ tclvisa_parse_rsrc
  <2>1. /\ pc = "idle" /\ pc' = "idle" /\ file' = file
        /\ answer'.cmd \in {"get-attribute", "parse-rsrc"}
    BY <1>3, Answers DEF tclvisa_get_attribute, tclvisa_parse_rsrc, Begin, Idle
  <2> QED
    BY <2>1, TransferQuiet
<1>4. CASE tclvisa_find \/ FindEnd
  <2>1. /\ pc # "write" /\ pc' \in {"idle", "find"} /\ file' = file
        /\ answer'.cmd \in {"find", "none"}
    BY <1>4, Answers DEF tclvisa_find, FindEnd, FindEnds, NoAnswer, Idle
  <2> QED
    BY <2>1, TransferQuiet
<1>5. CASE write_from_file
  BY <1>5, WriteBegins
<1>6. CASE viWriteFromFile
  BY <1>6, WriteEnds
<1>7. CASE read_to_file
  BY <1>7, ReadEnds
<1>8. CASE FileChanges
  <2>1. /\ touched' = TRUE /\ file' \in Nat \cup {NoFile} /\ pc' = pc
        /\ answer' = answer /\ moved' = moved /\ count' = count
    BY <1>8, CommandsAssumption DEF FileChanges
  <2> QED
    BY <2>1 DEF TransferInv, TransferIsTold, Writing, Ok
<1>9. CASE FindNext \/ ResourcesChange \/ UNCHANGED vars
  BY <1>9 DEF FindNext, ResourcesChange, vars, TransferInv, TransferIsTold, Writing,
              Ok, getFileSize
<1> QED
  BY <1>1, <1>2, <1>3, <1>4, <1>5, <1>6, <1>7, <1>8, <1>9 DEF Next, CallNext

\* visa::write-from-file and visa::read-to-file tell how many bytes went over,
\* and without a count the first sends the whole of a file that nobody has
\* changed and whose size VISA's parameter can hold.
THEOREM TransfersTold == Spec => []TransferIsTold
<1>1. Init => TransferInv
  BY CommandsAssumption
     DEF Init, TransferInv, TransferIsTold, Ok, NoAnswer
<1>2. TransferInv => TransferIsTold
  BY DEF TransferInv
<1> QED
  BY <1>1, <1>2, TransferStep, PTL DEF Spec

-------------------------------------------------------------------------------
(* Types *)

Values == 0 .. U32 - 1

Codes == {"none", "bad", "error", "ok"}

\* What TypeOK says beyond FindInv and TransferInv.
Rest ==
  /\ lastError \in {SUCCESS, WARN, TMO, CONN_LOST, FILE_ERROR}
  /\ count \in Nat
  /\ answer.values \in Seq(Values)
  /\ answer.code \in Codes
  /\ moved \in Values
  /\ touched \in BOOLEAN

TypeInv == FindInv /\ TransferInv /\ find.left \in Nat /\ Rest

LEMMA TypesFollow == TypeInv => TypeOK
BY DEF TypeInv, FindInv, TransferInv, FindListClosed, Rest, TypeOK, Values, Codes

LEMMA SmallLists ==
  /\ << >> \in Seq(Values)
  /\ \A a, b \in Values : <<a>> \in Seq(Values) /\ <<a, b>> \in Seq(Values)
OBVIOUS

LEMMA LeftKept ==
  ASSUME find.left \in Nat, FindInv', [Next]_vars PROVE find'.left \in Nat
<1>1. CASE pc' = "find"
  BY <1>1 DEF FindInv, Searching, Finds
<1>2. CASE CallNext /\ pc' # "find"
  <2>1. PICK cmd, args, values, results : SingleCall(cmd, args, values, results)
    BY <1>2, CallsAreSingle DEF IsSingle
  <2>2. find' = NoFind
    BY <2>1 DEF SingleCall, Begin
  <2> QED
    BY <2>2 DEF NoFind
<1>3. CASE tclvisa_set_attribute
  <2>1. PICK args : SingleCall("set-attribute", args, <<AttributeWritten(args[1])>>, {0})
    BY <1>3 DEF tclvisa_set_attribute
  <2>2. find' = NoFind
    BY <2>1 DEF SingleCall, Begin
  <2> QED
    BY <2>2 DEF NoFind
<1>4. CASE \/ tclvisa_get_attribute \/ tclvisa_parse_rsrc
           \/ write_from_file \/ read_to_file
  <2>1. find' = NoFind
    BY <1>4 DEF tclvisa_get_attribute, tclvisa_parse_rsrc, write_from_file,
                read_to_file, Begin
  <2> QED
    BY <2>1 DEF NoFind
<1>5. CASE tclvisa_find /\ pc' # "find"
  <2>1. find' = NoFind
    BY <1>5 DEF tclvisa_find
  <2> QED
    BY <2>1 DEF NoFind
<1>6. CASE \/ FindEnd \/ viWriteFromFile \/ ResourcesChange \/ FileChanges
           \/ UNCHANGED vars
  <2>1. find' = find
    BY <1>6 DEF FindEnd, viWriteFromFile, ResourcesChange, FileChanges, vars
  <2> QED
    BY <2>1
<1>7. CASE FindNext /\ pc' # "find"
  BY <1>7 DEF FindNext
<1> QED
  BY <1>1, <1>2, <1>3, <1>4, <1>5, <1>6, <1>7 DEF Next, CallNext

\* A command of one VISA call whose integers have VISA's types.
LEMMA SingleTypes ==
  ASSUME Rest, NEW cmd, NEW args, NEW values, NEW results,
         SingleCall(cmd, args, values, results),
         (\A i \in DOMAIN values : values[i] # Bad) => values \in Seq(Values)
  PROVE  Rest'
<1>1. count' = 0 /\ moved' = 0 /\ touched' = FALSE /\ 0 \in Values
  BY CommandsAssumption DEF SingleCall, Begin, Values
<1>2. CASE \E i \in DOMAIN values : values[i] = Bad
  <2>1. Refused(cmd, args)
    BY <1>2 DEF SingleCall
  <2>2. answer'.values = << >> /\ answer'.code = "bad" /\ lastError' = lastError
    BY <2>1, Answers DEF Refused
  <2> QED
    BY <1>1, <2>2, SmallLists DEF Rest, Codes
<1>3. CASE \A i \in DOMAIN values : values[i] # Bad
  <2>1. PICK status \in CallStatus, value \in results :
          /\ lastError' = status
          /\ answer' = [cmd |-> cmd, args |-> args, values |-> values,
                        code |-> IF IsError(status) THEN "error" ELSE "ok",
                        value |-> IF IsError(status) THEN 0 ELSE value]
    BY <1>3 DEF SingleCall
  <2>2. answer'.values = values /\ answer'.code \in {"error", "ok"}
    BY <2>1
  <2> QED
    BY <1>1, <1>3, <2>1, <2>2 DEF Rest, Codes, CallStatus
<1> QED
  BY <1>2, <1>3

\* The conversions give a value of VISA's or refuse.
LEMMA Conversions ==
  ASSUME NEW n \in Int
  PROVE  /\ Tcl_GetUInt16FromObj(n) \in Values \cup {Bad}
         /\ Tcl_GetUInt32FromObj(n) \in Values \cup {Bad}
         /\ Tcl_GetUIntFromObj(n) \in Values \cup {Bad}
         /\ AttributeWritten(n) \in Values \cup {Bad}
<1>1. /\ Tcl_GetUInt16FromObj(n) \in Values \cup {Bad}
      /\ Tcl_GetUInt32FromObj(n) \in Values \cup {Bad}
  BY CommandsAssumption DEF Tcl_GetUInt16FromObj, Tcl_GetUInt32FromObj, Values
<1>2. n % U32 \in Values
  BY CommandsAssumption DEF Values
<1> QED
  BY <1>1, <1>2 DEF Tcl_GetUIntFromObj, AttributeWritten

\* A command with one integer, and one with two.
LEMMA OneTypes ==
  ASSUME Rest, NEW cmd, NEW args, NEW results, NEW x \in Values \cup {Bad},
         SingleCall(cmd, args, <<x>>, results)
  PROVE  Rest'
<1>1. (\A i \in DOMAIN <<x>> : <<x>>[i] # Bad) => <<x>> \in Seq(Values)
  BY SmallLists
<1> QED
  BY <1>1, SingleTypes

LEMMA TwoTypes ==
  ASSUME Rest, NEW cmd, NEW args, NEW results, NEW x \in Values \cup {Bad},
         NEW y \in Values \cup {Bad}, SingleCall(cmd, args, <<x, y>>, results)
  PROVE  Rest'
<1>1. (\A i \in DOMAIN <<x, y>> : <<x, y>>[i] # Bad) => <<x, y>> \in Seq(Values)
  BY SmallLists
<1> QED
  BY <1>1, SingleTypes

\* The arguments are integers.
LEMMA Arguments ==
  /\ \A args \in One \cup OneOrTwo : args[1] \in Int
  /\ \A args \in OneOrTwo : Len(args) > 1 => args[2] \in Int
  /\ \A args \in AtMostOne : args # << >> => args[1] \in Int
<1>1. Ints \subseteq Int
  BY CommandsAssumption
<1>2. \A i \in Ints : <<i>>[1] = i /\ Len(<<i>>) = 1
  OBVIOUS
<1>3. \A i, j \in Ints : <<i, j>>[1] = i /\ <<i, j>>[2] = j
  OBVIOUS
<1> QED
  BY <1>1, <1>2, <1>3 DEF One, OneOrTwo, AtMostOne

LEMMA CallTypes == ASSUME Rest, CallNext \/ tclvisa_set_attribute PROVE Rest'
<1>1. ASSUME NEW cmd, OneUInt16(cmd) PROVE Rest'
  <2>1. PICK args \in One : SingleCall(cmd, args, <<Tcl_GetUInt16FromObj(args[1])>>, {0})
    BY <1>1 DEF OneUInt16
  <2>2. Tcl_GetUInt16FromObj(args[1]) \in Values \cup {Bad}
    BY Arguments, Conversions
  <2> QED
    BY <2>1, <2>2, OneTypes
<1>2. CASE \/ tclvisa_assert_trigger \/ tclvisa_assert_util_signal
           \/ tclvisa_gpib_control_atn \/ tclvisa_gpib_control_ren
  BY <1>1, <1>2 DEF tclvisa_assert_trigger, tclvisa_assert_util_signal,
                    tclvisa_gpib_control_atn, tclvisa_gpib_control_ren
<1>3. CASE tclvisa_gpib_send_ifc
  <2>1. SingleCall("gpib-send-ifc", << >>, << >>, {0})
    BY <1>3 DEF tclvisa_gpib_send_ifc
  <2> QED
    BY <2>1, SmallLists, SingleTypes
<1>4. CASE tclvisa_assert_intr_signal
  <2> DEFINE second(args) == IF Len(args) > 1 THEN Tcl_GetUInt32FromObj(args[2]) ELSE 0
  <2>1. PICK args \in OneOrTwo :
          SingleCall("assert-intr-signal", args,
                     <<Tcl_GetUInt16FromObj(args[1]), second(args)>>, {0})
    BY <1>4 DEF tclvisa_assert_intr_signal
  <2>2. Tcl_GetUInt16FromObj(args[1]) \in Values \cup {Bad}
    BY Arguments, Conversions
  <2>3. second(args) \in Values \cup {Bad}
    <3>1. CASE Len(args) > 1
      BY <3>1, Arguments, Conversions
    <3>2. CASE ~ Len(args) > 1
      BY <3>2, CommandsAssumption DEF Values
    <3> QED
      BY <3>1, <3>2
  <2> HIDE DEF second
  <2> QED
    BY <2>1, <2>2, <2>3, TwoTypes
<1>5. CASE tclvisa_gpib_pass_control
  <2> DEFINE second(args) == IF Len(args) > 1 THEN Tcl_GetUInt16FromObj(args[2])
                                              ELSE NoSecAddr
  <2>1. PICK args \in OneOrTwo :
          SingleCall("gpib-pass-control", args,
                     <<Tcl_GetUInt16FromObj(args[1]), second(args)>>, {0})
    BY <1>5 DEF tclvisa_gpib_pass_control
  <2>2. Tcl_GetUInt16FromObj(args[1]) \in Values \cup {Bad}
    BY Arguments, Conversions
  <2>3. second(args) \in Values \cup {Bad}
    <3>1. CASE Len(args) > 1
      BY <3>1, Arguments, Conversions
    <3>2. CASE ~ Len(args) > 1
      BY <3>2, CommandsAssumption DEF Values
    <3> QED
      BY <3>1, <3>2
  <2> HIDE DEF second
  <2> QED
    BY <2>1, <2>2, <2>3, TwoTypes
<1>6. CASE tclvisa_gpib_command
  <2> DEFINE length(args) == IF args # << >> THEN Tcl_GetUInt32FromObj(args[1])
                             ELSE IF BufLen >= U32 THEN U32 - 1 ELSE BufLen
  <2>1. PICK args \in AtMostOne :
          \E results : SingleCall("gpib-command", args, <<length(args)>>, results)
    BY <1>6 DEF tclvisa_gpib_command
  <2>2. length(args) \in Values \cup {Bad}
    <3>1. CASE args # << >>
      BY <3>1, Arguments, Conversions
    <3>2. CASE args = << >>
      BY <3>2, CommandsAssumption DEF Values
    <3> QED
      BY <3>1, <3>2
  <2> HIDE DEF length
  <2> QED
    BY <2>1, <2>2, OneTypes
<1>7. CASE tclvisa_set_attribute
  <2>1. PICK args \in One :
          SingleCall("set-attribute", args, <<AttributeWritten(args[1])>>, {0})
    BY <1>7 DEF tclvisa_set_attribute
  <2>2. AttributeWritten(args[1]) \in Values \cup {Bad}
    BY Arguments, Conversions
  <2> QED
    BY <2>1, <2>2, OneTypes
<1> QED
  BY <1>2, <1>3, <1>4, <1>5, <1>6, <1>7 DEF CallNext

\* A transfer of k bytes.
LEMMA TransferTypes ==
  ASSUME NEW cmd, NEW args, NEW status \in {SUCCESS, TMO, CONN_LOST, FILE_ERROR},
         NEW asked, NEW k \in Values, TransferEnds(cmd, args, status, asked, k),
         count' \in Nat, touched' \in BOOLEAN
  PROVE  Rest'
<1>1. answer'.values = << >> /\ answer'.code \in {"error", "ok"}
  BY Answers DEF TransferEnds
<1> QED
  BY <1>1, SmallLists DEF TransferEnds, Rest, Codes

LEMMA RestKept == ASSUME TypeInv, [Next]_vars PROVE Rest'
<1> USE DEF TypeInv
<1>0. 0 \in Values /\ << >> \in Seq(Values)
  BY CommandsAssumption, SmallLists DEF Values
<1>1. CASE CallNext \/ tclvisa_set_attribute
  BY <1>1, CallTypes
<1>2. CASE tclvisa_get_attribute
  <2>1. PICK a \in States, status \in CallStatus :
          /\ lastError' = status
          /\ answer' = [cmd |-> "get-attribute", args |-> <<a>>, values |-> << >>,
                        code |-> IF IsError(status) THEN "error" ELSE "ok",
                        value |-> IF status = SUCCESS THEN AttributeRead(a) ELSE 0]
    BY <1>2 DEF tclvisa_get_attribute
  <2>2. answer'.values = << >> /\ answer'.code \in {"error", "ok"}
    BY <2>1
  <2> QED
    BY <1>0, <1>2, <2>1, <2>2 DEF tclvisa_get_attribute, Begin, Rest, Codes, CallStatus
<1>3. CASE tclvisa_parse_rsrc
  <2>1. lastError' \in {SUCCESS, WARN, CONN_LOST}
    BY <1>3 DEF tclvisa_parse_rsrc
  <2>2. answer'.values = << >> /\ answer'.code \in {"error", "ok"}
    BY <1>3, Answers DEF tclvisa_parse_rsrc
  <2> QED
    BY <1>0, <1>3, <2>1, <2>2 DEF tclvisa_parse_rsrc, Begin, Rest, Codes
<1>4. ASSUME NEW status \in {SUCCESS, NFOUND, CONN_LOST}, NEW res, FindEnds(status, res)
      PROVE  /\ lastError' \in {SUCCESS, CONN_LOST}
             /\ answer'.values = << >> /\ answer'.code \in {"error", "ok"}
  BY <1>4, Answers DEF FindEnds
<1>5. CASE tclvisa_find
  <2>1. count' = 0 /\ moved' = 0 /\ touched' = FALSE
    BY <1>5 DEF tclvisa_find
  <2>2. CASE answer' = NoAnswer /\ lastError' = lastError
    <3>1. answer'.values = << >> /\ answer'.code = "none"
      BY <2>2 DEF NoAnswer
    <3> QED
      BY <1>0, <2>1, <2>2, <3>1 DEF Rest, Codes
  <2>3. CASE \E status \in {NFOUND, CONN_LOST} : FindEnds(status, << >>)
    <3>1. /\ lastError' \in {SUCCESS, CONN_LOST}
          /\ answer'.values = << >> /\ answer'.code \in {"error", "ok"}
      BY <1>4, <2>3
    <3> QED
      BY <1>0, <2>1, <3>1 DEF Rest, Codes
  <2> QED
    BY <1>5, <2>2, <2>3 DEF tclvisa_find
<1>6. CASE FindEnd
  <2>1. find.status \in {SUCCESS, NFOUND, CONN_LOST}
    BY <1>6 DEF FindEnd, FindInv, Searching, Finds
  <2>2. /\ lastError' \in {SUCCESS, CONN_LOST}
        /\ answer'.values = << >> /\ answer'.code \in {"error", "ok"}
    BY <1>4, <1>6, <2>1 DEF FindEnd
  <2> QED
    BY <1>0, <1>6, <2>2 DEF FindEnd, Rest, Codes
<1>7. CASE write_from_file
  <2> DEFINE size(args) == IF args = << >> THEN getFileSize ELSE Tcl_GetUIntFromObj(args[1])
  <2>1. moved' = 0 /\ touched' = FALSE
    BY <1>7 DEF write_from_file
  <2>2. PICK args \in AtMostOne :
          IF size(args) = Bad
            THEN Refused("write-from-file", args) /\ count' = 0
            ELSE /\ Answer("write-from-file", args, "none", 0)
                 /\ count' = size(args)
                 /\ UNCHANGED lastError
    BY <1>7 DEF write_from_file
  <2>3. size(args) \in Nat \cup {Bad}
    <3>1. CASE args = << >>
      BY <3>1, SizeIsNat
    <3>2. CASE args # << >>
      <4>1. Tcl_GetUIntFromObj(args[1]) \in Values \cup {Bad}
        BY <3>2, Arguments, Conversions
      <4> QED
        BY <3>2, <4>1, CommandsAssumption DEF Values
    <3> QED
      BY <3>1, <3>2
  <2> HIDE DEF size
  <2>4. /\ count' \in Nat /\ lastError' = lastError
        /\ answer'.values = << >> /\ answer'.code \in {"bad", "none"}
    BY <2>2, <2>3, Answers DEF Refused
  <2> QED
    BY <1>0, <2>1, <2>4 DEF Rest, Codes
<1>8. CASE viWriteFromFile
  <2>1. count \in Nat /\ getFileSize \in Nat /\ count' = count /\ touched' = touched
    BY <1>8, SizeIsNat DEF viWriteFromFile, Rest
  <2>2. count % U32 \in Values
    BY <2>1, CommandsAssumption DEF Values
  <2>3. \A m \in Values : Lesser(m, getFileSize) \in Values
    BY <2>1, CommandsAssumption DEF Lesser, Values
  <2>4. \A m \in Values : Lesser(1, m) \in Values
    BY CommandsAssumption DEF Lesser, Values
  <2>5. PICK status \in {SUCCESS, TMO, CONN_LOST, FILE_ERROR}, k \in Values :
          TransferEnds("write-from-file", answer.args, status, count % U32, k)
    BY <1>0, <1>8, <2>2, <2>3, <2>4 DEF viWriteFromFile
  <2>6. touched' \in BOOLEAN
    BY <2>1 DEF Rest
  <2> QED
    BY <2>1, <2>5, <2>6, TransferTypes
<1>9. CASE read_to_file
  <2>1. PICK args \in One :
          \/ Refused("read-to-file", args) /\ moved' = 0
          \/ /\ Tcl_GetUIntFromObj(args[1]) # Bad
             /\ \E status \in {SUCCESS, TMO, CONN_LOST, FILE_ERROR},
                   k \in {0, Tcl_GetUIntFromObj(args[1])} :
                  TransferEnds("read-to-file", args, status, Tcl_GetUIntFromObj(args[1]), k)
    BY <1>9 DEF read_to_file
  <2>2. count' = 0 /\ touched' = FALSE
    BY <1>9 DEF read_to_file
  <2>3. CASE Refused("read-to-file", args) /\ moved' = 0
    <3>1. answer'.values = << >> /\ answer'.code = "bad" /\ lastError' = lastError
      BY <2>3, Answers DEF Refused
    <3> QED
      BY <1>0, <2>2, <2>3, <3>1 DEF Rest, Codes
  <2>4. CASE ~ (Refused("read-to-file", args) /\ moved' = 0)
    <3>1. Tcl_GetUIntFromObj(args[1]) \in Values
      BY <2>1, <2>4, Arguments, Conversions
    <3>2. PICK status \in {SUCCESS, TMO, CONN_LOST, FILE_ERROR}, k \in Values :
            TransferEnds("read-to-file", args, status, Tcl_GetUIntFromObj(args[1]), k)
      BY <1>0, <2>1, <2>4, <3>1
    <3> QED
      BY <2>2, <3>2, TransferTypes
  <2> QED
    BY <2>3, <2>4
<1>10. CASE FindNext \/ ResourcesChange \/ FileChanges \/ UNCHANGED vars
  BY <1>10 DEF FindNext, ResourcesChange, FileChanges, vars, Rest
<1> QED
  BY <1>1, <1>2, <1>3, <1>5, <1>6, <1>7, <1>8, <1>9, <1>10 DEF Next, CallNext

\* Whatever integers scripts pass and however large files are, what is given to
\* VISA is a ViUInt32, and the counts stay counts.
THEOREM TypeCorrect == Spec => []TypeOK
<1>1. Init => TypeInv
  <2>1. Init => find.left \in Nat /\ Rest
    <3> SUFFICES ASSUME Init PROVE find.left \in Nat /\ Rest
      OBVIOUS
    <3>1. find.left = 0
      BY DEF Init, NoFind
    <3>2. answer.values = << >> /\ answer.code = "none"
      BY DEF Init, NoAnswer
    <3>3. lastError = SUCCESS /\ count = 0 /\ moved = 0 /\ touched = FALSE
      BY DEF Init
    <3>4. 0 \in Values
      BY CommandsAssumption DEF Values
    <3>5. answer.values \in Seq(Values)
      BY <3>2, SmallLists
    <3>6. find.left \in Nat /\ count \in Nat /\ moved \in Values
      BY <3>1, <3>3, <3>4
    <3> QED
      BY <3>2, <3>3, <3>5, <3>6 DEF Rest, Codes
  <2>2. Init => TransferInv
    BY CommandsAssumption DEF Init, TransferInv, TransferIsTold, Ok, NoAnswer
  <2> QED
    BY <2>1, <2>2, FindInitially DEF TypeInv
<1>2. TypeInv /\ [Next]_vars => TypeInv'
  BY FindStep, TransferStep, LeftKept, RestKept DEF TypeInv
<1> QED
  BY <1>1, <1>2, TypesFollow, PTL DEF Spec
================================================================================
