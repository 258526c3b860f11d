---------------------------- MODULE ChannelOutputProofs ----------------------------
(***************************************************************************)
(* What puts, flush and close promise, for lines and scripts of any        *)
(* length: the device gets each byte once and in order, a success leaves   *)
(* nothing behind, and visa::last-error tells what a failure was.          *)
(***************************************************************************)
EXTENDS ChannelOutput, SequenceTheorems, TLAPS

Bytes == 1 .. MaxBytes

\* Every byte written has been taken, is queued, or was given up by a failure.
Counted == Len(queue) - sent + Len(received) + dropped = next - 1

\* The bytes the device has are told from the others only within a flush.
SentInFlush == phase # "consume" => sent = 0

\* What Tcl learns of a write: the bytes the device took, or the error.
Returned ==
  phase = "consume" =>
    IF ret.result >= 0
      THEN ret.result = sent /\ (sent = Len(queue) => ~ IsError(lastError))
      ELSE IsError(lastError) /\ ret.errno = lastError

Answered ==
  /\ phase \in {"close", "closed"} => queue = << >>
  /\ phase \in {"write", "consume"} => answer = "none"
  /\ phase = "idle" =>
       /\ answer = "error" => IsError(lastError) /\ ret.errno = lastError
       /\ answer = "ok" => ~ IsError(lastError) /\ queue = << >>

Inv == TypeOK /\ Counted /\ SentInFlush /\ Returned /\ Answered

-------------------------------------------------------------------------------
(* Runs of bytes *)

LEMMA RestFacts ==
  ASSUME NEW q \in Seq(Bytes), NEW k \in 0 .. Len(q)
  PROVE  /\ Rest(q, k) \in Seq(Bytes)
         /\ Len(Rest(q, k)) = Len(q) - k
         /\ Rest(q, k) = << >> <=> k = Len(q)
         /\ Rest(q, 0) = q
<1>1. Len(q) \in Nat /\ \A i \in 1 .. Len(q) : q[i] \in Bytes
  BY LenProperties, ElementOfSeq
<1>2. \A i \in k + 1 .. Len(q) : q[i] \in Bytes
  BY <1>1
<1>3. Rest(q, k) \in Seq(Bytes) /\ Len(Rest(q, k)) = Len(q) - k
  BY <1>1, <1>2, SubSeqProperties DEF Rest
<1>4. Rest(q, k) = << >> <=> Len(Rest(q, k)) = 0
  BY <1>3, EmptySeq
<1>5. Rest(q, 0) = q
  BY SubSeqFull DEF Rest
<1> QED
  BY <1>1, <1>3, <1>4, <1>5

LEMMA TakenFacts ==
  ASSUME NEW q \in Seq(Bytes), NEW k \in 0 .. Len(q)
  PROVE  SubSeq(q, 1, k) \in Seq(Bytes) /\ Len(SubSeq(q, 1, k)) = k
<1>1. Len(q) \in Nat /\ \A i \in 1 .. Len(q) : q[i] \in Bytes
  BY LenProperties, ElementOfSeq
<1>2. \A i \in 1 .. k : q[i] \in Bytes
  BY <1>1
<1> QED
  BY <1>1, <1>2, SubSeqProperties

LEMMA RunFacts ==
  ASSUME NEW a \in Nat \ {0}, NEW k \in Nat, a + k - 1 <= MaxBytes
  PROVE  Run(a, a + k - 1) \in Seq(Bytes) /\ Len(Run(a, a + k - 1)) = k
<1>1. (a + k - 1) - a + 1 = k
  OBVIOUS
<1>2. Run(a, a + k - 1) = [i \in 1 .. k |-> a + i - 1]
  BY <1>1 DEF Run
<1>3. [i \in 1 .. k |-> a + i - 1] \in [1 .. k -> Bytes]
  BY OutputAssumption DEF Bytes
<1>4. Run(a, a + k - 1) \in Seq(Bytes)
  BY <1>2, <1>3, SeqDef
<1>5. /\ DOMAIN Run(a, a + k - 1) = 1 .. Len(Run(a, a + k - 1))
      /\ Len(Run(a, a + k - 1)) \in Nat
  BY <1>4, LenProperties
<1>6. DOMAIN Run(a, a + k - 1) = 1 .. k
  BY <1>2
<1> QED
  BY <1>4, <1>5, <1>6

-------------------------------------------------------------------------------
(* The invariant *)

LEMMA Statuses == ~ IsError(SUCCESS) /\ IsError(CONN_LOST) /\ IsError(TMO) /\ SUCCESS # TMO
BY DEF IsError, SUCCESS, WARN, CONN_LOST, TMO

LEMMA Initially == Init => Inv
<1>1. << >> \in Seq(Bytes) /\ Len(<< >>) = 0
  BY EmptySeq
<1> SUFFICES ASSUME Init PROVE Inv
  OBVIOUS
<1>2. TypeOK
  <2>1. queue \in Seq(Bytes) /\ received \in Seq(Bytes) /\ sent \in 0 .. Len(queue)
    BY <1>1 DEF Init
  <2>2. ret.result \in -1 .. MaxBytes /\ dropped \in 0 .. MaxBytes /\ next \in 1 .. MaxBytes + 1
    BY OutputAssumption DEF Init
  <2> QED
    BY <2>1, <2>2 DEF Init, TypeOK, Bytes
<1>3. Counted
  BY <1>1 DEF Init, Counted
<1> QED
  BY <1>2, <1>3 DEF Init, Inv, SentInFlush, Returned, Answered

LEMMA Writes ==
  ASSUME Inv, Put, phase' \in {"idle", "write"} PROVE Inv'
<1> USE DEF Inv
<1>1. PICK k \in 1 .. MaxLine : /\ next + k - 1 <= MaxBytes
                                /\ queue' = queue \o Run(next, next + k - 1)
                                /\ next' = next + k
  BY DEF Put
<1>2. next \in Nat \ {0} /\ k \in Nat \ {0} /\ queue \in Seq(Bytes)
  BY OutputAssumption DEF TypeOK, Bytes
<1>3. Run(next, next + k - 1) \in Seq(Bytes) /\ Len(Run(next, next + k - 1)) = k
  BY <1>1, <1>2, RunFacts
<1>4. queue' \in Seq(Bytes) /\ Len(queue') = Len(queue) + k
  BY <1>1, <1>2, <1>3, ConcatProperties
<1>5. phase = "idle" /\ sent = 0 /\ sent' = 0 /\ Len(queue) \in Nat /\ Len(received) \in Nat
  BY DEF Put, SentInFlush, TypeOK
<1>6. queue' # << >>
  BY <1>2, <1>4, <1>5, EmptySeq
<1>7. TypeOK'
  BY <1>1, <1>2, <1>4, <1>5, <1>6, OutputAssumption DEF TypeOK, Put, Bytes
<1>8. Counted'
  <2>1. PICK l \in Nat, r \in Nat : l = Len(queue) /\ r = Len(received)
    BY <1>5
  <2>2. l - sent + r + dropped = next - 1 /\ dropped \in Nat
    BY <2>1 DEF Counted, TypeOK
  <2>3. Len(queue') = l + k /\ received' = received /\ dropped' = dropped /\ next' = next + k
    BY <1>1, <1>4, <2>1 DEF Put
  <2> QED
    BY <1>2, <1>5, <2>1, <2>2, <2>3 DEF Counted
<1> QED
  BY <1>5, <1>7, <1>8 DEF Put, SentInFlush, Returned, Answered

\* A step that leaves the bytes and what outputProc returned alone.
LEMMA Quiet ==
  ASSUME Inv, UNCHANGED <<queue, received, sent, dropped, next, ret>>,
         phase # "consume", phase' # "consume",
         blocking' \in BOOLEAN, lastError' \in {SUCCESS, WARN, TMO, CONN_LOST},
         phase' \in {"idle", "write", "close", "closed"}, closing' \in BOOLEAN,
         answer' \in {"none", "ok", "error"}, ready' \in BOOLEAN,
         phase' = "write" => queue # << >> /\ answer' = "none",
         phase' \in {"close", "closed"} => queue = << >>,
         phase' = "idle" =>
           \/ answer' = "none"
           \/ phase = "idle" /\ answer' = answer /\ lastError' = lastError
  PROVE  Inv'
<1>1. TypeOK' /\ Counted' /\ SentInFlush' /\ Returned'
  BY DEF Inv, TypeOK, Counted, SentInFlush, Returned
<1>2. Answered'
  BY DEF Inv, Answered
<1> QED
  BY <1>1, <1>2 DEF Inv

LEMMA OutputStep ==
  ASSUME Inv, outputProc PROVE Inv'
<1> USE DEF Inv
<1>1. PICK r \in viWrite(Len(queue)) :
        /\ lastError' = r.status
        /\ ret' = Result(r.status, r.count)
        /\ received' = received \o SubSeq(queue, 1, r.count)
        /\ sent' = r.count
  BY DEF outputProc
<1>2. /\ queue \in Seq(Bytes) /\ received \in Seq(Bytes) /\ queue # << >> /\ phase = "write"
      /\ dropped \in Nat /\ next \in 1 .. MaxBytes + 1
  BY DEF TypeOK, Bytes, outputProc
<1>3. PICK n \in Nat \ {0}, l \in Nat : n = Len(queue) /\ l = Len(received)
  BY <1>2, EmptySeq, LenProperties
<1>4. /\ r.count \in 0 .. n
      /\ r.status \in {SUCCESS, TMO, CONN_LOST}
      /\ r.count = n => ~ IsError(r.status)
      /\ ~ IsError(r.status) => r.status = SUCCESS
  BY <1>3, Statuses DEF viWrite
<1>5. PICK k \in 0 .. n : k = r.count
  BY <1>4
<1>6. SubSeq(queue, 1, k) \in Seq(Bytes) /\ Len(SubSeq(queue, 1, k)) = k
  BY <1>2, <1>3, TakenFacts
<1>7. received' \in Seq(Bytes) /\ Len(received') = l + k
  BY <1>1, <1>2, <1>3, <1>5, <1>6, ConcatProperties
<1>8. /\ phase' = "consume" /\ queue' = queue /\ sent' = k /\ dropped' = dropped
      /\ next' = next /\ answer' = answer /\ sent = 0 /\ answer = "none"
  BY <1>1, <1>2, <1>5 DEF outputProc, SentInFlush, Answered
<1>9. n + l + dropped = next - 1
  BY <1>3, <1>8 DEF Counted
<1>10. n <= MaxBytes
  BY <1>2, <1>3, <1>9, OutputAssumption
<1>11. IF ret'.result >= 0 THEN ret'.result = k ELSE IsError(r.status) /\ ret'.errno = r.status
  BY <1>1, <1>4, <1>5 DEF Result
<1>12. ret'.result \in {-1, k}
  BY <1>1, <1>5 DEF Result
<1>13. TypeOK'
  <2>1. ret'.result \in -1 .. MaxBytes /\ ret'.result <= n /\ k \in 0 .. n
    BY <1>10, <1>12, OutputAssumption
  <2> QED
    BY <1>1, <1>2, <1>3, <1>4, <1>7, <1>8, <2>1 DEF TypeOK, outputProc, Bytes
<1>14. Counted'
  BY <1>2, <1>3, <1>7, <1>8, <1>9 DEF Counted
<1>15. Returned'
  BY <1>1, <1>3, <1>4, <1>5, <1>8, <1>11 DEF Returned
<1> QED
  BY <1>8, <1>13, <1>14, <1>15 DEF SentInFlush, Answered

LEMMA FlushStep ==
  ASSUME Inv, FlushFailed \/ FlushWrote PROVE Inv'
<1> USE DEF Inv
<1>1. /\ queue \in Seq(Bytes) /\ received \in Seq(Bytes) /\ phase = "consume"
      /\ dropped \in Nat /\ next \in 1 .. MaxBytes + 1 /\ answer = "none"
      /\ sent \in 0 .. Len(queue)
  BY DEF TypeOK, Bytes, FlushFailed, FlushWrote, Answered
<1>2. PICK n \in Nat, l \in Nat : n = Len(queue) /\ l = Len(received)
  BY <1>1, LenProperties
<1>3. n - sent + l + dropped = next - 1 /\ sent \in 0 .. n
  BY <1>1, <1>2 DEF Counted
<1>4. /\ sent' = 0 /\ received' = received /\ next' = next /\ phase' # "consume"
      /\ lastError' = lastError /\ ret' = ret
  BY DEF FlushFailed, FlushWrote
<1>5. << >> \in Seq(Bytes) /\ Len(<< >>) = 0
  BY EmptySeq
<1>6. CASE FlushFailed
  <2>1. queue' = << >> /\ dropped' = dropped + n - sent /\ answer' = "error"
        /\ IsError(lastError) /\ ret.errno = lastError
    <3>1. ~ ret.result >= 0
      BY <1>6 DEF FlushFailed, TypeOK
    <3> QED
      BY <1>1, <1>2, <1>6, <3>1 DEF FlushFailed, Returned
  <2>2. dropped' \in 0 .. MaxBytes
    BY <1>1, <1>2, <1>3, <2>1, OutputAssumption
  <2>3. TypeOK'
    BY <1>1, <1>4, <1>5, <1>6, <2>1, <2>2 DEF TypeOK, FlushFailed, Bytes
  <2>4. Counted'
    BY <1>1, <1>2, <1>3, <1>4, <1>5, <2>1 DEF Counted
  <2> QED
    BY <1>4, <1>6, <2>1, <2>3, <2>4 DEF FlushFailed, SentInFlush, Returned, Answered
<1>7. CASE FlushWrote
  <2>1. ret.result = sent /\ (sent = n => ~ IsError(lastError))
    BY <1>1, <1>2, <1>7 DEF FlushWrote, Returned
  <2>2. queue' = Rest(queue, sent) /\ dropped' = dropped
    BY <1>7, <2>1 DEF FlushWrote
  <2>3. queue' \in Seq(Bytes) /\ Len(queue') = n - sent /\ (queue' = << >> <=> sent = n)
    BY <1>1, <1>2, <2>2, RestFacts
  <2>4. TypeOK'
    BY <1>1, <1>3, <1>4, <1>7, <2>2, <2>3 DEF TypeOK, FlushWrote, Bytes
  <2>5. Counted'
    BY <1>1, <1>2, <1>3, <1>4, <2>2, <2>3 DEF Counted
  <2>6. Answered'
    BY <1>4, <1>7, <2>1, <2>3 DEF FlushWrote, Answered
  <2> QED
    BY <1>4, <2>4, <2>5, <2>6 DEF SentInFlush, Returned
<1> QED
  BY <1>6, <1>7

LEMMA Step == ASSUME Inv, [Next]_vars PROVE Inv'
<1>1. CASE Puts \/ PutsNoNewline
  BY <1>1, Writes DEF Puts, PutsNoNewline, Put
<1>2. CASE FlushCommand
  BY <1>2, Quiet DEF FlushCommand, Begin, Inv, TypeOK
<1>3. CASE CloseCommand
  BY <1>3, Quiet DEF CloseCommand, Begin, Inv, TypeOK
<1>4. CASE SwitchMode
  BY <1>4, Quiet DEF SwitchMode, Inv, TypeOK
<1>5. CASE Device
  <2>1. ready' \in BOOLEAN
    BY <1>5 DEF Device, Inv, TypeOK
  <2> QED
    BY <1>5, <2>1 DEF Device, Inv, TypeOK, Counted, SentInFlush, Returned, Answered
<1>6. CASE closeProc
  BY <1>6, Quiet DEF closeProc, Inv, TypeOK, Answered
<1>7. CASE UNCHANGED vars
  BY <1>7 DEF vars, Inv, TypeOK, Counted, SentInFlush, Returned, Answered
<1> QED
  BY <1>1, <1>2, <1>3, <1>4, <1>5, <1>6, <1>7, OutputStep, FlushStep DEF Next, Flush

-------------------------------------------------------------------------------
(* The theorems *)

LEMMA Invariant == Spec => []Inv
BY Initially, Step, PTL DEF Spec

\* The driver never claims more bytes than it was given, whatever VISA returns.
THEOREM TypeCorrect == Spec => []TypeOK
BY Invariant, PTL DEF Inv

\* A puts, flush or close that succeeded leaves nothing behind; between commands
\* the queue is what is still to come.
THEOREM OkIsReceived == Spec => []OkMeansReceived
<1>1. Inv => OkMeansReceived
  <2> SUFFICES ASSUME Inv, Idle
               PROVE  /\ Len(queue) = next - 1 - Len(received) - dropped
                      /\ answer = "ok" => queue = << >>
    BY DEF OkMeansReceived
  <2>1. PICK n \in Nat, l \in Nat : n = Len(queue) /\ l = Len(received)
    BY DEF Inv, TypeOK
  <2>2. sent = 0 /\ dropped \in Nat /\ next \in Nat
    BY OutputAssumption DEF Idle, Inv, SentInFlush, TypeOK
  <2>3. n - sent + l + dropped = next - 1
    BY <2>1 DEF Inv, Counted
  <2> QED
    BY <2>1, <2>2, <2>3 DEF Idle, Inv, Answered
<1> QED
  BY <1>1, Invariant, PTL

\* After a failed puts or flush visa::last-error is the status that failed it,
\* after a success no error, however many timeouts were passed over.
THEOREM LastErrorTells == Spec => []LastErrorExplainsAnswer
<1>1. Inv => LastErrorExplainsAnswer
  BY DEF Inv, Answered, LastErrorExplainsAnswer
<1> QED
  BY <1>1, Invariant, PTL

-------------------------------------------------------------------------------
(* Refinement of ByteStream *)

LEMMA StreamInit == Init => Stream!Init
<1> SUFFICES ASSUME Init PROVE Stream!Init
  OBVIOUS
<1>1. Rest(<< >>, 0) = << >>
  <2>1. << >> \in Seq(Bytes) /\ 0 \in 0 .. Len(<< >>)
    BY EmptySeq
  <2> QED
    BY <2>1, RestFacts
<1> QED
  BY <1>1 DEF Init, Stream!Init

LEMMA StreamStep == ASSUME Inv, [Next]_vars PROVE [Stream!Next]_(Stream!vars)
<1> USE DEF Inv
<1> SUFFICES Stream!Next \/ UNCHANGED Stream!vars
  OBVIOUS
<1>0. /\ queue \in Seq(Bytes) /\ received \in Seq(Bytes) /\ sent \in 0 .. Len(queue)
      /\ next \in Nat \ {0}
      /\ \A q \in Seq(Bytes) : Rest(q, 0) = q
      /\ << >> \in Seq(Bytes) /\ Len(<< >>) = 0
  BY OutputAssumption, RestFacts, EmptySeq, LenProperties DEF TypeOK, Bytes
<1>1. ASSUME Put PROVE Stream!Enter
  <2>1. PICK k \in 1 .. MaxLine : /\ next + k - 1 <= MaxBytes
                                  /\ queue' = queue \o Run(next, next + k - 1)
                                  /\ next' = next + k
    BY <1>1 DEF Put
  <2>2. k \in Nat \ {0} /\ next' > next /\ next' - 1 = next + k - 1
    BY <1>0, <2>1, OutputAssumption
  <2>3. queue' \in Seq(Bytes)
    BY <1>0, <2>1, <2>2, RunFacts, ConcatProperties
  <2>4. sent = 0 /\ sent' = 0
    BY <1>1 DEF Put, SentInFlush
  <2>5. Rest(queue, sent)' = Rest(queue, sent) \o Stream!Run(next, next' - 1)
    BY <1>0, <2>1, <2>2, <2>3, <2>4 DEF Stream!Run, Run
  <2> QED
    BY <1>1, <2>2, <2>5 DEF Put, Stream!Enter
<1>2. ASSUME answer' = "none", UNCHANGED <<queue, sent, received, next>> PROVE Stream!Begin
  BY <1>2 DEF Stream!Begin
<1>3. CASE Device
  BY <1>3 DEF Device, Stream!vars
<1>4. CASE outputProc
  <2>1. PICK r \in viWrite(Len(queue)) :
          /\ received' = received \o SubSeq(queue, 1, r.count)
          /\ sent' = r.count
    BY <1>4 DEF outputProc
  <2>2. PICK n \in Nat : n = Len(queue)
    BY <1>0, LenProperties
  <2>3. PICK k \in 0 .. n : k = r.count
    BY <2>2 DEF viWrite
  <2>4. /\ queue' = queue /\ next' = next /\ answer' = "none" /\ answer = "none"
        /\ sent = 0
    BY <1>4 DEF outputProc, SentInFlush, Answered
  <2>5. Rest(queue, sent) = queue /\ Rest(queue, sent)' = SubSeq(queue, k + 1, n)
    BY <1>0, <2>1, <2>2, <2>3, <2>4 DEF Rest
  <2>6. CASE k = 0
    <3>1. received' = received
      BY <1>0, <2>1, <2>3, <2>6, SubSeqEmpty, ConcatEmptySeq
    <3>2. Rest(queue, sent)' = Rest(queue, sent)
      BY <2>1, <2>3, <2>4, <2>6
    <3> QED
      BY <2>4, <3>1, <3>2 DEF Stream!vars
  <2>7. CASE k > 0
    <3>1. k \in 1 .. n
      BY <2>7
    <3>2. Stream!Arrive
      BY <2>1, <2>2, <2>3, <2>4, <2>5, <3>1 DEF Stream!Arrive
    <3> QED
      BY <3>2 DEF Stream!Next
  <2> QED
    BY <2>6, <2>7
<1>5. CASE FlushFailed
  <2>1. Rest(queue, sent)' = << >> /\ answer' = "error" /\ received' = received /\ next' = next
    BY <1>0, <1>5 DEF FlushFailed
  <2>2. Rest(queue, sent) \in Seq(Bytes)
    BY <1>0, RestFacts
  <2>3. PICK m \in Nat : m = Len(Rest(queue, sent))
    BY <2>2, LenProperties
  <2>4. SubSeq(Rest(queue, sent), 1, 0) \o SubSeq(Rest(queue, sent), m + 1, m) = << >>
    BY <1>0, <2>3, SubSeqEmpty, ConcatEmptySeq
  <2>5. 0 \in 0 .. m /\ m \in 0 .. m /\ 0 <= m
    OBVIOUS
  <2>6. Stream!Fail
    BY <2>1, <2>3, <2>4, <2>5 DEF Stream!Fail
  <2> QED
    BY <2>6 DEF Stream!Next
<1>6. CASE FlushWrote
  <2>1. ret.result = sent /\ sent' = 0 /\ queue' = Rest(queue, sent)
    BY <1>6 DEF FlushWrote, Returned
  <2>2. Rest(queue, sent)' = Rest(queue, sent)
    BY <1>0, <2>1, RestFacts
  <2>3. answer = "none" /\ answer' # "error"
    BY <1>6 DEF FlushWrote, Answered
  <2> QED
    BY <1>6, <2>2, <2>3 DEF FlushWrote, Stream!vars
<1>7. CASE closeProc
  <2>1. queue = << >> /\ sent = 0 /\ UNCHANGED <<queue, sent, received, next>>
    BY <1>7 DEF closeProc, Answered, SentInFlush
  <2>2. CASE answer' = "error"
    <3>1. Rest(queue, sent) = << >> /\ Rest(queue, sent)' = << >>
      BY <1>0, <2>1
    <3>2. SubSeq(<< >>, 1, 0) \o SubSeq(<< >>, 0 + 1, 0) = << >>
      BY <1>0, SubSeqEmpty, ConcatEmptySeq
    <3>3. PICK m \in Nat : m = Len(Rest(queue, sent)) /\ m = 0
      BY <1>0, <3>1
    <3>4. 0 \in 0 .. m /\ 0 <= 0
      OBVIOUS
    <3>5. Rest(queue, sent)' = SubSeq(Rest(queue, sent), 1, 0)
                                 \o SubSeq(Rest(queue, sent), 0 + 1, m)
      BY <3>1, <3>2, <3>3
    <3>6. Stream!Fail
      BY <2>1, <2>2, <3>3, <3>4, <3>5 DEF Stream!Fail
    <3> QED
      BY <3>6 DEF Stream!Next
  <2>3. CASE answer' # "error"
    <3>1. answer # "error"
      BY <1>7, <2>3 DEF closeProc
    <3> QED
      BY <2>1, <2>3, <3>1 DEF Stream!vars
  <2> QED
    BY <2>2, <2>3
<1>8. CASE UNCHANGED vars
  BY <1>8 DEF vars, Stream!vars
<1> QED
  BY <1>1, <1>2, <1>3, <1>4, <1>5, <1>6, <1>7, <1>8
     DEF Next, Flush, Puts, PutsNoNewline, FlushCommand, CloseCommand, Begin, SwitchMode,
         Stream!Next

\* outputProc under FlushChannel is a byte stream, for lines of any length and
\* writes cut anywhere.
THEOREM OutputIsStream == Spec => ImplementsStream
<1>1. Inv /\ [Next]_vars => [Stream!Next]_(Stream!vars)
  BY StreamStep
<1> QED
  BY <1>1, Invariant, StreamInit, PTL DEF Spec, ImplementsStream, Stream!Spec

-------------------------------------------------------------------------------
(* Why a flush ends *)

\* Only a non-blocking write that timed out leaves bytes to be written again.
Repeats ==
  phase = "consume" /\ ret.result >= 0 /\ ret.result # Len(queue)
    => ~ blocking /\ lastError = TMO

LEMMA RepeatsStep == ASSUME Inv, Repeats, [Next]_vars PROVE Repeats'
<1>1. CASE outputProc
  <2>1. PICK r \in viWrite(Len(queue)) :
          lastError' = r.status /\ ret' = Result(r.status, r.count)
    BY <1>1 DEF outputProc
  <2>2. blocking' = blocking /\ queue' = queue
    BY <1>1 DEF outputProc
  <2>3. CASE r.status = TMO /\ ~ blocking
    BY <2>1, <2>2, <2>3 DEF Repeats
  <2>4. CASE IsError(r.status) /\ ~ (r.status = TMO /\ ~ blocking)
    <3>1. ret'.result = -1
      BY <2>1, <2>4 DEF Result
    <3> QED
      BY <3>1 DEF Repeats
  <2>5. CASE ~ IsError(r.status)
    <3>1. r.count = Len(queue)
      BY <2>5, Statuses DEF viWrite
    <3>2. ret'.result = r.count
      BY <2>1, <2>5, Statuses DEF Result
    <3> QED
      BY <2>2, <3>1, <3>2 DEF Repeats
  <2> QED
    BY <2>3, <2>4, <2>5
<1>2. CASE Device \/ UNCHANGED vars
  BY <1>2 DEF Device, vars, Repeats
<1>3. CASE Puts \/ PutsNoNewline \/ FlushCommand \/ CloseCommand \/ SwitchMode
  BY <1>3 DEF Puts, PutsNoNewline, Put, FlushCommand, CloseCommand, Begin, SwitchMode, Repeats
<1>4. CASE FlushFailed \/ FlushWrote \/ closeProc
  BY <1>4 DEF FlushFailed, FlushWrote, closeProc, Repeats
<1> QED
  BY <1>1, <1>2, <1>3, <1>4 DEF Next, Flush

LEMMA RepeatsInvariant == Spec => [](Inv /\ Repeats)
<1>1. Init => Repeats
  BY DEF Init, Repeats
<1>2. Inv /\ Repeats /\ [Next]_vars => Repeats'
  BY RepeatsStep
<1> QED
  BY <1>1, <1>2, Invariant, PTL DEF Spec

\* FlushChannel goes round its loop again only when a non-blocking viWrite has
\* timed out: every other outcome of outputProc, the -1 of a blocking timeout
\* included, ends the flush at once.
THEOREM RepeatsOnlyOnTimeout ==
  Spec => [][FlushWrote /\ phase' = "write" => ~ blocking /\ lastError = TMO]_vars
<1>1. ASSUME Inv, Repeats, FlushWrote, phase' = "write"
      PROVE  ~ blocking /\ lastError = TMO
  <2>1. queue \in Seq(Bytes) /\ queue' = Rest(queue, ret.result) /\ queue' # << >>
    BY <1>1 DEF FlushWrote, Inv, TypeOK, Bytes
  <2>2. PICK n \in Nat : n = Len(queue)
    BY <2>1, LenProperties
  <2>3. Rest(queue, n) = << >>
    BY <2>1, <2>2, RestFacts
  <2> QED
    BY <1>1, <2>1, <2>2, <2>3 DEF FlushWrote, Repeats
<1>2. Inv /\ Repeats /\ [Next]_vars
        => [FlushWrote /\ phase' = "write" => ~ blocking /\ lastError = TMO]_vars
  BY <1>1
<1> QED
  BY <1>2, RepeatsInvariant, PTL DEF Spec

\* The steps that a blocking flush has left.
StepsLeft ==
  CASE phase = "write" -> 3 [] phase = "consume" -> 2 [] phase = "close" -> 1 [] OTHER -> 0

\* In blocking mode a puts, flush or close is over after three steps of its
\* thread, one call of outputProc among them, whatever VISA returns and the
\* device does in between: what BlockingPutsReturns needs beside fairness.
THEOREM BlockingFlushRunsOut ==
  Spec => [][~ Idle /\ blocking => \/ StepsLeft' < StepsLeft
                                   \/ ~ Flush /\ UNCHANGED <<phase, blocking>>]_vars
<1> DEFINE A == ~ Idle /\ blocking => \/ StepsLeft' < StepsLeft
                                      \/ ~ Flush /\ UNCHANGED <<phase, blocking>>
<1>1. ASSUME Inv, Repeats, Next, ~ Idle, blocking
      PROVE  StepsLeft' < StepsLeft \/ (~ Flush /\ UNCHANGED <<phase, blocking>>)
  <2>1. CASE outputProc
    BY <2>1 DEF outputProc, StepsLeft
  <2>2. CASE FlushFailed
    BY <2>2 DEF FlushFailed, StepsLeft
  <2>3. CASE FlushWrote
    <3>1. queue \in Seq(Bytes) /\ queue' = Rest(queue, ret.result)
      BY <1>1, <2>3 DEF FlushWrote, Inv, TypeOK, Bytes
    <3>2. PICK n \in Nat : n = Len(queue)
      BY <3>1, LenProperties
    <3>3. Rest(queue, n) = << >>
      BY <3>1, <3>2, RestFacts
    <3>4. ret.result = n
      BY <1>1, <2>3, <3>2 DEF FlushWrote, Repeats
    <3>5. phase = "consume" /\ phase' \in {"close", "idle"}
      BY <2>3, <3>1, <3>3, <3>4 DEF FlushWrote
    <3> QED
      BY <3>5 DEF StepsLeft
  <2>4. CASE closeProc
    BY <2>4 DEF closeProc, StepsLeft
  <2>5. CASE Device
    <3>1. ~ Flush
      BY <2>5 DEF Device, Flush, outputProc, FlushFailed, FlushWrote, closeProc, Inv, TypeOK
    <3> QED
      BY <2>5, <3>1 DEF Device
  <2> QED
    BY <1>1, <2>1, <2>2, <2>3, <2>4, <2>5
       DEF Next, Flush, Idle, Puts, PutsNoNewline, Put, FlushCommand, CloseCommand, Begin,
           SwitchMode
<1>2. Inv /\ Repeats /\ [Next]_vars => [A]_vars
  BY <1>1
<1> QED
  BY <1>2, RepeatsInvariant, PTL DEF Spec
================================================================================
