----------------------------- MODULE ChannelInputProofs -----------------------------
(***************************************************************************)
(* What gets, read and fconfigure -queue promise, for buffers of any size  *)
(* and devices that send any number of bytes: the script gets each byte    *)
(* once and in order, the count of the queue is right, and what a command  *)
(* tells can be explained by visa::last-error.                             *)
(***************************************************************************)
EXTENDS ChannelInput, SequenceTheorems, TLAPS

Bytes == 1 .. Total

\* Every byte sent is with VISA, in the driver's or Tcl's buffer, delivered or
\* given up.
Counted ==
  Len(delivered) + Len(buffered) + Len(buf) + Len(outgoing) + dropped = next - 1

\* What Tcl learns of a read: the bytes in the buffer, none only after a timeout
\* or an empty response, or the error.
Returned ==
  phase = "consume" =>
    IF ret.result >= 0
      THEN ret.result = Len(buf) /\ lastError \in {TMO, SUCCESS}
      ELSE IsError(lastError) /\ lastError # TMO /\ ret.errno = lastError

\* Between the commands nothing is in the driver's buffer; within them nothing
\* is told.
Within ==
  /\ phase # "consume" => buf = << >>
  /\ phase # "idle" => answer = "busy" /\ queue = NoQueue
  /\ phase = "scan" /\ eof => ret.result = 0 /\ lastError \in {TMO, SUCCESS}

Inv == TypeOK /\ Counted /\ Returned /\ Within /\ AnswerExplained /\ QueueIsWhole

-------------------------------------------------------------------------------
(* Runs of bytes *)

LEMMA Parts ==
  ASSUME NEW q \in Seq(Bytes), NEW k \in 0 .. Len(q)
  PROVE  /\ SubSeq(q, 1, k) \in Seq(Bytes) /\ Len(SubSeq(q, 1, k)) = k
         /\ SubSeq(q, k + 1, Len(q)) \in Seq(Bytes)
         /\ Len(SubSeq(q, k + 1, Len(q))) = Len(q) - k
<1>1. Len(q) \in Nat /\ \A i \in 1 .. Len(q) : q[i] \in Bytes
  BY LenProperties, ElementOfSeq
<1>2. \A i \in 1 .. k : q[i] \in Bytes
  BY <1>1
<1>3. \A i \in k + 1 .. Len(q) : q[i] \in Bytes
  BY <1>1
<1>4. SubSeq(q, 1, k) \in Seq(Bytes) /\ Len(SubSeq(q, 1, k)) = k
  BY <1>1, <1>2, SubSeqProperties
<1>5. /\ SubSeq(q, k + 1, Len(q)) \in Seq(Bytes)
      /\ Len(SubSeq(q, k + 1, Len(q))) = Len(q) - k
  BY <1>1, <1>3, SubSeqProperties
<1> QED
  BY <1>4, <1>5

\* A run of bytes followed by another, cut within the first or after it.
LEMMA Cut ==
  ASSUME NEW a \in Seq(Bytes), NEW b \in Seq(Bytes), NEW k \in 0 .. Len(a)
  PROVE  /\ SubSeq(a \o b, 1, k) = SubSeq(a, 1, k)
         /\ SubSeq(a \o b, k + 1, Len(a \o b)) = SubSeq(a, k + 1, Len(a)) \o b
<1> DEFINE c == a \o b
           d == SubSeq(a, k + 1, Len(a))
<1>1. PICK m \in Nat, n \in Nat : m = Len(a) /\ n = Len(b)
  BY LenProperties
<1>2. /\ c \in Seq(Bytes) /\ Len(c) = m + n
      /\ \A i \in 1 .. m + n : c[i] = IF i <= m THEN a[i] ELSE b[i - m]
  BY <1>1, ConcatProperties
<1>3. /\ \A i \in 1 .. m + n : c[i] \in Bytes
      /\ \A i \in 1 .. m : a[i] \in Bytes
  BY <1>1, <1>2, ElementOfSeq
<1>4. k \in 0 .. m
  BY <1>1
<1> HIDE DEF c
<1>5. SubSeq(c, 1, k) = SubSeq(a, 1, k)
  <2>1. /\ SubSeq(c, 1, k) \in Seq(Bytes) /\ Len(SubSeq(c, 1, k)) = k
        /\ \A i \in 1 .. k : SubSeq(c, 1, k)[i] = c[i]
    BY <1>3, <1>4, SubSeqProperties
  <2>2. /\ SubSeq(a, 1, k) \in Seq(Bytes) /\ Len(SubSeq(a, 1, k)) = k
        /\ \A i \in 1 .. k : SubSeq(a, 1, k)[i] = a[i]
    BY <1>3, <1>4, SubSeqProperties
  <2>3. \A i \in 1 .. k : c[i] = a[i]
    BY <1>2, <1>4
  <2> QED
    BY <2>1, <2>2, <2>3, SeqEqual
<1>6. SubSeq(c, k + 1, m + n) = d \o b
  <2>1. /\ SubSeq(c, k + 1, m + n) \in Seq(Bytes) /\ Len(SubSeq(c, k + 1, m + n)) = m + n - k
        /\ \A i \in 1 .. m + n - k : SubSeq(c, k + 1, m + n)[i] = c[k + i]
    <3>1. \A i \in k + 1 .. m + n : c[i] \in Bytes
      BY <1>3, <1>4
    <3>2. /\ SubSeq(c, k + 1, m + n) \in Seq(Bytes)
          /\ Len(SubSeq(c, k + 1, m + n)) = m + n - k
          /\ \A i \in 1 .. (m + n) - (k + 1) + 1 : SubSeq(c, k + 1, m + n)[i] = c[(k + 1) + i - 1]
      BY <1>4, <3>1, SubSeqProperties
    <3> QED
      BY <1>4, <3>2
  <2>2. d \in Seq(Bytes) /\ Len(d) = m - k /\ \A i \in 1 .. m - k : d[i] = a[k + i]
    <3>1. \A i \in k + 1 .. m : a[i] \in Bytes
      BY <1>3, <1>4
    <3>2. /\ d \in Seq(Bytes) /\ Len(d) = m - k
          /\ \A i \in 1 .. m - (k + 1) + 1 : d[i] = a[(k + 1) + i - 1]
      BY <1>1, <1>4, <3>1, SubSeqProperties
    <3> QED
      BY <1>4, <3>2
  <2> HIDE DEF d
  <2>3. PICK l \in Nat : l = m - k
    BY <1>4
  <2>4. /\ d \o b \in Seq(Bytes) /\ Len(d \o b) = l + n
        /\ \A i \in 1 .. l + n : (d \o b)[i] = IF i <= l THEN d[i] ELSE b[i - l]
    <3>1. Len(d) = l /\ d \in Seq(Bytes)
      BY <2>2, <2>3
    <3> QED
      BY <1>1, <3>1, ConcatProperties
  <2>5. ASSUME NEW i \in 1 .. l + n PROVE SubSeq(c, k + 1, m + n)[i] = (d \o b)[i]
    <3>1. SubSeq(c, k + 1, m + n)[i] = c[k + i] /\ k + i \in 1 .. m + n
      BY <1>4, <2>1, <2>3
    <3>2. CASE i <= l
      <4>1. (d \o b)[i] = d[i] /\ d[i] = a[k + i]
        BY <2>2, <2>3, <2>4, <3>2
      <4>2. c[k + i] = a[k + i]
        BY <1>2, <1>4, <2>3, <3>1, <3>2
      <4> QED
        BY <3>1, <4>1, <4>2
    <3>3. CASE ~ i <= l
      <4>1. (d \o b)[i] = b[i - l]
        BY <2>4, <3>3
      <4>2. c[k + i] = b[k + i - m] /\ k + i - m = i - l
        BY <1>2, <1>4, <2>3, <3>1, <3>3
      <4> QED
        BY <3>1, <4>1, <4>2
    <3> QED
      BY <3>2, <3>3
  <2>6. Len(SubSeq(c, k + 1, m + n)) = l + n
    BY <1>4, <2>1, <2>3
  <2> QED
    BY <2>1, <2>4, <2>5, <2>6, SeqEqual
<1> QED
  BY <1>1, <1>2, <1>5, <1>6 DEF c

-------------------------------------------------------------------------------
(* The invariant *)

LEMMA Statuses ==
  ~ IsError(SUCCESS) /\ IsError(CONN_LOST) /\ IsError(TMO) /\ CONN_LOST # TMO /\ SUCCESS # TMO
BY DEF IsError, SUCCESS, WARN, CONN_LOST, TMO

LEMMA Sizes ==
  ASSUME TypeOK
  PROVE  /\ outgoing \in Seq(Bytes) /\ buffered \in Seq(Bytes) /\ buf \in Seq(Bytes)
         /\ delivered \in Seq(Bytes)
         /\ Len(outgoing) \in Nat /\ Len(buffered) \in Nat /\ Len(buf) \in Nat
         /\ Len(delivered) \in Nat /\ dropped \in Nat /\ next \in Nat \ {0}
         /\ Total \in Nat /\ BufSize \in Nat \ {0}
         /\ << >> \in Seq(Bytes) /\ Len(<< >>) = 0
BY InputAssumption, EmptySeq, LenProperties DEF TypeOK, Bytes

LEMMA Initially == Init => Inv
<1> SUFFICES ASSUME Init PROVE Inv
  OBVIOUS
<1>1. << >> \in Seq(Bytes) /\ Len(<< >>) = 0 /\ Total \in Nat /\ BufSize \in Nat \ {0}
  BY InputAssumption, EmptySeq
<1>2. TypeOK
  <2>1. /\ outgoing \in Seq(Bytes) /\ buf \in Seq(Bytes) /\ buffered \in Seq(Bytes)
        /\ delivered \in Seq(Bytes)
    BY <1>1 DEF Init
  <2>2. /\ ret.result \in -1 .. BufSize /\ dropped \in 0 .. Total
        /\ next \in 1 .. Total + 1 /\ queue \in [in : -1 .. Total, sent : 0 .. Total]
    BY <1>1 DEF Init, NoQueue
  <2> QED
    BY <2>1, <2>2 DEF Init, TypeOK, Bytes
<1>3. Counted
  BY <1>1 DEF Init, Counted
<1> QED
  BY <1>2, <1>3 DEF Init, Inv, Returned, Within, AnswerExplained, QueueIsWhole

LEMMA SendsStep ==
  ASSUME Inv, DeviceSends PROVE Inv'
<1> USE DEF Inv
<1>1. next \in Bytes
  BY Sizes DEF DeviceSends, TypeOK, Bytes
<1>2. outgoing' \in Seq(Bytes) /\ Len(outgoing') = Len(outgoing) + 1
  BY <1>1, Sizes, AppendProperties DEF DeviceSends
<1>3. TypeOK'
  <2>1. next' \in 1 .. Total + 1
    BY <1>1, Sizes DEF DeviceSends, Bytes
  <2> QED
    BY <1>2, <2>1 DEF DeviceSends, TypeOK, modeVars, inputVars, historyVars, Bytes
<1>4. Counted'
  <2>1. PICK i \in Nat, d \in Nat, o \in Nat, b \in Nat :
          i = Len(buffered) /\ d = Len(delivered) /\ o = Len(outgoing) /\ b = Len(buf)
    BY Sizes
  <2>2. d + i + b + o + dropped = next - 1
    BY <2>1 DEF Counted
  <2>3. /\ Len(outgoing') = o + 1 /\ next' = next + 1 /\ dropped' = dropped
        /\ buffered' = buffered /\ buf' = buf /\ delivered' = delivered
    BY <1>2, <2>1 DEF DeviceSends, inputVars, historyVars
  <2> QED
    BY <2>1, <2>2, <2>3, Sizes DEF Counted
<1> QED
  BY <1>3, <1>4 DEF DeviceSends, Returned, Within, AnswerExplained, QueueIsWhole,
     modeVars, inputVars, historyVars

LEMMA ReadStep ==
  ASSUME Inv, inputProc PROVE Inv'
<1> USE DEF Inv
<1>1. PICK r \in viRead(BufSize) :
        /\ lastError' = r.status
        /\ ret' = Result(r.status, r.count)
        /\ buf' = SubSeq(outgoing, 1, r.count)
        /\ outgoing' = SubSeq(outgoing, r.count + 1, Len(outgoing))
  BY DEF inputProc
<1>2. PICK n \in Nat : n = Len(outgoing)
  BY Sizes
<1>3. /\ r.count \in 0 .. n /\ r.count <= BufSize
      /\ r.status \in {SUCCESS, TMO, CONN_LOST}
  BY <1>2, Sizes DEF viRead
<1>4. PICK k \in 0 .. n : k = r.count
  BY <1>3
<1>5. /\ buf' \in Seq(Bytes) /\ Len(buf') = k
      /\ outgoing' \in Seq(Bytes) /\ Len(outgoing') = n - k
  BY <1>1, <1>2, <1>4, Sizes, Parts
<1>6. /\ phase' = "consume" /\ phase = "read"
      /\ UNCHANGED <<modeVars, deviceVars, want, inputVars, historyVars, answer, queue>>
  BY DEF inputProc
<1>7. buf = << >> /\ Len(buf) = 0 /\ answer = "busy" /\ queue = NoQueue
  BY <1>6, Sizes DEF Within
<1>8. /\ ret'.result \in {-1, k}
      /\ IF ret'.result >= 0
           THEN ret'.result = k /\ r.status \in {TMO, SUCCESS}
           ELSE IsError(r.status) /\ r.status # TMO /\ ret'.errno = r.status
  BY <1>1, <1>3, <1>4, Statuses DEF Result
<1>9. TypeOK'
  <2>1. ret'.result \in -1 .. BufSize /\ ret'.result <= k
    BY <1>3, <1>4, <1>8, Sizes
  <2> QED
    BY <1>1, <1>3, <1>5, <1>6, <2>1
       DEF TypeOK, modeVars, deviceVars, inputVars, historyVars, Bytes
<1>10. Counted'
  <2>1. Len(delivered) + Len(buffered) + n + dropped = next - 1
    BY <1>2, <1>7, Sizes DEF Counted
  <2>2. /\ delivered' = delivered /\ buffered' = buffered /\ dropped' = dropped /\ next' = next
    BY <1>6 DEF inputVars, historyVars, deviceVars
  <2> QED
    BY <1>5, <2>1, <2>2, Sizes DEF Counted
<1>11. Returned'
  BY <1>1, <1>5, <1>8 DEF Returned
<1> QED
  BY <1>6, <1>7, <1>9, <1>10, <1>11
     DEF Within, AnswerExplained, QueueIsWhole, modeVars, historyVars

\* A step within a command, or the beginning of one, that moves no byte.
LEMMA ScanStep ==
  ASSUME Inv, Begin \/ GetInput PROVE Inv'
<1> USE DEF Inv
<1>1. /\ UNCHANGED <<modeVars, lastError, deviceVars, outgoing, buf, ret, buffered,
                     historyVars>>
      /\ phase' \in {"scan", "read"} /\ phase # "consume"
      /\ answer' = "busy" /\ queue' = NoQueue
      /\ want' \in {Line} \cup ReadSizes
      /\ eof' = FALSE /\ shortRead' = FALSE
  BY DEF Begin, GetInput, TypeOK, Within
<1>2. TypeOK'
  <2>1. NoQueue \in [in : -1 .. Total, sent : 0 .. Total]
    BY Sizes DEF NoQueue
  <2> QED
    BY <1>1, <2>1 DEF TypeOK, modeVars, deviceVars, historyVars
<1>3. Counted'
  BY <1>1 DEF Counted, deviceVars, historyVars
<1> QED
  BY <1>1, <1>2, <1>3 DEF Returned, Within, AnswerExplained, QueueIsWhole

LEMMA DeliverStep ==
  ASSUME Inv, NEW n \in 0 .. Len(buffered), NEW how, phase = "scan", Deliver(n, how),
         how \in {"line", "partial", "none", "full", "short"},
         how = "partial" \/ (how \in {"none", "short"} /\ tclBlocking) => eof
  PROVE  Inv'
<1> USE DEF Inv
<1>1. /\ delivered' = delivered \o SubSeq(buffered, 1, n)
      /\ buffered' = SubSeq(buffered, n + 1, Len(buffered))
      /\ answer' = how /\ phase' = "idle" /\ want' = Line
      /\ UNCHANGED <<modeVars, lastError, deviceVars, outgoing, buf, ret, eof, shortRead,
                     dropped, queue>>
  BY DEF Deliver
<1>2. PICK m \in Nat : m = Len(buffered)
  BY Sizes
<1>3. /\ buffered' \in Seq(Bytes) /\ Len(buffered') = m - n
      /\ SubSeq(buffered, 1, n) \in Seq(Bytes) /\ Len(SubSeq(buffered, 1, n)) = n
  BY <1>1, <1>2, Sizes, Parts
<1>4. delivered' \in Seq(Bytes) /\ Len(delivered') = Len(delivered) + n
  BY <1>1, <1>3, Sizes, ConcatProperties
<1>5. buf = << >> /\ queue = NoQueue /\ Len(buf) = 0
  BY Sizes DEF Within
<1>6. TypeOK'
  BY <1>1, <1>3, <1>4 DEF TypeOK, modeVars, deviceVars, Bytes
<1>7. Counted'
  <2>1. Len(delivered) + m + Len(outgoing) + dropped = next - 1
    BY <1>2, <1>5, Sizes DEF Counted
  <2>2. buf' = buf /\ outgoing' = outgoing /\ dropped' = dropped /\ next' = next
    BY <1>1 DEF deviceVars
  <2> QED
    BY <1>2, <1>3, <1>4, <1>5, <2>1, <2>2, Sizes DEF Counted
<1>8. AnswerExplained'
  BY <1>1 DEF Within, AnswerExplained, modeVars
<1> QED
  BY <1>1, <1>5, <1>6, <1>7, <1>8 DEF Returned, Within, QueueIsWhole

LEMMA Delivers ==
  ASSUME Inv, GetsLine \/ ReadFull \/ GetsEof \/ GetsBlocked \/ ReadShort
  PROVE  /\ phase = "scan"
         /\ \E n \in 0 .. Len(buffered), how \in {"line", "partial", "none", "full", "short"} :
              /\ Deliver(n, how)
              /\ how = "partial" \/ (how \in {"none", "short"} /\ tclBlocking) => eof
<1>1. PICK m \in Nat : m = Len(buffered)
  BY Sizes DEF Inv
<1>2. 0 \in 0 .. m /\ m \in 0 .. m /\ \A n \in 1 .. m : n \in 0 .. m
  OBVIOUS
<1>3. want \in {Line} \cup Nat
  BY InputAssumption DEF Inv, TypeOK
<1>4. CASE GetsLine
  BY <1>1, <1>2, <1>4 DEF GetsLine
<1>5. CASE ReadFull
  <2>1. want \in 0 .. m
    BY <1>1, <1>3, <1>5 DEF ReadFull, Satisfied, Line
  <2> QED
    BY <1>1, <1>5, <2>1 DEF ReadFull
<1>6. CASE GetsEof
  BY <1>1, <1>2, <1>6 DEF GetsEof
<1>7. CASE GetsBlocked
  BY <1>1, <1>2, <1>7 DEF GetsBlocked
<1>8. CASE ReadShort
  BY <1>1, <1>2, <1>8 DEF ReadShort
<1> QED
  BY <1>4, <1>5, <1>6, <1>7, <1>8

LEMMA ConsumeStep ==
  ASSUME Inv, InputConsumed PROVE Inv'
<1> USE DEF Inv
<1>1. /\ phase = "consume" /\ ret.result >= 0 /\ phase' = "scan"
      /\ buffered' = buffered \o SubSeq(buf, 1, ret.result)
      /\ eof' = (ret.result = 0) /\ shortRead' = (ret.result \in 1 .. BufSize - 1)
      /\ buf' = << >>
      /\ UNCHANGED <<modeVars, lastError, deviceVars, outgoing, want, ret, historyVars,
                     answer, queue>>
  BY DEF InputConsumed
<1>2. ret.result = Len(buf) /\ lastError \in {TMO, SUCCESS}
  BY <1>1 DEF Returned
<1>3. buffered' = buffered \o buf
  BY <1>1, <1>2, Sizes, SubSeqFull
<1>4. buffered' \in Seq(Bytes) /\ Len(buffered') = Len(buffered) + Len(buf)
  BY <1>3, Sizes, ConcatProperties
<1>5. TypeOK'
  <2>1. << >> \in Seq(1 .. Total)
    BY Sizes DEF Bytes
  <2>2. eof' \in BOOLEAN /\ shortRead' \in BOOLEAN
    BY <1>1
  <2> QED
    BY <1>1, <1>4, <2>1, <2>2 DEF TypeOK, modeVars, deviceVars, historyVars, Bytes
<1>6. Counted'
  <2>1. PICK i \in Nat, d \in Nat, o \in Nat, b \in Nat :
          i = Len(buffered) /\ d = Len(delivered) /\ o = Len(outgoing) /\ b = Len(buf)
    BY Sizes
  <2>2. d + i + b + o + dropped = next - 1
    BY <2>1 DEF Counted
  <2>3. /\ Len(buffered') = i + b /\ Len(buf') = 0 /\ outgoing' = outgoing
        /\ delivered' = delivered /\ next' = next /\ dropped' = dropped
    BY <1>1, <1>4, <2>1, Sizes DEF deviceVars, historyVars
  <2> QED
    BY <2>1, <2>2, <2>3, Sizes DEF Counted
<1> QED
  BY <1>1, <1>2, <1>5, <1>6
     DEF Returned, Within, AnswerExplained, QueueIsWhole, modeVars, historyVars

LEMMA FailStep ==
  ASSUME Inv, InputFailed PROVE Inv'
<1> USE DEF Inv
<1>1. PICK i \in Nat, d \in Nat, o \in Nat, b \in Nat :
        i = Len(buffered) /\ d = Len(delivered) /\ o = Len(outgoing) /\ b = Len(buf)
  BY Sizes
<1>2. /\ phase = "consume" /\ ret.result < 0 /\ phase' = "idle"
      /\ answer' = "error" /\ buf' = << >> /\ want' = Line
      /\ UNCHANGED <<modeVars, lastError, deviceVars, outgoing, ret, eof, shortRead,
                     delivered, queue>>
  BY DEF InputFailed
<1>3. PICK j \in {0, i} : /\ dropped' = dropped + b + i - j
                          /\ buffered' \in Seq(Bytes) /\ Len(buffered') = j
  <2>1. CASE want = Line
    <3>1. dropped' = dropped + b + i - i /\ buffered' = buffered
      BY <1>1, <2>1, Sizes DEF InputFailed
    <3> QED
      BY <1>1, <3>1, Sizes
  <2>2. CASE want # Line
    <3>1. dropped' = dropped + b + i - 0 /\ buffered' = << >>
      BY <1>1, <2>2, Sizes DEF InputFailed
    <3> QED
      BY <1>1, <3>1, Sizes
  <2> QED
    BY <2>1, <2>2
<1>4. d + i + b + o + dropped = next - 1 /\ j \in 0 .. i
  BY <1>1 DEF Counted
<1>5. Counted'
  BY <1>1, <1>2, <1>3, <1>4, Sizes DEF Counted, deviceVars
<1>6. dropped' \in 0 .. Total
  <2>1. next \in 1 .. Total + 1
    BY DEF TypeOK
  <2> QED
    BY <1>1, <1>3, <1>4, <2>1, Sizes
<1>7. TypeOK'
  <2>1. << >> \in Seq(1 .. Total)
    BY Sizes DEF Bytes
  <2> QED
    BY <1>2, <1>3, <1>6, <2>1 DEF TypeOK, modeVars, deviceVars, Bytes
<1>8. AnswerExplained'
  <2>1. ~ ret.result >= 0
    BY <1>2 DEF TypeOK
  <2>2. IsError(lastError) /\ lastError # TMO /\ ret.errno = lastError
    BY <1>2, <2>1 DEF Returned
  <2> QED
    BY <1>2, <2>2 DEF AnswerExplained
<1>9. queue = NoQueue
  BY <1>2 DEF Within
<1> QED
  BY <1>2, <1>5, <1>7, <1>8, <1>9 DEF Returned, Within, QueueIsWhole

LEMMA ConfigureStep ==
  ASSUME Inv, SwitchMode \/ getOptionQueue PROVE Inv'
<1> USE DEF Inv
<1>1. /\ phase = "idle" /\ answer' = "busy"
      /\ UNCHANGED <<deviceVars, outgoing, phase, want, buf, ret, inputVars, historyVars>>
  BY DEF SwitchMode, getOptionQueue, Configures
<1>2. /\ blocking' \in BOOLEAN /\ tclBlocking' \in BOOLEAN /\ (tclBlocking' => blocking')
      /\ lastError' \in {SUCCESS, WARN, TMO, CONN_LOST}
  <2>1. /\ blocking \in BOOLEAN /\ tclBlocking \in BOOLEAN /\ (tclBlocking => blocking)
        /\ lastError \in {SUCCESS, WARN, TMO, CONN_LOST}
    BY DEF TypeOK
  <2>2. CASE lastError' \in {SUCCESS, WARN, CONN_LOST} /\ UNCHANGED modeVars
    BY <2>1, <2>2 DEF modeVars
  <2>3. CASE lastError' \in {SUCCESS, WARN, CONN_LOST} /\ blocking' = FALSE /\ tclBlocking' = FALSE
    BY <2>3
  <2>4. CASE /\ blocking' = TRUE /\ lastError' \in {SUCCESS, WARN, CONN_LOST}
             /\ tclBlocking' = IsError(lastError')
    BY <2>4 DEF IsError
  <2>5. CASE tclBlocking' = blocking /\ UNCHANGED <<blocking, lastError>>
    BY <2>1, <2>5
  <2> QED
    BY <2>2, <2>3, <2>4, <2>5 DEF SwitchMode, getOptionQueue
<1>3. PICK i \in Nat, d \in Nat, o \in Nat :
        i = Len(buffered) /\ d = Len(delivered) /\ o = Len(outgoing)
  BY Sizes
<1>4. d + i + o + dropped = next - 1 /\ next \in 1 .. Total + 1
  <2>1. Len(buf) = 0
    BY <1>1, Sizes DEF Within
  <2> QED
    BY <1>3, <2>1, Sizes DEF Counted, TypeOK
<1>5. queue' = NoQueue \/ queue' = [in |-> i + o, sent |-> next - 1]
  BY <1>3 DEF SwitchMode, getOptionQueue, InQueue
<1>6. queue' \in [in : -1 .. Total, sent : 0 .. Total]
  <2>1. NoQueue \in [in : -1 .. Total, sent : 0 .. Total]
    BY Sizes DEF NoQueue
  <2>2. i + o \in -1 .. Total /\ next - 1 \in 0 .. Total
    BY <1>4, Sizes
  <2> QED
    BY <1>5, <2>1, <2>2
<1>7. TypeOK'
  BY <1>1, <1>2, <1>6 DEF TypeOK, deviceVars, inputVars, historyVars
<1>8. Counted'
  BY <1>1 DEF Counted, deviceVars, inputVars, historyVars
<1>9. QueueIsWhole'
  <2>1. i + o = (next - 1) - d - dropped
    <3>1. PICK x \in Nat, e \in Nat : x = next /\ e = dropped
      BY Sizes
    <3>2. d + i + o + e = x - 1
      BY <1>4, <3>1
    <3>3. i + o = (x - 1) - d - e
      BY <3>2
    <3> QED
      BY <3>1, <3>3
  <2>2. delivered' = delivered /\ dropped' = dropped
    BY <1>1 DEF historyVars
  <2> QED
    BY <1>3, <1>5, <2>1, <2>2 DEF QueueIsWhole
<1> QED
  BY <1>1, <1>7, <1>8, <1>9 DEF Returned, Within, AnswerExplained

LEMMA Step == ASSUME Inv, [Next]_vars PROVE Inv'
<1>1. CASE UNCHANGED vars
  BY <1>1 DEF vars, modeVars, deviceVars, inputVars, historyVars, Inv, TypeOK, Counted,
     Returned, Within, AnswerExplained, QueueIsWhole
<1>2. CASE GetsLine \/ ReadFull \/ GetsEof \/ GetsBlocked \/ ReadShort
  BY <1>2, Delivers, DeliverStep
<1> QED
  BY <1>1, <1>2, SendsStep, ReadStep, ScanStep, ConsumeStep, FailStep, ConfigureStep
     DEF Next, InputSteps

-------------------------------------------------------------------------------
(* The theorems *)

LEMMA Invariant == Spec => []Inv
BY Initially, Step, PTL DEF Spec

\* The driver never claims more bytes than it put in the buffer, whatever VISA
\* returns, and Tcl never takes the channel for a blocking one while the driver
\* does not.
THEOREM TypeCorrect == Spec => []TypeOK
BY Invariant, PTL DEF Inv

\* A command that ends with less than it was after does so after a read that
\* brought nothing, and fails only for an error that is no timeout.
THEOREM AnswersExplained == Spec => []AnswerExplained
BY Invariant, PTL DEF Inv

\* What -queue tells is all the device has sent that no command has delivered or
\* given up, whatever partial lines, timeouts and failures came before.
THEOREM QueueWhole == Spec => []QueueIsWhole
BY Invariant, PTL DEF Inv

-------------------------------------------------------------------------------
(* Refinement of ByteStream *)

\* The bytes on their way.
Pending == buffered \o buf \o outgoing

LEMMA Associate ==
  ASSUME NEW a \in Seq(Bytes), NEW b \in Seq(Bytes), NEW c \in Seq(Bytes)
  PROVE  (a \o b) \o c = a \o (b \o c) /\ b \o c \in Seq(Bytes)
BY ConcatAssociative, ConcatProperties

\* A run of bytes is what its two parts make.
LEMMA Joined ==
  ASSUME NEW q \in Seq(Bytes), NEW k \in 0 .. Len(q)
  PROVE  SubSeq(q, 1, k) \o SubSeq(q, k + 1, Len(q)) = q
<1>1. PICK n \in Nat : n = Len(q)
  BY LenProperties
<1>2. 1 \in 1 .. Len(q) + 1 /\ k \in 1 - 1 .. Len(q) /\ Len(q) \in k .. Len(q)
  BY <1>1
<1>3. SubSeq(q, 1, k) \o SubSeq(q, k + 1, Len(q)) = SubSeq(q, 1, Len(q))
  BY <1>2, ConcatAdjacentSubSeq
<1> QED
  BY <1>3, SubSeqFull

LEMMA PendingFacts ==
  ASSUME TypeOK
  PROVE  /\ Pending \in Seq(Bytes)
         /\ buffered \o buf \in Seq(Bytes)
         /\ buf = << >> => Pending = buffered \o outgoing
<1>1. buffered \o buf \in Seq(Bytes)
  BY Sizes, ConcatProperties
<1>2. Pending \in Seq(Bytes)
  BY <1>1, Sizes, ConcatProperties DEF Pending
<1>3. buf = << >> => buffered \o buf = buffered
  BY Sizes, ConcatEmptySeq
<1> QED
  BY <1>1, <1>2, <1>3 DEF Pending

LEMMA StreamStutters ==
  ASSUME Pending' = Pending, delivered' = delivered, next' = next,
         answer # "error", answer' # "error"
  PROVE  UNCHANGED Stream!vars
BY DEF Stream!vars, Pending

LEMMA StreamInit == Init => Stream!Init
<1> SUFFICES ASSUME Init PROVE Stream!Init
  OBVIOUS
<1>1. << >> \in Seq(Bytes)
  BY EmptySeq
<1>2. << >> \o << >> \o << >> = << >>
  BY <1>1, ConcatEmptySeq
<1> QED
  BY <1>2 DEF Init, Stream!Init

LEMMA StreamSends ==
  ASSUME Inv, DeviceSends PROVE Stream!Enter
<1>1. TypeOK /\ next \in Bytes
  BY Sizes DEF Inv, DeviceSends, TypeOK, Bytes
<1>2. Stream!Run(next, next' - 1) = <<next>>
  <2>1. next' - 1 = next
    BY <1>1, Sizes DEF DeviceSends
  <2>2. \A n \in Nat : [i \in 1 .. n - n + 1 |-> n + i - 1] = <<n>>
    OBVIOUS
  <2> QED
    BY <1>1, <2>1, <2>2, Sizes DEF Stream!Run
<1>3. <<next>> \in Seq(Bytes) /\ outgoing' = outgoing \o <<next>>
  BY <1>1, Sizes, AppendIsConcat DEF DeviceSends
<1>4. Pending' = Pending \o <<next>>
  <2>1. buffered \o buf \in Seq(Bytes) /\ outgoing \in Seq(Bytes)
    BY <1>1, Sizes, PendingFacts
  <2>2. (buffered \o buf) \o (outgoing \o <<next>>) = ((buffered \o buf) \o outgoing) \o <<next>>
    BY <1>3, <2>1, Associate
  <2>3. buffered' = buffered /\ buf' = buf
    BY DEF DeviceSends, inputVars
  <2> QED
    BY <1>3, <2>2, <2>3 DEF Pending
<1>5. next' > next /\ delivered' = delivered /\ answer' = answer
  BY <1>1 DEF DeviceSends, historyVars, Bytes
<1>6. (buffered \o buf \o outgoing)' = (buffered \o buf \o outgoing) \o Stream!Run(next, next' - 1)
  BY <1>2, <1>4 DEF Pending
<1>7. (answer = "error")' \in {answer = "error", FALSE}
  BY <1>5
<1> QED
  BY <1>5, <1>6, <1>7 DEF Stream!Enter

LEMMA StreamReads ==
  ASSUME Inv, inputProc PROVE UNCHANGED Stream!vars
<1> USE DEF Inv
<1>1. PICK r \in viRead(BufSize) :
        /\ buf' = SubSeq(outgoing, 1, r.count)
        /\ outgoing' = SubSeq(outgoing, r.count + 1, Len(outgoing))
  BY DEF inputProc
<1>2. PICK n \in Nat : n = Len(outgoing)
  BY Sizes
<1>3. PICK k \in 0 .. n : k = r.count
  BY <1>2, Sizes DEF viRead
<1>4. buf' \o outgoing' = outgoing
  BY <1>1, <1>2, <1>3, Sizes, Joined
<1>5. buf' \in Seq(Bytes) /\ outgoing' \in Seq(Bytes)
  BY <1>1, <1>2, <1>3, Sizes, Parts
<1>6. Pending' = Pending
  <2>1. (buffered \o buf') \o outgoing' = buffered \o outgoing
    <3>1. \A a, b, o \in Seq(Bytes) : (a \o b) \o o = a \o (b \o o)
      BY Associate
    <3>2. buffered \in Seq(Bytes)
      BY Sizes
    <3>3. (buffered \o buf') \o outgoing' = buffered \o (buf' \o outgoing')
      BY <1>5, <3>1, <3>2
    <3> QED
      BY <1>4, <3>3
  <2>2. buffered' = buffered /\ buf = << >>
    BY DEF inputProc, inputVars, Within
  <2> QED
    BY <2>1, <2>2, PendingFacts DEF Pending
<1> QED
  BY <1>6, StreamStutters DEF inputProc, Within, historyVars, deviceVars

LEMMA StreamDelivers ==
  ASSUME Inv, NEW n \in 0 .. Len(buffered), NEW how, phase = "scan", Deliver(n, how),
         how # "error"
  PROVE  Stream!Arrive \/ UNCHANGED Stream!vars
<1> USE DEF Inv
<1>1. buf = << >> /\ buf' = buf /\ outgoing' = outgoing /\ next' = next
      /\ answer # "error" /\ answer' # "error"
  BY DEF Deliver, Within, deviceVars
<1>2. PICK m \in Nat, o \in Nat : m = Len(buffered) /\ o = Len(outgoing)
  BY Sizes
<1>3. Pending = buffered \o outgoing /\ Len(Pending) = m + o
  BY <1>1, <1>2, Sizes, PendingFacts, ConcatProperties
<1>4. buffered' \in Seq(Bytes) /\ buffered' = SubSeq(buffered, n + 1, m)
  BY <1>2, Sizes, Parts DEF Deliver
<1>5. Pending' = buffered' \o outgoing
  <2>1. buffered' \o << >> = buffered'
    BY <1>4, ConcatEmptySeq
  <2> QED
    BY <1>1, <2>1 DEF Pending
<1>6. /\ SubSeq(Pending, 1, n) = SubSeq(buffered, 1, n)
      /\ SubSeq(Pending, n + 1, m + o) = Pending'
  <2>1. /\ SubSeq(buffered \o outgoing, 1, n) = SubSeq(buffered, 1, n)
        /\ SubSeq(buffered \o outgoing, n + 1, Len(buffered \o outgoing))
             = SubSeq(buffered, n + 1, Len(buffered)) \o outgoing
    BY Sizes, Cut
  <2> QED
    BY <1>2, <1>3, <1>4, <1>5, <2>1
<1>7. delivered' = delivered \o SubSeq(Pending, 1, n)
  BY <1>6 DEF Deliver
<1>8. CASE n = 0
  <2>1. delivered' = delivered
    BY <1>7, <1>8, Sizes, SubSeqEmpty, ConcatEmptySeq
  <2>2. buffered' = buffered
    BY <1>2, <1>4, <1>8, Sizes, SubSeqFull
  <2> QED
    BY <1>1, <2>1, <2>2, StreamStutters DEF Pending
<1>9. CASE n > 0
  <2>1. n \in 1 .. Len(Pending)
    BY <1>2, <1>3, <1>9
  <2> QED
    BY <1>1, <1>3, <1>6, <1>7, <2>1 DEF Stream!Arrive, Pending
<1> QED
  BY <1>8, <1>9

LEMMA StreamFails ==
  ASSUME Inv, InputFailed PROVE Stream!Fail
<1> USE DEF Inv
<1>1. /\ answer' = "error" /\ delivered' = delivered /\ next' = next
      /\ buf' = << >> /\ outgoing' = outgoing
  BY DEF InputFailed, deviceVars
<1>2. PICK i \in Nat, b \in Nat, o \in Nat :
        i = Len(buffered) /\ b = Len(buf) /\ o = Len(outgoing)
  BY Sizes
<1>3. /\ buffered \o buf \in Seq(Bytes) /\ Len(buffered \o buf) = i + b
      /\ Pending \in Seq(Bytes) /\ Len(Pending) = (i + b) + o
  <2>1. buffered \o buf \in Seq(Bytes) /\ Len(buffered \o buf) = i + b
    BY <1>2, Sizes, ConcatProperties
  <2> QED
    BY <1>2, <2>1, Sizes, ConcatProperties DEF Pending
\* The bytes after the buffers, and those before the driver's.
<1>4. SubSeq(Pending, i + b + 1, i + b + o) = outgoing
  <2>1. /\ i + b \in 0 .. Len(buffered \o buf)
        /\ SubSeq(Pending, i + b + 1, Len(Pending))
             = SubSeq(buffered \o buf, i + b + 1, Len(buffered \o buf)) \o outgoing
    <3>1. i + b \in 0 .. Len(buffered \o buf)
      BY <1>3
    <3>2. \A a \in Seq(Bytes) : i + b \in 0 .. Len(a) =>
            SubSeq(a \o outgoing, i + b + 1, Len(a \o outgoing))
              = SubSeq(a, i + b + 1, Len(a)) \o outgoing
      BY Sizes, Cut
    <3> QED
      BY <1>3, <3>1, <3>2 DEF Pending
  <2>2. SubSeq(buffered \o buf, i + b + 1, i + b) = << >>
    BY SubSeqEmpty
  <2> QED
    BY <1>3, <2>1, <2>2, Sizes, ConcatEmptySeq
<1>5. SubSeq(Pending, 1, i) = buffered
  <2>1. Pending = buffered \o (buf \o outgoing) /\ buf \o outgoing \in Seq(Bytes)
    BY Sizes, Associate DEF Pending
  <2>2. i \in 0 .. Len(buffered)
    BY <1>2
  <2> QED
    BY <1>2, <2>1, <2>2, Sizes, Cut, SubSeqFull
<1>6. CASE want = Line
  <2>1. Pending' = buffered \o outgoing
    BY <1>1, <1>6, Sizes, ConcatEmptySeq DEF InputFailed, Pending
  <2>2. Pending' = SubSeq(Pending, 1, i) \o SubSeq(Pending, (i + b) + 1, Len(Pending))
    BY <1>3, <1>4, <1>5, <2>1
  <2>3. i \in 0 .. Len(Pending) /\ i + b \in 0 .. Len(Pending) /\ i <= i + b
    BY <1>3
  <2> QED
    BY <1>1, <2>2, <2>3 DEF Stream!Fail, Pending
<1>7. CASE want # Line
  <2>1. Pending' = outgoing
    BY <1>1, <1>7, Sizes, ConcatEmptySeq DEF InputFailed, Pending
  <2>2. SubSeq(Pending, 1, 0) = << >>
    BY SubSeqEmpty
  <2>3. Pending' = SubSeq(Pending, 1, 0) \o SubSeq(Pending, (i + b) + 1, Len(Pending))
    BY <1>3, <1>4, <2>1, <2>2, Sizes, ConcatEmptySeq
  <2>4. 0 \in 0 .. Len(Pending) /\ i + b \in 0 .. Len(Pending) /\ 0 <= i + b
    BY <1>3
  <2> QED
    BY <1>1, <2>3, <2>4 DEF Stream!Fail, Pending
<1> QED
  BY <1>6, <1>7

LEMMA StreamStep == ASSUME Inv, [Next]_vars PROVE [Stream!Next]_(Stream!vars)
<1> SUFFICES Stream!Next \/ UNCHANGED Stream!vars
  OBVIOUS
<1>1. CASE DeviceSends
  BY <1>1, StreamSends DEF Stream!Next
<1>2. CASE SwitchMode \/ getOptionQueue \/ Begin
  <2>1. /\ answer' = "busy"
        /\ UNCHANGED <<buffered, buf, outgoing, delivered, next>>
    BY <1>2 DEF SwitchMode, getOptionQueue, Configures, Begin, deviceVars, inputVars,
       historyVars
  <2> QED
    BY <2>1 DEF Stream!Begin, Stream!Next
<1>3. CASE GetsLine \/ ReadFull \/ GetsEof \/ GetsBlocked \/ ReadShort
  BY <1>3, Delivers, StreamDelivers DEF Stream!Next
<1>4. CASE GetInput
  BY <1>4, StreamStutters DEF GetInput, Inv, Within, Pending, deviceVars, historyVars
<1>5. CASE inputProc
  BY <1>5, StreamReads
<1>6. CASE InputConsumed
  <2>1. buffered' = buffered \o buf /\ buf' = << >> /\ outgoing' = outgoing
    BY <1>6, Sizes, SubSeqFull DEF Inv, Returned, InputConsumed
  <2>2. (buffered \o buf) \o << >> = buffered \o buf
    BY PendingFacts, ConcatEmptySeq DEF Inv
  <2>3. Pending' = Pending
    BY <2>1, <2>2 DEF Pending
  <2> QED
    BY <1>6, <2>3, StreamStutters DEF InputConsumed, Inv, Within, deviceVars, historyVars
<1>7. CASE InputFailed
  BY <1>7, StreamFails DEF Stream!Next
<1>8. CASE UNCHANGED vars
  BY <1>8 DEF vars, deviceVars, inputVars, historyVars, Stream!vars
<1> QED
  BY <1>1, <1>2, <1>3, <1>4, <1>5, <1>6, <1>7, <1>8 DEF Next, InputSteps

\* inputProc under Tcl_Gets and DoReadChars is a byte stream, for reads cut
\* anywhere and commands that end in any of their ways.
THEOREM InputIsStream == Spec => ImplementsStream
<1>1. Inv /\ [Next]_vars => [Stream!Next]_(Stream!vars)
  BY StreamStep
<1> QED
  BY <1>1, Invariant, StreamInit, PTL DEF Spec, ImplementsStream, Stream!Spec

-------------------------------------------------------------------------------
(* Why a gets or a read ends *)

\* The bytes that Tcl has still to get, with those the device has still to send.
Unread == Total + 1 - next + Len(outgoing) + Len(buf)

\* The steps that a command has left at most: three for each read that brings
\* bytes and for the one that does not, and the end.
StepsLeft ==
  IF phase = "idle" THEN 0
  ELSE 4 * Unread + CASE phase = "scan" -> IF eof THEN 1 ELSE 4
                      [] phase = "read" -> 3
                      [] phase = "consume" -> 2

UnreadIsNat == Unread \in Nat

LEMMA UnreadCounts == Inv => UnreadIsNat
<1> SUFFICES ASSUME Inv PROVE Unread \in Nat
  BY DEF UnreadIsNat
<1>1. PICK i \in Nat, b \in Nat : i = Len(outgoing) /\ b = Len(buf)
  BY Sizes DEF Inv
<1>2. next \in 1 .. Total + 1 /\ Total \in Nat
  BY InputAssumption DEF Inv, TypeOK
<1> QED
  BY <1>1, <1>2 DEF Unread

\* What one step of the thread leaves to be done.
LEMMA RunsOutStep ==
  ASSUME Inv, UnreadIsNat, UnreadIsNat', phase # "idle", InputSteps
  PROVE  StepsLeft' < StepsLeft
<1>1. PICK u \in Nat, v \in Nat : u = Unread /\ v = Unread'
  BY DEF UnreadIsNat
<1>2. PICK i \in Nat, b \in Nat : i = Len(outgoing) /\ b = Len(buf)
  BY Sizes DEF Inv
<1>3. u = Total + 1 - next + i + b /\ Total \in Nat /\ next \in Nat
  BY <1>1, <1>2, Sizes DEF Unread, Inv
<1>4. StepsLeft = 4 * u + CASE phase = "scan" -> IF eof THEN 1 ELSE 4
                            [] phase = "read" -> 3
                            [] phase = "consume" -> 2
  BY <1>1 DEF StepsLeft
<1>5. phase \in {"scan", "read", "consume"} /\ eof \in BOOLEAN
  BY DEF Inv, TypeOK
<1>6. CASE phase' = "idle"
  BY <1>4, <1>5, <1>6 DEF StepsLeft
<1>7. CASE GetInput
  <2>1. v = u
    BY <1>1, <1>7 DEF GetInput, deviceVars, Unread
  <2> QED
    BY <1>1, <1>4, <1>7, <2>1 DEF GetInput, StepsLeft
<1>8. CASE inputProc
  <2>1. PICK r \in viRead(BufSize) :
          /\ buf' = SubSeq(outgoing, 1, r.count)
          /\ outgoing' = SubSeq(outgoing, r.count + 1, Len(outgoing))
    BY <1>8 DEF inputProc
  <2>2. PICK k \in 0 .. i : k = r.count
    BY <1>2, Sizes DEF viRead, Inv
  <2>3. Len(buf') = k /\ Len(outgoing') = i - k
    BY <1>2, <2>1, <2>2, Sizes, Parts DEF Inv
  <2>4. b = 0 /\ next' = next /\ phase = "read" /\ phase' = "consume"
    BY <1>2, <1>8, Sizes DEF inputProc, Inv, Within, deviceVars
  <2>5. v = Total + 1 - next + (i - k) + k
    BY <1>1, <2>3, <2>4 DEF Unread
  <2>6. v = u
    BY <1>3, <2>2, <2>4, <2>5
  <2> QED
    BY <1>1, <1>4, <2>4, <2>6 DEF StepsLeft
<1>9. CASE InputConsumed
  <2>1. ret.result = b /\ phase = "consume" /\ phase' = "scan" /\ eof' = (b = 0)
    BY <1>2, <1>9 DEF InputConsumed, Inv, Returned
  <2>2. Len(buf') = 0 /\ outgoing' = outgoing /\ next' = next
    BY <1>9, Sizes DEF InputConsumed, deviceVars, Inv
  <2>3. v = u - b
    BY <1>1, <1>2, <1>3, <2>2 DEF Unread
  <2>4. StepsLeft' = 4 * v + IF b = 0 THEN 1 ELSE 4
    BY <1>1, <2>1 DEF StepsLeft
  <2>5. StepsLeft = 4 * u + 2
    BY <1>4, <2>1
  <2> QED
    BY <2>3, <2>4, <2>5
<1> QED
  BY <1>6, <1>7, <1>8, <1>9
     DEF InputSteps, GetsLine, GetsEof, GetsBlocked, ReadFull, ReadShort, Deliver, InputFailed

\* Every step of the thread in a gets or a read brings the command nearer to its
\* end, and nothing the device or another thread does takes it further away: a
\* zero result is the last, any other uses up bytes.  This is what InputReturns
\* needs beside fairness.
THEOREM InputRunsOut ==
  Spec => [][phase # "idle" => \/ StepsLeft' < StepsLeft
                               \/ ~ InputSteps /\ StepsLeft' = StepsLeft]_vars
<1> DEFINE A == phase # "idle" => \/ StepsLeft' < StepsLeft
                                  \/ ~ InputSteps /\ StepsLeft' = StepsLeft
<1>1. ASSUME Inv, UnreadIsNat, UnreadIsNat', Next, phase # "idle"
      PROVE  StepsLeft' < StepsLeft \/ (~ InputSteps /\ StepsLeft' = StepsLeft)
  <2>1. CASE InputSteps
    BY <1>1, <2>1, RunsOutStep
  <2>2. CASE ~ InputSteps
    <3>1. DeviceSends
      BY <1>1, <2>2 DEF Next, SwitchMode, getOptionQueue, Configures, Begin
    <3>2. next \in 1 .. Total
      BY <1>1, <3>1, Sizes DEF DeviceSends, Inv
    <3>3. Len(outgoing') = Len(outgoing) + 1
      BY <1>1, <3>1, <3>2, Sizes, AppendProperties DEF DeviceSends, Inv, Bytes
    <3>4. Unread' = Unread
      BY <1>1, <3>1, <3>2, <3>3, Sizes DEF DeviceSends, Unread, Inv
    <3> QED
      BY <2>2, <3>1, <3>4 DEF DeviceSends, StepsLeft, inputVars
  <2> QED
    BY <2>1, <2>2
<1>2. Inv /\ UnreadIsNat /\ UnreadIsNat' /\ [Next]_vars => [A]_vars
  BY <1>1
<1> QED
  BY <1>2, Invariant, UnreadCounts, PTL DEF Spec
================================================================================
