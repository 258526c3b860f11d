----------------------------- MODULE ChannelInput -----------------------------
(***************************************************************************)
(* gets, read and fconfigure -queue on a VISA channel: the driver's        *)
(* inputProc (src/src/tclvisa/visa_channel.c) under the loops of Tcl_Gets  *)
(* and of Tcl's DoReadChars, which call it until Tcl's buffer holds a      *)
(* newline, or as many bytes as the script wants, the driver reports the   *)
(* end of the file (a zero result) or an error, or, on a channel Tcl takes *)
(* for a non-blocking one, a short read says that a further one might      *)
(* block.  Bytes are numbered in the order the device sends them; some of  *)
(* them are newlines.                                                      *)
(***************************************************************************)
EXTENDS Integers, Sequences, VisaStatus

CONSTANTS
  BufSize,    \* the bytes Tcl asks the driver for
  Total,      \* bound: the bytes the device sends in all
  ReadSizes   \* the numbers of bytes the script gives to read; one above
              \* Total asks for all there is
ASSUME InputAssumption ==
  BufSize \in Nat \ {0} /\ Total \in Nat /\ ReadSizes \subseteq Nat \ {0}

VARIABLES
  blocking,     \* VisaChannelData.blocking
  tclBlocking,  \* Tcl's CHANNEL_NONBLOCKING flag, negated
  lastError,    \* VisaChannelData.lastError
  newlines,     \* which bytes are newlines
  outgoing,     \* the bytes the device has sent and VISA has not yet delivered
  next,         \* the number of the next byte the device sends
  phase,        \* "idle", or in gets or read: "scan", "read" or "consume"
  want,         \* the bytes a read is after; Line in gets
  buf,          \* the caller's buffer: the bytes the last viRead put in it
  ret,          \* what inputProc returned: its result and *errorCodePtr
  buffered,     \* Tcl's input queue
  eof,          \* CHANNEL_EOF
  shortRead,    \* CHANNEL_BLOCKED
  delivered,    \* history: the bytes the script was given
  dropped,      \* history: the number of bytes that failed commands gave up
  answer,       \* how the last command ended: gets with a "line", a "partial"
                \* one or "none", read with a "full" or a "short" count
  queue         \* what -queue has just told, and the bytes sent by then

modeVars    == <<blocking, tclBlocking>>
deviceVars  == <<newlines, next>>
inputVars   == <<buffered, eof, shortRead>>
historyVars == <<delivered, dropped>>

vars == <<modeVars, lastError, deviceVars, outgoing, phase, want, buf, ret,
          inputVars, historyVars, answer, queue>>

EAGAIN == "EAGAIN"
NoErrno == "unset"
Line == 0
NoQueue == [in |-> -1, sent |-> 0]

-------------------------------------------------------------------------------
(* The device and VISA *)

DeviceSends ==
  /\ next <= Total
  /\ outgoing' = Append(outgoing, next)
  /\ next' = next + 1
  /\ UNCHANGED <<modeVars, lastError, newlines, phase, want, buf, ret, inputVars,
                 historyVars, answer, queue>>

\* The status and count viRead may deliver into n bytes: what it has, by a
\* count or an end mark (an empty response has nothing but the mark); less
\* than was asked, when the timeout or an error cuts it short.
viRead(n) ==
  LET most == IF Len(outgoing) < n THEN Len(outgoing) ELSE n IN
  {[status |-> SUCCESS, count |-> k] : k \in 0 .. most}
    \cup {[status |-> TMO, count |-> k] : k \in (0 .. most) \ {n}}
    \cup {[status |-> CONN_LOST, count |-> k] : k \in 0 .. most}

-------------------------------------------------------------------------------
(* inputProc *)

\* A timeout is an error like any other.
Result_TimeoutFails(status, count) ==
  IF IsError(status)
    THEN [result |-> -1, errno |-> status]
    ELSE [result |-> count, errno |-> NoErrno]

\* What was read before a timeout is not counted.
Result_PartialAsZero(status, count) ==
  IF status = TMO
    THEN [result |-> 0, errno |-> EAGAIN]
  ELSE IF IsError(status)
    THEN [result |-> -1, errno |-> status]
  ELSE [result |-> count, errno |-> NoErrno]

\* The result is the size of the buffer, not the count.
Result_BufSize(status, count) ==
  IF IsError(status)
    THEN [result |-> -1, errno |-> status]
    ELSE [result |-> BufSize, errno |-> NoErrno]

\* A timeout is no error in either mode: the count is returned, and with a
\* zero count a non-blocking channel's errno says "again".  Any other error
\* gives -1 whatever was read.
Result(status, count) ==
  IF status = TMO
    THEN [result |-> count,
          errno |-> IF ~ blocking /\ count = 0 THEN EAGAIN ELSE NoErrno]
  ELSE IF IsError(status)
    THEN [result |-> -1, errno |-> status]
  ELSE [result |-> count, errno |-> NoErrno]

\* A timed-out read of a blocking channel is tried again, by way of Tcl's loop.
inputProc_Retries ==
  /\ phase = "read"
  /\ \E r \in viRead(BufSize) :
       /\ lastError' = r.status
       /\ ret' = Result(r.status, r.count)
       /\ buf' = SubSeq(outgoing, 1, r.count)
       /\ outgoing' = SubSeq(outgoing, r.count + 1, Len(outgoing))
       /\ phase' = IF blocking /\ r = [status |-> TMO, count |-> 0] THEN "scan"
                                                                  ELSE "consume"
  /\ UNCHANGED <<modeVars, deviceVars, want, inputVars, historyVars, answer, queue>>

inputProc ==
  /\ phase = "read"
  /\ \E r \in viRead(BufSize) :
       /\ lastError' = r.status
       /\ ret' = Result(r.status, r.count)
       /\ buf' = SubSeq(outgoing, 1, r.count)
       /\ outgoing' = SubSeq(outgoing, r.count + 1, Len(outgoing))
  /\ phase' = "consume"
  /\ UNCHANGED <<modeVars, deviceVars, want, inputVars, historyVars, answer, queue>>

-------------------------------------------------------------------------------
(* Tcl_Gets, DoReadChars and their GetInput *)

\* gets $c, read $c n or read $c.  The end-of-file and blocked conditions are
\* discovered anew by each call.
Begin ==
  /\ phase = "idle"
  /\ want' \in {Line} \cup ReadSizes
  /\ phase' = "scan"
  /\ eof' = FALSE
  /\ shortRead' = FALSE
  /\ answer' = "busy"
  /\ queue' = NoQueue
  /\ UNCHANGED <<modeVars, lastError, deviceVars, outgoing, buf, ret, buffered,
                 historyVars>>

\* Enough is buffered for the command to end.
HasLine == \E i \in 1 .. Len(buffered) : buffered[i] \in newlines

Satisfied == IF want = Line THEN HasLine ELSE Len(buffered) >= want

\* The command ends with the first n bytes of the buffer; the rest stays.
Deliver(n, how) ==
  /\ delivered' = delivered \o SubSeq(buffered, 1, n)
  /\ buffered' = SubSeq(buffered, n + 1, Len(buffered))
  /\ answer' = how
  /\ phase' = "idle"
  /\ want' = Line
  /\ UNCHANGED <<modeVars, lastError, deviceVars, outgoing, buf, ret, eof, shortRead,
                 dropped, queue>>

GetsLine ==
  /\ phase = "scan" /\ want = Line
  /\ \E n \in 1 .. Len(buffered) :
       /\ buffered[n] \in newlines
       /\ \A i \in 1 .. n - 1 : buffered[i] \notin newlines
       /\ Deliver(n, "line")

ReadFull ==
  /\ phase = "scan" /\ want # Line
  /\ Satisfied
  /\ Deliver(want, "full")

\* At the end of the file what there is counts as the last line.
GetsEof ==
  /\ phase = "scan" /\ want = Line
  /\ ~ Satisfied
  /\ eof
  /\ Deliver(Len(buffered), IF buffered = << >> THEN "none" ELSE "partial")

\* After a short read a non-blocking gets gives up and keeps what there is.
GetsBlocked ==
  /\ phase = "scan" /\ want = Line
  /\ ~ Satisfied
  /\ ~ eof /\ shortRead /\ ~ tclBlocking
  /\ Deliver(0, "none")

\* ...where read gives the script what there is.
ReadShort ==
  /\ phase = "scan" /\ want # Line
  /\ ~ Satisfied
  /\ eof \/ (shortRead /\ ~ tclBlocking)
  /\ Deliver(Len(buffered), "short")

GetInput ==
  /\ phase = "scan"
  /\ ~ Satisfied
  /\ ~ eof /\ (shortRead => tclBlocking)
  /\ shortRead' = FALSE
  /\ phase' = "read"
  /\ UNCHANGED <<modeVars, lastError, deviceVars, outgoing, want, buf, ret, buffered,
                 eof, historyVars, answer, queue>>

\* A zero result is the end of the file: errno is not looked at.
InputConsumed ==
  /\ phase = "consume"
  /\ ret.result >= 0
  /\ buffered' = buffered \o SubSeq(buf, 1, ret.result)
  /\ eof' = (ret.result = 0)
  /\ shortRead' = (ret.result \in 1 .. BufSize - 1)
  /\ buf' = << >>
  /\ phase' = "scan"
  /\ UNCHANGED <<modeVars, lastError, deviceVars, outgoing, want, ret, historyVars,
                 answer, queue>>

\* A negative result ends the command; what was in the driver's buffer is gone,
\* and what a read had already taken out of Tcl's is gone as well.
InputFailed ==
  /\ phase = "consume"
  /\ ret.result < 0
  /\ dropped' = dropped + Len(buf) + IF want = Line THEN 0 ELSE Len(buffered)
  /\ buffered' = IF want = Line THEN buffered ELSE << >>
  /\ answer' = "error"
  /\ buf' = << >>
  /\ phase' = "idle"
  /\ want' = Line
  /\ UNCHANGED <<modeVars, lastError, deviceVars, outgoing, ret, eof, shortRead,
                 delivered, queue>>

-------------------------------------------------------------------------------
(* fconfigure, between two commands *)

Configures ==
  /\ phase = "idle"
  /\ answer' = "busy"
  /\ UNCHANGED <<deviceVars, outgoing, phase, want, buf, ret, inputVars, historyVars>>

\* -blocking 0: refused when the timeout cannot be read.  -blocking 1: Tcl's
\* flag follows only a restore that VISA refused, not one it took or only warned
\* of (see VisaChannel).
SwitchMode ==
  /\ Configures
  /\ queue' = NoQueue
  /\ \/ /\ blocking
        /\ \/ lastError' = CONN_LOST /\ UNCHANGED modeVars
           \/ /\ lastError' \in {SUCCESS, WARN, CONN_LOST}
              /\ blocking' = FALSE /\ tclBlocking' = FALSE
     \/ /\ ~ blocking
        /\ blocking' = TRUE
        /\ lastError' \in {SUCCESS, WARN, CONN_LOST}
        /\ tclBlocking' = IsError(lastError')
     \/ /\ tclBlocking' = blocking
        /\ UNCHANGED <<blocking, lastError>>

\* The bytes VISA has are counted, but not those in Tcl's buffer.
InQueue_VisaOnly == Len(outgoing)

InQueue == Len(buffered) + Len(outgoing)

\* -queue: VISA's count (VI_ATTR_ASRL_AVAIL_NUM) and Tcl_InputBuffered.
getOptionQueue ==
  /\ Configures
  /\ lastError' \in {SUCCESS, CONN_LOST}
  /\ queue' = IF IsError(lastError') THEN NoQueue
                                     ELSE [in |-> InQueue, sent |-> next - 1]
  /\ UNCHANGED modeVars

-------------------------------------------------------------------------------

Init ==
  /\ blocking = TRUE /\ tclBlocking = TRUE
  /\ lastError = SUCCESS
  /\ newlines \in SUBSET (1 .. Total)
  /\ outgoing = << >>
  /\ next = 1
  /\ phase = "idle"
  /\ want = Line
  /\ buf = << >>
  /\ ret = [result |-> 0, errno |-> NoErrno]
  /\ buffered = << >>
  /\ eof = FALSE /\ shortRead = FALSE
  /\ delivered = << >> /\ dropped = 0
  /\ answer = "busy"
  /\ queue = NoQueue

InputSteps == \/ GetsLine \/ GetsEof \/ GetsBlocked \/ ReadFull \/ ReadShort
              \/ GetInput \/ inputProc \/ InputConsumed \/ InputFailed

Next == DeviceSends \/ SwitchMode \/ getOptionQueue \/ Begin \/ InputSteps

\* The thread that runs the command keeps running, and viRead returns: the
\* script's timeout is finite.  Nothing is assumed of the device.
Spec == Init /\ [][Next]_vars /\ WF_vars(InputSteps)

-------------------------------------------------------------------------------
(* Properties *)

Idle == phase = "idle"

\* The driver never claims more bytes than it put in the buffer, and Tcl never
\* takes the channel for a blocking one while the driver does not.
TypeOK ==
  /\ blocking  \in BOOLEAN
  /\ tclBlocking \in BOOLEAN
  /\ tclBlocking => blocking
  /\ lastError \in {SUCCESS, WARN, TMO, CONN_LOST}
  /\ newlines  \subseteq 1 .. Total
  /\ outgoing  \in Seq(1 .. Total)
  /\ next      \in 1 .. Total + 1
  /\ phase     \in {"idle", "scan", "read", "consume"}
  /\ want      \in {Line} \cup ReadSizes
  /\ buf       \in Seq(1 .. Total)
  /\ ret.result \in -1 .. BufSize
  /\ phase = "consume" => ret.result <= Len(buf)
  /\ buffered  \in Seq(1 .. Total)
  /\ eof       \in BOOLEAN
  /\ shortRead \in BOOLEAN
  /\ delivered \in Seq(1 .. Total)
  /\ dropped   \in 0 .. Total
  /\ answer    \in {"busy", "line", "partial", "none", "full", "short", "error"}
  /\ queue     \in [in : -1 .. Total, sent : 0 .. Total]

\* The script gets the device's bytes once each and in order, and a byte is
\* given up only by a command that fails: inputProc under Tcl_Gets and
\* DoReadChars is a ByteStream.
Stream == INSTANCE ByteStream WITH
  pending <- buffered \o buf \o outgoing,
  arrived <- delivered,
  failed  <- answer = "error"

ImplementsStream == Stream!Spec

\* A command that ends with less than it was after (a line without its newline
\* from any channel; no line, or too few bytes, from one that Tcl takes for
\* blocking) does so only because the last read of VISA brought nothing, and
\* visa::last-error says whether that was a timeout or an empty response
\* (doc/tclvisa.tex:678-685); and one fails only for an error that is no
\* timeout, which visa::last-error tells.
AnswerExplained ==
  /\ answer = "partial" \/ (answer \in {"none", "short"} /\ tclBlocking)
       => ret.result = 0 /\ lastError \in {TMO, SUCCESS}
  /\ answer = "error" => /\ IsError(lastError) /\ lastError # TMO
                         /\ ret.errno = lastError

\* What -queue tells is all the device has sent that no command has delivered
\* or given up: no byte is counted twice or forgotten between VISA's buffer and
\* Tcl's, whatever partial lines, timeouts and failed reads came before.
QueueIsWhole ==
  queue # NoQueue => queue.in = queue.sent - Len(delivered) - dropped

\* Whatever the device does, gets and read return, once it has sent all that it
\* ever sends.
InputReturns == ~ Idle ~> Idle
================================================================================
