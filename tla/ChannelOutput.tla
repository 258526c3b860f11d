----------------------------- MODULE ChannelOutput -----------------------------
(***************************************************************************)
(* puts, flush and close on a VISA channel: the driver's outputProc and    *)
(* closeProc (src/src/tclvisa/visa_channel.c) under the loop of Tcl's      *)
(* FlushChannel, which calls outputProc until the output queue is empty or *)
(* it returns a negative result.  tclvisa sets line buffering, so that     *)
(* every puts flushes but one with -nonewline.  Bytes are numbered in the  *)
(* order the script writes them.                                           *)
(***************************************************************************)
EXTENDS Integers, Sequences, VisaStatus

CONSTANTS
  MaxLine,    \* bound: the longest line a puts writes
  MaxBytes    \* bound: the bytes the script writes in all

ASSUME OutputAssumption == MaxLine \in Nat \ {0} /\ MaxBytes \in Nat

VARIABLES
  blocking,    \* VisaChannelData.blocking
  lastError,   \* VisaChannelData.lastError
  phase,       \* "idle", in FlushChannel about to "write" or to "consume", in
               \* "close", or "closed"
  closing,     \* Tcl's CHANNEL_CLOSED: close has been called
  queue,       \* Tcl's output queue
  ret,         \* what outputProc returned: its result and *errorCodePtr
  answer,      \* what the last puts, flush or close told the script
  ready,       \* the device takes bytes
  received,    \* history: the bytes the device took
  sent,        \* history: how many of the queue's bytes it already has
  dropped,     \* history: the number of bytes that failed commands gave up
  next         \* the number of the next byte the script writes

vars == <<blocking, lastError, phase, closing, queue, ret, answer, ready, received,
          sent, dropped, next>>

EAGAIN == "EAGAIN"
NoErrno == "unset"

Run(from, to) == [i \in 1 .. to - from + 1 |-> from + i - 1]

Rest(q, k) == SubSeq(q, k + 1, Len(q))

-------------------------------------------------------------------------------
(* The script *)

Put ==
  /\ phase = "idle"
  /\ \E k \in 1 .. MaxLine :
       /\ next + k - 1 <= MaxBytes
       /\ queue' = queue \o Run(next, next + k - 1)
       /\ next' = next + k
  /\ answer' = "none"
  /\ UNCHANGED <<blocking, lastError, closing, ret, ready, received, sent, dropped>>

\* A line goes out at once, with what was buffered before it.
Puts == Put /\ phase' = "write"

\* puts -nonewline, of less than Tcl's buffer.
PutsNoNewline == Put /\ UNCHANGED phase

\* flush and close begin with a flush of what is queued; when nothing is, flush
\* does nothing and is left out.
Begin(command, next_phase) ==
  /\ phase = "idle"
  /\ closing' = (command = "close")
  /\ phase' = next_phase
  /\ answer' = "none"
  /\ UNCHANGED <<blocking, lastError, queue, ret, ready, received, sent, dropped, next>>

FlushCommand == queue # << >> /\ Begin("flush", "write")

CloseCommand == Begin("close", IF queue = << >> THEN "close" ELSE "write")

\* fconfigure -blocking, between two commands: VISA may refuse to tell the
\* timeout, and the mode stays, or to set another (with an error or a warning),
\* and it changes all the same (see VisaChannel).
SwitchMode ==
  /\ phase = "idle"
  /\ lastError' \in {SUCCESS, WARN, CONN_LOST}
  /\ \/ blocking' = ~ blocking
     \/ blocking /\ IsError(lastError') /\ UNCHANGED blocking
  /\ answer' = "none"
  /\ UNCHANGED <<phase, closing, queue, ret, ready, received, sent, dropped, next>>

-------------------------------------------------------------------------------
(* The device and VISA *)

Device ==
  /\ ready' = ~ ready
  /\ UNCHANGED <<blocking, lastError, phase, closing, queue, ret, answer, received,
                 sent, dropped, next>>

\* The status and count viWrite may deliver for n bytes: all of them, or those
\* the device took before the timeout, or before an error.
viWrite(n) ==
  (IF ready THEN {[status |-> SUCCESS, count |-> n]}
            ELSE {[status |-> TMO, count |-> k] : k \in 0 .. n - 1})
    \cup {[status |-> CONN_LOST, count |-> k] : k \in 0 .. n - 1}

-------------------------------------------------------------------------------
(* outputProc *)

\* The mode test is lost: a timeout is never an error.
Result_IgnoresMode(status, count) ==
  IF status = TMO
    THEN [result |-> count, errno |-> IF count = 0 THEN EAGAIN ELSE NoErrno]
  ELSE IF IsError(status)
    THEN [result |-> -1, errno |-> status]
  ELSE [result |-> count, errno |-> NoErrno]

\* What was written before a timeout is not counted.
Result_PartialAsZero(status, count) ==
  IF status = TMO /\ ~ blocking
    THEN [result |-> 0, errno |-> EAGAIN]
  ELSE IF IsError(status)
    THEN [result |-> -1, errno |-> status]
  ELSE [result |-> count, errno |-> NoErrno]

\* Everything counts as written when a non-blocking write times out.
Result_PartialAsAll(status, count) ==
  IF status = TMO /\ ~ blocking
    THEN [result |-> Len(queue), errno |-> NoErrno]
  ELSE IF IsError(status)
    THEN [result |-> -1, errno |-> status]
  ELSE [result |-> count, errno |-> NoErrno]

\* In non-blocking mode even a success asks Tcl to try again.
Result_AlwaysAgain(status, count) ==
  IF ~ blocking
    THEN [result |-> 0, errno |-> EAGAIN]
  ELSE IF IsError(status)
    THEN [result |-> -1, errno |-> status]
  ELSE [result |-> count, errno |-> NoErrno]

\* One byte too many is counted.
Result_OneMore(status, count) ==
  IF IsError(status)
    THEN [result |-> -1, errno |-> status]
    ELSE [result |-> count + 1, errno |-> NoErrno]

\* A timeout of a non-blocking channel is no error: the count is returned, and
\* with a zero count errno says "again".  Any other error, and a timeout of a
\* blocking channel, gives -1 whatever was written.
Result(status, count) ==
  IF status = TMO /\ ~ blocking
    THEN [result |-> count, errno |-> IF count = 0 THEN EAGAIN ELSE NoErrno]
  ELSE IF IsError(status)
    THEN [result |-> -1, errno |-> status]
  ELSE [result |-> count, errno |-> NoErrno]

\* Only errors are stored.
outputProc_StoresErrors ==
  /\ phase = "write"
  /\ \E r \in viWrite(Len(queue)) :
       /\ lastError' = IF IsError(r.status) THEN r.status ELSE lastError
       /\ ret' = Result(r.status, r.count)
       /\ received' = received \o SubSeq(queue, 1, r.count)
       /\ sent' = r.count
  /\ phase' = "consume"
  /\ UNCHANGED <<blocking, closing, queue, answer, ready, dropped, next>>

outputProc ==
  /\ phase = "write"
  /\ \E r \in viWrite(Len(queue)) :
       /\ lastError' = r.status
       /\ ret' = Result(r.status, r.count)
       /\ received' = received \o SubSeq(queue, 1, r.count)
       /\ sent' = r.count
  /\ phase' = "consume"
  /\ UNCHANGED <<blocking, closing, queue, answer, ready, dropped, next>>

-------------------------------------------------------------------------------
(* Tcl's FlushChannel, after outputProc has returned, and closeProc *)

\* A negative result discards all queued output and fails the command; a
\* channel that is being closed goes all the same.
FlushFailed ==
  /\ phase = "consume"
  /\ ret.result < 0
  /\ dropped' = dropped + Len(queue) - sent
  /\ queue' = << >>
  /\ answer' = "error"
  /\ phase' = IF closing THEN "close" ELSE "idle"
  /\ sent' = 0
  /\ UNCHANGED <<blocking, lastError, closing, ret, ready, received, next>>

\* Any other result, zero included, is the number of bytes to drop from the
\* queue; errno is not looked at, and what is left is written at once.
FlushWrote ==
  /\ phase = "consume"
  /\ ret.result >= 0
  /\ queue' = Rest(queue, ret.result)
  /\ IF queue' # << >> THEN answer' = "none" /\ phase' = "write"
     ELSE IF closing    THEN answer' = "none" /\ phase' = "close"
                        ELSE answer' = "ok"   /\ phase' = "idle"
  /\ sent' = 0
  /\ UNCHANGED <<blocking, lastError, closing, ret, ready, received, dropped, next>>

\* The result of viFlush is not looked at; any status of viClose but zero, a
\* warning included, fails the close, and the channel is gone in any case.
closeProc ==
  /\ phase = "close"
  /\ \E status \in {SUCCESS, WARN, CONN_LOST} :
       answer' = IF answer = "error" \/ status # SUCCESS THEN "error" ELSE "ok"
  /\ phase' = "closed"
  /\ UNCHANGED <<blocking, lastError, closing, queue, ret, ready, received, sent,
                 dropped, next>>

-------------------------------------------------------------------------------

Init ==
  /\ blocking = TRUE
  /\ lastError = SUCCESS
  /\ phase = "idle"
  /\ closing = FALSE
  /\ queue = << >>
  /\ ret = [result |-> 0, errno |-> NoErrno]
  /\ answer = "none"
  /\ ready \in BOOLEAN
  /\ received = << >>
  /\ sent = 0
  /\ dropped = 0
  /\ next = 1

Flush == outputProc \/ FlushFailed \/ FlushWrote \/ closeProc

Next == Puts \/ PutsNoNewline \/ FlushCommand \/ CloseCommand \/ SwitchMode
          \/ Device \/ Flush

\* The thread that runs the command keeps running, and viWrite returns: the
\* script's timeout is finite.  Nothing is assumed of the device.
Spec == Init /\ [][Next]_vars /\ WF_vars(Flush)

-------------------------------------------------------------------------------
(* Properties *)

Idle == phase \in {"idle", "closed"}

\* The driver never claims more bytes than it was given, and is never given
\* none.
TypeOK ==
  /\ blocking  \in BOOLEAN
  /\ lastError \in {SUCCESS, WARN, TMO, CONN_LOST}
  /\ phase     \in {"idle", "write", "consume", "close", "closed"}
  /\ closing   \in BOOLEAN
  /\ queue     \in Seq(1 .. MaxBytes)
  /\ ret.result \in -1 .. MaxBytes
  /\ phase = "write" => queue # << >>
  /\ phase = "consume" => ret.result <= Len(queue)
  /\ answer    \in {"none", "ok", "error"}
  /\ ready     \in BOOLEAN
  /\ received  \in Seq(1 .. MaxBytes)
  /\ sent      \in 0 .. Len(queue)
  /\ dropped   \in 0 .. MaxBytes
  /\ next      \in 1 .. MaxBytes + 1

\* The device gets the script's bytes once each and in order, and a byte is
\* given up only by a command that fails: outputProc under FlushChannel is a
\* ByteStream.
Stream == INSTANCE ByteStream WITH
  pending <- Rest(queue, sent),
  arrived <- received,
  failed  <- answer = "error"

ImplementsStream == Stream!Spec

\* A puts, flush or close that succeeded leaves nothing behind: whatever the
\* script ever wrote has been taken by the device, but for what commands that
\* failed gave up.  Between commands Tcl's queue (the second number of
\* fconfigure -queue) is exactly what is still to come.
OkMeansReceived ==
  Idle => /\ Len(queue) = next - 1 - Len(received) - dropped
          /\ answer = "ok" => queue = << >>

\* visa::last-error tells the outcomes of a puts or flush apart: after a
\* failure it is the status that failed it, after a success it is no error, even
\* though timeouts of a non-blocking channel were passed over on the way.
LastErrorExplainsAnswer ==
  phase = "idle" => /\ answer = "error" => IsError(lastError) /\ ret.errno = lastError
                    /\ answer = "ok" => ~ IsError(lastError)

\* In blocking mode puts, flush and close return whatever the device does.
BlockingPutsReturns == (~ Idle /\ blocking) ~> Idle

\* In non-blocking mode they return once the device takes bytes for good.
PutsReturnsOnceReady == <>[]ready => (~ Idle ~> Idle)

\* doc/tclvisa.tex:153-155: -blocking "determines whether I/O operations on the
\* channel can cause the process to block indefinitely", and non-blocking I/O
\* is emulated by a zero timeout; yet FlushChannel and outputProc loop as long
\* as the device takes nothing.
NonblockingPutsReturns == (~ Idle /\ ~ blocking) ~> Idle
================================================================================
