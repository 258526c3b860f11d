------------------------------- MODULE LastError -------------------------------
(***************************************************************************)
(* The record of the last VISA status a channel keeps                      *)
(* (storeLastError, src/src/tclvisa/visa_channel.c) and visa::last-error,  *)
(* which splits its message with strtok                                    *)
(* (src/src/tclvisa/get_last_error.c).                                     *)
(*                                                                         *)
(* A Tcl channel belongs to one thread, so threads share no channel; what  *)
(* they may share is the place where strtok remembers how far it got.      *)
(* PerThread says whether the C library keeps it per thread (the Windows   *)
(* runtime) or once per process (the GNU library).  The call               *)
(* strtok(NULL, .) reads that place, scans and writes it back; here the    *)
(* read and the write are steps of their own, so other threads may come    *)
(* in between, and between the two calls.                                  *)
(***************************************************************************)
EXTENDS Naturals, VisaStatus

CONSTANTS
  Threads,    \* threads that run a Tcl interpreter with tclvisa
  Channels,   \* the VISA channels
  Owner,      \* Owner[c] is the thread of channel c
  PerThread   \* strtok's place is per thread

ASSUME LastErrorAssumption ==
  /\ Owner \in [Channels -> Threads]
  /\ PerThread \in BOOLEAN

NULL == "NULL"

\* Tokens and list elements besides Code(.) and Text(.)
Number(status) == <<"number", status>>
Empty   == <<"empty", NULL>>
NoToken == <<"null", NULL>>      \* strtok found none
Garbage == <<"garbage", NULL>>   \* what is left in a freed buffer

VARIABLES
  lastError,     \* VisaChannelData.lastError
  lastErrorMsg,  \* VisaChannelData.lastErrorMsg: NULL, or whose message it is
  pc,            \* where each thread is in visa::last-error
  chan,          \* the channel it was asked about
  buf,           \* its copy of the message, as tokens; empty when freed
  s,             \* the token strtok last gave it
  olds,          \* strtok's place: in whose buffer, and how many tokens are used
  res,           \* the list it builds, then returns
  crashed,       \* the process has dereferenced a null pointer
  mixed          \* history: threads between whose last two calls of strtok
                 \* another thread has moved their place

vars == <<lastError, lastErrorMsg, pc, chan, buf, s, olds, res, crashed, mixed>>

-------------------------------------------------------------------------------
(* storeLastError *)

\* A message is kept for every status: the test for an error is lost.
storeLastError_EveryStatus(c, status) ==
  /\ lastError' = [lastError EXCEPT ![c] = status]
  /\ lastErrorMsg' = [lastErrorMsg EXCEPT ![c] = status]

storeLastError(c, status) ==
  /\ lastError' = [lastError EXCEPT ![c] = status]
  /\ lastErrorMsg' = [lastErrorMsg EXCEPT ![c] =
                        IF IsError(status) THEN status ELSE NULL]

\* Any command or I/O operation on the channel, in its thread.
Operation(c) ==
  /\ ~ crashed
  /\ pc[Owner[c]] = "idle"
  /\ \E status \in ViStatus : storeLastError(c, status)
  /\ res' = [res EXCEPT ![Owner[c]] = << >>]
  /\ UNCHANGED <<pc, chan, buf, s, olds, crashed, mixed>>

-------------------------------------------------------------------------------
(* visa::last-error *)

Place(t) == IF PerThread THEN t ELSE "process"
Places   == {Place(t) : t \in Threads}

\* The other threads between their two calls whose place t moves as well.
Between(t) == {u \in Threads \ {t} : pc[u] = "next" /\ Place(u) = Place(t)}

\* The token after the first `used` ones of t's buffer, or none.
TokenAfter(place) ==
  IF buf[place.thread] = << >> THEN Garbage
  ELSE IF place.used < Len(buf[place.thread])
    THEN buf[place.thread][place.used + 1]
    ELSE NoToken

\* The copy goes to one static buffer for all threads.
tclvisa_get_last_error_StaticBuf(c) ==
  LET t == Owner[c] IN
  /\ ~ crashed
  /\ pc[t] = "idle"
  /\ chan' = [chan EXCEPT ![t] = c]
  /\ IF lastErrorMsg[c] = NULL
       THEN /\ res' = [res EXCEPT ![t] = <<Number(lastError[c]), Empty, Empty>>]
            /\ UNCHANGED <<pc, buf>>
       ELSE /\ res' = [res EXCEPT ![t] = <<Number(lastError[c])>>]
            /\ buf' = [u \in Threads |-> visaErrorMessage(lastErrorMsg[c])]
            /\ pc' = [pc EXCEPT ![t] = "first"]
  /\ mixed' = mixed \ {t}
  /\ UNCHANGED <<lastError, lastErrorMsg, s, olds, crashed>>

\* The list starts with the numeric code; without a message it ends with two
\* empty strings, otherwise the message is copied.
tclvisa_get_last_error(c) ==
  LET t == Owner[c] IN
  /\ ~ crashed
  /\ pc[t] = "idle"
  /\ chan' = [chan EXCEPT ![t] = c]
  /\ IF lastErrorMsg[c] = NULL
       THEN /\ res' = [res EXCEPT ![t] = <<Number(lastError[c]), Empty, Empty>>]
            /\ UNCHANGED <<pc, buf>>
       ELSE /\ res' = [res EXCEPT ![t] = <<Number(lastError[c])>>]
            /\ buf' = [buf EXCEPT ![t] = visaErrorMessage(lastErrorMsg[c])]
            /\ pc' = [pc EXCEPT ![t] = "first"]
  /\ mixed' = mixed \ {t}
  /\ UNCHANGED <<lastError, lastErrorMsg, s, olds, crashed>>

\* s = strtok(buf, "[]"), and the second element.
FirstToken(t) ==
  /\ ~ crashed
  /\ pc[t] = "first"
  /\ olds' = [olds EXCEPT ![Place(t)] = [thread |-> t, used |-> 1]]
  /\ mixed' = mixed \cup Between(t)
  /\ res' = [res EXCEPT ![t] = Append(@, buf[t][1])]
  /\ pc' = [pc EXCEPT ![t] = "next"]
  /\ UNCHANGED <<lastError, lastErrorMsg, chan, buf, s, crashed>>

\* The scan starts one token too far.
NextToken_SkipsOne(t) ==
  /\ ~ crashed
  /\ pc[t] = "next"
  /\ s' = [s EXCEPT ![t] =
             [from |-> olds[Place(t)],
              token |-> TokenAfter([olds[Place(t)] EXCEPT !.used = @ + 1])]]
  /\ pc' = [pc EXCEPT ![t] = "skip"]
  /\ UNCHANGED <<lastError, lastErrorMsg, chan, buf, olds, res, crashed, mixed>>

\* s = strtok(NULL, "[]"): read the place and scan from there...
NextToken(t) ==
  /\ ~ crashed
  /\ pc[t] = "next"
  /\ s' = [s EXCEPT ![t] = [from |-> olds[Place(t)],
                            token |-> TokenAfter(olds[Place(t)])]]
  /\ pc' = [pc EXCEPT ![t] = "skip"]
  /\ UNCHANGED <<lastError, lastErrorMsg, chan, buf, olds, res, crashed, mixed>>

\* ...write it back; `for (; isspace(*s); ++s)` dereferences s before the test
\* for NULL that follows; then the third element, and the copy is freed.
SkipSpace(t) ==
  /\ ~ crashed
  /\ pc[t] = "skip"
  /\ olds' = [olds EXCEPT ![Place(t)] = [s[t].from EXCEPT !.used = @ + 1]]
  /\ mixed' = mixed \cup Between(t)
  /\ IF s[t].token = NoToken
       THEN /\ crashed' = TRUE
            /\ UNCHANGED <<pc, buf, res>>
       ELSE /\ res' = [res EXCEPT ![t] = Append(@, s[t].token)]
            /\ buf' = [buf EXCEPT ![t] = << >>]
            /\ pc' = [pc EXCEPT ![t] = "idle"]
            /\ UNCHANGED crashed
  /\ UNCHANGED <<lastError, lastErrorMsg, chan, s>>

-------------------------------------------------------------------------------

NoPlace == [thread |-> NULL, used |-> 0]

Init ==
  /\ lastError    = [c \in Channels |-> SUCCESS]
  /\ lastErrorMsg = [c \in Channels |-> NULL]
  /\ pc   = [t \in Threads |-> "idle"]
  /\ chan \in {f \in [Threads -> Channels] : \A t \in Threads : Owner[f[t]] = t}
  /\ buf  = [t \in Threads |-> << >>]
  /\ s    = [t \in Threads |-> [from |-> NoPlace, token |-> NoToken]]
  /\ olds = [p \in Places |-> NoPlace]
  /\ res  = [t \in Threads |-> << >>]
  /\ crashed = FALSE
  /\ mixed = {}

Next ==
  \/ \E c \in Channels : Operation(c) \/ tclvisa_get_last_error(c)
  \/ \E t \in Threads : FirstToken(t) \/ NextToken(t) \/ SkipSpace(t)

Spec == Init /\ [][Next]_vars

-------------------------------------------------------------------------------
(* Properties *)

Tokens == {Garbage, NoToken}
            \cup {Code(st) : st \in ViStatus \cup {UNKNOWN}}
            \cup {Text(st) : st \in ViStatus \cup {UNKNOWN}}

Positions == [thread : Threads \cup {NULL}, used : Nat]

\* The state has the C types; a message is kept for an error status only.
TypeOK ==
  /\ lastError    \in [Channels -> ViStatus]
  /\ lastErrorMsg \in [Channels -> {NULL} \cup {st \in ViStatus : IsError(st)}]
  /\ pc   \in [Threads -> {"idle", "first", "next", "skip"}]
  /\ chan \in [Threads -> Channels]
  /\ buf  \in [Threads -> {<< >>} \cup {visaErrorMessage(st) : st \in ViStatus}]
  /\ s    \in [Threads -> [from : Positions, token : Tokens]]
  /\ olds \in [Places -> Positions]
  /\ \A t \in Threads : Len(res[t]) \in 0 .. 3
  /\ crashed \in BOOLEAN
  /\ mixed \subseteq Threads

\* The list promised for a status (doc/tclvisa.tex, visa::last-error).
Answer(status) ==
  IF IsError(status)
    THEN <<Number(status), visaErrorMessage(status)[1], visaErrorMessage(status)[2]>>
    ELSE <<Number(status), Empty, Empty>>

\* What thread t has answered for the status e of its channel: the promised
\* list, or, when another thread has come in between, one with its own number
\* and code and anything for a text.
Answered(t, e) ==
  \/ e # FILE_ERROR /\ res[t] = Answer(e)
  \/ /\ t \in mixed
     /\ IsError(e)
     /\ Len(res[t]) = 3
     /\ res[t][1] = Number(e)
     /\ res[t][2] = visaErrorMessage(e)[1]

\* visa::last-error answers for the last operation of its own channel, whatever
\* came before it and however the threads share strtok's place.  Only its text
\* can be another's, and only if another thread used strtok between its two
\* calls: there is no other window, neither in storeLastError nor in the copy
\* and its release.
AnswerOwnUnlessMixed ==
  \A t \in Threads :
    pc[t] = "idle" /\ res[t] # << >> => Answered(t, lastError[chan[t]])

\* visa::last-error stops the process only on a message that has no code in
\* brackets, or when another thread came in between its calls of strtok.
CrashExplained ==
  crashed => \E t \in Threads :
               pc[t] = "skip" /\ (lastError[chan[t]] = FILE_ERROR \/ t \in mixed)

\* visa::last-error answers with the code and the text of its own channel's
\* last error, whatever other threads ask at the same time
\* (doc/tclvisa.tex:644).
AnswerIsOwnError ==
  \A t \in Threads :
    pc[t] = "idle" /\ res[t] # << >> => res[t] = Answer(lastError[chan[t]])

\* doc/tclvisa.tex:654: visa::last-error returns a "List of three elements",
\* the last one the "Textual description of the last error", for any error.
AlwaysAnswers == ~ crashed
================================================================================
