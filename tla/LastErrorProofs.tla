---------------------------- MODULE LastErrorProofs ----------------------------
(***************************************************************************)
(* visa::last-error answers for its own channel's last operation, for any  *)
(* number of threads and channels, unless another thread comes in between  *)
(* two calls of strtok; and none can when the C library keeps strtok's     *)
(* place per thread.  (MCLastErrorShared shows what happens otherwise.)    *)
(***************************************************************************)
EXTENDS LastError, SequenceTheorems, TLAPS

\* The variables are functions of the threads, the channels and the places.
Shape ==
  /\ lastError    \in [Channels -> ViStatus]
  /\ lastErrorMsg = [c \in Channels |-> lastErrorMsg[c]]
  /\ pc   \in [Threads -> {"idle", "first", "next", "skip"}]
  /\ chan \in [Threads -> Channels]
  /\ buf  = [t \in Threads |-> buf[t]]
  /\ s    = [t \in Threads |-> s[t]]
  /\ olds = [p \in Places |-> olds[p]]
  /\ res  = [t \in Threads |-> res[t]]

\* A thread asks about channels of its own.
OwnChannel == \A t \in Threads : Owner[chan[t]] = t

\* The message kept is that of the status kept, and there is none after a
\* success.
MessageMatchesError ==
  \A c \in Channels :
    lastErrorMsg[c] = IF IsError(lastError[c]) THEN lastError[c] ELSE NULL

\* How far thread t is in answering for the error e of its channel.
Progress(t, e) ==
  /\ pc[t] = "idle" => res[t] = << >> \/ Answered(t, e)
  /\ pc[t] # "idle" => IsError(e) /\ buf[t] = visaErrorMessage(e)
  /\ pc[t] = "first" => res[t] = <<Number(e)>>
  /\ pc[t] \in {"next", "skip"} => res[t] = <<Number(e), visaErrorMessage(e)[1]>>
  /\ pc[t] = "next" => t \in mixed \/ olds[Place(t)] = [thread |-> t, used |-> 1]
  /\ pc[t] = "skip" =>
       \/ t \in mixed
       \/ s[t].token = IF e = FILE_ERROR THEN NoToken ELSE visaErrorMessage(e)[2]

IInv ==
  /\ Shape
  /\ MessageMatchesError
  /\ OwnChannel
  /\ \A t \in Threads : Progress(t, lastError[chan[t]])
  /\ CrashExplained

-------------------------------------------------------------------------------
(* Messages as strtok splits them *)

\* A message has two tokens, the one of a file error a single one; no token is
\* the absence of one.
LEMMA MessageShape ==
  ASSUME NEW e \in ViStatus
  PROVE  /\ visaErrorMessage(e) # << >>
         /\ e = FILE_ERROR => Len(visaErrorMessage(e)) = 1
         /\ e # FILE_ERROR => Len(visaErrorMessage(e)) = 2
         /\ e # FILE_ERROR => visaErrorMessage(e)[2] # NoToken
<1>1. CASE e = FILE_ERROR
  <2>1. visaErrorMessage(e) = <<Text(e)>>
    BY <1>1 DEF visaErrorMessage, FILE_ERROR, UNLISTED
  <2> QED
    BY <1>1, <2>1
<1>2. CASE e = UNLISTED
  <2>1. e # FILE_ERROR
    BY <1>2 DEF UNLISTED, FILE_ERROR
  <2>2. visaErrorMessage(e) = <<Code(UNKNOWN), Text(UNKNOWN)>>
    BY <1>2, <2>1 DEF visaErrorMessage
  <2>3. Text(UNKNOWN) # NoToken
    BY DEF Text, NoToken
  <2> QED
    BY <2>1, <2>2, <2>3
<1>3. CASE e \notin {FILE_ERROR, UNLISTED}
  <2>1. visaErrorMessage(e) = <<Code(e), Text(e)>>
    BY <1>3 DEF visaErrorMessage
  <2>2. Text(e) # NoToken
    BY DEF Text, NoToken
  <2> QED
    BY <1>3, <2>1, <2>2
<1> QED
  BY <1>1, <1>2, <1>3

\* The list grows element by element.
LEMMA AppendOne ==
  ASSUME NEW a, NEW b, NEW c
  PROVE  Append(<<a>>, b) = <<a, b>> /\ Append(<<a, b>>, c) = <<a, b, c>>
<1> DEFINE S == {a, b, c}
<1>1. ASSUME NEW seq \in Seq(S), NEW e \in S, NEW t \in Seq(S),
             Len(t) = Len(seq) + 1, t[Len(seq) + 1] = e,
             \A i \in 1 .. Len(seq) : t[i] = seq[i]
      PROVE  Append(seq, e) = t
  <2>1. /\ Append(seq, e) \in Seq(S)
        /\ Len(Append(seq, e)) = Len(seq) + 1
        /\ \A i \in 1 .. Len(seq) : Append(seq, e)[i] = seq[i]
        /\ Append(seq, e)[Len(seq) + 1] = e
    BY AppendProperties
  <2>2. Len(seq) \in Nat
    BY LenProperties
  <2>3. \A i \in 1 .. Len(Append(seq, e)) : Append(seq, e)[i] = t[i]
    BY <1>1, <2>1, <2>2
  <2> QED
    BY <1>1, <2>1, <2>3, SeqEqual
<1>2. Append(<<a>>, b) = <<a, b>>
  <2>1. <<a>> \in Seq(S) /\ Len(<<a>>) = 1 /\ <<a>>[1] = a
    OBVIOUS
  <2>2. <<a, b>> \in Seq(S) /\ Len(<<a, b>>) = 2
        /\ <<a, b>>[1] = a /\ <<a, b>>[2] = b
    OBVIOUS
  <2>3. b \in S
    OBVIOUS
  <2> DEFINE seq == <<a>>
             t   == <<a, b>>
  <2>4. seq \in Seq(S) /\ t \in Seq(S) /\ Len(t) = Len(seq) + 1 /\ t[Len(seq) + 1] = b
        /\ \A i \in 1 .. Len(seq) : t[i] = seq[i]
    BY <2>1, <2>2
  <2> HIDE DEF seq, t, S
  <2>5. Append(seq, b) = t
    BY <1>1, <2>3, <2>4
  <2> QED
    BY <2>5 DEF seq, t
<1>3. Append(<<a, b>>, c) = <<a, b, c>>
  <2>1. <<a, b>> \in Seq(S) /\ Len(<<a, b>>) = 2
        /\ <<a, b>>[1] = a /\ <<a, b>>[2] = b
    OBVIOUS
  <2>2. <<a, b, c>> \in Seq(S) /\ Len(<<a, b, c>>) = 3
        /\ <<a, b, c>>[1] = a /\ <<a, b, c>>[2] = b /\ <<a, b, c>>[3] = c
    OBVIOUS
  <2>3. c \in S
    OBVIOUS
  <2> DEFINE seq == <<a, b>>
             t   == <<a, b, c>>
  <2>4. seq \in Seq(S) /\ t \in Seq(S) /\ Len(t) = Len(seq) + 1 /\ t[Len(seq) + 1] = c
        /\ \A i \in 1 .. Len(seq) : t[i] = seq[i]
    BY <2>1, <2>2
  <2> HIDE DEF seq, t, S
  <2>5. Append(seq, c) = t
    BY <1>1, <2>3, <2>4
  <2> QED
    BY <2>5 DEF seq, t
<1> QED
  BY <1>2, <1>3

-------------------------------------------------------------------------------

LEMMA InitIInv == Init => IInv
BY LastErrorAssumption
DEF Init, IInv, Shape, MessageMatchesError, OwnChannel, Progress, CrashExplained, ViStatus,
    IsError

LEMMA PlaceIn == \A t \in Threads : Place(t) \in Places
BY DEF Places

\* A thread whose own variables and whose channel's status a step leaves alone
\* is where it was, if strtok's place is where it left it or it has been mixed.
LEMMA OthersProgress ==
  ASSUME NEW u \in Threads, Progress(u, lastError[chan[u]]),
         UNCHANGED <<pc[u], buf[u], s[u], res[u], lastError[chan[u]]>>,
         u \in mixed => u \in mixed',
         pc[u] = "next" => u \in mixed' \/ olds'[Place(u)] = olds[Place(u)]
  PROVE  Progress(u, lastError[chan[u]])'
<1>1. Place(u)' = Place(u)
  BY DEF Place
<1> QED
  BY <1>1 DEF Progress, Answered

\* A thread that moves strtok's place leaves the others where they left it, or
\* mixed.
LEMMA MoveMixes ==
  ASSUME Shape, NEW t \in Threads, NEW x, olds' = [olds EXCEPT ![Place(t)] = x],
         mixed' = mixed \cup Between(t), NEW u \in Threads \ {t}
  PROVE  /\ u \in mixed => u \in mixed'
         /\ pc[u] = "next" => u \in mixed' \/ olds'[Place(u)] = olds[Place(u)]
BY PlaceIn DEF Shape, Between

LEMMA NextIInv == IInv /\ [Next]_vars => IInv'
<1> SUFFICES ASSUME IInv, [Next]_vars PROVE IInv'
  OBVIOUS
<1>1. ASSUME NEW c \in Channels, Operation(c) PROVE IInv'
  <2> DEFINE t == Owner[c]
  <2>0. t \in Threads
    BY LastErrorAssumption
  <2>1. PICK status \in ViStatus : storeLastError(c, status)
    BY <1>1 DEF Operation
  <2>2. /\ pc[t] = "idle" /\ ~ crashed /\ res' = [res EXCEPT ![t] = << >>]
        /\ UNCHANGED <<pc, chan, buf, s, olds, crashed, mixed>>
    BY <1>1 DEF Operation
  <2> HIDE DEF t
  <2>3. Shape'
    BY <2>0, <2>1, <2>2 DEF IInv, Shape, storeLastError
  <2>4. MessageMatchesError'
    BY <2>1 DEF IInv, Shape, MessageMatchesError, storeLastError
  <2>5. OwnChannel'
    BY <2>2 DEF IInv, OwnChannel
  <2>6. ASSUME NEW u \in Threads PROVE Progress(u, lastError[chan[u]])'
    <3>1. CASE u = t
      BY <3>1, <2>0, <2>2 DEF IInv, Shape, Progress
    <3>2. CASE u # t
      <4>1. chan[u] # c
        BY <3>2 DEF t, IInv, OwnChannel
      <4>2. UNCHANGED lastError[chan[u]]
        BY <4>1, <2>1, <2>2 DEF IInv, Shape, storeLastError
      <4>3. UNCHANGED <<pc[u], buf[u], s[u], res[u]>>
        BY <3>2, <2>2 DEF IInv, Shape
      <4>4. Progress(u, lastError[chan[u]])
        BY DEF IInv
      <4> QED
        BY <4>2, <4>3, <4>4, <2>2, OthersProgress
    <3> QED
      BY <3>1, <3>2
  <2>7. CrashExplained'
    BY <2>2 DEF CrashExplained
  <2> QED
    BY <2>3, <2>4, <2>5, <2>6, <2>7 DEF IInv
<1>2. ASSUME NEW c \in Channels, tclvisa_get_last_error(c) PROVE IInv'
  <2> DEFINE t == Owner[c]
             e == lastError[c]
  <2>0. t \in Threads /\ e \in ViStatus
    BY LastErrorAssumption DEF IInv, Shape
  <2>1. /\ pc[t] = "idle" /\ ~ crashed
        /\ chan' = [chan EXCEPT ![t] = c]
        /\ mixed' = mixed \ {t}
        /\ UNCHANGED <<lastError, lastErrorMsg, s, olds, crashed>>
    BY <1>2 DEF tclvisa_get_last_error
  <2>2. IF lastErrorMsg[c] = NULL
          THEN /\ res' = [res EXCEPT ![t] = <<Number(e), Empty, Empty>>]
               /\ UNCHANGED <<pc, buf>>
          ELSE /\ res' = [res EXCEPT ![t] = <<Number(e)>>]
               /\ buf' = [buf EXCEPT ![t] = visaErrorMessage(lastErrorMsg[c])]
               /\ pc' = [pc EXCEPT ![t] = "first"]
    BY <1>2 DEF tclvisa_get_last_error
  <2>3. lastErrorMsg[c] = IF IsError(e) THEN e ELSE NULL
    BY DEF IInv, MessageMatchesError
  <2>4. e # NULL /\ (e = FILE_ERROR => IsError(e))
    BY <2>0
    DEF ViStatus, NULL, SUCCESS, WARN, TMO, CONN_LOST, FILE_ERROR, UNLISTED, IsError
  <2>c. Owner[c] = t
    OBVIOUS
  <2> HIDE DEF t, e
  <2>5. Shape' /\ MessageMatchesError'
    BY <2>0, <2>1, <2>2 DEF IInv, Shape, MessageMatchesError
  <2>6. OwnChannel'
    BY <2>c, <2>1 DEF IInv, Shape, OwnChannel
  <2>7. ASSUME NEW u \in Threads PROVE Progress(u, lastError[chan[u]])'
    <3>1. CASE u = t
      <4>1. lastError'[chan'[u]] = e
        BY <3>1, <2>1 DEF IInv, Shape, e
      <4>2. CASE IsError(e)
        <5>1. /\ res'[t] = <<Number(e)>>
              /\ buf'[t] = visaErrorMessage(e)
              /\ pc'[t] = "first"
          BY <4>2, <2>0, <2>2, <2>3, <2>4 DEF IInv, Shape
        <5> QED
          BY <3>1, <4>1, <4>2, <5>1 DEF Progress
      <4>3. CASE ~ IsError(e)
        <5>1. res'[t] = <<Number(e), Empty, Empty>> /\ pc'[t] = "idle"
          BY <4>3, <2>0, <2>1, <2>2, <2>3 DEF IInv, Shape
        <5>2. e # FILE_ERROR /\ res'[t] = Answer(e)
          BY <4>3, <5>1, <2>4 DEF Answer
        <5> QED
          BY <3>1, <4>1, <5>1, <5>2 DEF Progress, Answered
      <4> QED
        BY <4>2, <4>3
    <3>2. CASE u # t
      <4>1. /\ UNCHANGED <<pc[u], buf[u], s[u], res[u], lastError[chan[u]]>>
            /\ u \in mixed => u \in mixed'
        BY <3>2, <2>1, <2>2 DEF IInv, Shape
      <4>2. Progress(u, lastError[chan[u]])
        BY DEF IInv
      <4> QED
        BY <4>1, <4>2, <2>1, OthersProgress
    <3> QED
      BY <3>1, <3>2
  <2>8. CrashExplained'
    BY <2>1 DEF CrashExplained
  <2> QED
    BY <2>5, <2>6, <2>7, <2>8 DEF IInv
<1>3. ASSUME NEW t \in Threads, FirstToken(t) PROVE IInv'
  <2> DEFINE e == lastError[chan[t]]
  <2>1. /\ pc[t] = "first" /\ ~ crashed
        /\ olds' = [olds EXCEPT ![Place(t)] = [thread |-> t, used |-> 1]]
        /\ mixed' = mixed \cup Between(t)
        /\ res' = [res EXCEPT ![t] = Append(@, buf[t][1])]
        /\ pc' = [pc EXCEPT ![t] = "next"]
        /\ UNCHANGED <<lastError, lastErrorMsg, chan, buf, s, crashed>>
    BY <1>3 DEF FirstToken
  <2>2. IsError(e) /\ buf[t] = visaErrorMessage(e) /\ res[t] = <<Number(e)>>
    BY <2>1 DEF IInv, Progress
  <2>3. Shape' /\ MessageMatchesError' /\ OwnChannel' /\ CrashExplained'
    BY <2>1 DEF IInv, Shape, MessageMatchesError, OwnChannel, CrashExplained
  <2>4. ASSUME NEW u \in Threads PROVE Progress(u, lastError[chan[u]])'
    <3>1. CASE u = t
      <4>1. res'[t] = Append(<<Number(e)>>, visaErrorMessage(e)[1])
        BY <2>1, <2>2 DEF IInv, Shape
      <4>2. res'[t] = <<Number(e), visaErrorMessage(e)[1]>>
        BY <4>1, AppendOne
      <4>3. Place(t)' = Place(t)
        BY DEF Place
      <4>4. pc'[t] = "next" /\ olds'[Place(t)] = [thread |-> t, used |-> 1]
        BY <2>1, PlaceIn DEF IInv, Shape
      <4> QED
        BY <3>1, <2>1, <2>2, <4>2, <4>3, <4>4 DEF Progress
    <3>2. CASE u # t
      <4>1. UNCHANGED <<pc[u], buf[u], s[u], res[u], lastError[chan[u]]>>
        BY <3>2, <2>1 DEF IInv, Shape
      <4>2. /\ u \in mixed => u \in mixed'
            /\ pc[u] = "next" => u \in mixed' \/ olds'[Place(u)] = olds[Place(u)]
        BY <3>2, <2>1, MoveMixes DEF IInv
      <4>3. Progress(u, lastError[chan[u]])
        BY DEF IInv
      <4> QED
        BY <4>1, <4>2, <4>3, OthersProgress
    <3> QED
      BY <3>1, <3>2
  <2> QED
    BY <2>3, <2>4 DEF IInv
<1>4. ASSUME NEW t \in Threads, NextToken(t) PROVE IInv'
  <2> DEFINE e == lastError[chan[t]]
  <2>1. /\ pc[t] = "next" /\ ~ crashed
        /\ s' = [s EXCEPT ![t] = [from |-> olds[Place(t)],
                                  token |-> TokenAfter(olds[Place(t)])]]
        /\ pc' = [pc EXCEPT ![t] = "skip"]
        /\ UNCHANGED <<lastError, lastErrorMsg, chan, buf, olds, res, crashed, mixed>>
    BY <1>4 DEF NextToken
  <2>2. /\ IsError(e) /\ buf[t] = visaErrorMessage(e)
        /\ res[t] = <<Number(e), visaErrorMessage(e)[1]>>
        /\ t \in mixed \/ olds[Place(t)] = [thread |-> t, used |-> 1]
    BY <2>1 DEF IInv, Progress
  <2>3. e \in ViStatus
    BY DEF IInv, Shape
  <2>4. \/ t \in mixed
        \/ TokenAfter(olds[Place(t)]) = IF e = FILE_ERROR THEN NoToken
                                                          ELSE visaErrorMessage(e)[2]
    <3>1. CASE olds[Place(t)] = [thread |-> t, used |-> 1]
      BY <2>2, <2>3, <3>1, MessageShape DEF TokenAfter
    <3> QED
      BY <2>2, <3>1
  <2>5. Shape' /\ MessageMatchesError' /\ OwnChannel' /\ CrashExplained'
    BY <2>1 DEF IInv, Shape, MessageMatchesError, OwnChannel, CrashExplained
  <2>6. ASSUME NEW u \in Threads PROVE Progress(u, lastError[chan[u]])'
    <3>1. CASE u = t
      <4>1. s'[t].token = TokenAfter(olds[Place(t)]) /\ pc'[t] = "skip"
        BY <2>1 DEF IInv, Shape
      <4> QED
        BY <3>1, <2>1, <2>2, <2>4, <4>1 DEF Progress
    <3>2. CASE u # t
      <4>1. UNCHANGED <<pc[u], buf[u], s[u], res[u], lastError[chan[u]]>>
        BY <3>2, <2>1 DEF IInv, Shape
      <4>2. Progress(u, lastError[chan[u]])
        BY DEF IInv
      <4> QED
        BY <4>1, <4>2, <2>1, OthersProgress
    <3> QED
      BY <3>1, <3>2
  <2> QED
    BY <2>5, <2>6 DEF IInv
<1>5. ASSUME NEW t \in Threads, SkipSpace(t) PROVE IInv'
  <2> DEFINE e == lastError[chan[t]]
  <2>0. e \in ViStatus
    BY DEF IInv, Shape
  <2>1. /\ pc[t] = "skip" /\ ~ crashed
        /\ mixed' = mixed \cup Between(t)
        /\ UNCHANGED <<lastError, lastErrorMsg, chan, s>>
    BY <1>5 DEF SkipSpace
  <2>m. PICK x : olds' = [olds EXCEPT ![Place(t)] = x]
    BY <1>5 DEF SkipSpace
  <2>2. /\ IsError(e) /\ buf[t] = visaErrorMessage(e)
        /\ res[t] = <<Number(e), visaErrorMessage(e)[1]>>
        /\ \/ t \in mixed
           \/ s[t].token = IF e = FILE_ERROR THEN NoToken ELSE visaErrorMessage(e)[2]
    BY <2>1 DEF IInv, Progress
  <2>3. ASSUME NEW u \in Threads \ {t}
        PROVE  /\ u \in mixed => u \in mixed'
               /\ pc[u] = "next" => u \in mixed' \/ olds'[Place(u)] = olds[Place(u)]
    BY <2>1, <2>m, MoveMixes DEF IInv
  <2>4. olds' = [p \in Places |-> olds'[p]]
    BY <2>m DEF IInv, Shape
  <2>5. CASE s[t].token = NoToken
    <3>1. crashed' = TRUE /\ UNCHANGED <<pc, buf, res>>
      BY <1>5, <2>5 DEF SkipSpace
    <3>2. Shape' /\ MessageMatchesError' /\ OwnChannel'
      <4>1. Places' = Places
        BY DEF Places, Place
      <4> QED
        BY <2>1, <2>4, <3>1, <4>1 DEF IInv, Shape, MessageMatchesError, OwnChannel
    <3>3. CrashExplained'
      <4>1. e = FILE_ERROR \/ t \in mixed
        BY <2>0, <2>2, <2>5, MessageShape
      <4> QED
        BY <2>1, <3>1, <4>1 DEF CrashExplained
    <3>4. ASSUME NEW u \in Threads PROVE Progress(u, lastError[chan[u]])'
      <4>1. UNCHANGED <<pc[u], buf[u], s[u], res[u], lastError[chan[u]]>>
        BY <2>1, <3>1
      <4>2. u \in mixed => u \in mixed'
        BY <2>1
      <4>3. pc[u] = "next" => u \in mixed' \/ olds'[Place(u)] = olds[Place(u)]
        BY <2>1, <2>3
      <4>4. Progress(u, lastError[chan[u]])
        BY DEF IInv
      <4> QED
        BY <4>1, <4>2, <4>3, <4>4, OthersProgress
    <3> QED
      BY <3>2, <3>3, <3>4 DEF IInv
  <2>6. CASE s[t].token # NoToken
    <3>1. t \in mixed \/ (e # FILE_ERROR /\ s[t].token = visaErrorMessage(e)[2])
      BY <2>2, <2>6
    <3>2. /\ res' = [res EXCEPT ![t] = Append(@, s[t].token)]
          /\ buf' = [buf EXCEPT ![t] = << >>]
          /\ pc' = [pc EXCEPT ![t] = "idle"]
          /\ UNCHANGED crashed
      BY <1>5, <2>6 DEF SkipSpace
    <3>3. Shape' /\ MessageMatchesError' /\ OwnChannel'
      <4>1. Places' = Places
        BY DEF Places, Place
      <4> QED
        BY <2>1, <2>4, <3>2, <4>1 DEF IInv, Shape, MessageMatchesError, OwnChannel
    <3>4. CrashExplained'
      BY <2>1, <3>2 DEF CrashExplained
    <3>5. ASSUME NEW u \in Threads PROVE Progress(u, lastError[chan[u]])'
      <4>1. CASE u = t
        <5>1. res'[t] = Append(<<Number(e), visaErrorMessage(e)[1]>>, s[t].token)
          BY <2>2, <3>2 DEF IInv, Shape
        <5>2. res'[t] = <<Number(e), visaErrorMessage(e)[1], s[t].token>>
          BY <5>1, AppendOne
        <5>3. pc'[t] = "idle"
          BY <3>2 DEF IInv, Shape
        <5>4. Answered(t, e)'
          <6>1. lastError'[chan'[t]] = e
            BY <2>1
          <6>2. CASE t \in mixed
            <7>1. t \in mixed'
              BY <2>1, <6>2
            <7>2. /\ Len(res'[t]) = 3 /\ res'[t][1] = Number(e)
                  /\ res'[t][2] = visaErrorMessage(e)[1]
              BY <5>2
            <7> QED
              BY <2>1, <2>2, <7>1, <7>2 DEF Answered
          <6>3. CASE e # FILE_ERROR /\ s[t].token = visaErrorMessage(e)[2]
            <7>1. res'[t] = Answer(e)
              BY <2>2, <5>2, <6>3 DEF Answer
            <7> QED
              BY <2>1, <6>3, <7>1 DEF Answered
          <6> QED
            BY <3>1, <6>2, <6>3
        <5> QED
          BY <4>1, <2>1, <5>3, <5>4 DEF Progress
      <4>2. CASE u # t
        <5>1. UNCHANGED <<pc[u], buf[u], s[u], res[u], lastError[chan[u]]>>
          BY <4>2, <2>1, <3>2 DEF IInv, Shape
        <5>2. Progress(u, lastError[chan[u]])
          BY DEF IInv
        <5> QED
          BY <4>2, <2>3, <5>1, <5>2, OthersProgress
      <4> QED
        BY <4>1, <4>2
    <3> QED
      BY <3>3, <3>4, <3>5 DEF IInv
  <2> QED
    BY <2>5, <2>6
<1>6. CASE UNCHANGED vars
  <2>1. Places' = Places /\ \A t \in Threads : Place(t)' = Place(t)
    BY DEF Places, Place
  <2> QED
    BY <1>6, <2>1
    DEF vars, IInv, Shape, MessageMatchesError, OwnChannel, Progress, Answered, CrashExplained
<1> QED
  BY <1>1, <1>2, <1>3, <1>4, <1>5, <1>6 DEF Next

-------------------------------------------------------------------------------

\* However the threads share strtok's place, an answer of visa::last-error is
\* the asking channel's own, but for a text that another thread may have
\* supplied between the two calls of strtok.
THEOREM AnswersOwnUnlessMixed == Spec => []AnswerOwnUnlessMixed
<1>1. IInv => AnswerOwnUnlessMixed
  BY DEF IInv, Progress, AnswerOwnUnlessMixed
<1> QED
  BY <1>1, InitIInv, NextIInv, PTL DEF Spec

\* ...and only a message without a code in brackets, or such a thread, stops
\* the process.
THEOREM CrashesExplained == Spec => []CrashExplained
<1>1. IInv => CrashExplained
  BY DEF IInv
<1> QED
  BY <1>1, InitIInv, NextIInv, PTL DEF Spec

\* With strtok's place per thread no thread comes in between: every answer of
\* visa::last-error is the code and text of the asking channel's own last
\* error.
THEOREM AnswersAreOwn ==
  ASSUME PerThread = TRUE
  PROVE  Spec => []AnswerIsOwnError
<1> DEFINE NoneMixed == mixed = {}
<1>1. Init => NoneMixed
  BY DEF Init
<1>2. NoneMixed /\ [Next]_vars => NoneMixed'
  <2> SUFFICES ASSUME NoneMixed, [Next]_vars PROVE NoneMixed'
    OBVIOUS
  <2>1. ASSUME NEW t \in Threads PROVE Between(t) = {}
    BY DEF Between, Place
  <2>2. ASSUME NEW t \in Threads, FirstToken(t) \/ NextToken(t) \/ SkipSpace(t)
        PROVE  NoneMixed'
    BY <2>1, <2>2 DEF FirstToken, NextToken, SkipSpace
  <2>3. ASSUME NEW c \in Channels, Operation(c) \/ tclvisa_get_last_error(c)
        PROVE  NoneMixed'
    BY <2>3 DEF Operation, tclvisa_get_last_error
  <2>4. CASE UNCHANGED vars
    BY <2>4 DEF vars
  <2> QED
    BY <2>2, <2>3, <2>4 DEF Next
<1>3. NoneMixed /\ AnswerOwnUnlessMixed => AnswerIsOwnError
  BY DEF AnswerOwnUnlessMixed, Answered, AnswerIsOwnError
<1> QED
  BY <1>1, <1>2, <1>3, AnswersOwnUnlessMixed, PTL DEF Spec

-------------------------------------------------------------------------------
(* Types *)

\* What the list holds.
Elements == Tokens \cup {Number(status) : status \in ViStatus} \cup {Empty}

\* How long the list of thread t is, and whose buffer strtok is in when it goes
\* on: with one place for all it may be another thread's, but it is a thread's.
Underway(t) ==
  /\ pc[t] = "idle"  => Len(res[t]) \in {0, 3}
  /\ pc[t] = "first" => Len(res[t]) = 1 /\ buf[t] # << >>
  /\ pc[t] \in {"next", "skip"} => Len(res[t]) = 2
  /\ pc[t] = "next" => olds[Place(t)].thread \in Threads
  /\ pc[t] = "skip" => s[t].from.thread \in Threads

TInv ==
  /\ TypeOK
  /\ res \in [Threads -> Seq(Elements)]
  /\ \A t \in Threads : Underway(t)

LEMMA MessageTokens ==
  ASSUME NEW e \in ViStatus
  PROVE  /\ visaErrorMessage(e) \in Seq(Tokens)
         /\ Len(visaErrorMessage(e)) \in 1 .. 2
         /\ visaErrorMessage(e) # << >>
<1>1. \A u, w \in Tokens : /\ <<u>> \in Seq(Tokens) /\ Len(<<u>>) = 1
                           /\ <<u, w>> \in Seq(Tokens) /\ Len(<<u, w>>) = 2
  OBVIOUS
<1>2. \A x \in ViStatus \cup {UNKNOWN} : Code(x) \in Tokens /\ Text(x) \in Tokens
  BY DEF Tokens
<1>3. PICK x \in ViStatus \cup {UNKNOWN} :
        visaErrorMessage(e) = <<Text(x)>> \/ visaErrorMessage(e) = <<Code(x), Text(x)>>
  BY DEF visaErrorMessage
<1>4. Code(x) \in Tokens /\ Text(x) \in Tokens
  BY <1>2
<1>5. \E m \in Seq(Tokens) : visaErrorMessage(e) = m /\ Len(m) \in {1, 2}
  <2>1. CASE visaErrorMessage(e) = <<Text(x)>>
    BY <1>1, <1>4, <2>1
  <2>2. CASE visaErrorMessage(e) = <<Code(x), Text(x)>>
    BY <1>1, <1>4, <2>2
  <2> QED
    BY <1>3, <2>1, <2>2
<1>6. Len(<< >>) = 0
  BY EmptySeq
<1> QED
  BY <1>5, <1>6

\* A place in the buffer of a thread gives a token.
LEMMA TokenType ==
  ASSUME TypeOK, NEW place \in Positions, place.thread \in Threads
  PROVE  TokenAfter(place) \in Tokens
<1> DEFINE b == buf[place.thread]
<1>1. b = << >> \/ b \in Seq(Tokens)
  BY MessageTokens DEF TypeOK
<1>2. CASE b = << >>
  BY <1>2 DEF TokenAfter, Tokens
<1>3. CASE b # << >> /\ place.used < Len(b)
  <2>1. Len(b) \in Nat /\ place.used \in Nat /\ b \in Seq(Tokens)
    BY <1>1, <1>3, LenProperties DEF Positions
  <2>2. place.used + 1 \in 1 .. Len(b)
    BY <1>3, <2>1
  <2>3. b[place.used + 1] \in Tokens
    BY <2>1, <2>2, ElementOfSeq
  <2> QED
    BY <1>3, <2>3 DEF TokenAfter
<1>4. CASE b # << >> /\ ~ place.used < Len(b)
  BY <1>4 DEF TokenAfter, Tokens
<1> QED
  BY <1>2, <1>3, <1>4

LEMMA AppendElement ==
  ASSUME NEW list \in Seq(Elements), NEW x \in Elements, NEW n \in Nat, Len(list) = n
  PROVE  Append(list, x) \in Seq(Elements) /\ Len(Append(list, x)) = n + 1
<1>1. Append(list, x) \in Seq(Elements) /\ Len(Append(list, x)) = Len(list) + 1
  BY AppendProperties
<1> QED
  BY <1>1

LEMMA InitTInv == Init => TInv
<1>1. << >> \in Seq(Elements) /\ Len(<< >>) = 0
  BY EmptySeq
<1>2. NoPlace \in Positions /\ NoToken \in Tokens
  BY DEF NoPlace, Positions, Tokens
<1> SUFFICES ASSUME Init PROVE TInv
  OBVIOUS
<1>3. res \in [Threads -> Seq(Elements)] /\ \A t \in Threads : Underway(t)
  BY <1>1 DEF Init, Underway
<1>4. /\ s \in [Threads -> [from : Positions, token : Tokens]]
      /\ olds \in [Places -> Positions]
  BY <1>2 DEF Init
<1>5. \A t \in Threads : Len(res[t]) \in 0 .. 3
  BY <1>1 DEF Init
<1>6. /\ lastError \in [Channels -> ViStatus]
      /\ lastErrorMsg \in [Channels -> {NULL} \cup {st \in ViStatus : IsError(st)}]
      /\ pc \in [Threads -> {"idle", "first", "next", "skip"}]
      /\ chan \in [Threads -> Channels]
      /\ buf \in [Threads -> {<< >>} \cup {visaErrorMessage(st) : st \in ViStatus}]
      /\ crashed \in BOOLEAN /\ mixed \subseteq Threads
  BY DEF Init, ViStatus
<1> QED
  BY <1>3, <1>4, <1>5, <1>6 DEF TInv, TypeOK

LEMMA NextTInv == TInv /\ [Next]_vars => TInv'
<1> SUFFICES ASSUME TInv, [Next]_vars PROVE TInv'
  OBVIOUS
<1> USE DEF TInv
<1>0. << >> \in Seq(Elements) /\ Len(<< >>) = 0
  BY EmptySeq
<1>1. ASSUME NEW c \in Channels, Operation(c) PROVE TInv'
  <2>0. Owner[c] \in Threads
    BY LastErrorAssumption
  <2>1. PICK status \in ViStatus : storeLastError(c, status)
    BY <1>1 DEF Operation
  <2>2. /\ pc[Owner[c]] = "idle" /\ res' = [res EXCEPT ![Owner[c]] = << >>]
        /\ UNCHANGED <<pc, chan, buf, s, olds, crashed, mixed>>
    BY <1>1 DEF Operation
  <2>3. res' \in [Threads -> Seq(Elements)]
    BY <1>0, <2>2
  <2>4. ASSUME NEW u \in Threads
        PROVE  Underway(u)' /\ Len(res'[u]) \in 0 .. 3
    BY <1>0, <2>0, <2>2 DEF Underway, TypeOK
  <2>5. /\ lastError' \in [Channels -> ViStatus]
        /\ lastErrorMsg' \in [Channels -> {NULL} \cup {st \in ViStatus : IsError(st)}]
    BY <2>1 DEF storeLastError, TypeOK
  <2> QED
    BY <2>2, <2>3, <2>4, <2>5 DEF TypeOK
<1>2. ASSUME NEW c \in Channels, tclvisa_get_last_error(c) PROVE TInv'
  <2> DEFINE t == Owner[c]
  <2>0. t \in Threads
    BY LastErrorAssumption
  <2>1. /\ pc[t] = "idle" /\ chan' = [chan EXCEPT ![t] = c]
        /\ mixed' \subseteq mixed
        /\ UNCHANGED <<lastError, lastErrorMsg, s, olds, crashed>>
    BY <1>2 DEF tclvisa_get_last_error
  <2>2. Number(lastError[c]) \in Elements /\ Empty \in Elements
    BY DEF TypeOK, Elements
  <2>3. \A x, y \in Elements : /\ <<x>> \in Seq(Elements) /\ Len(<<x>>) = 1
                               /\ <<x, y, y>> \in Seq(Elements) /\ Len(<<x, y, y>>) = 3
    OBVIOUS
  <2>4. CASE lastErrorMsg[c] = NULL
    <3>1. res' = [res EXCEPT ![t] = <<Number(lastError[c]), Empty, Empty>>]
          /\ UNCHANGED <<pc, buf>>
      BY <1>2, <2>4 DEF tclvisa_get_last_error
    <3>2. /\ <<Number(lastError[c]), Empty, Empty>> \in Seq(Elements)
          /\ Len(<<Number(lastError[c]), Empty, Empty>>) = 3
      BY <2>2, <2>3
    <3> HIDE DEF t
    <3>3. res' \in [Threads -> Seq(Elements)]
          /\ \A u \in Threads : res'[u] = IF u = t THEN <<Number(lastError[c]), Empty, Empty>>
                                                   ELSE res[u]
      BY <2>0, <3>1, <3>2
    <3>4. ASSUME NEW u \in Threads PROVE Underway(u)' /\ Len(res'[u]) \in 0 .. 3
      BY <2>1, <3>1, <3>2, <3>3 DEF Underway, TypeOK
    <3> QED
      BY <2>1, <3>1, <3>3, <3>4 DEF TypeOK
  <2>5. CASE lastErrorMsg[c] # NULL
    <3>1. /\ res' = [res EXCEPT ![t] = <<Number(lastError[c])>>]
          /\ buf' = [buf EXCEPT ![t] = visaErrorMessage(lastErrorMsg[c])]
          /\ pc' = [pc EXCEPT ![t] = "first"]
      BY <1>2, <2>5 DEF tclvisa_get_last_error
    <3>2. /\ <<Number(lastError[c])>> \in Seq(Elements)
          /\ Len(<<Number(lastError[c])>>) = 1
      BY <2>2, <2>3
    <3>3. lastErrorMsg[c] \in ViStatus /\ visaErrorMessage(lastErrorMsg[c]) # << >>
      BY <2>5, MessageTokens DEF TypeOK
    <3> HIDE DEF t
    <3>4. res' \in [Threads -> Seq(Elements)]
          /\ \A u \in Threads : res'[u] = IF u = t THEN <<Number(lastError[c])>> ELSE res[u]
      BY <2>0, <3>1, <3>2
    <3>5. /\ buf' \in [Threads -> {<< >>} \cup {visaErrorMessage(st) : st \in ViStatus}]
          /\ \A u \in Threads : buf'[u] = IF u = t THEN visaErrorMessage(lastErrorMsg[c])
                                                   ELSE buf[u]
      BY <2>0, <3>1, <3>3 DEF TypeOK
    <3>6. /\ pc' \in [Threads -> {"idle", "first", "next", "skip"}]
          /\ \A u \in Threads : pc'[u] = IF u = t THEN "first" ELSE pc[u]
      BY <2>0, <3>1 DEF TypeOK
    <3>7. ASSUME NEW u \in Threads PROVE Underway(u)' /\ Len(res'[u]) \in 0 .. 3
      BY <2>1, <3>2, <3>3, <3>4, <3>5, <3>6 DEF Underway, TypeOK
    <3> QED
      BY <2>1, <3>4, <3>5, <3>6, <3>7 DEF TypeOK
  <2> QED
    BY <2>4, <2>5
<1>3. ASSUME NEW t \in Threads, FirstToken(t) PROVE TInv'
  <2>1. /\ pc[t] = "first"
        /\ olds' = [olds EXCEPT ![Place(t)] = [thread |-> t, used |-> 1]]
        /\ res' = [res EXCEPT ![t] = Append(@, buf[t][1])]
        /\ pc' = [pc EXCEPT ![t] = "next"]
        /\ mixed' \subseteq Threads
        /\ UNCHANGED <<lastError, lastErrorMsg, chan, buf, s, crashed>>
    BY <1>3 DEF FirstToken, Between, TypeOK
  <2>2. buf[t] \in Seq(Tokens) /\ Len(buf[t]) \in 1 .. 2
    BY <2>1, MessageTokens DEF Underway, TypeOK
  <2>3. buf[t][1] \in Elements
    <3>1. PICK l \in 1 .. 2 : l = Len(buf[t])
      BY <2>2
    <3>2. 1 \in 1 .. l
      OBVIOUS
    <3> QED
      BY <2>2, <3>1, <3>2, ElementOfSeq DEF Elements
  <2>4. /\ Append(res[t], buf[t][1]) \in Seq(Elements)
        /\ Len(Append(res[t], buf[t][1])) = 2
    <3>1. res[t] \in Seq(Elements) /\ Len(res[t]) = 1
      BY <2>1 DEF Underway
    <3>2. /\ Append(res[t], buf[t][1]) \in Seq(Elements)
          /\ Len(Append(res[t], buf[t][1])) = 1 + 1
      BY <2>3, <3>1, AppendElement
    <3> QED
      BY <3>2
  <2>5. /\ res' \in [Threads -> Seq(Elements)]
        /\ \A u \in Threads : res'[u] = IF u = t THEN Append(res[t], buf[t][1]) ELSE res[u]
    BY <2>1, <2>4
  <2>6. /\ olds' \in [Places -> Positions]
        /\ \A p \in Places : olds'[p] = IF p = Place(t) THEN [thread |-> t, used |-> 1]
                                                        ELSE olds[p]
    BY <2>1, PlaceIn DEF TypeOK, Positions
  <2>7. /\ pc' \in [Threads -> {"idle", "first", "next", "skip"}]
        /\ \A u \in Threads : pc'[u] = IF u = t THEN "next" ELSE pc[u]
    BY <2>1 DEF TypeOK
  <2>8. ASSUME NEW u \in Threads PROVE Underway(u)' /\ Len(res'[u]) \in 0 .. 3
    <3>0. Len(res[u]) \in 0 .. 3 /\ 2 \in 0 .. 3
      BY DEF TypeOK
    <3>1. olds'[Place(u)].thread = t \/ olds'[Place(u)] = olds[Place(u)]
      BY <2>6, PlaceIn
    <3>2. Place(u)' = Place(u)
      BY DEF Place
    <3>3. CASE u = t
      <4>1. Len(res'[u]) = 2 /\ pc'[u] = "next"
        BY <2>4, <2>5, <2>7, <3>3
      <4>2. olds'[Place(u)] = [thread |-> t, used |-> 1]
        BY <2>6, <3>3, PlaceIn
      <4>3. Underway(u)'
        BY <3>2, <4>1, <4>2 DEF Underway
      <4> QED
        BY <4>1, <4>3
    <3>4. CASE u # t
      <4>1. res'[u] = res[u] /\ buf'[u] = buf[u] /\ pc'[u] = pc[u] /\ s'[u] = s[u]
        BY <2>1, <2>5, <2>7, <3>4
      <4>2. Len(res'[u]) \in 0 .. 3
        BY <3>0, <4>1
      <4>3. Underway(u)'
        BY <3>1, <3>2, <4>1 DEF Underway
      <4> QED
        BY <4>2, <4>3
    <3> QED
      BY <3>3, <3>4
  <2> QED
    BY <2>1, <2>5, <2>6, <2>7, <2>8 DEF TypeOK
<1>4. ASSUME NEW t \in Threads, NextToken(t) PROVE TInv'
  <2> DEFINE x == [from |-> olds[Place(t)], token |-> TokenAfter(olds[Place(t)])]
  <2>1. /\ pc[t] = "next"
        /\ s' = [s EXCEPT ![t] = x]
        /\ pc' = [pc EXCEPT ![t] = "skip"]
        /\ UNCHANGED <<lastError, lastErrorMsg, chan, buf, olds, res, crashed, mixed>>
    BY <1>4 DEF NextToken
  <2>2. olds[Place(t)] \in Positions /\ olds[Place(t)].thread \in Threads
    BY <2>1, PlaceIn DEF Underway, TypeOK
  <2>3. x \in [from : Positions, token : Tokens] /\ x.from.thread \in Threads
    BY <2>2, TokenType
  <2> HIDE DEF x
  <2>4. /\ s' \in [Threads -> [from : Positions, token : Tokens]]
        /\ \A u \in Threads : s'[u] = IF u = t THEN x ELSE s[u]
    BY <2>1, <2>3 DEF TypeOK
  <2>5. /\ pc' \in [Threads -> {"idle", "first", "next", "skip"}]
        /\ \A u \in Threads : pc'[u] = IF u = t THEN "skip" ELSE pc[u]
    BY <2>1 DEF TypeOK
  <2>6. ASSUME NEW u \in Threads PROVE Underway(u)'
    <3>1. Place(u)' = Place(u)
      BY DEF Place
    <3> QED
      BY <2>1, <2>3, <2>4, <2>5, <3>1 DEF Underway
  <2> QED
    BY <2>1, <2>4, <2>5, <2>6 DEF TypeOK
<1>5. ASSUME NEW t \in Threads, SkipSpace(t) PROVE TInv'
  <2> DEFINE x == [s[t].from EXCEPT !.used = @ + 1]
  <2>1. /\ pc[t] = "skip"
        /\ olds' = [olds EXCEPT ![Place(t)] = x]
        /\ mixed' \subseteq Threads
        /\ UNCHANGED <<lastError, lastErrorMsg, chan, s>>
    BY <1>5 DEF SkipSpace, Between, TypeOK
  <2>2. x \in Positions /\ x.thread \in Threads
    <3>1. s[t].from \in Positions /\ s[t].from.thread \in Threads
      BY <2>1 DEF Underway, TypeOK
    <3>2. \A y \in Positions : /\ [y EXCEPT !.used = @ + 1] \in Positions
                              /\ [y EXCEPT !.used = @ + 1].thread = y.thread
      BY DEF Positions
    <3> QED
      BY <3>1, <3>2
  <2> HIDE DEF x
  <2>3. /\ olds' \in [Places -> Positions]
        /\ \A u \in Threads : olds'[Place(u)] = x \/ olds'[Place(u)] = olds[Place(u)]
    BY <2>1, <2>2, PlaceIn DEF TypeOK
  <2>4. ASSUME NEW u \in Threads PROVE Place(u)' = Place(u)
    BY DEF Place
  <2>5. CASE s[t].token = NoToken
    <3>1. crashed' = TRUE /\ UNCHANGED <<pc, buf, res>>
      BY <1>5, <2>5 DEF SkipSpace
    <3>2. ASSUME NEW u \in Threads PROVE Underway(u)'
      BY <2>1, <2>2, <2>3, <2>4, <3>1 DEF Underway
    <3> QED
      BY <2>1, <2>3, <3>1, <3>2 DEF TypeOK
  <2>6. CASE s[t].token # NoToken
    <3>1. /\ res' = [res EXCEPT ![t] = Append(@, s[t].token)]
          /\ buf' = [buf EXCEPT ![t] = << >>]
          /\ pc' = [pc EXCEPT ![t] = "idle"]
          /\ UNCHANGED crashed
      BY <1>5, <2>6 DEF SkipSpace
    <3>2. s[t].token \in Elements
      BY DEF TypeOK, Elements
    <3>3. /\ Append(res[t], s[t].token) \in Seq(Elements)
          /\ Len(Append(res[t], s[t].token)) = 3
      <4>1. res[t] \in Seq(Elements) /\ Len(res[t]) = 2
        BY <2>1 DEF Underway
      <4>2. /\ Append(res[t], s[t].token) \in Seq(Elements)
            /\ Len(Append(res[t], s[t].token)) = 2 + 1
        BY <3>2, <4>1, AppendElement
      <4> QED
        BY <4>2
    <3>4. /\ res' \in [Threads -> Seq(Elements)]
          /\ \A u \in Threads : res'[u] = IF u = t THEN Append(res[t], s[t].token)
                                                   ELSE res[u]
      BY <3>1, <3>3
    <3>5. /\ buf' \in [Threads -> {<< >>} \cup {visaErrorMessage(st) : st \in ViStatus}]
          /\ \A u \in Threads : buf'[u] = IF u = t THEN << >> ELSE buf[u]
      BY <3>1 DEF TypeOK
    <3>6. /\ pc' \in [Threads -> {"idle", "first", "next", "skip"}]
          /\ \A u \in Threads : pc'[u] = IF u = t THEN "idle" ELSE pc[u]
      BY <3>1 DEF TypeOK
    <3>7. ASSUME NEW u \in Threads PROVE Underway(u)' /\ Len(res'[u]) \in 0 .. 3
      <4>1. CASE u = t
        <5>1. Len(res'[u]) = 3 /\ pc'[u] = "idle"
          BY <3>3, <3>4, <3>6, <4>1
        <5>2. Underway(u)'
          BY <5>1 DEF Underway
        <5> QED
          BY <5>1, <5>2
      <4>2. CASE u # t
        <5>1. res'[u] = res[u] /\ buf'[u] = buf[u] /\ pc'[u] = pc[u] /\ s'[u] = s[u]
          BY <2>1, <3>4, <3>5, <3>6, <4>2
        <5>2. Len(res[u]) \in 0 .. 3
          BY DEF TypeOK
        <5>3. Len(res'[u]) \in 0 .. 3
          BY <5>1, <5>2
        <5>4. Underway(u)'
          BY <2>2, <2>3, <2>4, <5>1 DEF Underway
        <5> QED
          BY <5>3, <5>4
      <4> QED
        BY <4>1, <4>2
    <3> QED
      BY <2>1, <2>3, <3>1, <3>4, <3>5, <3>6, <3>7 DEF TypeOK
  <2> QED
    BY <2>5, <2>6
<1>6. CASE UNCHANGED vars
  <2>1. ASSUME NEW u \in Threads PROVE Place(u)' = Place(u)
    BY DEF Place
  <2> QED
    BY <1>6, <2>1 DEF vars, TypeOK, Underway
<1> QED
  BY <1>1, <1>2, <1>3, <1>4, <1>5, <1>6 DEF Next

\* Even where all threads share strtok's place, and read one another's buffers,
\* visa::last-error reads within a buffer and returns at most three elements.
THEOREM TypeCorrect == Spec => []TypeOK
<1>1. TInv => TypeOK
  BY DEF TInv
<1> QED
  BY <1>1, InitTInv, NextTInv, PTL DEF Spec
================================================================================
