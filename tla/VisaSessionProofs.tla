--------------------------- MODULE VisaSessionProofs ---------------------------
(***************************************************************************)
(* The safety invariants of VisaSession, for any threads and any numbers   *)
(* of sessions: the types, that no session is orphaned, and that orderly   *)
(* scripts have channels that own their sessions and never meet Tcl's      *)
(* panic.  TypeOK and NoOrphans are inductive; ChannelsOwnSessions needs   *)
(* the session of a channel to be open, which tclvisa_open relies on when  *)
(* VISA gives out a number that is free.                                   *)
(***************************************************************************)
EXTENDS VisaSession, TLAPS

\* In an orderly history every channel stands for an open session of its own.
ChannelsOpen ==
  orderly => \A t \in Threads, n \in Numbers : <<t, n>> \in chans => IsOpen(n)

Inv ==
  /\ TypeOK
  /\ NoOrphans
  /\ ChannelsOpen
  /\ ChannelsOwnSessions
  /\ PanicOnlyIfDisorderly

Sessions == [by : Threads, rm : BOOLEAN, parent : Numbers \cup {VI_NULL}]

\* What a session opened with parent p, or without one, is.
LEMMA NewSession ==
  ASSUME NEW t \in Threads, NEW rm \in BOOLEAN, NEW p \in Numbers \cup {VI_NULL},
         rm \/ p # VI_NULL
  PROVE  LET new == [by |-> t, rm |-> rm, parent |-> p]
         IN  new \in Sessions /\ new # Closed
BY DEF Sessions, Closed, VI_NULL

-------------------------------------------------------------------------------
(* Opening *)

\* Opening a session with a number that is free, and its channel.
LEMMA OpenStep ==
  ASSUME Inv, NEW t \in Threads, NEW n \in Numbers, NEW rm \in BOOLEAN,
         NEW p \in Numbers \cup {VI_NULL}, rm \/ p # VI_NULL,
         ~ IsOpen(n),
         visa' = [visa EXCEPT ![n] = [by |-> t, rm |-> rm, parent |-> p]],
         createVisaChannel(t, n, rm),
         UNCHANGED <<exiting, failed, orderly>>
  PROVE  Inv'
<1> DEFINE new == [by |-> t, rm |-> rm, parent |-> p]
<1>1. new \in Sessions /\ new # Closed /\ new.by = t /\ new.rm = rm
  BY NewSession
<1>2. visa \in [Numbers -> {Closed} \cup Sessions]
  BY DEF Inv, TypeOK, Sessions
<1>3. visa'[n] = new /\ \A m \in Numbers \ {n} : visa'[m] = visa[m]
  BY <1>2
<1> HIDE DEF new
<1>4. IsOpen(n)' /\ \A m \in Numbers \ {n} : IsOpen(m)' <=> IsOpen(m)
  BY <1>1, <1>3 DEF IsOpen
<1>5. TypeOK'
  <2>1. visa' \in [Numbers -> {Closed} \cup Sessions]
    BY <1>1, <1>2 DEF new
  <2>2. chans' \subseteq Channels /\ rmChans' \subseteq chans'
    <3>1. chans \subseteq Channels /\ rmChans \subseteq chans /\ <<t, n>> \in Channels
      BY DEF Inv, TypeOK, Channels
    <3> QED
      BY <3>1 DEF createVisaChannel
  <2>3. panicked' \in BOOLEAN
    BY Zenon DEF Inv, TypeOK, createVisaChannel
  <2>4. failed' \subseteq {m \in Numbers : IsOpen(m)'}
    BY <1>4 DEF Inv, TypeOK
  <2> QED
    BY <2>1, <2>2, <2>3, <2>4 DEF Inv, TypeOK, Sessions, IsOpen
<1>6. CASE <<t, n>> \in chans
  <2>1. panicked' /\ chans' = chans /\ rmChans' = rmChans
    BY <1>6 DEF createVisaChannel
  <2>2. ~ orderly
    BY <1>6 DEF Inv, ChannelsOpen
  <2> QED
    BY <1>5, <2>1, <2>2
    DEF Inv, NoOrphans, ChannelsOpen, ChannelsOwnSessions, PanicOnlyIfDisorderly
<1>7. CASE <<t, n>> \notin chans
  <2>1. /\ chans' = chans \cup {<<t, n>>}
        /\ rmChans' = IF rm THEN rmChans \cup {<<t, n>>} ELSE rmChans
        /\ panicked' = panicked
    BY <1>7 DEF createVisaChannel
  <2>2. NoOrphans'
    <3> SUFFICES ASSUME ~ panicked, NEW m \in Numbers, IsOpen(m)'
                 PROVE  <<visa'[m].by, m>> \in chans' \/ m \in failed'
      BY <2>1 DEF NoOrphans, IsOpen
    <3>1. CASE m = n
      BY <3>1, <1>1, <1>3, <2>1
    <3>2. CASE m # n
      BY <3>2, <1>3, <1>4, <2>1 DEF Inv, NoOrphans
    <3> QED
      BY <3>1, <3>2
  <2>3. ASSUME orderly, NEW u \in Threads, NEW m \in Numbers, <<u, m>> \in chans'
        PROVE  /\ IsOpen(m)'
               /\ visa'[m].by = u
               /\ visa'[m].rm <=> <<u, m>> \in rmChans'
    <3>1. CASE <<u, m>> = <<t, n>>
      <4>1. <<t, n>> \notin rmChans
        BY <1>7 DEF Inv, TypeOK
      <4> QED
        BY <3>1, <4>1, <1>1, <1>3, <1>4, <2>1
    <3>2. CASE <<u, m>> # <<t, n>>
      <4>1. <<u, m>> \in chans
        BY <3>2, <2>1, <2>3
      <4>2. m # n
        BY <4>1, <2>3 DEF Inv, ChannelsOpen
      <4>3. <<u, m>> \in rmChans' <=> <<u, m>> \in rmChans
        BY <3>2, <2>1
      <4> QED
        BY <4>1, <4>2, <4>3, <2>3, <1>3, <1>4 DEF Inv, ChannelsOpen, ChannelsOwnSessions
    <3> QED
      BY <3>1, <3>2
  <2>4. ChannelsOpen' /\ ChannelsOwnSessions'
    BY <2>3 DEF ChannelsOpen, ChannelsOwnSessions, IsOpen
  <2>5. PanicOnlyIfDisorderly'
    BY <2>1 DEF Inv, PanicOnlyIfDisorderly
  <2> QED
    BY <1>5, <2>2, <2>4, <2>5 DEF Inv
<1> QED
  BY <1>6, <1>7

-------------------------------------------------------------------------------
(* Closing *)

\* closeProc, called by close or for an exiting thread.
LEMMA CloseStep ==
  ASSUME Inv, ~ panicked, NEW t \in Threads, NEW n \in Numbers, closeProc(t, n),
         UNCHANGED panicked, exiting' \subseteq Threads
  PROVE  Inv'
<1>1. /\ <<t, n>> \in chans
      /\ chans' = chans \ {<<t, n>>}
      /\ rmChans' = rmChans \ {<<t, n>>}
  BY DEF closeProc
<1>2. chans' \subseteq Channels /\ rmChans' \subseteq chans'
  BY <1>1 DEF Inv, TypeOK
<1>3. CASE /\ IsOpen(n)
           /\ viClose(ClosedWith(n))
           /\ failed' = failed \ ClosedWith(n)
           /\ orderly' = (orderly /\ \A c \in chans' : c[2] \notin ClosedWith(n))
  <2> DEFINE gone == ClosedWith(n)
  <2>1. \A m \in Numbers : visa'[m] = IF m \in gone THEN Closed ELSE visa[m]
    BY <1>3 DEF viClose
  <2>2. n \in gone
    BY DEF ClosedWith
  <2> HIDE DEF gone
  <2>3. \A m \in Numbers : IsOpen(m)' <=> m \notin gone /\ IsOpen(m)
    BY <2>1 DEF IsOpen
  <2>4. TypeOK'
    <3>1. visa' \in [Numbers -> {Closed} \cup Sessions]
      BY <1>3 DEF viClose, Inv, TypeOK, Sessions
    <3>2. failed' \subseteq {m \in Numbers : IsOpen(m)'}
      BY <1>3, <2>3 DEF gone, Inv, TypeOK
    <3>3. orderly' \in BOOLEAN
      BY <1>3 DEF Inv, TypeOK
    <3> QED
      BY <1>2, <3>1, <3>2, <3>3 DEF Inv, TypeOK, Sessions, IsOpen
  <2>5. NoOrphans'
    <3> SUFFICES ASSUME NEW m \in Numbers, IsOpen(m)'
                 PROVE  <<visa'[m].by, m>> \in chans' \/ m \in failed'
      BY DEF NoOrphans, IsOpen
    <3>1. m \notin gone /\ IsOpen(m) /\ visa'[m] = visa[m] /\ m # n
      BY <2>1, <2>2, <2>3
    <3>2. <<visa[m].by, m>> \in chans \/ m \in failed
      BY <3>1 DEF Inv, NoOrphans
    <3> QED
      BY <3>1, <3>2, <1>1, <1>3 DEF gone
  <2>6. ASSUME orderly', NEW u \in Threads, NEW m \in Numbers, <<u, m>> \in chans'
        PROVE  /\ IsOpen(m)'
               /\ visa'[m].by = u
               /\ visa'[m].rm <=> <<u, m>> \in rmChans'
    <3>1. orderly /\ m \notin gone
      <4>1. <<u, m>>[2] \notin gone
        BY <1>3, <2>6 DEF gone
      <4> QED
        BY <4>1, <1>3, <2>6
    <3>2. <<u, m>> \in chans /\ <<u, m>> # <<t, n>>
      BY <1>1, <2>6
    <3>3. <<u, m>> \in rmChans' <=> <<u, m>> \in rmChans
      BY <3>2, <1>1
    <3> QED
      BY <3>1, <3>2, <3>3, <2>1, <2>3 DEF Inv, ChannelsOpen, ChannelsOwnSessions
  <2>7. ChannelsOpen' /\ ChannelsOwnSessions'
    BY <2>6 DEF ChannelsOpen, ChannelsOwnSessions, IsOpen
  <2> QED
    BY <2>4, <2>5, <2>7 DEF Inv, PanicOnlyIfDisorderly
<1>4. CASE /\ UNCHANGED <<visa, orderly>>
           /\ \/ ~ IsOpen(n) /\ UNCHANGED failed
              \/ IsOpen(n) /\ failed' = failed \cup {n}
  <2>1. TypeOK'
    BY <1>2, <1>4 DEF Inv, TypeOK, IsOpen
  <2>2. NoOrphans'
    <3> SUFFICES ASSUME NEW m \in Numbers, IsOpen(m)
                 PROVE  <<visa[m].by, m>> \in chans' \/ m \in failed'
      BY <1>4 DEF NoOrphans, IsOpen
    <3>1. <<visa[m].by, m>> \in chans \/ m \in failed
      BY DEF Inv, NoOrphans
    <3>2. CASE m = n
      BY <3>2, <1>4
    <3>3. CASE m # n
      BY <3>1, <3>3, <1>1, <1>4
    <3> QED
      BY <3>2, <3>3
  <2>3. ASSUME orderly, NEW u \in Threads, NEW m \in Numbers, <<u, m>> \in chans'
        PROVE  /\ IsOpen(m)
               /\ visa[m].by = u
               /\ visa[m].rm <=> <<u, m>> \in rmChans'
    <3>1. <<u, m>> \in chans /\ <<u, m>> # <<t, n>>
      BY <1>1, <2>3
    <3>2. <<u, m>> \in rmChans' <=> <<u, m>> \in rmChans
      BY <3>1, <1>1
    <3> QED
      BY <3>1, <3>2, <2>3 DEF Inv, ChannelsOpen, ChannelsOwnSessions
  <2>4. ChannelsOpen' /\ ChannelsOwnSessions'
    BY <1>4, <2>3 DEF ChannelsOpen, ChannelsOwnSessions, IsOpen
  <2> QED
    BY <2>1, <2>2, <2>4 DEF Inv, PanicOnlyIfDisorderly
<1> QED
  BY <1>3, <1>4 DEF closeProc

-------------------------------------------------------------------------------
(* The invariant *)

LEMMA InitInv == Init => Inv
BY DEF Init, Inv, TypeOK, NoOrphans, ChannelsOpen, ChannelsOwnSessions,
       PanicOnlyIfDisorderly, IsOpen

LEMMA NextInv == Inv /\ [Next]_vars => Inv'
<1> SUFFICES ASSUME Inv, [Next]_vars PROVE Inv'
  OBVIOUS
<1>1. ASSUME NEW t \in Threads, tclvisa_open_default_rm(t) PROVE Inv'
  <2>1. PICK n \in Numbers :
          /\ ~ IsOpen(n)
          /\ visa' = [visa EXCEPT ![n] = [by |-> t, rm |-> TRUE, parent |-> VI_NULL]]
          /\ createVisaChannel(t, n, TRUE)
    BY <1>1 DEF tclvisa_open_default_rm
  <2> QED
    BY <1>1, <2>1, OpenStep DEF tclvisa_open_default_rm
<1>2. ASSUME NEW t \in Threads, tclvisa_open(t) PROVE Inv'
  <2>1. PICK p \in Numbers, n \in Numbers :
          /\ ~ IsOpen(n)
          /\ visa' = [visa EXCEPT ![n] = [by |-> t, rm |-> FALSE, parent |-> p]]
          /\ createVisaChannel(t, n, FALSE)
    BY <1>2 DEF tclvisa_open
  <2>2. p # VI_NULL
    BY NumbersAssumption DEF VI_NULL
  <2> QED
    BY <1>2, <2>1, <2>2, OpenStep DEF tclvisa_open
<1>3. ASSUME NEW t \in Threads, NEW n \in Numbers, Close(t, n) \/ ExitCloses(t, n)
      PROVE  Inv'
  <2>1. exiting' \subseteq Threads
    BY <1>3 DEF Close, ExitCloses, Inv, TypeOK
  <2> QED
    BY <1>3, <2>1, CloseStep DEF Close, ExitCloses, Running
<1>4. ASSUME NEW t \in Threads, Exit(t) \/ Start(t) PROVE Inv'
  BY <1>4 DEF Exit, Start, Inv, TypeOK, NoOrphans, ChannelsOpen, ChannelsOwnSessions,
              PanicOnlyIfDisorderly, IsOpen
<1>5. CASE UNCHANGED vars
  BY <1>5 DEF vars, Inv, TypeOK, NoOrphans, ChannelsOpen, ChannelsOwnSessions,
              PanicOnlyIfDisorderly, IsOpen
<1> QED
  BY <1>1, <1>2, <1>3, <1>4, <1>5 DEF Next

LEMMA Invariance == Spec => []Inv
BY InitInv, NextInv, PTL DEF Spec

\* Only registered channels carry the RM flag, and only open sessions count as
\* failed to be closed.
THEOREM TypeCorrect == Spec => []TypeOK
BY Invariance, PTL DEF Inv

\* In any order of opening, closing and exiting, every open session has a
\* channel of its thread, unless VISA has failed to close it.
THEOREM NoSessionOrphaned == Spec => []NoOrphans
BY Invariance, PTL DEF Inv

\* While instruments are closed before their RMs, channels and sessions pair up.
THEOREM ChannelsOwn == Spec => []ChannelsOwnSessions
BY Invariance, PTL DEF Inv

\* ...and Tcl never ends the process over a duplicate channel name.
THEOREM OrderlyNeverPanics == Spec => []PanicOnlyIfDisorderly
BY Invariance, PTL DEF Inv

-------------------------------------------------------------------------------
(* The end of a thread *)

ChannelsOf(t) == {n \in Numbers : <<t, n>> \in chans}

\* When the last channel of an exiting thread is closed, none of its sessions is
\* left but those that VISA failed to close: the channels are all that Tcl has
\* to go through.
THEOREM ExitLeavesNothing ==
  Spec => [](\A t \in exiting : ChannelsOf(t) = {} =>
               panicked \/ \A n \in Numbers : IsOpen(n) /\ visa[n].by = t => n \in failed)
<1> DEFINE A == \A t \in exiting : ChannelsOf(t) = {} =>
                  panicked \/ \A n \in Numbers : IsOpen(n) /\ visa[n].by = t => n \in failed
<1>1. NoOrphans => A
  BY DEF NoOrphans, ChannelsOf
<1> QED
  BY <1>1, NoSessionOrphaned, PTL

\* While a thread exits its channels only become fewer: each closeProc removes
\* one, refused by VISA or not, and nobody opens another, not even where numbers
\* are given out again.  This is what ExitClosesSessions needs beside fairness.
THEOREM ExitRunsOut ==
  Spec => [][\A t \in exiting :
               IF \E n \in Numbers : ExitCloses(t, n)
                 THEN \E n \in ChannelsOf(t) : ChannelsOf(t)' = ChannelsOf(t) \ {n}
                 ELSE UNCHANGED ChannelsOf(t)]_vars
<1> DEFINE A == \A t \in exiting :
                  IF \E n \in Numbers : ExitCloses(t, n)
                    THEN \E n \in ChannelsOf(t) : ChannelsOf(t)' = ChannelsOf(t) \ {n}
                    ELSE UNCHANGED ChannelsOf(t)
<1>1. ASSUME Next PROVE A
  <2> SUFFICES ASSUME NEW t \in exiting
               PROVE  IF \E n \in Numbers : ExitCloses(t, n)
                        THEN \E n \in ChannelsOf(t) : ChannelsOf(t)' = ChannelsOf(t) \ {n}
                        ELSE UNCHANGED ChannelsOf(t)
    OBVIOUS
  <2>1. ASSUME NEW n \in Numbers, ExitCloses(t, n)
        PROVE  n \in ChannelsOf(t) /\ ChannelsOf(t)' = ChannelsOf(t) \ {n}
    BY <2>1 DEF ExitCloses, closeProc, ChannelsOf
  <2>2. ASSUME ~ \E n \in Numbers : ExitCloses(t, n) PROVE UNCHANGED ChannelsOf(t)
    <3>1. PICK u \in Threads :
            \/ tclvisa_open_default_rm(u)
            \/ tclvisa_open(u)
            \/ \E n \in Numbers : Close(u, n) \/ ExitCloses(u, n)
            \/ Exit(u)
            \/ Start(u)
      BY <1>1 DEF Next
    <3>2. CASE Exit(u) \/ Start(u)
      BY <3>2 DEF Exit, Start, ChannelsOf
    <3>3. CASE tclvisa_open_default_rm(u) \/ tclvisa_open(u)
      <4>1. u # t /\ \E n \in Numbers, rm \in BOOLEAN : createVisaChannel(u, n, rm)
        BY <3>3 DEF tclvisa_open_default_rm, tclvisa_open, Running
      <4> QED
        BY <4>1 DEF createVisaChannel, ChannelsOf
    <3>4. CASE \E n \in Numbers : Close(u, n) \/ ExitCloses(u, n)
      <4>1. u # t
        BY <2>2, <3>4 DEF Close, Running
      <4>2. PICK n \in Numbers : chans' = chans \ {<<u, n>>}
        BY <3>4 DEF Close, ExitCloses, closeProc
      <4> QED
        BY <4>1, <4>2 DEF ChannelsOf
    <3> QED
      BY <3>1, <3>2, <3>3, <3>4
  <2> QED
    BY <2>1, <2>2
<1>2. [Next]_vars => [A]_vars
  BY <1>1
<1> QED
  BY <1>2, PTL DEF Spec
================================================================================
