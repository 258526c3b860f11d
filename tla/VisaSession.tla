------------------------------ MODULE VisaSession ------------------------------
(***************************************************************************)
(* The life of VISA sessions and of the Tcl channels that stand for them:  *)
(* visa::open-default-rm, visa::open (src/src/tclvisa/open_default_rm.c,   *)
(* open.c), close, and the end of a thread, when Tcl closes its channels   *)
(* in no particular order (src/src/tclvisa/visa_channel.c).                *)
(*                                                                         *)
(* VISA numbers sessions per process and may give a number out again once  *)
(* it is free.  A channel is named after its session's number and known to *)
(* the interpreter of one thread: <<t, n>> is the channel "visa_session n" *)
(* of thread t.  VISA closes the sessions opened with a resource manager   *)
(* session when that one is closed; the channels do not hear of it.        *)
(***************************************************************************)
EXTENDS Naturals, VisaStatus

CONSTANTS
  Threads,   \* threads, each with an interpreter
  Numbers    \* the numbers VISA gives to sessions

ASSUME NumbersAssumption == Numbers \subseteq Nat \ {0}

VI_NULL == 0

VARIABLES
  visa,      \* VISA's sessions: Closed, or who opened it, what, and with which RM
  chans,     \* the registered channels
  rmChans,   \* those with VisaChannelData.isRMSession set
  exiting,   \* the threads whose interpreter is being deleted
  panicked,  \* Tcl has ended the process: duplicate channel names
  failed,    \* history: the open sessions VISA has failed to close
  orderly    \* history: no session was closed while another channel stood for
             \* it, as happens when an RM is closed before its instruments

vars == <<visa, chans, rmChans, exiting, panicked, failed, orderly>>

Closed == [by |-> "nobody", rm |-> FALSE, parent |-> VI_NULL]

IsOpen(n) == visa[n] # Closed

-------------------------------------------------------------------------------
(* VISA *)

\* The sessions that go when session n is closed.
ClosedWith(n) ==
  {n} \cup {m \in Numbers : IsOpen(m) /\ ~ visa[m].rm /\ visa[m].parent = n}

viClose(gone) == visa' = [m \in Numbers |-> IF m \in gone THEN Closed ELSE visa[m]]

-------------------------------------------------------------------------------
(* createVisaChannel *)

\* Tcl_RegisterChannel does not survive a second channel of the same name.
createVisaChannel(t, n, isRM) ==
  IF <<t, n>> \in chans
    THEN /\ panicked' = TRUE
         /\ UNCHANGED <<chans, rmChans>>
    ELSE /\ chans' = chans \cup {<<t, n>>}
         /\ rmChans' = IF isRM THEN rmChans \cup {<<t, n>>} ELSE rmChans
         /\ UNCHANGED panicked

Running(t) == t \notin exiting /\ ~ panicked

-------------------------------------------------------------------------------
(* The commands *)

\* isRMSession is not set.
tclvisa_open_default_rm_NoFlag(t) ==
  /\ Running(t)
  /\ \E n \in Numbers :
       /\ ~ IsOpen(n)
       /\ visa' = [visa EXCEPT ![n] = [by |-> t, rm |-> TRUE, parent |-> VI_NULL]]
       /\ createVisaChannel(t, n, FALSE)
  /\ UNCHANGED <<exiting, failed, orderly>>

\* A call that VISA refuses changes nothing and is left out.
tclvisa_open_default_rm(t) ==
  /\ Running(t)
  /\ \E n \in Numbers :
       /\ ~ IsOpen(n)
       /\ visa' = [visa EXCEPT ![n] = [by |-> t, rm |-> TRUE, parent |-> VI_NULL]]
       /\ createVisaChannel(t, n, TRUE)
  /\ UNCHANGED <<exiting, failed, orderly>>

\* The channel is made for the RM's session instead of the new one.
tclvisa_open_WrongSession(t) ==
  /\ Running(t)
  /\ \E p, n \in Numbers :
       /\ <<t, p>> \in chans
       /\ visa[p].rm
       /\ ~ IsOpen(n)
       /\ visa' = [visa EXCEPT ![n] = [by |-> t, rm |-> FALSE, parent |-> p]]
       /\ createVisaChannel(t, p, FALSE)
  /\ UNCHANGED <<exiting, failed, orderly>>

\* The first argument is any VISA channel; it is VISA that tells an RM session
\* from others, by the number alone.
tclvisa_open(t) ==
  /\ Running(t)
  /\ \E p, n \in Numbers :
       /\ <<t, p>> \in chans
       /\ visa[p].rm
       /\ ~ IsOpen(n)
       /\ visa' = [visa EXCEPT ![n] = [by |-> t, rm |-> FALSE, parent |-> p]]
       /\ createVisaChannel(t, n, FALSE)
  /\ UNCHANGED <<exiting, failed, orderly>>

-------------------------------------------------------------------------------
(* closeProc *)

\* RM sessions are not closed: the test that guards viFlush guards viClose too.
closeProc_KeepsRM(t, n) ==
  /\ <<t, n>> \in chans
  /\ chans' = chans \ {<<t, n>>}
  /\ rmChans' = rmChans \ {<<t, n>>}
  /\ IF IsOpen(n) /\ <<t, n>> \notin rmChans
       THEN viClose(ClosedWith(n))
       ELSE UNCHANGED visa
  /\ UNCHANGED <<failed, orderly>>

\* A failed viFlush ends closeProc early.
closeProc_FlushFails(t, n) ==
  /\ <<t, n>> \in chans
  /\ chans' = chans \ {<<t, n>>}
  /\ rmChans' = rmChans \ {<<t, n>>}
  /\ \/ UNCHANGED visa
     \/ IsOpen(n) /\ viClose(ClosedWith(n))
  /\ UNCHANGED <<failed, orderly>>

\* The data of an RM channel stay as they are.
closeProc_KeepsData(t, n) ==
  /\ <<t, n>> \in chans
  /\ chans' = chans \ {<<t, n>>}
  /\ IF IsOpen(n) THEN viClose(ClosedWith(n)) ELSE UNCHANGED visa
  /\ UNCHANGED <<rmChans, failed, orderly>>

\* The channel goes whatever viClose says, and so does its data unless viClose
\* reports an error.  A session that is not open any more (its RM was closed
\* first) is an error, and VISA may fail to close an open one; viFlush is
\* called on an instrument session and its status ignored.
closeProc(t, n) ==
  /\ <<t, n>> \in chans
  /\ chans' = chans \ {<<t, n>>}
  /\ rmChans' = rmChans \ {<<t, n>>}
  /\ \/ /\ IsOpen(n)
        /\ viClose(ClosedWith(n))
        /\ failed' = failed \ ClosedWith(n)
        /\ orderly' = (orderly /\ \A c \in chans' : c[2] \notin ClosedWith(n))
     \/ /\ IsOpen(n)
        /\ failed' = failed \cup {n}
        /\ UNCHANGED <<visa, orderly>>
     \/ /\ ~ IsOpen(n)
        /\ UNCHANGED <<visa, failed, orderly>>

\* close $c
Close(t, n) ==
  /\ Running(t)
  /\ closeProc(t, n)
  /\ UNCHANGED <<exiting, panicked>>

-------------------------------------------------------------------------------
(* The end of a thread *)

Exit(t) ==
  /\ Running(t)
  /\ exiting' = exiting \cup {t}
  /\ UNCHANGED <<visa, chans, rmChans, panicked, failed, orderly>>

\* Tcl closes the channels of the interpreter in the order of a hash table.
ExitCloses(t, n) ==
  /\ t \in exiting /\ ~ panicked
  /\ closeProc(t, n)
  /\ UNCHANGED <<exiting, panicked>>

\* Another thread starts in its place.
Start(t) ==
  /\ t \in exiting /\ ~ panicked
  /\ \A n \in Numbers : <<t, n>> \notin chans
  /\ exiting' = exiting \ {t}
  /\ UNCHANGED <<visa, chans, rmChans, panicked, failed, orderly>>

-------------------------------------------------------------------------------

Init ==
  /\ visa = [n \in Numbers |-> Closed]
  /\ chans = {}
  /\ rmChans = {}
  /\ exiting = {}
  /\ panicked = FALSE
  /\ failed = {}
  /\ orderly = TRUE

Next ==
  \E t \in Threads :
    \/ tclvisa_open_default_rm(t)
    \/ tclvisa_open(t)
    \/ \E n \in Numbers : Close(t, n) \/ ExitCloses(t, n)
    \/ Exit(t)
    \/ Start(t)

\* Tcl goes on closing the channels of an interpreter it deletes.
Spec ==
  /\ Init /\ [][Next]_vars
  /\ \A t \in Threads : WF_vars(\E n \in Numbers : ExitCloses(t, n))

-------------------------------------------------------------------------------
(* Properties *)

Channels == Threads \X Numbers

\* Only registered channels carry the RM flag.
TypeOK ==
  /\ visa \in [Numbers -> {Closed} \cup
                 [by : Threads, rm : BOOLEAN, parent : Numbers \cup {VI_NULL}]]
  /\ chans \subseteq Channels
  /\ rmChans \subseteq chans
  /\ exiting \subseteq Threads
  /\ panicked \in BOOLEAN
  /\ failed \subseteq {n \in Numbers : IsOpen(n)}
  /\ orderly \in BOOLEAN

\* As long as instruments are closed before their RM, in every thread, each
\* channel stands for an open session that its own thread opened, and knows
\* whether it is an RM session, although VISA gives the numbers out again.
ChannelsOwnSessions ==
  orderly => \A t \in Threads, n \in Numbers :
    <<t, n>> \in chans => /\ visa[n].by = t
                          /\ visa[n].rm <=> <<t, n>> \in rmChans

\* ...and then Tcl never meets a second channel of the same name.
PanicOnlyIfDisorderly == panicked => ~ orderly

\* Every open session has a channel through which its thread can close it,
\* unless VISA has failed to close it, in any order of closing.
NoOrphans ==
  panicked \/ \A n \in Numbers : IsOpen(n) => <<visa[n].by, n>> \in chans \/ n \in failed

\* doc/tclvisa.tex:100: "Tcl automatically closes all opened channels when
\* interpeter terminates": the sessions of an exiting thread are closed, except
\* those VISA fails to close.
ExitClosesSessions ==
  \A t \in Threads :
    t \in exiting ~> panicked \/ \A n \in Numbers : visa[n].by = t => n \in failed
================================================================================
