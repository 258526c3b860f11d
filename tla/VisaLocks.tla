------------------------------- MODULE VisaLocks -------------------------------
(***************************************************************************)
(* visa::lock and visa::unlock (src/src/tclvisa/lock.c, unlock.c), the     *)
(* locks of VISA behind them, and what becomes of them when a channel is   *)
(* closed.  A thread runs one command at a time, and may have several      *)
(* sessions, on one port or on several; a lock belongs to a session, so    *)
(* that a thread can lock itself out.  SerialPort adds the commands that   *)
(* the locks are for.                                                      *)
(***************************************************************************)
EXTENDS Integers, Sequences, FiniteSets, VisaStatus

CONSTANTS
  Sessions,   \* the sessions there may be
  Layouts,    \* the sets of sessions that are open together
  Thread,     \* Thread[s] is the thread whose interpreter has session s
  PortOf,     \* PortOf[s] is the port session s is opened on, a number
  Full,       \* bound: the sessions that nest locks and use every option
  Lockers,    \* bound: those that use no option and take the default lock only
  LockArgs,   \* the arguments the others give to visa::lock after the session:
              \* ?lockType? ?timeout? ?requestedKey?
  MaxNest,    \* bound: the locks a session in Full holds at once
  Unclosable  \* bound: the sessions that VISA may fail to close

Types == {"exclusive", "shared"}
Waits == {"finite", "infinite"}

ASSUME LocksAssumption ==
  /\ IsFiniteSet(Sessions)
  /\ Layouts \subseteq SUBSET Sessions
  /\ DOMAIN Thread = Sessions
  /\ PortOf \in [Sessions -> Nat]
  /\ Full \cup Lockers \cup Unclosable \subseteq Sessions
  /\ LockArgs \subseteq {<< >>} \cup {<<t>> : t \in Types} \cup (Types \X Waits)
                          \cup (Types \X Waits \X {"K"})
  /\ MaxNest \in Nat \ {0}

Threads == {Thread[s] : s \in Sessions}
Ports   == {PortOf[s] : s \in Sessions}

VARIABLES
  sessions,   \* the layout at hand: the open sessions
  ex, sh,     \* VISA's exclusive and shared lock counts of each session
  key,        \* the access key of the shared lock of each port, if there is one
  orphaned,   \* the ports and kinds of the locks kept by sessions that VISA
              \* failed to close, and that have no channel any more
  erred,      \* the sessions whose VisaChannelData.lastError is an error
  op,         \* the command each session is in, and the VISA calls to come
  answer,     \* what a command that has just ended told its script
  told,       \* history: the locks the script believes a session to hold
  ordered     \* history: the threads that never asked for the lock of a port
              \* while they believed to hold that of the same or a later one

lockVars == <<sessions, ex, sh, key, orphaned, erred, op, answer, told, ordered>>

None == "none"
NoKey == "VI_NULL"
NoMode == [baud |-> 0, parity |-> None, data |-> 0, stop |-> 0]
NoAnswer == [by |-> None, cmd |-> None, code |-> None, value |-> NoMode]
Idle == [cmd |-> "idle", todo |-> << >>, got |-> << >>, status |-> SUCCESS]

\* A script's thread can begin a command on session s.
Ready(s) == \A t \in sessions : Thread[t] = Thread[s] => op[t] = Idle

Others(s) == {t \in sessions \ {s} : PortOf[t] = PortOf[s]}

\* The command of s is over: the status stored, if any, and what the script is
\* told: "ok", "error" from VISA, or "bad" for a refused argument.
Finish(s, stored, code, value) ==
  /\ op' = [op EXCEPT ![s] = Idle]
  /\ erred' = IF stored = None THEN erred
              ELSE IF IsError(stored) THEN erred \cup {s} ELSE erred \ {s}
  /\ answer' = [by |-> s, cmd |-> op[s].cmd, code |-> code, value |-> value]

Start(s, cmd, todo) ==
  /\ op' = [op EXCEPT ![s] = [cmd |-> cmd, todo |-> todo, got |-> << >>, status |-> SUCCESS]]
  /\ answer' = NoAnswer
  /\ UNCHANGED erred

-------------------------------------------------------------------------------
(* The locks of VISA *)

\* A lock on the port of s that is held by another session, open or lost.
ExclusiveElsewhere(s) ==
  (\E t \in Others(s) : ex[t] > 0) \/ <<PortOf[s], "exclusive">> \in orphaned

SharedElsewhere(s) ==
  (\E t \in Others(s) : sh[t] > 0) \/ <<PortOf[s], "shared">> \in orphaned

\* Sessions that may not write the attributes of their port.
LockedOut(s) == ExclusiveElsewhere(s) \/ (SharedElsewhere(s) /\ sh[s] = 0)

Granted(s, r) ==
  /\ ~ ExclusiveElsewhere(s)
  /\ SharedElsewhere(s) =>
       sh[s] > 0 \/ (r.type = "shared" /\ r.key = key[PortOf[s]])

\* A request VISA refuses at once: a shared lock on top of an exclusive one, or
\* with another key than the session's own.
Refused(s, r) ==
  r.type = "shared" /\ (ex[s] > 0 \/ (sh[s] > 0 /\ r.key \notin {NoKey, key[PortOf[s]]}))

\* The status viLock may end with, if it may end now; a nested lock is a success
\* with a positive status.
viLock(s, r) ==
  IF Refused(s, r)          THEN {CONN_LOST}
  ELSE IF Granted(s, r)     THEN {IF ex[s] + sh[s] > 0 THEN WARN ELSE SUCCESS}
  ELSE IF r.wait = "finite" THEN {TMO}
                            ELSE {}

-------------------------------------------------------------------------------
(* visa::lock *)

\* The timeout argument is lost and every lock waits forever.
LockRequest_Infinite(args) ==
  LET type == IF Len(args) > 0 THEN args[1] ELSE "exclusive"
  IN  [type |-> type,
       wait |-> "infinite",
       key  |-> IF Len(args) > 2 /\ type # "exclusive" THEN args[3] ELSE NoKey]

\* What tclvisa_lock passes on: the lock is exclusive and waits forever unless
\* the script says otherwise, and the key of an exclusive lock is dropped.
LockRequest(args) ==
  LET type == IF Len(args) > 0 THEN args[1] ELSE "exclusive"
  IN  [type |-> type,
       wait |-> IF Len(args) > 1 THEN args[2] ELSE "infinite",
       key  |-> IF Len(args) > 2 /\ type # "exclusive" THEN args[3] ELSE NoKey]

\* A timeout is passed over, as the I/O procedures do.
lockResult_SuppressesTmo(status) == status = TMO \/ ~ IsError(status)

lockResult(status) == ~ IsError(status)

tclvisa_lock(s) ==
  /\ Ready(s)
  /\ ex[s] + sh[s] < IF s \in Full THEN MaxNest ELSE 1
  /\ \E args \in IF s \in Lockers THEN {<< >>} ELSE LockArgs : Start(s, "lock", <<args>>)
  /\ ordered' = IF \E t \in sessions \ {s} : /\ Thread[t] = Thread[s]
                                             /\ told[t] # << >>
                                             /\ PortOf[t] >= PortOf[s]
                  THEN ordered \ {Thread[s]} ELSE ordered
  /\ UNCHANGED <<sessions, ex, sh, key, orphaned, told>>

LockEnded(s, r, status) ==
  LET ok == lockResult(status)
  IN  /\ Finish(s, status, IF ok THEN "ok" ELSE "error", NoMode)
      /\ told' = IF ok THEN [told EXCEPT ![s] = Append(@, r.type)] ELSE told

\* viLock returns to the waiting thread.
LockReturns(s) ==
  /\ op[s].cmd = "lock"
  /\ LET r == LockRequest(op[s].todo[1])
         p == PortOf[s] IN
       \E status \in viLock(s, r) :
         /\ IF IsError(status) THEN UNCHANGED <<ex, sh, key>>
            ELSE IF r.type = "exclusive"
              THEN /\ ex' = [ex EXCEPT ![s] = @ + 1]
                   /\ UNCHANGED <<sh, key>>
              ELSE /\ sh' = [sh EXCEPT ![s] = @ + 1]
                   /\ key' = [key EXCEPT ![p] =
                                IF sh[s] > 0 \/ SharedElsewhere(s) THEN @
                                ELSE IF r.key = NoKey THEN "generated" ELSE r.key]
                   /\ UNCHANGED ex
         /\ LockEnded(s, r, status)
  /\ UNCHANGED <<sessions, orphaned, ordered>>

\* ...or gives up for a reason of its own.
LockFails(s) ==
  /\ op[s].cmd = "lock"
  /\ LockEnded(s, LockRequest(op[s].todo[1]), CONN_LOST)
  /\ UNCHANGED <<sessions, ex, sh, key, orphaned, ordered>>

-------------------------------------------------------------------------------
(* visa::unlock and close *)

\* The key goes with the last shared lock.
DropLocks(s, e, h) ==
  /\ ex' = [ex EXCEPT ![s] = e]
  /\ sh' = [sh EXCEPT ![s] = h]
  /\ key' = IF h > 0 \/ SharedElsewhere(s) THEN key ELSE [key EXCEPT ![PortOf[s]] = NoKey]

\* The status is not looked at: the script is told that the lock is gone.
tclvisa_unlock_TellsOk(s) ==
  /\ Ready(s)
  /\ \/ ex[s] > 0 /\ DropLocks(s, ex[s] - 1, sh[s])
     \/ ex[s] = 0 /\ sh[s] > 0 /\ DropLocks(s, 0, sh[s] - 1)
     \/ UNCHANGED <<ex, sh, key>>
  /\ Finish(s, SUCCESS, "ok", NoMode)
  /\ told' = [told EXCEPT ![s] = IF @ = << >> THEN @ ELSE SubSeq(@, 1, Len(@) - 1)]
  /\ UNCHANGED <<sessions, orphaned, ordered>>

\* VISA undoes the last lock of the session, or refuses.
tclvisa_unlock(s) ==
  /\ Ready(s)
  /\ \/ /\ \/ ex[s] > 0 /\ DropLocks(s, ex[s] - 1, sh[s])
           \/ ex[s] = 0 /\ sh[s] > 0 /\ DropLocks(s, 0, sh[s] - 1)
        /\ Finish(s, SUCCESS, "ok", NoMode)
        /\ told' = [told EXCEPT ![s] = IF @ = << >> THEN @ ELSE SubSeq(@, 1, Len(@) - 1)]
     \/ /\ Finish(s, CONN_LOST, "error", NoMode)
        /\ UNCHANGED <<ex, sh, key, told>>
  /\ UNCHANGED <<sessions, orphaned, ordered>>

\* close $c, and another visa::open.  The locks of the session go with it; but
\* when viClose fails the channel goes all the same, and the session keeps them.
Reopen(s) ==
  /\ Ready(s)
  /\ \/ DropLocks(s, 0, 0) /\ UNCHANGED orphaned
     \/ /\ s \in Unclosable /\ ex[s] + sh[s] > 0
        /\ orphaned' = orphaned \cup {<<PortOf[s], type>> : type \in
                         (IF ex[s] > 0 THEN {"exclusive"} ELSE {})
                           \cup (IF sh[s] > 0 THEN {"shared"} ELSE {})}
        /\ ex' = [ex EXCEPT ![s] = 0]
        /\ sh' = [sh EXCEPT ![s] = 0]
        /\ UNCHANGED key
  /\ erred' = erred \ {s}
  /\ answer' = NoAnswer
  /\ told' = [told EXCEPT ![s] = << >>]
  /\ UNCHANGED <<sessions, op, ordered>>

-------------------------------------------------------------------------------

LocksInit ==
  /\ sessions \in Layouts
  /\ ex = [s \in Sessions |-> 0]
  /\ sh = [s \in Sessions |-> 0]
  /\ key = [p \in Ports |-> NoKey]
  /\ orphaned = {}
  /\ erred = {}
  /\ op = [s \in Sessions |-> Idle]
  /\ answer = NoAnswer
  /\ told = [s \in Sessions |-> << >>]
  /\ ordered = Threads

-------------------------------------------------------------------------------
(* Properties *)

LocksTypeOK ==
  /\ sessions \in Layouts
  /\ ex \in [Sessions -> 0 .. MaxNest]
  /\ sh \in [Sessions -> 0 .. MaxNest]
  /\ key \in [Ports -> {NoKey, "generated", "K"}]
  /\ orphaned \subseteq Ports \X Types
  /\ erred \subseteq sessions
  /\ \A s \in Sessions : op[s] = Idle <=> op[s].todo = << >>
  /\ told \in [Sessions -> UNION {[1 .. n -> Types] : n \in 0 .. MaxNest}]
  /\ ordered \subseteq Threads

\* The script has told visa::lock to wait without limit, and VISA goes on
\* waiting.
WaitsForever(s) ==
  /\ op[s].cmd = "lock"
  /\ LET args == op[s].todo[1] IN
       /\ Len(args) > 1 => args[2] = "infinite"
       /\ viLock(s, LockRequest(args)) = {}

\* The locks of session t are among those that keep s from what r asks for.
Blocks(t, s, r) ==
  \/ ex[t] > 0
  \/ sh[t] > 0 /\ sh[s] = 0 /\ ~ (r.type = "shared" /\ r.key = key[PortOf[s]])

\* Thread a waits for a lock that only thread b could undo.
WaitsFor(a, b) ==
  \E s \in sessions :
    /\ Thread[s] = a
    /\ WaitsForever(s)
    /\ \E t \in Others(s) : Thread[t] = b /\ Blocks(t, s, LockRequest(op[s].todo[1]))

\* Threads wait for one another, or one for itself, only when one of their
\* scripts has asked for locks out of order: as long as each believes to hold
\* no lock on the same or a later port, visa::lock never closes a circle
\* (lock.c:24 waits without limit unless it is told otherwise).
DeadlockOnlyOutOfOrder ==
  \A circle \in (SUBSET Threads) \ {{}} :
    (\A a \in circle : \E b \in circle : WaitsFor(a, b)) => ~ circle \subseteq ordered
================================================================================
