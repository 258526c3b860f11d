----------------------------- MODULE SerialPortProofs -----------------------------
(***************************************************************************)
(* What visa::lock and -mode promise, for any number of sessions, threads  *)
(* and ports: no circle of threads that ask for locks in order, a port     *)
(* that only the holder of its exclusive lock changes, a last error that   *)
(* tells of each option, and a mode that is set as a whole under a lock.   *)
(***************************************************************************)
EXTENDS SerialPort, FiniteSetTheorems, WellFoundedInduction, TLAPS

-------------------------------------------------------------------------------
(* The invariant of the locks *)

\* The locks w that a script believes in are the h shared and then the e
\* exclusive ones that VISA has: a shared one on top of an exclusive one is
\* refused, and VISA undoes the exclusive ones first.
Tells(w, h, e) ==
  /\ h \in Nat /\ e \in Nat
  /\ w \in Seq(Types)
  /\ Len(w) = h + e
  /\ \A i \in 1 .. h + e : w[i] = IF i <= h THEN "shared" ELSE "exclusive"

Record(x) ==
  x = [cmd |-> x.cmd, todo |-> x.todo, got |-> x.got, status |-> x.status]

Shape ==
  /\ sessions \in Layouts
  /\ ex = [s \in Sessions |-> ex[s]]
  /\ sh = [s \in Sessions |-> sh[s]]
  /\ op = [s \in Sessions |-> op[s]] /\ \A s \in Sessions : Record(op[s])
  /\ told = [s \in Sessions |-> told[s]]

\* A thread is in one command at a time.
OneCommand ==
  \A s, t \in sessions :
    Thread[s] = Thread[t] /\ op[s].cmd # "idle" /\ op[t].cmd # "idle" => s = t

Commands ==
  \A s \in sessions :
    /\ op[s].cmd = "idle" <=> op[s] = Idle
    /\ op[s].cmd = "lock" => \E args \in {<< >>} \cup LockArgs : op[s].todo = <<args>>

\* An exclusive lock is alone, but for the shared ones beneath it.
NoConflict ==
  \A s, t \in sessions :
    s # t /\ PortOf[s] = PortOf[t] /\ ex[s] > 0
      => ex[t] = 0 /\ (sh[t] > 0 => sh[s] > 0)

\* A thread in order asks for the lock of a port later than those it holds.
InOrder ==
  \A s, t \in sessions :
    op[s].cmd = "lock" /\ Thread[s] \in ordered
      /\ s # t /\ Thread[t] = Thread[s] /\ told[t] # << >>
      => PortOf[t] < PortOf[s]

LocksInv ==
  /\ Shape
  /\ OneCommand
  /\ Commands
  /\ \A s \in sessions : Tells(told[s], sh[s], ex[s])
  /\ NoConflict
  /\ InOrder

-------------------------------------------------------------------------------
(* A circle of threads *)

\* Of finitely many sessions one has the latest port.
LEMMA Latest ==
  ASSUME NEW W, IsFiniteSet(W), W # {}, NEW f, \A s \in W : f[s] \in Nat
  PROVE  \E m \in W : \A s \in W : f[s] <= f[m]
<1> DEFINE Later(m) == {s \in W : f[s] > f[m]}
           All == {Later(m) : m \in W}
<1>1. IsWellFoundedOn(StrictSubsetOrdering(W), FiniteSubsetsOf(W))
  BY FS_StrictSubsetOrderingWellFounded
<1>2. All \subseteq FiniteSubsetsOf(W) /\ All # {}
  <2>1. \A m \in W : Later(m) \in SUBSET W /\ IsFiniteSet(Later(m))
    BY FS_Subset
  <2> HIDE DEF Later
  <2> QED
    BY <2>1 DEF FiniteSubsetsOf
<1>3. PICK A \in All : \A B \in All : <<B, A>> \notin StrictSubsetOrdering(W)
  <2> HIDE DEF All
  <2> QED
    BY <1>1, <1>2, WFMin
<1>4. PICK m \in W : A = Later(m)
  BY <1>3
<1>5. ASSUME NEW s \in W, ~ f[s] <= f[m] PROVE FALSE
  <2>1. s \in Later(m) /\ s \notin Later(s)
    BY <1>5
  <2>2. ASSUME NEW t \in Later(s) PROVE t \in Later(m)
    <3>1. PICK i \in Nat, j \in Nat, k \in Nat : i = f[m] /\ j = f[s] /\ k = f[t]
      OBVIOUS
    <3>2. ~ j <= i /\ k > j
      BY <1>5, <2>2, <3>1
    <3> QED
      BY <2>2, <3>1, <3>2
  <2>3. <<Later(s), Later(m)>> \in StrictSubsetOrdering(W)
    <3>1. Later(s) \subseteq Later(m)
      BY <2>2
    <3>2. Later(s) # Later(m) /\ Later(m) \subseteq W
      BY <2>1
    <3> HIDE DEF Later
    <3> QED
      BY <3>1, <3>2 DEF StrictSubsetOrdering
  <2> QED
    BY <1>3, <1>4, <2>3
<1> QED
  BY <1>5

\* Whoever waits is blocked by the lock of a session that waits in its turn, on
\* the same port if no port is later, so that the two are one.
LEMMA NoCircle ==
  ASSUME LocksInv PROVE DeadlockOnlyOutOfOrder
<1> SUFFICES ASSUME NEW circle \in (SUBSET Threads) \ {{}},
                    \A a \in circle : \E b \in circle : WaitsFor(a, b),
                    circle \subseteq ordered
             PROVE  FALSE
  BY DEF DeadlockOnlyOutOfOrder
<1> DEFINE W == {s \in sessions : Thread[s] \in circle /\ WaitsForever(s)}
           r(s) == LockRequest(op[s].todo[1])
<1>1. /\ sessions \subseteq Sessions /\ W \subseteq Sessions
      /\ \A s \in sessions : PortOf[s] \in Nat
      /\ \A s \in W : PortOf[s] \in Nat
  BY LocksAssumption DEF LocksInv, Shape
<1>2. IsFiniteSet(W) /\ W # {}
  <2>0. circle # {}
    OBVIOUS
  <2>1. PICK a \in circle : \E b \in circle : WaitsFor(a, b)
    BY <2>0
  <2>2. W # {}
    BY <2>1 DEF WaitsFor
  <2> QED
    BY <2>2, <1>1, LocksAssumption, FS_Subset
<1>3. PICK m \in W : \A s \in W : PortOf[s] <= PortOf[m]
  <2> HIDE DEF W
  <2> QED
    BY <1>1, <1>2, Latest
<1>4. ASSUME NEW s \in W, PortOf[s] = PortOf[m]
      PROVE  \E t \in W : /\ t # s /\ PortOf[t] = PortOf[m]
                          /\ Blocks(t, s, r(s))
  <2>1. PICK b \in circle : WaitsFor(Thread[s], b)
    OBVIOUS
  <2>2. PICK s0 \in sessions :
          /\ Thread[s0] = Thread[s] /\ WaitsForever(s0)
          /\ \E t \in Others(s0) : Thread[t] = b /\ Blocks(t, s0, r(s0))
    BY <2>1 DEF WaitsFor
  <2>3. s0 = s
    BY <2>2 DEF WaitsForever, LocksInv, OneCommand
  <2>4. PICK t \in sessions : /\ t # s /\ PortOf[t] = PortOf[s]
                              /\ Thread[t] = b /\ Blocks(t, s, r(s))
    BY <2>2, <2>3 DEF Others
  <2>5. told[t] # << >>
    <3>1. /\ Len(told[t]) = sh[t] + ex[t] /\ sh[t] \in Nat /\ ex[t] \in Nat
      BY <2>4 DEF LocksInv, Tells
    <3>2. ex[t] > 0 \/ sh[t] > 0
      BY <2>4 DEF Blocks
    <3> QED
      BY <3>1, <3>2
  <2>6. PICK t0 \in W : Thread[t0] = b
    BY DEF WaitsFor
  <2>7. t0 = t
    <3>1. PortOf[t0] <= PortOf[t] /\ PortOf[t0] \in Nat /\ PortOf[t] \in Nat
      BY <1>1, <1>3, <1>4, <2>4, <2>6
    <3>2. t0 # t => PortOf[t] < PortOf[t0]
      BY <2>4, <2>5, <2>6 DEF WaitsForever, LocksInv, InOrder
    <3> QED
      BY <3>1, <3>2
  <2> QED
    BY <1>4, <2>4, <2>6, <2>7
<1>5. PICK t \in W : t # m /\ PortOf[t] = PortOf[m] /\ Blocks(t, m, r(m))
  BY <1>4
<1>6. PICK u \in W : u # t /\ PortOf[u] = PortOf[m] /\ Blocks(u, t, r(t))
  BY <1>4, <1>5
<1>7. PICK v \in W : v # u /\ PortOf[v] = PortOf[m] /\ Blocks(v, u, r(u))
  BY <1>4, <1>6
<1>8. \A s \in W : ex[s] \in Nat /\ sh[s] \in Nat
  BY DEF LocksInv, Tells
<1>9. ex[t] = 0
  BY <1>5, <1>6, <1>8 DEF Blocks, LocksInv, NoConflict
<1>10. ex[u] > 0
  BY <1>5, <1>6, <1>8, <1>9 DEF Blocks
<1> QED
  BY <1>6, <1>7, <1>8, <1>10 DEF Blocks, LocksInv, NoConflict

-------------------------------------------------------------------------------
(* The invariant is kept *)

\* Session s can act: it begins a command, or is in one.
CanAct(s) == Ready(s) \/ op[s].cmd # "idle"

\* Session s can have h shared and e exclusive locks beside those of the others.
Compatible(s, h, e) ==
  \A t \in Others(s) : /\ e > 0 => ex[t] = 0 /\ (sh[t] > 0 => h > 0)
                       /\ ex[t] > 0 => e = 0 /\ (h > 0 => sh[t] > 0)

\* What is to be shown of an action of session s, whose locks become h shared
\* and e exclusive ones.
LEMMA Acts ==
  ASSUME LocksInv, NEW s \in sessions, NEW x, NEW w, NEW h \in Nat, NEW e \in Nat,
         CanAct(s), sessions' = sessions, ordered' = ordered,
         op'   = [op EXCEPT ![s] = x],
         told' = [told EXCEPT ![s] = w],
         sh'   = [sh EXCEPT ![s] = h],
         ex'   = [ex EXCEPT ![s] = e],
         Record(x), x = Idle \/ x.cmd \notin {"idle", "lock"},
         Tells(w, h, e),
         Compatible(s, h, e)
  PROVE  LocksInv'
<1>1. s \in Sessions /\ sessions \subseteq Sessions
  BY LocksAssumption DEF LocksInv, Shape
<1>2. /\ op'[s] = x /\ told'[s] = w /\ sh'[s] = h /\ ex'[s] = e
      /\ \A t \in Sessions \ {s} : /\ op'[t] = op[t] /\ told'[t] = told[t]
                                   /\ sh'[t] = sh[t] /\ ex'[t] = ex[t]
  BY <1>1 DEF LocksInv, Shape
<1>3. Shape'
  BY <1>1, <1>2 DEF LocksInv, Shape, Record
<1>4. \A t \in sessions : t # s /\ Thread[t] = Thread[s] => op[t].cmd = "idle"
  BY DEF CanAct, Ready, LocksInv, OneCommand, Idle
<1>5. OneCommand'
  BY <1>1, <1>2, <1>4 DEF LocksInv, OneCommand
<1>6. Commands'
  BY <1>1, <1>2 DEF LocksInv, Commands, Idle
<1>7. \A t \in sessions : Tells(told'[t], sh'[t], ex'[t])
  BY <1>1, <1>2 DEF LocksInv
<1>8. NoConflict'
  <2> SUFFICES ASSUME NEW a \in sessions, NEW t \in sessions,
                      a # t, PortOf[a] = PortOf[t], ex'[a] > 0
               PROVE  ex'[t] = 0 /\ (sh'[t] > 0 => sh'[a] > 0)
    BY DEF NoConflict
  <2>1. \A u \in sessions : ex[u] \in Nat /\ sh[u] \in Nat
    BY DEF LocksInv, Tells
  <2>2. CASE a = s
    <3>1. e > 0 /\ t \in Others(s)
      BY <1>1, <1>2, <2>2 DEF Others
    <3>2. ex'[t] = ex[t] /\ sh'[t] = sh[t] /\ sh'[a] = h
      BY <1>1, <1>2, <2>2
    <3>3. ex[t] = 0 /\ (sh[t] > 0 => h > 0)
      BY <3>1 DEF Compatible
    <3> QED
      BY <3>2, <3>3
  <2>3. CASE t = s
    <3>1. ex[a] > 0 /\ a \in Others(s)
      BY <1>1, <1>2, <2>3 DEF Others
    <3>2. ex'[t] = e /\ sh'[t] = h /\ sh'[a] = sh[a]
      BY <1>1, <1>2, <2>3
    <3>3. e = 0 /\ (h > 0 => sh[a] > 0)
      BY <3>1 DEF Compatible
    <3> QED
      BY <3>2, <3>3
  <2>4. CASE a # s /\ t # s
    BY <1>1, <1>2, <2>4 DEF LocksInv, NoConflict
  <2> QED
    BY <2>2, <2>3, <2>4
<1>9. InOrder'
  <2> SUFFICES ASSUME NEW a \in sessions, NEW t \in sessions,
                      op'[a].cmd = "lock", Thread[a] \in ordered,
                      a # t, Thread[t] = Thread[a], told'[t] # << >>
               PROVE  PortOf[t] < PortOf[a]
    BY DEF InOrder
  <2>1. a # s
    BY <1>1, <1>2 DEF Idle
  <2>2. op[a].cmd = "lock"
    BY <1>1, <1>2, <2>1
  <2>3. t # s
    BY <1>4, <2>1, <2>2
  <2> QED
    BY <1>1, <1>2, <2>2, <2>3 DEF LocksInv, InOrder
<1> QED
  BY <1>3, <1>5, <1>6, <1>7, <1>8, <1>9 DEF LocksInv

\* An action that changes no lock.
LEMMA ActsOnly ==
  ASSUME LocksInv, NEW s \in sessions, NEW x,
         CanAct(s), sessions' = sessions, ordered' = ordered,
         op' = [op EXCEPT ![s] = x], told' = told, sh' = sh, ex' = ex,
         Record(x), x = Idle \/ x.cmd \notin {"idle", "lock"}
  PROVE  LocksInv'
<1>1. s \in Sessions
  BY LocksAssumption DEF LocksInv, Shape
<1>2. /\ told' = [told EXCEPT ![s] = told[s]]
      /\ sh' = [sh EXCEPT ![s] = sh[s]]
      /\ ex' = [ex EXCEPT ![s] = ex[s]]
  BY <1>1 DEF LocksInv, Shape
<1>3. Tells(told[s], sh[s], ex[s])
  BY DEF LocksInv
<1>4. Compatible(s, sh[s], ex[s])
  BY DEF Compatible, LocksInv, NoConflict, Others
<1>5. sh[s] \in Nat /\ ex[s] \in Nat
  BY <1>3 DEF Tells
<1> QED
  BY <1>2, <1>3, <1>4, <1>5, Acts

LEMMA Begins ==
  ASSUME LocksInv, NEW s \in sessions, tclvisa_lock(s) PROVE LocksInv'
<1>1. s \in Sessions /\ sessions \subseteq Sessions
  BY LocksAssumption DEF LocksInv, Shape
<1>2. PICK args \in {<< >>} \cup LockArgs : Start(s, "lock", <<args>>)
  BY DEF tclvisa_lock
<1> DEFINE x == [cmd |-> "lock", todo |-> <<args>>, got |-> << >>, status |-> SUCCESS]
<1>3. /\ Ready(s) /\ sessions' = sessions /\ ex' = ex /\ sh' = sh /\ told' = told
      /\ op' = [op EXCEPT ![s] = x]
  BY <1>2 DEF tclvisa_lock, Start
<1>4. op'[s] = x /\ \A t \in Sessions \ {s} : op'[t] = op[t]
  BY <1>1, <1>3 DEF LocksInv, Shape
<1>5. Shape'
  BY <1>1, <1>3, <1>4 DEF LocksInv, Shape, Record
<1>6. \A t \in sessions : Thread[t] = Thread[s] => op[t].cmd = "idle"
  BY <1>3 DEF Ready, Idle
<1>7. OneCommand'
  BY <1>1, <1>3, <1>4, <1>6 DEF LocksInv, OneCommand
<1>8. Commands'
  BY <1>1, <1>3, <1>4 DEF LocksInv, Commands, Idle
<1>9. InOrder'
  <2> SUFFICES ASSUME NEW a \in sessions', NEW t \in sessions',
                      op'[a].cmd = "lock", Thread[a] \in ordered',
                      a # t, Thread[t] = Thread[a], told'[t] # << >>
               PROVE  PortOf[t] < PortOf[a]
    BY DEF InOrder
  <2>1. ordered' \subseteq ordered
    BY DEF tclvisa_lock
  <2>2. CASE a = s
    <3>1. ~ \E u \in sessions \ {s} : /\ Thread[u] = Thread[s] /\ told[u] # << >>
                                      /\ PortOf[u] >= PortOf[s]
      BY <2>2 DEF tclvisa_lock
    <3>2. PortOf[t] \in Nat /\ PortOf[s] \in Nat
      BY <1>1, <1>3, LocksAssumption
    <3> QED
      BY <1>3, <2>2, <3>1, <3>2
  <2>3. CASE a # s
    BY <1>1, <1>3, <1>4, <2>1, <2>3 DEF LocksInv, InOrder
  <2> QED
    BY <2>2, <2>3
<1> QED
  BY <1>1, <1>3, <1>5, <1>7, <1>8, <1>9 DEF LocksInv, NoConflict

LEMMA Statuses ==
  /\ ~ IsError(SUCCESS) /\ ~ IsError(WARN)
  /\ IsError(CONN_LOST) /\ IsError(TMO)
BY DEF IsError, SUCCESS, WARN, CONN_LOST, TMO

\* A request has a type, and a session told of a lock has got it.
LEMMA Requests ==
  ASSUME NEW args \in {<< >>} \cup LockArgs
  PROVE  LockRequest(args).type \in Types
<1>1. Len(args) > 0 => args[1] \in Types
  BY LocksAssumption
<1> QED
  BY <1>1 DEF LockRequest, Types

LEMMA Grants ==
  ASSUME NEW s, NEW r, NEW status \in viLock(s, r), ~ IsError(status)
  PROVE  Granted(s, r) /\ ~ Refused(s, r)
BY Statuses DEF viLock

LEMMA MoreTold ==
  ASSUME NEW w, NEW h, NEW e, Tells(w, h, e)
  PROVE  /\ Tells(Append(w, "exclusive"), h, e + 1)
         /\ e = 0 => Tells(Append(w, "shared"), h + 1, e)
         /\ e > 0 => Tells(SubSeq(w, 1, Len(w) - 1), h, e - 1)
         /\ e = 0 /\ h > 0 => Tells(SubSeq(w, 1, Len(w) - 1), h - 1, 0)
<1> USE DEF Tells, Types
<1>1. Tells(Append(w, "exclusive"), h, e + 1)
  OBVIOUS
<1>2. ASSUME e = 0 PROVE Tells(Append(w, "shared"), h + 1, e)
  BY <1>2
<1>3. ASSUME e > 0 PROVE Tells(SubSeq(w, 1, Len(w) - 1), h, e - 1)
  BY <1>3
<1>4. ASSUME e = 0, h > 0 PROVE Tells(SubSeq(w, 1, Len(w) - 1), h - 1, 0)
  BY <1>4
<1> QED
  BY <1>1, <1>2, <1>3, <1>4

\* A command ends.
LEMMA Ends ==
  ASSUME NEW s, NEW stored, NEW code, NEW value, Finish(s, stored, code, value)
  PROVE  op' = [op EXCEPT ![s] = Idle] /\ Record(Idle)
BY DEF Finish, Record, Idle

LEMMA Returns ==
  ASSUME LocksInv, NEW s \in sessions, LockReturns(s) PROVE LocksInv'
<1>1. s \in Sessions /\ sessions \subseteq Sessions
  BY LocksAssumption DEF LocksInv, Shape
<1>2. /\ op[s].cmd = "lock" /\ CanAct(s)
      /\ sessions' = sessions /\ ordered' = ordered
  BY DEF LockReturns, CanAct
<1>3. PICK args \in {<< >>} \cup LockArgs : op[s].todo = <<args>>
  BY <1>2 DEF LocksInv, Commands
<1> DEFINE r == LockRequest(args)
<1>4. PICK status \in viLock(s, r) :
        /\ IF IsError(status) THEN UNCHANGED <<ex, sh, key>>
           ELSE IF r.type = "exclusive"
             THEN ex' = [ex EXCEPT ![s] = @ + 1] /\ sh' = sh
             ELSE sh' = [sh EXCEPT ![s] = @ + 1] /\ ex' = ex
        /\ LockEnded(s, r, status)
  BY <1>3 DEF LockReturns
<1>5. /\ op' = [op EXCEPT ![s] = Idle] /\ Record(Idle)
      /\ told' = IF IsError(status) THEN told ELSE [told EXCEPT ![s] = Append(@, r.type)]
  BY <1>4, Ends DEF LockEnded, lockResult
<1>6. CASE IsError(status)
  BY <1>2, <1>4, <1>5, <1>6, ActsOnly
<1>7. CASE ~ IsError(status)
  <2>1. Granted(s, r) /\ ~ Refused(s, r) /\ r.type \in Types
    BY <1>7, Grants, Requests
  <2>2. Tells(told[s], sh[s], ex[s]) /\ ex[s] \in Nat /\ sh[s] \in Nat
    BY DEF LocksInv, Tells
  <2>3. \A t \in Others(s) : /\ t \in sessions /\ s # t /\ PortOf[s] = PortOf[t]
                             /\ ex[t] \in Nat /\ sh[t] \in Nat
    BY DEF Others, LocksInv, Tells
  <2>4. \A t \in Others(s) : ex[t] = 0
    BY <2>1, <2>3 DEF Granted, ExclusiveElsewhere
  <2>5. told' = [told EXCEPT ![s] = Append(told[s], r.type)]
    BY <1>1, <1>5, <1>7 DEF LocksInv, Shape
  <2>6. CASE r.type = "exclusive"
    <3>1. /\ ex' = [ex EXCEPT ![s] = ex[s] + 1] /\ sh' = [sh EXCEPT ![s] = sh[s]]
          /\ told' = [told EXCEPT ![s] = Append(told[s], "exclusive")]
      BY <1>1, <1>4, <1>7, <2>5, <2>6 DEF LocksInv, Shape
    <3>2. Tells(Append(told[s], "exclusive"), sh[s], ex[s] + 1)
      BY <2>2, MoreTold
    <3>3. \A t \in Others(s) : sh[t] > 0 => sh[s] > 0
      BY <2>1, <2>6 DEF Granted, SharedElsewhere
    <3>4. ex[s] + 1 \in Nat /\ Compatible(s, sh[s], ex[s] + 1)
      BY <2>2, <2>3, <2>4, <3>3 DEF Compatible
    <3> QED
      BY <1>2, <1>5, <2>2, <3>1, <3>2, <3>4, Acts
  <2>7. CASE r.type = "shared"
    <3>1. /\ sh' = [sh EXCEPT ![s] = sh[s] + 1] /\ ex' = [ex EXCEPT ![s] = ex[s]]
          /\ told' = [told EXCEPT ![s] = Append(told[s], "shared")]
      BY <1>1, <1>4, <1>7, <2>5, <2>7 DEF LocksInv, Shape
    <3>2. ex[s] = 0
      BY <2>1, <2>2, <2>7 DEF Refused
    <3>3. Tells(Append(told[s], "shared"), sh[s] + 1, ex[s])
      BY <2>2, <3>2, MoreTold
    <3>4. sh[s] + 1 \in Nat /\ Compatible(s, sh[s] + 1, ex[s])
      BY <2>2, <2>3, <2>4, <3>2 DEF Compatible
    <3> QED
      BY <1>2, <1>5, <2>2, <3>1, <3>3, <3>4, Acts
  <2> QED
    BY <2>1, <2>6, <2>7 DEF Types
<1> QED
  BY <1>6, <1>7

LEMMA Unlocks ==
  ASSUME LocksInv, NEW s \in sessions, tclvisa_unlock(s) PROVE LocksInv'
<1>1. s \in Sessions /\ sessions \subseteq Sessions
  BY LocksAssumption DEF LocksInv, Shape
<1>2. CanAct(s) /\ sessions' = sessions /\ ordered' = ordered
  BY DEF tclvisa_unlock, CanAct
<1>3. op' = [op EXCEPT ![s] = Idle] /\ Record(Idle)
  BY Ends DEF tclvisa_unlock
<1>4. /\ Tells(told[s], sh[s], ex[s]) /\ ex[s] \in Nat /\ sh[s] \in Nat
      /\ Len(told[s]) = sh[s] + ex[s]
  BY DEF LocksInv, Tells
<1>5. /\ Compatible(s, sh[s], ex[s])
      /\ \A t \in Others(s) : ex[t] \in Nat /\ sh[t] \in Nat
  BY DEF Compatible, Others, LocksInv, Tells, NoConflict
<1> DEFINE w == SubSeq(told[s], 1, Len(told[s]) - 1)
           Told == told' = [told EXCEPT ![s] = IF @ = << >> THEN @ ELSE w]
<1>6. ASSUME sh[s] + ex[s] > 0, Told
      PROVE  told' = [told EXCEPT ![s] = w]
  <2>1. told[s] # << >>
    BY <1>4, <1>6
  <2> QED
    BY <1>1, <1>6, <2>1 DEF LocksInv, Shape
<1>7. CASE ex[s] > 0 /\ DropLocks(s, ex[s] - 1, sh[s]) /\ Told
  <2>1. told' = [told EXCEPT ![s] = w]
    BY <1>4, <1>6, <1>7
  <2>2. Tells(w, sh[s], ex[s] - 1)
    BY <1>4, <1>7, MoreTold
  <2>3. ex[s] - 1 \in Nat /\ Compatible(s, sh[s], ex[s] - 1)
    BY <1>4, <1>5, <1>7 DEF Compatible
  <2>4. ex' = [ex EXCEPT ![s] = ex[s] - 1] /\ sh' = [sh EXCEPT ![s] = sh[s]]
    BY <1>7 DEF DropLocks
  <2> HIDE DEF w
  <2> QED
    BY <1>2, <1>3, <1>4, <2>1, <2>2, <2>3, <2>4, Acts
<1>8. CASE ex[s] = 0 /\ sh[s] > 0 /\ DropLocks(s, 0, sh[s] - 1) /\ Told
  <2>0. sh[s] + ex[s] > 0
    BY <1>4, <1>8
  <2>1. told' = [told EXCEPT ![s] = w]
    BY <1>6, <1>8, <2>0
  <2>2. Tells(w, sh[s] - 1, 0)
    BY <1>4, <1>8, MoreTold
  <2>3. sh[s] - 1 \in Nat /\ Compatible(s, sh[s] - 1, 0)
    BY <1>4, <1>5, <1>8 DEF Compatible
  <2>4. ex' = [ex EXCEPT ![s] = 0] /\ sh' = [sh EXCEPT ![s] = sh[s] - 1]
    BY <1>8 DEF DropLocks
  <2> HIDE DEF w
  <2> QED
    BY <1>2, <1>3, <1>4, <2>1, <2>2, <2>3, <2>4, Acts
<1>9. CASE UNCHANGED <<ex, sh, key, told>>
  BY <1>2, <1>3, <1>9, ActsOnly
<1> QED
  BY <1>7, <1>8, <1>9 DEF tclvisa_unlock

LEMMA Reopens ==
  ASSUME LocksInv, NEW s \in sessions, Reopen(s) PROVE LocksInv'
<1>1. s \in Sessions /\ sessions \subseteq Sessions
  BY LocksAssumption DEF LocksInv, Shape
<1>2. CanAct(s) /\ op[s] = Idle /\ sessions' = sessions /\ ordered' = ordered
  BY DEF Reopen, CanAct, Ready
<1>3. op' = [op EXCEPT ![s] = Idle] /\ Record(Idle)
  BY <1>1, <1>2 DEF Reopen, LocksInv, Shape, Record, Idle
<1>4. /\ ex' = [ex EXCEPT ![s] = 0] /\ sh' = [sh EXCEPT ![s] = 0]
      /\ told' = [told EXCEPT ![s] = << >>]
  BY DEF Reopen, DropLocks
<1>5. Tells(<< >>, 0, 0)
  BY DEF Tells
<1>6. Compatible(s, 0, 0)
  BY DEF Compatible
<1> QED
  BY <1>2, <1>3, <1>4, <1>5, <1>6, Acts

\* A command on the port's options, whose steps leave the locks alone.
LEMMA Configures ==
  ASSUME LocksInv, NEW s \in sessions,
         \/ setOptionProc(s) \/ getOptionProc(s) \/ tclvisa_set_attribute(s)
         \/ SetNext(s) \/ GetNext(s)
  PROVE  LocksInv'
<1>1. s \in Sessions
  BY LocksAssumption DEF LocksInv, Shape
<1>2. /\ sessions' = sessions /\ ordered' = ordered
      /\ told' = told /\ sh' = sh /\ ex' = ex
  BY DEF setOptionProc, getOptionProc, tclvisa_set_attribute, SetNext, GetNext, Unlocked
<1>3. ASSUME NEW cmd \in Setting \cup DOMAIN Reads, NEW todo, Start(s, cmd, todo), CanAct(s)
      PROVE  LocksInv'
  <2> DEFINE x == [cmd |-> cmd, todo |-> todo, got |-> << >>, status |-> SUCCESS]
  <2>1. op' = [op EXCEPT ![s] = x]
    BY <1>3 DEF Start
  <2>2. Record(x) /\ x.cmd \notin {"idle", "lock"}
    BY DEF Setting, Reads, Record
  <2> HIDE DEF x
  <2> QED
    BY <1>2, <1>3, <2>1, <2>2, ActsOnly
<1>4. ASSUME NEW stored, NEW code, NEW value, Finish(s, stored, code, value), CanAct(s)
      PROVE  LocksInv'
  BY <1>2, <1>4, Ends, ActsOnly
<1>5. CASE setOptionProc(s)
  <2>1. CanAct(s)
    BY <1>5 DEF setOptionProc, CanAct
  <2>2. CASE setMode(s)
    BY <1>3, <1>4, <2>1, <2>2 DEF setMode, Setting
  <2>3. CASE setXchar(s) \/ setHandshake(s)
    BY <1>3, <2>1, <2>3 DEF setXchar, setHandshake, Setting
  <2>4. CASE setControl(s)
    BY <1>3, <2>1, <2>4 DEF setControl, Setting
  <2>5. CASE setRefused(s)
    BY <1>4, <2>1, <2>5 DEF setRefused
  <2> QED
    BY <1>5, <2>2, <2>3, <2>4, <2>5 DEF setOptionProc
<1>6. CASE getOptionProc(s)
  BY <1>3, <1>6 DEF getOptionProc, CanAct
<1>7. CASE tclvisa_set_attribute(s)
  BY <1>3, <1>7 DEF tclvisa_set_attribute, CanAct, Setting
<1>8. ASSUME NEW x, op' = [op EXCEPT ![s] = x], Record(x), x.cmd = op[s].cmd,
             op[s].cmd \in Setting \cup DOMAIN Reads
      PROVE  LocksInv'
  <2>1. x.cmd \notin {"idle", "lock"}
    BY <1>8 DEF Setting, Reads
  <2>2. CanAct(s)
    BY <1>8, <2>1 DEF CanAct
  <2> QED
    BY <1>2, <1>8, <2>1, <2>2, ActsOnly
<1>9. ASSUME op[s].cmd \in Setting \cup DOMAIN Reads PROVE CanAct(s)
  BY <1>9 DEF Setting, Reads, CanAct
<1>10. CASE SetNext(s)
  <2>1. \/ op' = [op EXCEPT ![s] = [cmd |-> op[s].cmd, todo |-> Tail(@.todo),
                                    got |-> << >>, status |-> SUCCESS]]
        \/ \E stored, code, value : Finish(s, stored, code, value)
    BY <1>10 DEF SetNext
  <2>2. CASE op' = [op EXCEPT ![s] = [cmd |-> op[s].cmd, todo |-> Tail(@.todo),
                                      got |-> << >>, status |-> SUCCESS]]
    <3> DEFINE x == [cmd |-> op[s].cmd, todo |-> Tail(op[s].todo),
                     got |-> << >>, status |-> SUCCESS]
    <3>1. op' = [op EXCEPT ![s] = x]
      BY <1>1, <2>2 DEF LocksInv, Shape
    <3>2. Record(x) /\ x.cmd = op[s].cmd
      BY DEF Record
    <3> HIDE DEF x
    <3> QED
      BY <1>8, <1>10, <3>1, <3>2 DEF SetNext
  <2> QED
    BY <1>4, <1>9, <1>10, <2>1, <2>2 DEF SetNext
<1>11. CASE GetNext(s)
  <2>1. \/ \E got, status :
             op' = [op EXCEPT ![s] = [cmd |-> op[s].cmd, todo |-> Tail(@.todo),
                                      got |-> got, status |-> status]]
        \/ \E stored, code, value : Finish(s, stored, code, value)
    BY <1>11 DEF GetNext
  <2>2. ASSUME NEW got, NEW status,
               op' = [op EXCEPT ![s] = [cmd |-> op[s].cmd, todo |-> Tail(@.todo),
                                        got |-> got, status |-> status]]
        PROVE  LocksInv'
    <3> DEFINE x == [cmd |-> op[s].cmd, todo |-> Tail(op[s].todo),
                     got |-> got, status |-> status]
    <3>1. op' = [op EXCEPT ![s] = x]
      BY <1>1, <2>2 DEF LocksInv, Shape
    <3>2. Record(x) /\ x.cmd = op[s].cmd
      BY DEF Record
    <3> HIDE DEF x
    <3> QED
      BY <1>8, <1>11, <3>1, <3>2 DEF GetNext
  <2> QED
    BY <1>4, <1>9, <1>11, <2>1, <2>2 DEF GetNext
<1> QED
  BY <1>5, <1>6, <1>7, <1>10, <1>11

LEMMA LocksStep ==
  ASSUME LocksInv, [Next]_vars PROVE LocksInv'
<1>1. ASSUME NEW s \in sessions, LockFails(s) PROVE LocksInv'
  <2>1. CanAct(s)
    BY <1>1 DEF LockFails, CanAct
  <2>2. IsError(CONN_LOST)
    BY Statuses
  <2> QED
    BY <1>1, <2>1, <2>2, Ends, ActsOnly DEF LockFails, LockEnded, lockResult
<1>2. CASE UNCHANGED vars
  <2>1. /\ sessions' = sessions /\ ex' = ex /\ sh' = sh /\ op' = op /\ told' = told
        /\ ordered' = ordered
    BY <1>2 DEF vars, lockVars
  <2> QED
    BY <2>1 DEF LocksInv, Shape, OneCommand, Commands, NoConflict, InOrder
<1> QED
  BY <1>1, <1>2, Begins, Returns, Unlocks, Reopens, Configures
     DEF Next, VisaReturns

LEMMA LocksInitially == Init => LocksInv
<1> SUFFICES ASSUME Init PROVE LocksInv
  OBVIOUS
<1>1. Shape
  BY DEF Init, LocksInit, Shape, Record, Idle
<1>2. sessions \subseteq Sessions
  BY <1>1, LocksAssumption DEF Shape
<1>3. \A s \in sessions : op[s] = Idle /\ ex[s] = 0 /\ sh[s] = 0 /\ told[s] = << >>
  BY <1>2 DEF Init, LocksInit
<1>4. Tells(<< >>, 0, 0)
  BY DEF Tells
<1> QED
  BY <1>1, <1>3, <1>4 DEF LocksInv, OneCommand, Commands, NoConflict, InOrder, Idle

\* However many threads share however many ports: as long as each asks for
\* their locks in order, visa::lock leads to no circle of threads that wait for
\* one another.
THEOREM NoDeadlockInOrder == Spec => []DeadlockOnlyOutOfOrder
<1>1. LocksInv /\ [Next]_vars => LocksInv'
  BY LocksStep
<1>2. LocksInv => DeadlockOnlyOutOfOrder
  BY NoCircle
<1> QED
  BY <1>1, <1>2, LocksInitially, PTL DEF Spec

-------------------------------------------------------------------------------
(* The holder of the exclusive lock *)

LEMMA Believes ==
  ASSUME LocksInv, NEW s \in sessions
  PROVE  BelievesLocked(s) => ex[s] > 0 /\ \A t \in Others(s) : LockedOut(t)
<1>1. Tells(told[s], sh[s], ex[s])
  BY DEF LocksInv
<1>2. ASSUME BelievesLocked(s) PROVE ex[s] > 0
  <2>1. PICK i \in DOMAIN told[s] : told[s][i] = "exclusive"
    BY <1>2 DEF BelievesLocked
  <2>2. i \in 1 .. sh[s] + ex[s]
    BY <1>1, <2>1 DEF Tells
  <2> QED
    BY <1>1, <2>1, <2>2 DEF Tells
<1>3. ASSUME ex[s] > 0, NEW t \in Others(s) PROVE LockedOut(t)
  BY <1>3 DEF Others, LockedOut, ExclusiveElsewhere
<1> QED
  BY <1>2, <1>3

\* A VISA call changes the command of its session alone.
LEMMA Moves ==
  ASSUME LocksInv, NEW s \in sessions, SetNext(s) PROVE \E x : op' = [op EXCEPT ![s] = x]
<1>1. s \in Sessions
  BY LocksAssumption DEF LocksInv, Shape
<1>2. \/ op' = [op EXCEPT ![s] = [cmd |-> op[s].cmd, todo |-> Tail(op[s].todo),
                                 got |-> << >>, status |-> SUCCESS]]
      \/ op' = [op EXCEPT ![s] = Idle]
  BY <1>1 DEF SetNext, Finish, LocksInv, Shape
<1> QED
  BY <1>2

\* Only a VISA call of a session that is not locked out changes a port, that of
\* the session.
LEMMA Writes ==
  ASSUME NEW s \in sessions, NEW p \in Ports, port = [q \in Ports |-> port[q]],
         [Next]_vars, port'[p] # port[p]
  PROVE  \E u \in sessions : SetNext(u) /\ PortOf[u] = p /\ ~ LockedOut(u)
<1>1. port' # port
  OBVIOUS
<1>2. PICK u \in sessions : SetNext(u)
  BY <1>1 DEF Next, VisaReturns, LocksOnly, setOptionProc, getOptionProc,
              tclvisa_set_attribute, GetNext, vars
<1>3. PICK status \in viSetAttribute(u, op[u].todo[1][1]) :
        /\ status = SUCCESS
        /\ port' = [port EXCEPT ![PortOf[u]][op[u].todo[1][1]] = op[u].todo[1][2]]
  BY <1>1, <1>2 DEF SetNext
<1>4. PortOf[u] = p
  BY <1>3
<1>5. ~ LockedOut(u)
  BY <1>3, Statuses DEF viSetAttribute
<1> QED
  BY <1>2, <1>4, <1>5

\* The ports keep their shape.
PortsOnly == port = [p \in Ports |-> port[p]]

LEMMA PortsStep ==
  ASSUME PortsOnly, [Next]_vars PROVE PortsOnly'
<1>1. CASE port' = port
  BY <1>1 DEF PortsOnly
<1>2. CASE port' # port
  <2>1. PICK u \in sessions : SetNext(u)
    BY <1>2 DEF Next, VisaReturns, LocksOnly, setOptionProc, getOptionProc,
                tclvisa_set_attribute, GetNext, vars
  <2>2. port' = [port EXCEPT ![PortOf[u]][op[u].todo[1][1]] = op[u].todo[1][2]]
    BY <1>2, <2>1 DEF SetNext
  <2> QED
    BY <2>2 DEF PortsOnly
<1> QED
  BY <1>1, <1>2

\* Once visa::lock has told a script that it holds the exclusive lock, no other
\* session changes the port, however many there are and however deep the locks
\* are nested: what the script believes is what VISA has.
THEOREM HolderWrites == Spec => OnlyHolderWrites
<1> DEFINE A == \A s \in sessions :
                  BelievesLocked(s) /\ port'[PortOf[s]] # port[PortOf[s]] =>
                    \A t \in Others(s) : UNCHANGED op[t]
           Inv == LocksInv /\ PortsOnly
<1>1. Inv /\ [Next]_vars => Inv'
  BY LocksStep, PortsStep
<1>2. Init => Inv
  BY LocksInitially DEF Init, PortsOnly
<1>3. ASSUME Inv, [Next]_vars PROVE A
  <2> SUFFICES ASSUME NEW s \in sessions, BelievesLocked(s),
                      port'[PortOf[s]] # port[PortOf[s]], NEW t \in Others(s)
               PROVE  op'[t] = op[t]
    OBVIOUS
  <2>1. s \in Sessions /\ sessions \subseteq Sessions /\ PortOf[s] \in Ports
    BY <1>3, LocksAssumption DEF LocksInv, Shape, Ports
  <2>2. PICK u \in sessions : SetNext(u) /\ PortOf[u] = PortOf[s] /\ ~ LockedOut(u)
    BY <1>3, <2>1, Writes DEF PortsOnly
  <2>3. u = s
    BY <1>3, <2>2, Believes DEF Others
  <2>4. t # s /\ t \in Sessions
    BY <2>1 DEF Others
  <2>5. \E x : op' = [op EXCEPT ![s] = x]
    BY <1>3, <2>1, <2>2, <2>3, Moves
  <2> QED
    BY <1>3, <2>4, <2>5 DEF LocksInv, Shape
<1>4. Inv /\ [Next]_vars => [A]_vars
  BY <1>3
<1> QED
  BY <1>1, <1>2, <1>4, PTL DEF Spec, OnlyHolderWrites

-------------------------------------------------------------------------------
(* The last error *)

\* A reading command has read some of its attributes and has as many calls left
\* as remain, or fewer when some failed; its status tells whether some did.
Reading(x) ==
  /\ \E A : x.todo \in Seq(A) \ {<< >>}
  /\ \E A : x.got \in Seq(A)
  /\ Len(x.got) + Len(x.todo) <= Len(Reads[x.cmd]) /\ x.status # None
  /\ x.cmd # "ttystatus" =>
       (IsError(x.status) <=> Len(x.got) + Len(x.todo) < Len(Reads[x.cmd]))

Readings == \A s \in sessions : op[s].cmd \in DOMAIN Reads => Reading(op[s])

LEMMA ReadsFacts ==
  \A cmd \in DOMAIN Reads : (\E A : Reads[cmd] \in Seq(A)) /\ Len(Reads[cmd]) \in Nat \ {0}
<1> DEFINE Good(w) == (\E A : w \in Seq(A)) /\ Len(w) \in Nat \ {0}
<1>1. DOMAIN Reads = {"mode", "xchar", "ttystatus", "handshake", "queue"}
  BY DEF Reads
<1>2. Good(Reads["mode"])
  <2>1. Reads["mode"] = <<"BAUD", "PARITY", "DATA", "STOP">>
    BY DEF Reads
  <2>2. <<"BAUD", "PARITY", "DATA", "STOP">> \in Seq({"BAUD", "PARITY", "DATA", "STOP"})
    OBVIOUS
  <2>3. Reads["mode"] \in Seq({"BAUD", "PARITY", "DATA", "STOP"})
    BY <2>1, <2>2
  <2>4. Len(Reads["mode"]) = 4
    BY <2>1
  <2> HIDE DEF Reads
  <2> QED
    BY <2>3, <2>4
<1>3. Good(Reads["xchar"])
  <2>1. Reads["xchar"] = <<"XON", "XOFF">>
    BY DEF Reads
  <2>2. <<"XON", "XOFF">> \in Seq({"XON", "XOFF"})
    OBVIOUS
  <2>3. Reads["xchar"] \in Seq({"XON", "XOFF"})
    BY <2>1, <2>2
  <2>4. Len(Reads["xchar"]) = 2
    BY <2>1
  <2> HIDE DEF Reads
  <2> QED
    BY <2>3, <2>4
<1>4. Good(Reads["ttystatus"])
  <2>1. Reads["ttystatus"] = <<"CTS", "DSR", "RI", "DCD">>
    BY DEF Reads
  <2>2. <<"CTS", "DSR", "RI", "DCD">> \in Seq({"CTS", "DSR", "RI", "DCD"})
    OBVIOUS
  <2>3. Reads["ttystatus"] \in Seq({"CTS", "DSR", "RI", "DCD"})
    BY <2>1, <2>2
  <2>4. Len(Reads["ttystatus"]) = 4
    BY <2>1
  <2> HIDE DEF Reads
  <2> QED
    BY <2>3, <2>4
<1>5. Good(Reads["handshake"])
  <2>1. Reads["handshake"] = <<"FLOW">>
    BY DEF Reads
  <2>2. <<"FLOW">> \in Seq({"FLOW"})
    OBVIOUS
  <2>3. Reads["handshake"] \in Seq({"FLOW"})
    BY <2>1, <2>2
  <2>4. Len(Reads["handshake"]) = 1
    BY <2>1
  <2> HIDE DEF Reads
  <2> QED
    BY <2>3, <2>4
<1>6. Good(Reads["queue"])
  <2>1. Reads["queue"] = <<"AVAIL_NUM">>
    BY DEF Reads
  <2>2. <<"AVAIL_NUM">> \in Seq({"AVAIL_NUM"})
    OBVIOUS
  <2>3. Reads["queue"] \in Seq({"AVAIL_NUM"})
    BY <2>1, <2>2
  <2>4. Len(Reads["queue"]) = 1
    BY <2>1
  <2> HIDE DEF Reads
  <2> QED
    BY <2>3, <2>4
<1> HIDE DEF Good
<1>7. \A cmd \in DOMAIN Reads : Good(Reads[cmd])
  BY <1>1, <1>2, <1>3, <1>4, <1>5, <1>6
<1> QED
  BY <1>7 DEF Good

LEMMA Shrinks ==
  ASSUME NEW A, NEW g \in Seq(A), Len(g) > 1
  PROVE  Tail(g) \in Seq(A) \ {<< >>} /\ Len(Tail(g)) = Len(g) - 1
<1>1. g # << >>
  OBVIOUS
<1>2. Tail(g) \in Seq(A) /\ Len(Tail(g)) = Len(g) - 1
  BY <1>1
<1>3. Len(<< >>) = 0 /\ Len(Tail(g)) # 0
  BY <1>2
<1>4. Tail(g) # << >>
  BY <1>3
<1> QED
  BY <1>2, <1>4

LEMMA Grows ==
  ASSUME NEW A, NEW g \in Seq(A), NEW v
  PROVE  Append(g, v) \in Seq(A \cup {v}) /\ Len(Append(g, v)) = Len(g) + 1
<1>1. g \in Seq(A \cup {v})
  OBVIOUS
<1> QED
  BY <1>1

\* What the last error has to do with the answer of the command that has ended.
LEMMA Told ==
  ASSUME NEW s, NEW stored, NEW code, NEW value, Finish(s, stored, code, value),
         code = "error" => stored # None /\ IsError(stored),
         code = "ok" /\ op[s].cmd \notin {"ttystatus", "-ttycontrol"}
           => stored # None /\ ~ IsError(stored)
  PROVE  LastErrorExplains'
<1>1. answer'.by = s /\ answer'.code = code /\ answer'.cmd = op[s].cmd
  BY DEF Finish
<1>2. code = "error" => erred' = erred \cup {s}
  BY DEF Finish
<1>3. code = "ok" /\ op[s].cmd \notin {"ttystatus", "-ttycontrol"} => erred' = erred \ {s}
  BY DEF Finish
<1> QED
  BY <1>1, <1>2, <1>3 DEF LastErrorExplains

LEMMA Untold ==
  ASSUME answer' = NoAnswer PROVE LastErrorExplains'
BY DEF LastErrorExplains, NoAnswer, None

\* How a command goes on after a read that gave status read and value.
Continues(s, read, value) ==
  LET cmd    == op[s].cmd
      status == StoredRead(cmd, op[s].status, read)
      got    == IF IsError(read) THEN op[s].got ELSE Append(op[s].got, value)
      all    == Len(got) = Len(Reads[cmd])
  IN  IF Len(op[s].todo) > 1 /\ ~ (cmd = "mode" /\ IsError(read))
        THEN /\ op' = [op EXCEPT ![s] = [cmd |-> cmd, todo |-> Tail(@.todo),
                                        got |-> got, status |-> status]]
             /\ answer' = NoAnswer
        ELSE Finish(s, status, IF all \/ cmd = "ttystatus" THEN "ok" ELSE "error",
                    IF all /\ cmd = "mode" THEN getTtyAttributes(got) ELSE NoMode)

LEMMA GetContinues ==
  ASSUME NEW s, GetNext(s)
  PROVE  \E read \in {SUCCESS, CONN_LOST} : \E value : Continues(s, read, value)
BY DEF GetNext, Continues

\* The next read ends the command, with an error that the last error tells of,
\* or leaves it reading.
LEMMA ReadsOne ==
  ASSUME LocksInv, Readings, NEW s \in sessions, GetNext(s)
  PROVE  /\ LastErrorExplains'
         /\ \E x : op' = [op EXCEPT ![s] = x] /\ (x = Idle \/ Reading(x))
<1> DEFINE cmd == op[s].cmd
           n == Len(Reads[cmd])
<1>1. /\ s \in Sessions /\ op = [u \in Sessions |-> op[u]]
      /\ cmd \in DOMAIN Reads /\ n \in Nat \ {0} /\ Reading(op[s])
  BY LocksAssumption, ReadsFacts DEF GetNext, Readings, LocksInv, Shape
<1>2. PICK A, B : op[s].todo \in Seq(A) \ {<< >>} /\ op[s].got \in Seq(B)
  BY <1>1 DEF Reading
<1>3. PICK read \in {SUCCESS, CONN_LOST} : \E value : Continues(s, read, value)
  BY GetContinues
<1>3a. PICK value : Continues(s, read, value)
  BY <1>3
<1> DEFINE status == StoredRead(cmd, op[s].status, read)
           got    == IF IsError(read) THEN op[s].got ELSE Append(op[s].got, value)
           all    == Len(got) = n
<1>4. PICK k \in Nat, l \in Nat \ {0} : k = Len(op[s].got) /\ l = Len(op[s].todo)
  BY <1>2
<1>5. k + l <= n /\ (cmd # "ttystatus" => (IsError(op[s].status) <=> k + l < n))
  BY <1>1, <1>4 DEF Reading
<1>6. /\ IsError(read) => got = op[s].got /\ Len(got) = k
      /\ ~ IsError(read) => Len(got) = k + 1
      /\ \E C : got \in Seq(C)
  BY <1>2, <1>4, Grows
<1>7. cmd # "ttystatus" => (IsError(status) <=> IsError(op[s].status) \/ IsError(read))
  BY DEF StoredRead
<1>8. status # None
  BY <1>1 DEF Reading, StoredRead, None, SUCCESS, CONN_LOST
<1> HIDE DEF n, got, status
<1>9. CASE l > 1 /\ ~ (cmd = "mode" /\ IsError(read))
  <2> DEFINE x == [cmd |-> cmd, todo |-> Tail(op[s].todo), got |-> got, status |-> status]
  <2>1. op' = [op EXCEPT ![s] = x] /\ answer' = NoAnswer
    BY <1>1, <1>3a, <1>4, <1>9 DEF Continues, got, status
  <2>2. Tail(op[s].todo) \in Seq(A) \ {<< >>} /\ Len(Tail(op[s].todo)) = l - 1
    BY <1>2, <1>4, <1>9, Shrinks
  <2>3. Reading(x)
    BY <1>1, <1>5, <1>6, <1>7, <1>8, <2>2 DEF Reading, n
  <2> HIDE DEF x
  <2> QED
    BY <2>1, <2>3, Untold
<1>10. CASE ~ (l > 1 /\ ~ (cmd = "mode" /\ IsError(read)))
  <2> DEFINE code == IF all \/ cmd = "ttystatus" THEN "ok" ELSE "error"
             told1 == IF all /\ cmd = "mode" THEN getTtyAttributes(got) ELSE NoMode
  <2>1. Finish(s, status, code, told1)
    BY <1>3a, <1>4, <1>10 DEF Continues, got, status, n
  <2>2. cmd # "ttystatus" => (IsError(status) <=> ~ all)
    BY <1>1, <1>5, <1>6, <1>7, <1>10
  <2>3. /\ code = "error" => IsError(status)
        /\ code = "ok" /\ cmd # "ttystatus" => ~ IsError(status)
    BY <2>2
  <2> HIDE DEF code, told1
  <2>4. LastErrorExplains'
    BY <1>8, <2>1, <2>3, Told
  <2> QED
    BY <2>1, <2>4, Ends
<1> QED
  BY <1>9, <1>10

\* What is to be shown of the command x that session s is in after a step.
LEMMA ReadingsKept ==
  ASSUME LocksInv, Readings, NEW s \in sessions, NEW x,
         sessions' = sessions, op' = [op EXCEPT ![s] = x],
         x.cmd \in DOMAIN Reads => Reading(x)
  PROVE  Readings'
<1>1. s \in Sessions /\ sessions \subseteq Sessions
  BY LocksAssumption DEF LocksInv, Shape
<1>2. op'[s] = x /\ \A t \in Sessions \ {s} : op'[t] = op[t]
  BY <1>1 DEF LocksInv, Shape
<1> HIDE DEF Reads
<1> QED
  BY <1>1, <1>2 DEF Readings, Reading

\* A command that does not read its port, or ends.
LEMMA Begun ==
  ASSUME LocksInv, Readings, NEW s \in sessions, sessions' = sessions,
         NEW cmd, NEW todo, Start(s, cmd, todo), cmd \notin DOMAIN Reads
  PROVE  Readings' /\ LastErrorExplains'
<1> DEFINE x == [cmd |-> cmd, todo |-> todo, got |-> << >>, status |-> SUCCESS]
<1>1. op' = [op EXCEPT ![s] = x] /\ answer' = NoAnswer /\ x.cmd \notin DOMAIN Reads
  BY DEF Start
<1> HIDE DEF x, Reads
<1> QED
  BY <1>1, ReadingsKept, Untold

LEMMA Over ==
  ASSUME LocksInv, Readings, NEW s \in sessions, sessions' = sessions,
         NEW stored, NEW code, NEW value, Finish(s, stored, code, value),
         code = "error" => stored # None /\ IsError(stored),
         code = "ok" /\ op[s].cmd \notin {"ttystatus", "-ttycontrol"}
           => stored # None /\ ~ IsError(stored)
  PROVE  Readings' /\ LastErrorExplains'
<1>1. op' = [op EXCEPT ![s] = Idle] /\ Idle.cmd \notin DOMAIN Reads
  BY Ends DEF Idle, Reads
<1> HIDE DEF Idle, Reads
<1>2. Readings'
  BY <1>1, ReadingsKept
<1> QED
  BY <1>2, Told

LEMMA LockTold ==
  ASSUME LocksInv, Readings, NEW s \in sessions, sessions' = sessions,
         NEW r, NEW status, status # None, LockEnded(s, r, status)
  PROVE  Readings' /\ LastErrorExplains'
<1>1. /\ Finish(s, status, IF IsError(status) THEN "error" ELSE "ok", NoMode)
  BY DEF LockEnded, lockResult
<1> QED
  BY <1>1, Over

LEMMA ErrorsStep ==
  ASSUME LocksInv, Readings, LastErrorExplains, [Next]_vars
  PROVE  Readings' /\ LastErrorExplains'
<1>1. None \notin {SUCCESS, WARN, CONN_LOST, TMO}
  BY DEF SUCCESS, WARN, CONN_LOST, TMO, None
<1>2. CASE UNCHANGED vars
  BY <1>2 DEF vars, lockVars, Readings, LastErrorExplains, Reading
<1>3. ASSUME NEW s \in sessions, tclvisa_lock(s) PROVE Readings' /\ LastErrorExplains'
  <2>1. sessions' = sessions /\ \E args : Start(s, "lock", <<args>>)
    BY <1>3 DEF tclvisa_lock
  <2>2. "lock" \notin DOMAIN Reads
    BY DEF Reads
  <2> QED
    BY <2>1, <2>2, Begun
<1>4. ASSUME NEW s \in sessions, LockFails(s) \/ LockReturns(s)
      PROVE  Readings' /\ LastErrorExplains'
  <2>1. sessions' = sessions /\ \E r : \E status \in viLock(s, r) \cup {CONN_LOST} :
                                         LockEnded(s, r, status)
    BY <1>4 DEF LockFails, LockReturns
  <2>2. \A r : None \notin viLock(s, r)
    BY <1>1 DEF viLock
  <2> QED
    BY <1>1, <2>1, <2>2, LockTold
<1>5. ASSUME NEW s \in sessions, tclvisa_unlock(s) PROVE Readings' /\ LastErrorExplains'
  BY <1>1, <1>5, Statuses, Over DEF tclvisa_unlock
<1>6. ASSUME NEW s \in sessions, Reopen(s) PROVE Readings' /\ LastErrorExplains'
  BY <1>6, Untold DEF Reopen, Readings, Reading
<1>7. ASSUME NEW s \in sessions, setOptionProc(s) \/ tclvisa_set_attribute(s)
      PROVE  Readings' /\ LastErrorExplains'
  <2>1. /\ sessions' = sessions
        /\ \/ \E cmd \in Setting : \E todo : Start(s, cmd, todo)
           \/ Finish(s, None, "bad", NoMode)
    BY <1>7 DEF setOptionProc, setMode, setXchar, setHandshake, setRefused, setControl,
                tclvisa_set_attribute, Setting, Unlocked
  <2>2. \A cmd \in Setting : cmd \notin DOMAIN Reads
    BY DEF Setting, Reads
  <2> QED
    BY <2>1, <2>2, Begun, Over
<1>8. ASSUME NEW s \in sessions, SetNext(s) PROVE Readings' /\ LastErrorExplains'
  <2>1. sessions' = sessions /\ op[s].cmd \notin DOMAIN Reads
    BY <1>8 DEF SetNext, Unlocked, Setting, Reads
  <2>2. s \in Sessions /\ op = [u \in Sessions |-> op[u]]
    BY LocksAssumption DEF LocksInv, Shape
  <2>3. \A status \in viSetAttribute(s, op[s].todo[1][1]) : status # None
    BY <1>1 DEF viSetAttribute
  <2>4. CASE op[s].todo[1] = Bad
    BY <1>8, <2>1, <2>4, Over DEF SetNext
  <2>5. CASE op[s].todo[1] # Bad
    <3>1. PICK status \in viSetAttribute(s, op[s].todo[1][1]) :
            IF IsError(status) THEN Finish(s, status, "error", NoMode)
            ELSE IF Len(op[s].todo) > 1
              THEN /\ op' = [op EXCEPT ![s] = [cmd |-> op[s].cmd, todo |-> Tail(@.todo),
                                               got |-> << >>, status |-> SUCCESS]]
                   /\ answer' = NoAnswer
            ELSE Finish(s, IF op[s].cmd = "-ttycontrol" THEN None ELSE status, "ok", NoMode)
      BY <1>8, <2>5 DEF SetNext
    <3>2. CASE IsError(status)
      BY <2>1, <2>3, <3>1, <3>2, Over
    <3>3. CASE ~ IsError(status) /\ Len(op[s].todo) > 1
      <4> DEFINE x == [cmd |-> op[s].cmd, todo |-> Tail(op[s].todo),
                       got |-> << >>, status |-> SUCCESS]
      <4>1. op' = [op EXCEPT ![s] = x] /\ answer' = NoAnswer /\ x.cmd \notin DOMAIN Reads
        BY <2>1, <2>2, <3>1, <3>3
      <4> HIDE DEF x, Reads
      <4> QED
        BY <2>1, <4>1, ReadingsKept, Untold
    <3>4. CASE ~ IsError(status) /\ ~ Len(op[s].todo) > 1
      BY <2>1, <2>3, <3>1, <3>4, Over
    <3> QED
      BY <3>2, <3>3, <3>4
  <2> QED
    BY <2>4, <2>5
<1>9. ASSUME NEW s \in sessions, getOptionProc(s) PROVE Readings' /\ LastErrorExplains'
  <2>1. PICK option \in DOMAIN Reads : Start(s, option, Reads[option])
    BY <1>9 DEF getOptionProc
  <2> DEFINE x == [cmd |-> option, todo |-> Reads[option], got |-> << >>, status |-> SUCCESS]
  <2>2. op' = [op EXCEPT ![s] = x] /\ answer' = NoAnswer /\ sessions' = sessions
    BY <1>9, <2>1 DEF Start, getOptionProc, Unlocked
  <2>3. (\E A : x.todo \in Seq(A)) /\ Len(x.todo) = Len(Reads[option]) /\ Len(x.todo) \in Nat \ {0}
    BY ReadsFacts
  <2>4. x.got \in Seq({}) /\ Len(x.got) = 0 /\ x.status # None /\ ~ IsError(x.status)
    BY <1>1, Statuses
  <2>5. Reading(x)
    <3>1. x.todo # << >>
      <4>1. Len(<< >>) = 0
        OBVIOUS
      <4> HIDE DEF x
      <4> QED
        BY <2>3, <4>1
    <3>2. x.cmd = option
      OBVIOUS
    <3> HIDE DEF x, Reads
    <3> QED
      BY <2>3, <2>4, <3>1, <3>2 DEF Reading
  <2> HIDE DEF x
  <2> QED
    BY <2>2, <2>5, ReadingsKept, Untold
<1>10. ASSUME NEW s \in sessions, GetNext(s) PROVE Readings' /\ LastErrorExplains'
  <2>1. sessions' = sessions
    BY <1>10 DEF GetNext, Unlocked
  <2>2. Idle.cmd \notin DOMAIN Reads
    BY DEF Idle, Reads
  <2> HIDE DEF Idle, Reads
  <2> QED
    BY <1>10, <2>1, <2>2, ReadsOne, ReadingsKept
<1> QED
  BY <1>2, <1>3, <1>4, <1>5, <1>6, <1>7, <1>8, <1>9, <1>10 DEF Next, VisaReturns

LEMMA ReadingsInitially == Init => Readings /\ LastErrorExplains
<1> SUFFICES ASSUME Init PROVE Readings /\ LastErrorExplains
  OBVIOUS
<1>1. \A s \in sessions : op[s].cmd = "idle"
  BY LocksAssumption DEF Init, LocksInit, Idle
<1>2. "idle" \notin DOMAIN Reads
  BY DEF Reads
<1>3. LastErrorExplains
  BY DEF Init, LocksInit, LastErrorExplains, NoAnswer, None
<1> QED
  BY <1>1, <1>2, <1>3 DEF Readings

\* visa::last-error tells an error exactly when the command has thrown one of
\* VISA's, however many sessions' calls come between those of the command.
THEOREM ErrorsTold == Spec => []LastErrorExplains
<1> DEFINE Inv == LocksInv /\ Readings /\ LastErrorExplains
<1>1. Inv /\ [Next]_vars => Inv'
  BY LocksStep, ErrorsStep
<1>2. Init => Inv
  BY LocksInitially, ReadingsInitially
<1> QED
  BY <1>1, <1>2, PTL DEF Spec

-------------------------------------------------------------------------------
(* The mode set under the exclusive lock *)

Attributes == {"BAUD", "PARITY", "DATA", "STOP"}

\* What -mode m sets the attributes to.
Wanted(m) ==
  [BAUD |-> m.baud, PARITY |-> Parities[m.parity], DATA |-> m.data,
   STOP |-> IF m.stop = 1 THEN "STOP_ONE" ELSE "STOP_TWO"]

PortShape ==
  /\ PortsOnly
  /\ \A p \in Ports : port[p] = [BAUD |-> port[p].BAUD, PARITY |-> port[p].PARITY,
                                 DATA |-> port[p].DATA, STOP |-> port[p].STOP]
  /\ asked = [s \in Sessions |-> asked[s]]

\* The VISA calls a setting command has left.  Only -mode and set-attribute set
\* what -mode reads.
CallsLeft(x, m) ==
  x.cmd \in Setting =>
    /\ \E A : x.todo \in Seq(A) \ {<< >>}
    /\ x.cmd = "set-attribute" => m = {}
    /\ x.cmd \notin {"set-attribute", "-mode"} =>
         \A i \in 1 .. Len(x.todo) : x.todo[i][1] \notin Attributes

Calls == \A s \in sessions : CallsLeft(op[s], asked[s])

\* While asked[s] stands the script believes in its lock, and each attribute is
\* as it asked, or is going to be set so.
Agreed(s) ==
  /\ BelievesLocked(s)
  /\ IF op[s].cmd = "-mode"
       THEN LET todo == op[s].todo IN
            /\ \A i \in 1 .. Len(todo) :
                 /\ todo[i][1] \in Attributes
                 /\ \A pair \in asked[s] : pair[1] = todo[i][1] => pair[2] = todo[i][2]
            /\ \A pair \in asked[s] :
                 port[PortOf[s]][pair[1]] = pair[2] \/ \E i \in 1 .. Len(todo) : todo[i][1] = pair[1]
       ELSE \A pair \in asked[s] : port[PortOf[s]][pair[1]] = pair[2]

ModeInv ==
  /\ LocksInv
  /\ PortShape
  /\ Calls
  /\ \A s \in sessions : asked[s] # {} => Agreed(s)

LEMMA ModeWhole == ModeInv => LockedModeIsWhole
BY DEF LockedModeIsWhole, ModeInv, Agreed

\* A step of session s that leaves the ports and the locks others believe in
\* alone disturbs no other session.
LEMMA OthersAgree ==
  ASSUME ModeInv, NEW s \in sessions, NEW t \in sessions, t # s,
         op'[t] = op[t], told'[t] = told[t], asked'[t] = asked[t],
         port'[PortOf[t]] = port[PortOf[t]], asked'[t] # {}
  PROVE  Agreed(t)'
BY DEF ModeInv, Agreed, BelievesLocked

\* What is to be shown of a step of session s.
LEMMA ModeKept ==
  ASSUME ModeInv, LocksInv', PortShape', NEW s \in sessions, NEW x, NEW m,
         sessions' = sessions, op' = [op EXCEPT ![s] = x], asked' = [asked EXCEPT ![s] = m],
         \A t \in sessions \ {s} :
           /\ told'[t] = told[t]
           /\ asked[t] # {} => port'[PortOf[t]] = port[PortOf[t]],
         CallsLeft(x, m),
         m # {} => Agreed(s)'
  PROVE  ModeInv'
<1>1. s \in Sessions /\ sessions \subseteq Sessions
  BY LocksAssumption DEF ModeInv, LocksInv, Shape
<1>2. /\ op'[s] = x /\ asked'[s] = m
      /\ \A t \in sessions \ {s} : op'[t] = op[t] /\ asked'[t] = asked[t]
  BY <1>1 DEF ModeInv, PortShape, LocksInv, Shape
<1>3. Calls'
  BY <1>1, <1>2 DEF ModeInv, Calls, CallsLeft
<1>4. ASSUME NEW t \in sessions, asked'[t] # {} PROVE Agreed(t)'
  <2>1. CASE t = s
    BY <1>2, <1>4, <2>1
  <2>2. CASE t # s
    BY <1>2, <1>4, <2>2, OthersAgree
  <2> QED
    BY <2>1, <2>2
<1> QED
  BY <1>3, <1>4 DEF ModeInv

\* A step outside a setting command, after which the script still believes in
\* its lock, or has no mode to insist on.
LEMMA QuietStep ==
  ASSUME ModeInv, LocksInv', NEW s \in sessions, NEW x, NEW m,
         sessions' = sessions, port' = port,
         op' = [op EXCEPT ![s] = x], asked' = [asked EXCEPT ![s] = m],
         \A t \in sessions \ {s} : told'[t] = told[t],
         x.cmd \notin Setting,
         m # {} => m = asked[s] /\ BelievesLocked(s)' /\ op[s].cmd # "-mode"
  PROVE  ModeInv'
<1>1. s \in Sessions
  BY LocksAssumption DEF ModeInv, LocksInv, Shape
<1>2. op'[s] = x /\ asked'[s] = m
  BY <1>1 DEF ModeInv, PortShape, LocksInv, Shape
<1>3. PortShape'
  BY <1>1 DEF ModeInv, PortShape, PortsOnly
<1>4. CallsLeft(x, m)
  BY DEF CallsLeft
<1>5. ASSUME m # {} PROVE Agreed(s)'
  <2>1. /\ Agreed(s) /\ asked'[s] = asked[s] /\ BelievesLocked(s)'
        /\ op[s].cmd # "-mode"
    BY <1>2, <1>5 DEF ModeInv
  <2>2. op'[s].cmd # "-mode"
    BY <1>2 DEF Setting
  <2> QED
    BY <2>1, <2>2 DEF Agreed
<1> QED
  BY <1>3, <1>4, <1>5, ModeKept

LEMMA Starts ==
  ASSUME NEW s, NEW cmd, NEW todo, Start(s, cmd, todo)
  PROVE  \E x : op' = [op EXCEPT ![s] = x] /\ x.cmd = cmd /\ x.todo = todo
<1> DEFINE x == [cmd |-> cmd, todo |-> todo, got |-> << >>, status |-> SUCCESS]
<1>1. op' = [op EXCEPT ![s] = x] /\ x.cmd = cmd /\ x.todo = todo
  BY DEF Start
<1> HIDE DEF x
<1> QED
  BY <1>1

LEMMA LockStep ==
  ASSUME ModeInv, LocksInv', NEW s \in sessions, LocksOnly(s),
         \/ tclvisa_lock(s) \/ LockFails(s) \/ LockReturns(s)
         \/ tclvisa_unlock(s) \/ Reopen(s)
  PROVE  ModeInv'
<1>1. s \in Sessions /\ sessions' = sessions /\ port' = port
  BY LocksAssumption DEF ModeInv, LocksInv, Shape, LocksOnly, tclvisa_lock, LockFails,
     LockReturns, tclvisa_unlock, Reopen
<1>2. \A t \in sessions \ {s} : told'[t] = told[t]
  BY LocksAssumption DEF ModeInv, LocksInv, Shape, tclvisa_lock, LockFails, LockReturns,
     tclvisa_unlock, Reopen, LockEnded
<1>3. \E x : op' = [op EXCEPT ![s] = x] /\ x.cmd \in {"idle", "lock"}
  <2>1. CASE tclvisa_lock(s)
    BY <2>1, Starts DEF tclvisa_lock
  <2>2. CASE LockFails(s) \/ LockReturns(s) \/ tclvisa_unlock(s)
    BY <2>2, Ends DEF LockFails, LockReturns, tclvisa_unlock, LockEnded, Idle
  <2>3. CASE Reopen(s)
    <3>1. op' = [op EXCEPT ![s] = op[s]] /\ op[s] = Idle
      BY <1>1, <2>3 DEF Reopen, Ready, ModeInv, LocksInv, Shape
    <3>2. Idle.cmd = "idle"
      BY DEF Idle
    <3> QED
      BY <3>1, <3>2
  <2> QED
    BY <2>1, <2>2, <2>3
<1>4. op[s].cmd # "-mode"
  BY DEF tclvisa_lock, LockFails, LockReturns, tclvisa_unlock, Reopen, Ready, Idle
<1>5. PICK x : op' = [op EXCEPT ![s] = x] /\ x.cmd \notin Setting
  BY <1>3 DEF Setting
<1>6. asked' = [asked EXCEPT ![s] = IF BelievesLocked(s)' THEN asked[s] ELSE {}]
  BY <1>1 DEF LocksOnly, ModeInv, PortShape
<1> QED
  BY <1>1, <1>2, <1>4, <1>5, <1>6, QuietStep

LEMMA ReadStep ==
  ASSUME ModeInv, LocksInv', NEW s \in sessions, getOptionProc(s) \/ GetNext(s)
  PROVE  ModeInv'
<1>1. /\ s \in Sessions /\ sessions' = sessions /\ port' = port /\ told' = told
      /\ asked' = [asked EXCEPT ![s] = asked[s]]
  BY LocksAssumption DEF ModeInv, LocksInv, Shape, PortShape, getOptionProc, GetNext, Unlocked
<1>2. op[s].cmd # "-mode"
  BY DEF getOptionProc, GetNext, Ready, Idle, Reads
<1>3. PICK x : op' = [op EXCEPT ![s] = x] /\ x.cmd \notin Setting
  <2>1. \A cmd \in DOMAIN Reads : cmd \notin Setting
    BY DEF Reads, Setting
  <2>2. Idle.cmd \notin Setting
    BY DEF Idle, Setting
  <2>3. CASE getOptionProc(s)
    BY <2>1, <2>3, Starts DEF getOptionProc
  <2>4. CASE GetNext(s)
    <3>1. \/ \E got, status :
               op' = [op EXCEPT ![s] = [cmd |-> op[s].cmd, todo |-> Tail(@.todo),
                                        got |-> got, status |-> status]]
          \/ op' = [op EXCEPT ![s] = Idle]
      BY <2>4 DEF GetNext, Finish
    <3>2. ASSUME NEW got, NEW status,
                 op' = [op EXCEPT ![s] = [cmd |-> op[s].cmd, todo |-> Tail(@.todo),
                                          got |-> got, status |-> status]]
          PROVE  \E x : op' = [op EXCEPT ![s] = x] /\ x.cmd \notin Setting
      <4> DEFINE x == [cmd |-> op[s].cmd, todo |-> Tail(op[s].todo),
                       got |-> got, status |-> status]
      <4>1. op' = [op EXCEPT ![s] = x] /\ x.cmd \notin Setting
        BY <1>1, <2>1, <2>4, <3>2 DEF ModeInv, LocksInv, Shape, GetNext
      <4> QED
        BY <4>1
    <3> QED
      BY <2>2, <3>1, <3>2
  <2> QED
    BY <2>3, <2>4
<1>4. asked[s] # {} => BelievesLocked(s)'
  BY <1>1 DEF ModeInv, Agreed, BelievesLocked
<1> QED
  BY <1>1, <1>2, <1>3, <1>4, QuietStep

LEMMA WantedOf ==
  ASSUME NEW m, TtyParseMode(m)
  PROVE  ModeOf(m) = {<<a, Wanted(m)[a]>> : a \in Attributes}
<1>1. m.stop = 1 \/ m.stop = 2
  BY DEF TtyParseMode
<1>2. CASE m.stop = 1
  BY <1>2 DEF ModeOf, Wanted, Attributes
<1>3. CASE m.stop = 2
  BY <1>3 DEF ModeOf, Wanted, Attributes
<1> QED
  BY <1>1, <1>2, <1>3

LEMMA CallsWanted ==
  ASSUME NEW m, TtyParseMode(m), NEW i \in 1 .. Len(setTtyAttributes(m))
  PROVE  \E a \in Attributes : setTtyAttributes(m)[i] = <<a, Wanted(m)[a]>>
<1> DEFINE w == Wanted(m)
           calls == <<<<"BAUD", w["BAUD"]>>, <<"PARITY", w["PARITY"]>>,
                      <<"DATA", w["DATA"]>>, <<"STOP", w["STOP"]>>>>
<1>1. toVisaParity(m.parity) = w["PARITY"] /\ toVisaStopBits(m.stop) = w["STOP"]
      /\ w["BAUD"] = m.baud /\ w["DATA"] = m.data
  BY DEF TtyParseMode, toVisaParity, toVisaStopBits, Wanted
<1>2. setTtyAttributes(m) = calls
  BY <1>1 DEF setTtyAttributes
<1> HIDE DEF w
<1>3. Len(calls) = 4 /\ \A j \in 1 .. 4 : \E a \in Attributes : calls[j] = <<a, w[a]>>
  BY DEF Attributes
<1> QED
  BY <1>2, <1>3 DEF w

\* What -mode passes to VISA is what it promises.
LEMMA ModeCalls ==
  ASSUME NEW m, TtyParseMode(m)
  PROVE  LET todo == setTtyAttributes(m) IN
         /\ \E A : todo \in Seq(A) \ {<< >>}
         /\ \A i \in 1 .. Len(todo) :
              /\ todo[i][1] \in Attributes
              /\ \A pair \in ModeOf(m) : pair[1] = todo[i][1] => pair[2] = todo[i][2]
         /\ \A pair \in ModeOf(m) : \E i \in 1 .. Len(todo) : todo[i][1] = pair[1]
<1> DEFINE w == Wanted(m)
           calls == <<<<"BAUD", w["BAUD"]>>, <<"PARITY", w["PARITY"]>>,
                      <<"DATA", w["DATA"]>>, <<"STOP", w["STOP"]>>>>
<1>1. toVisaParity(m.parity) = w["PARITY"] /\ toVisaStopBits(m.stop) = w["STOP"]
      /\ w["BAUD"] = m.baud /\ w["DATA"] = m.data
  BY DEF TtyParseMode, toVisaParity, toVisaStopBits, Wanted
<1>2. setTtyAttributes(m) = calls
  BY <1>1 DEF setTtyAttributes
<1> HIDE DEF w
<1>3. /\ calls \in Seq({calls[1], calls[2], calls[3], calls[4]}) /\ Len(calls) = 4
      /\ calls # << >>
  OBVIOUS
<1>4. \A i \in 1 .. 4 : \E a \in Attributes : calls[i] = <<a, w[a]>>
  BY DEF Attributes
<1>5. \A a \in Attributes : \E i \in 1 .. 4 : calls[i][1] = a
  <2>1. calls[1][1] = "BAUD" /\ calls[2][1] = "PARITY" /\ calls[3][1] = "DATA" /\ calls[4][1] = "STOP"
    OBVIOUS
  <2> HIDE DEF calls
  <2> QED
    BY <2>1 DEF Attributes
<1>6. ModeOf(m) = {<<a, w[a]>> : a \in Attributes}
  BY WantedOf DEF w
<1> HIDE DEF calls
<1>7. ASSUME NEW i \in 1 .. 4
      PROVE  /\ calls[i][1] \in Attributes
             /\ \A pair \in ModeOf(m) : pair[1] = calls[i][1] => pair[2] = calls[i][2]
  BY <1>4, <1>6
<1>8. \A pair \in ModeOf(m) : \E i \in 1 .. 4 : calls[i][1] = pair[1]
  BY <1>5, <1>6
<1> QED
  BY <1>2, <1>3, <1>7, <1>8

LEMMA SetStarts ==
  ASSUME ModeInv, LocksInv', NEW s \in sessions, setOptionProc(s) \/ tclvisa_set_attribute(s)
  PROVE  ModeInv'
<1>1. /\ s \in Sessions /\ sessions' = sessions /\ port' = port /\ told' = told /\ op[s] = Idle
      /\ asked = [asked EXCEPT ![s] = asked[s]]
  BY LocksAssumption DEF ModeInv, LocksInv, Shape, PortShape, setOptionProc,
     tclvisa_set_attribute, Ready, Unlocked
<1>11. \A y : asked' = [asked EXCEPT ![s] = y] => PortShape'
  BY <1>1 DEF ModeInv, PortShape, PortsOnly
<1>2. Idle.cmd = "idle"
  BY DEF Idle
<1>3. BelievesLocked(s)' <=> BelievesLocked(s)
  BY <1>1 DEF BelievesLocked
\* A command that leaves -mode's attributes and the mode asked for alone.
<1>4. ASSUME NEW cmd \in {"-xchar", "-handshake", "-ttycontrol"}, NEW todo, NEW A,
             Start(s, cmd, todo), asked' = asked, todo \in Seq(A) \ {<< >>},
             \A i \in 1 .. Len(todo) : todo[i][1] \notin Attributes
      PROVE  ModeInv'
  <2>1. PICK x : op' = [op EXCEPT ![s] = x] /\ x.cmd = cmd /\ x.todo = todo
    BY <1>4, Starts
  <2>2. CallsLeft(x, asked[s])
    BY <1>4, <2>1 DEF CallsLeft
  <2>3. ASSUME asked[s] # {} PROVE Agreed(s)'
    <3>1. op'[s].cmd # "-mode"
      BY <1>1, <1>4, <2>1 DEF ModeInv, LocksInv, Shape
    <3> QED
      BY <1>1, <1>2, <1>3, <1>4, <2>3, <3>1 DEF ModeInv, Agreed
  <2> QED
    BY <1>1, <1>11, <1>4, <2>1, <2>2, <2>3, ModeKept
<1>5. CASE setMode(s)
  <2>1. PICK m \in ModeArgs :
          IF TtyParseMode(m)
            THEN /\ Start(s, "-mode", setTtyAttributes(m))
                 /\ asked' = [asked EXCEPT ![s] = IF BelievesLocked(s) THEN ModeOf(m) ELSE {}]
            ELSE Finish(s, None, "bad", NoMode) /\ asked' = asked
    BY <1>5 DEF setMode
  <2>2. CASE ~ TtyParseMode(m)
    <3>1. op' = [op EXCEPT ![s] = Idle] /\ Idle.cmd \notin Setting
      BY <1>2, <2>1, <2>2, Ends DEF Setting
    <3>2. asked[s] # {} => BelievesLocked(s)'
      BY <1>3 DEF ModeInv, Agreed
    <3> QED
      BY <1>1, <1>2, <2>1, <2>2, <3>1, <3>2, QuietStep
  <2>3. CASE TtyParseMode(m)
    <3>1. PICK x : /\ op' = [op EXCEPT ![s] = x]
                   /\ x.cmd = "-mode" /\ x.todo = setTtyAttributes(m)
      BY <2>1, <2>3, Starts
    <3> DEFINE b == IF BelievesLocked(s) THEN ModeOf(m) ELSE {}
    <3>2. asked' = [asked EXCEPT ![s] = b]
      BY <2>1, <2>3
    <3>3. CallsLeft(x, b)
      BY <2>3, <3>1, ModeCalls DEF CallsLeft
    <3>4. ASSUME b # {} PROVE Agreed(s)'
      <4>1. asked'[s] = ModeOf(m) /\ BelievesLocked(s)' /\ op'[s] = x
        BY <1>1, <1>3, <3>1, <3>2, <3>4 DEF ModeInv, PortShape, LocksInv, Shape
      <4>2. op'[s].cmd = "-mode" /\ op'[s].todo = setTtyAttributes(m)
        BY <3>1, <4>1
      <4> HIDE DEF b
      <4> QED
        BY <2>3, <4>1, <4>2, ModeCalls DEF Agreed
    <3> HIDE DEF b
    <3> QED
      BY <1>1, <1>11, <3>1, <3>2, <3>3, <3>4, ModeKept
  <2> QED
    BY <2>2, <2>3
<1>6. CASE setXchar(s) /\ asked' = asked
  <2> DEFINE todo == <<<<"XON", "c">>, <<"XOFF", "c">>>>
  <2>1. Start(s, "-xchar", todo)
    BY <1>6 DEF setXchar
  <2>2. Len(todo) = 2 /\ todo[1][1] = "XON" /\ todo[2][1] = "XOFF" /\ todo # << >>
        /\ todo \in Seq({todo[1], todo[2]})
    OBVIOUS
  <2> HIDE DEF todo
  <2>3. \A i \in 1 .. Len(todo) : todo[i][1] \notin Attributes
    BY <2>2 DEF Attributes
  <2> QED
    BY <1>4, <1>6, <2>1, <2>2, <2>3
<1>7. CASE setHandshake(s) /\ asked' = asked
  <2> DEFINE todo == <<<<"FLOW", "flow">>>>
  <2>1. Start(s, "-handshake", todo)
    BY <1>7 DEF setHandshake
  <2>2. Len(todo) = 1 /\ todo[1][1] = "FLOW" /\ todo # << >> /\ todo \in Seq({todo[1]})
    OBVIOUS
  <2> HIDE DEF todo
  <2>3. \A i \in 1 .. Len(todo) : todo[i][1] \notin Attributes
    BY <2>2 DEF Attributes
  <2> QED
    BY <1>4, <1>7, <2>1, <2>2, <2>3
<1>8. CASE setControl(s) /\ asked' = asked
  <2>1. PICK list \in ControlArgs :
          Start(s, "-ttycontrol", [i \in DOMAIN list |-> IF list[i] \in {"DTR", "RTS", "BREAK"}
                                                          THEN <<list[i], "state">> ELSE Bad])
    BY <1>8 DEF setControl
  <2> DEFINE todo == [i \in DOMAIN list |-> IF list[i] \in {"DTR", "RTS", "BREAK"}
                                              THEN <<list[i], "state">> ELSE Bad]
             A == {todo[i] : i \in DOMAIN list}
  <2>2. list \in Seq(STRING) /\ list # << >>
    BY PortAssumption
  <2>3. Len(list) \in Nat /\ DOMAIN list = 1 .. Len(list) /\ Len(list) # 0
    BY <2>2
  <2>4. /\ todo \in [1 .. Len(list) -> A]
        /\ \A i \in 1 .. Len(list) : todo[i][1] \in {"DTR", "RTS", "BREAK", "bad"}
    BY <2>3 DEF Bad
  <2> HIDE DEF todo, A
  <2>5. todo \in Seq(A) /\ Len(todo) = Len(list)
    BY <2>3, <2>4
  <2>6. todo # << >>
    <3>1. Len(<< >>) = 0
      OBVIOUS
    <3> QED
      BY <2>3, <2>5, <3>1
  <2>7. \A i \in 1 .. Len(todo) : todo[i][1] \notin Attributes
    BY <2>4, <2>5 DEF Attributes
  <2> QED
    BY <1>4, <1>8, <2>1, <2>5, <2>6, <2>7 DEF todo
<1>9. CASE setRefused(s) /\ asked' = asked
  <2>1. op' = [op EXCEPT ![s] = Idle] /\ Idle.cmd \notin Setting
    BY <1>2, <1>9, Ends DEF Setting, setRefused
  <2>2. asked[s] # {} => BelievesLocked(s)'
    BY <1>3 DEF ModeInv, Agreed
  <2> QED
    BY <1>1, <1>2, <1>9, <2>1, <2>2, QuietStep
<1>10. CASE tclvisa_set_attribute(s)
  <2> DEFINE todo == <<<<"STOP", "STOP_ONE5">>>>
  <2>1. Start(s, "set-attribute", todo) /\ asked' = [asked EXCEPT ![s] = {}]
    BY <1>10 DEF tclvisa_set_attribute
  <2>2. todo # << >> /\ todo \in Seq({todo[1]})
    OBVIOUS
  <2> HIDE DEF todo
  <2>3. PICK x : op' = [op EXCEPT ![s] = x] /\ x.cmd = "set-attribute" /\ x.todo = todo
    BY <2>1, Starts
  <2>4. CallsLeft(x, {})
    BY <2>2, <2>3 DEF CallsLeft
  <2> QED
    BY <1>1, <1>11, <2>1, <2>3, <2>4, ModeKept
<1> QED
  BY <1>5, <1>6, <1>7, <1>8, <1>9, <1>10 DEF setOptionProc

\* A VISA call of a setting command sets an attribute, leaves the ports whose
\* mode another script relies on alone, and keeps to what its script asked for.
LEMMA SetStep ==
  ASSUME ModeInv, LocksInv', NEW s \in sessions, SetNext(s)
  PROVE  ModeInv'
<1> DEFINE p == PortOf[s]
           cmd == op[s].cmd
           todo == op[s].todo
           attr == todo[1][1]
<1>1. /\ s \in Sessions /\ p \in Ports /\ \A t \in sessions : PortOf[t] \in Ports
      /\ op = [u \in Sessions |-> op[u]] /\ sessions' = sessions /\ told' = told
      /\ asked = [u \in Sessions |-> asked[u]] /\ cmd \in Setting
      /\ CallsLeft(op[s], asked[s]) /\ (asked[s] # {} => Agreed(s))
  BY LocksAssumption
     DEF ModeInv, LocksInv, Shape, Ports, PortShape, Calls, SetNext, Unlocked
<1>2. PICK A : todo \in Seq(A) \ {<< >>}
  BY <1>1 DEF CallsLeft
<1>3. Len(todo) \in Nat \ {0}
  BY <1>2
<1>4. /\ BelievesLocked(s)' <=> BelievesLocked(s)
      /\ Idle.cmd \notin Setting
  BY <1>1 DEF BelievesLocked, Idle, Setting
<1>5. CASE todo[1] = Bad
  <2>1. Finish(s, None, "bad", NoMode) /\ port' = port /\ asked' = [asked EXCEPT ![s] = asked[s]]
    BY <1>1, <1>5 DEF SetNext
  <2>2. asked[s] # {} => cmd # "-mode"
    <3> SUFFICES ASSUME asked[s] # {}, cmd = "-mode" PROVE FALSE
      OBVIOUS
    <3>1. todo[1][1] \in Attributes
      BY <1>1, <1>3 DEF Agreed
    <3>2. todo[1][1] = "bad"
      BY <1>5 DEF Bad
    <3> QED
      BY <3>1, <3>2 DEF Attributes
  <2>3. asked[s] # {} => BelievesLocked(s)'
    BY <1>1, <1>4 DEF Agreed
  <2>4. op' = [op EXCEPT ![s] = Idle]
    BY <2>1, Ends
  <2> QED
    BY <1>1, <1>4, <2>1, <2>2, <2>3, <2>4, QuietStep
<1>6. CASE todo[1] # Bad
  <2>1. PICK status \in viSetAttribute(s, attr) :
          /\ port' = IF status = SUCCESS /\ attr \in DOMAIN port[p]
                       THEN [port EXCEPT ![p][attr] = todo[1][2]] ELSE port
          /\ asked' = IF cmd = "-mode" THEN [asked EXCEPT ![s] = Kept(@, attr, status)] ELSE asked
          /\ IF IsError(status) THEN Finish(s, status, "error", NoMode)
             ELSE IF Len(todo) > 1
               THEN op' = [op EXCEPT ![s] = [cmd |-> cmd, todo |-> Tail(@.todo),
                                             got |-> << >>, status |-> SUCCESS]]
             ELSE Finish(s, IF cmd = "-ttycontrol" THEN None ELSE status, "ok", NoMode)
    BY <1>6 DEF SetNext
  <2> DEFINE m == IF cmd = "-mode" THEN Kept(asked[s], attr, status) ELSE asked[s]
             x == IF ~ IsError(status) /\ Len(todo) > 1
                    THEN [cmd |-> cmd, todo |-> Tail(todo), got |-> << >>, status |-> SUCCESS]
                    ELSE Idle
  <2>2. op' = [op EXCEPT ![s] = x] /\ asked' = [asked EXCEPT ![s] = m]
    BY <1>1, <2>1, Ends
  <2>3. PortShape'
    <3>1. \A q \in Ports : DOMAIN port[q] = Attributes
      <4> SUFFICES ASSUME NEW q \in Ports PROVE DOMAIN port[q] = Attributes
        OBVIOUS
      <4>1. PICK a, b, c, d : port[q] = [BAUD |-> a, PARITY |-> b, DATA |-> c, STOP |-> d]
        BY DEF ModeInv, PortShape
      <4> QED
        BY <4>1 DEF Attributes
    <3>2. CASE port' = port
      BY <1>1, <2>2, <3>2 DEF ModeInv, PortShape, PortsOnly
    <3>3. CASE port' # port
      <4>1. attr \in Attributes /\ port' = [port EXCEPT ![p][attr] = todo[1][2]]
        BY <1>1, <2>1, <3>1, <3>3
      <4> DEFINE v == todo[1][2]
      <4> HIDE DEF attr, v
      <4>2. port' = [q \in Ports |-> port'[q]]
        BY <4>1 DEF ModeInv, PortShape, PortsOnly
      <4>3. port'[p] = [port[p] EXCEPT ![attr] = v] /\ \A q \in Ports \ {p} : port'[q] = port[q]
        BY <1>1, <4>1 DEF ModeInv, PortShape, PortsOnly, v
      <4>4. port[p] = [BAUD |-> port[p].BAUD, PARITY |-> port[p].PARITY,
                       DATA |-> port[p].DATA, STOP |-> port[p].STOP]
        BY <1>1 DEF ModeInv, PortShape
      <4>5. port'[p] = [BAUD |-> port'[p].BAUD, PARITY |-> port'[p].PARITY,
                        DATA |-> port'[p].DATA, STOP |-> port'[p].STOP]
        BY <4>1, <4>3, <4>4 DEF Attributes
      <4> QED
        BY <1>1, <2>2, <4>2, <4>3, <4>5 DEF ModeInv, PortShape, PortsOnly
    <3> QED
      BY <3>2, <3>3
  <2>4. ASSUME NEW t \in sessions \ {s}, asked[t] # {}
        PROVE  port'[PortOf[t]] = port[PortOf[t]]
    <3>1. CASE PortOf[t] = p
      <4>1. s \in Others(t) /\ BelievesLocked(t)
        BY <2>4, <3>1 DEF Others, ModeInv, Agreed
      <4>2. LockedOut(s)
        BY <4>1, Believes DEF ModeInv
      <4>3. status # SUCCESS
        BY <4>2, Statuses DEF viSetAttribute
      <4> QED
        BY <2>1, <4>3
    <3>2. CASE PortOf[t] # p
      BY <1>1, <2>1, <3>2 DEF ModeInv, PortShape, PortsOnly
    <3> QED
      BY <3>1, <3>2
  \* What becomes of the attributes while the mode asked for stands.
  <2>7. ASSUME m # {}
        PROVE  /\ Agreed(s) /\ m \subseteq asked[s] /\ asked'[s] = m /\ BelievesLocked(s)'
               /\ op'[s] = x
               /\ cmd = "-mode" =>
                    /\ ~ IsError(status)
                    /\ \A pair \in m :
                         port'[p][pair[1]] = IF pair[1] = attr THEN pair[2] ELSE port[p][pair[1]]
               /\ cmd # "-mode" => m = asked[s] /\ port' = port
    <3>1. /\ asked[s] # {} /\ m \subseteq asked[s] /\ Agreed(s)
          /\ cmd = "-mode" => /\ status \in {SUCCESS, WARN}
                              /\ \A pair \in m : pair[1] = attr => status = SUCCESS
          /\ cmd # "-mode" => m = asked[s]
      <4>1. \/ status = SUCCESS /\ Kept(asked[s], attr, status) = asked[s]
            \/ status = WARN /\ Kept(asked[s], attr, status) = {pair \in asked[s] : pair[1] # attr}
            \/ Kept(asked[s], attr, status) = {}
        BY DEF Kept, SUCCESS, WARN
      <4> QED
        BY <1>1, <2>7, <4>1
    <3>2. asked'[s] = m /\ BelievesLocked(s)' /\ op'[s] = x
      BY <1>1, <1>4, <2>2, <3>1 DEF Agreed
    <3>3. PICK k1, k2, k3, k4 : port[p] = [BAUD |-> k1, PARITY |-> k2, DATA |-> k3, STOP |-> k4]
      <4>1. ASSUME NEW q \in Ports
            PROVE  \E k1, k2, k3, k4 :
                     port[q] = [BAUD |-> k1, PARITY |-> k2, DATA |-> k3, STOP |-> k4]
        BY DEF ModeInv, PortShape
      <4> QED
        BY <1>1, <4>1
    <3>4. DOMAIN port[p] = Attributes
      BY <3>3 DEF Attributes
    <3>5. ASSUME cmd = "-mode"
          PROVE  /\ ~ IsError(status)
                 /\ \A pair \in m :
                      port'[p][pair[1]] = IF pair[1] = attr THEN pair[2] ELSE port[p][pair[1]]
      <4> DEFINE v == todo[1][2]
      <4>1. attr \in Attributes /\ \A pair \in asked[s] : pair[1] = attr => pair[2] = v
        BY <1>3, <3>1, <3>5 DEF Agreed
      <4>2. ~ IsError(status)
        BY <3>1, <3>5, Statuses
      <4>3. CASE status = SUCCESS
        <5>1. port' = [port EXCEPT ![p][attr] = v]
          BY <2>1, <3>4, <4>1, <4>3
        <5> HIDE DEF attr, v, m
        <5>2. port'[p] = [port[p] EXCEPT ![attr] = v]
          BY <1>1, <5>1 DEF ModeInv, PortShape, PortsOnly
        <5>3. port'[p][attr] = v /\ \A b : b # attr => port'[p][b] = port[p][b]
          BY <3>4, <4>1, <5>2
        <5> QED
          BY <3>1, <4>1, <4>2, <5>3
      <4>4. CASE status # SUCCESS
        <5>1. port' = port
          BY <2>1, <4>4
        <5> HIDE DEF attr, v, m
        <5> QED
          BY <3>1, <3>5, <4>2, <4>4, <5>1
      <4> QED
        BY <4>3, <4>4
    <3>6. ASSUME cmd # "-mode" PROVE port' = port
      <4>1. cmd # "set-attribute"
        BY <1>1, <3>1 DEF CallsLeft
      <4>2. attr \notin Attributes
        BY <1>1, <1>3, <3>6, <4>1 DEF CallsLeft
      <4> QED
        BY <2>1, <3>4, <4>2
    <3> QED
      BY <3>1, <3>2, <3>5, <3>6
  <2>5. CASE ~ IsError(status) /\ Len(todo) > 1
    <3>1. x.cmd = cmd /\ x.todo = Tail(todo)
      BY <2>5
    <3>2. Tail(todo) \in Seq(A) \ {<< >>} /\ Len(Tail(todo)) = Len(todo) - 1
      BY <1>2, <2>5, Shrinks
    <3>3. \A i \in 1 .. Len(todo) - 1 : Tail(todo)[i] = todo[i + 1]
      BY <1>2, <1>3
    <3>4. \A i \in 1 .. Len(todo) - 1 : i + 1 \in 1 .. Len(todo)
      BY <1>3
    <3>5. cmd = "set-attribute" => m = asked[s]
      OBVIOUS
    <3> HIDE DEF x, m
    <3>6. CallsLeft(x, m)
      <4> HIDE DEF cmd, todo
      <4>1. cmd = "set-attribute" => asked[s] = {}
        BY <1>1 DEF CallsLeft, cmd
      <4>2. cmd \notin {"set-attribute", "-mode"} => \A i \in 1 .. Len(todo) : todo[i][1] \notin Attributes
        BY <1>1 DEF CallsLeft, cmd, todo
      <4> QED
        BY <3>1, <3>2, <3>3, <3>4, <3>5, <4>1, <4>2 DEF CallsLeft
    <3>7. ASSUME m # {} PROVE Agreed(s)'
      <4>1. CASE cmd # "-mode"
        BY <2>7, <3>1, <3>7, <4>1 DEF Agreed
      <4>2. CASE cmd = "-mode"
        <5>1. \A i \in 1 .. Len(Tail(todo)) :
                /\ Tail(todo)[i][1] \in Attributes
                /\ \A pair \in m : pair[1] = Tail(todo)[i][1] => pair[2] = Tail(todo)[i][2]
          <6>1. \A i \in 1 .. Len(todo) :
                  /\ todo[i][1] \in Attributes
                  /\ \A pair \in m : pair[1] = todo[i][1] => pair[2] = todo[i][2]
            BY <2>7, <3>7, <4>2 DEF Agreed
          <6> QED
            BY <3>2, <3>3, <3>4, <6>1
        <5>2. ASSUME NEW pair \in m, port'[p][pair[1]] # pair[2]
              PROVE  \E i \in 1 .. Len(Tail(todo)) : Tail(todo)[i][1] = pair[1]
          <6> DEFINE b == pair[1]
          <6>1. b # attr /\ port[p][b] # pair[2] /\ pair \in asked[s]
            BY <2>7, <3>7, <4>2, <5>2
          <6>2. PICK i \in 1 .. Len(todo) : todo[i][1] = b
            BY <2>7, <3>7, <4>2, <6>1 DEF Agreed
          <6> HIDE DEF b
          <6>3. i # 1
            BY <6>1, <6>2
          <6>4. i - 1 \in 1 .. Len(todo) - 1 /\ (i - 1) + 1 = i
            BY <1>3, <6>3
          <6>5. Tail(todo)[i - 1] = todo[i]
            BY <3>3, <6>4
          <6> QED
            BY <3>2, <6>2, <6>4, <6>5 DEF b
        <5>3. op'[s].cmd = "-mode" /\ op'[s].todo = Tail(todo)
              /\ asked'[s] = m /\ BelievesLocked(s)'
          BY <2>7, <3>1, <3>7, <4>2 DEF Agreed
        <5>4. \A pair \in m :
                port'[p][pair[1]] = pair[2] \/ \E i \in 1 .. Len(Tail(todo)) : Tail(todo)[i][1] = pair[1]
          BY <5>2
        <5> DEFINE rest == Tail(todo)
        <5> HIDE DEF rest
        <5>5. /\ \A i \in 1 .. Len(rest) :
                   /\ rest[i][1] \in Attributes
                   /\ \A pair \in m : pair[1] = rest[i][1] => pair[2] = rest[i][2]
              /\ \A pair \in m :
                   port'[p][pair[1]] = pair[2] \/ \E i \in 1 .. Len(rest) : rest[i][1] = pair[1]
              /\ op'[s].todo = rest
          BY <5>1, <5>3, <5>4 DEF rest
        <5> HIDE DEF todo, cmd, p
        <5> QED
          BY <5>3, <5>5 DEF Agreed, p
      <4> QED
        BY <4>1, <4>2
    <3> QED
      BY <1>1, <2>2, <2>3, <2>4, <3>6, <3>7, ModeKept
  <2>6. CASE ~ (~ IsError(status) /\ Len(todo) > 1)
    <3>1. x = Idle
      BY <2>6
    <3> HIDE DEF x, m
    <3>2. CallsLeft(x, m)
      BY <1>4, <3>1 DEF CallsLeft
    <3>3. ASSUME m # {} PROVE Agreed(s)'
      <4>1. op'[s].cmd # "-mode"
        BY <2>7, <3>1, <3>3 DEF Idle
      <4>2. CASE cmd # "-mode"
        BY <2>7, <3>3, <4>1, <4>2 DEF Agreed
      <4>3. CASE cmd = "-mode"
        <5>1. Len(todo) = 1
          <6>2. ~ IsError(status)
            BY <2>7, <3>3, <4>3
          <6>3. PICK k \in Nat \ {0} : k = Len(todo)
            BY <1>3
          <6>4. ~ (k > 1)
            BY <2>6, <6>2, <6>3
          <6>5. k = 1
            BY <6>4
          <6> QED
            BY <6>3, <6>5
        <5>2. ASSUME NEW pair \in m PROVE port'[p][pair[1]] = pair[2]
          <6>1. CASE pair[1] = attr
            BY <2>7, <3>3, <4>3, <6>1
          <6>2. CASE pair[1] # attr
            <7>1. port[p][pair[1]] = pair[2] \/ \E i \in 1 .. 1 : todo[i][1] = pair[1]
              BY <2>7, <3>3, <4>3, <5>1 DEF Agreed
            <7> QED
              BY <2>7, <3>3, <4>3, <6>2, <7>1
          <6> QED
            BY <6>1, <6>2
        <5> QED
          BY <2>7, <3>3, <4>1, <5>2 DEF Agreed
      <4> QED
        BY <4>2, <4>3
    <3> QED
      BY <1>1, <2>2, <2>3, <2>4, <3>2, <3>3, ModeKept
  <2> QED
    BY <2>5, <2>6
<1> QED
  BY <1>5, <1>6

LEMMA ModeStep == ASSUME ModeInv, [Next]_vars PROVE ModeInv'
<1>1. LocksInv'
  BY LocksStep DEF ModeInv
<1>2. CASE UNCHANGED vars
  <2>1. Calls'
    BY <1>2 DEF vars, lockVars, ModeInv, Calls, CallsLeft
  <2> QED
    BY <1>1, <1>2, <2>1
       DEF vars, lockVars, ModeInv, PortShape, PortsOnly, Agreed, BelievesLocked
<1> QED
  BY <1>1, <1>2, LockStep, ReadStep, SetStarts, SetStep DEF Next, VisaReturns

LEMMA ModeInitially == Init => ModeInv
<1> SUFFICES ASSUME Init PROVE PortShape /\ Calls /\ \A s \in sessions : asked[s] = {}
  BY LocksInitially DEF ModeInv
<1>1. PortShape
  BY DEF Init, PortShape, PortsOnly
<1>2. sessions \subseteq Sessions
  BY LocksAssumption DEF Init, LocksInit
<1>3. \A s \in sessions : op[s].cmd = "idle" /\ asked[s] = {}
  BY <1>2 DEF Init, LocksInit, Idle
<1> QED
  BY <1>1, <1>3 DEF Calls, CallsLeft, Setting

\* After a -mode that raised no error under the exclusive lock, each attribute
\* that VISA has not warned about is what the script asked for, and stays so
\* whatever the other sessions' scripts try, calls they had begun before included.
THEOREM ModeIsWhole == Spec => []LockedModeIsWhole
<1>1. ModeInv /\ [Next]_vars => ModeInv'
  BY ModeStep
<1> QED
  BY <1>1, ModeInitially, ModeWhole, PTL DEF Spec

-------------------------------------------------------------------------------
(* The lock scripts believe in *)

\* One step of session s.
Does(s) ==
  \/ tclvisa_lock(s) /\ LocksOnly(s)
  \/ LockFails(s) /\ LocksOnly(s)
  \/ LockReturns(s) /\ LocksOnly(s)
  \/ tclvisa_unlock(s) /\ LocksOnly(s)
  \/ Reopen(s) /\ LocksOnly(s)
  \/ setOptionProc(s) \/ getOptionProc(s) \/ tclvisa_set_attribute(s)
  \/ SetNext(s) \/ GetNext(s)

LEMMA NextDoes == Next => \E s \in sessions : Does(s)
BY DEF Next, VisaReturns, Does

LEMMA Alone ==
  ASSUME LocksInv, PortShape, NEW s \in sessions, Does(s)
  PROVE  /\ sessions' = sessions
         /\ \A t \in Sessions \ {s} :
              op'[t] = op[t] /\ asked'[t] = asked[t] /\ told'[t] = told[t]
<1>1. /\ s \in Sessions /\ op = [t \in Sessions |-> op[t]]
      /\ asked = [t \in Sessions |-> asked[t]] /\ told = [t \in Sessions |-> told[t]]
  BY LocksAssumption DEF LocksInv, Shape, PortShape
<1>2. CASE /\ LocksOnly(s)
           /\ \/ tclvisa_lock(s) \/ LockFails(s) \/ LockReturns(s)
              \/ tclvisa_unlock(s) \/ Reopen(s)
  BY <1>1, <1>2 DEF tclvisa_lock, LockFails, LockReturns, LockEnded, tclvisa_unlock,
                    Reopen, LocksOnly, Start, Finish
<1>3. CASE setOptionProc(s) \/ tclvisa_set_attribute(s)
  BY <1>1, <1>3 DEF setOptionProc, tclvisa_set_attribute, setMode, setXchar, setHandshake,
                    setControl, setRefused, Start, Finish, Unlocked
<1>4. CASE getOptionProc(s)
  BY <1>1, <1>4 DEF getOptionProc, Start, Unlocked
<1>5. CASE SetNext(s)
  BY <1>1, <1>5 DEF SetNext, Finish, Unlocked
<1>6. CASE GetNext(s)
  BY <1>1, <1>6 DEF GetNext, Finish, Unlocked
<1> QED
  BY <1>2, <1>3, <1>4, <1>5, <1>6 DEF Does

\* Two sessions never both believe to have the port to themselves.
OneHolder == \A s \in sessions : BelievesLocked(s) => Holders(PortOf[s]) = {s}

LEMMA AtMostOne == LocksInv => OneHolder
<1> SUFFICES ASSUME LocksInv, NEW s \in sessions, BelievesLocked(s), NEW t \in sessions,
                    PortOf[t] = PortOf[s], BelievesLocked(t), t # s
             PROVE  FALSE
  BY DEF Holders, OneHolder
<1>1. ex[s] > 0 /\ ex[t] > 0
  BY Believes
<1>2. ex[t] = 0
  BY <1>1 DEF LocksInv, NoConflict
<1> QED
  BY <1>1, <1>2

LEMMA LockInitially == Init => Lock!Init
<1> SUFFICES ASSUME Init, NEW p \in Ports PROVE Holders(p) = {}
  BY DEF Lock!Init, Ports
<1>1. \A s \in sessions : told[s] = << >>
  BY LocksAssumption DEF Init, LocksInit
<1> QED
  BY <1>1 DEF Holders, BelievesLocked

\* A step of session s is one of the abstract lock: its own belief may change,
\* and is right before and after.
LEMMA LockStepImplements ==
  ASSUME LocksInv, PortShape, OneHolder, OneHolder', NEW s \in sessions, Does(s)
  PROVE  Lock!Next
<1> DEFINE H == [p \in Ports |-> Holders(p)]
           q == PortOf[s]
<1>1. /\ s \in Sessions /\ q \in Ports /\ sessions' = sessions /\ sessions \subseteq Sessions
      /\ \A t \in Sessions \ {s} : op'[t] = op[t] /\ told'[t] = told[t]
  BY Alone, LocksAssumption DEF LocksInv, Shape, Ports
<1>2. \A t \in sessions \ {s} : BelievesLocked(t)' <=> BelievesLocked(t)
  BY <1>1 DEF BelievesLocked
<1>3. \A p \in Ports \ {q} : Holders(p)' = Holders(p)
  BY <1>1, <1>2 DEF Holders
<1>4. Holders(q)' \ {s} = Holders(q) \ {s}
  BY <1>1, <1>2 DEF Holders
<1>5. s \in Holders(q) <=> BelievesLocked(s)
  BY DEF Holders
<1>6. s \in Holders(q)' <=> BelievesLocked(s)'
  BY <1>1 DEF Holders
<1> SUFFICES Lock!Take(s) \/ Lock!GiveBack(s) \/ Lock!Configure(s) \/ Lock!Work
  BY <1>1 DEF Lock!Next
<1>7. ASSUME Holders(q)' = Holders(q) PROVE H' = H
  BY <1>3, <1>7
<1>8. ASSUME NEW S, Holders(q)' = S PROVE H' = [H EXCEPT ![q] = S]
  BY <1>1, <1>3, <1>8
<1>9. H[q] = Holders(q)
  BY <1>1
<1>10. CASE port' # port
  <2>1. SetNext(s)
    BY <1>10 DEF Does, LocksOnly, setOptionProc, getOptionProc, tclvisa_set_attribute, GetNext
  <2>2. told' = told
    BY <2>1 DEF SetNext, Unlocked
  <2>3. Holders(q)' = Holders(q)
    BY <1>1, <2>2 DEF Holders, BelievesLocked
  <2>4. PICK status \in viSetAttribute(s, op[s].todo[1][1]) :
          /\ status = SUCCESS
          /\ port' = [port EXCEPT ![q][op[s].todo[1][1]] = op[s].todo[1][2]]
    BY <1>10, <2>1 DEF SetNext
  <2>5. ~ LockedOut(s)
    BY <2>4, Statuses DEF viSetAttribute
  <2>6. Holders(q) \subseteq {s}
    BY <2>5, Believes DEF Holders, Others
  <2>7. port' = [port EXCEPT ![q] = port'[q]]
    BY <1>1, <2>4 DEF PortShape, PortsOnly
  <2> QED
    BY <1>7, <1>9, <2>3, <2>6, <2>7 DEF Lock!Configure
<1>11. CASE port' = port /\ (BelievesLocked(s)' <=> BelievesLocked(s))
  <2>1. Holders(q)' = Holders(q)
    BY <1>4, <1>5, <1>6, <1>11
  <2> QED
    BY <1>7, <1>11, <2>1 DEF Lock!Work
<1>12. CASE port' = port /\ BelievesLocked(s) /\ ~ BelievesLocked(s)'
  <2>1. Holders(q) = {s}
    BY <1>12 DEF OneHolder
  <2>2. Holders(q)' = {}
    BY <1>4, <1>6, <1>12, <2>1
  <2> QED
    BY <1>8, <1>9, <1>12, <2>1, <2>2 DEF Lock!GiveBack
<1>13. CASE port' = port /\ ~ BelievesLocked(s) /\ BelievesLocked(s)'
  <2>1. Holders(q)' = {s}
    BY <1>1, <1>13 DEF OneHolder
  <2>2. Holders(q) = {}
    BY <1>4, <1>5, <1>13, <2>1
  <2> QED
    BY <1>8, <1>9, <1>13, <2>1, <2>2 DEF Lock!Take
<1> QED
  BY <1>10, <1>11, <1>12, <1>13

\* visa::lock, the serial options and close, with nested, shared and lost locks,
\* make a lock with one owner, as far as scripts can tell: belief passes from
\* one session to another only through a time when nobody believes, and a port
\* that has a holder is changed by no other session.
THEOREM LocksImplementLock == Spec => ImplementsPortLock
<1>1. ASSUME ModeInv, OneHolder, OneHolder', [Next]_vars PROVE [Lock!Next]_(Lock!vars)
  <2>1. CASE UNCHANGED vars
    BY <2>1 DEF vars, lockVars, Lock!vars, Holders, BelievesLocked
  <2>2. CASE Next
    BY <1>1, <2>2, NextDoes, LockStepImplements DEF ModeInv
  <2> QED
    BY <1>1, <2>1, <2>2
<1>2. ModeInv /\ [Next]_vars => ModeInv'
  BY ModeStep
<1>3. ModeInv => OneHolder
  BY AtMostOne DEF ModeInv
<1> QED
  BY <1>1, <1>2, <1>3, ModeInitially, LockInitially, PTL DEF Spec, ImplementsPortLock, Lock!Spec

-------------------------------------------------------------------------------
(* Why a command ends *)

CallsOf(s) == Len(op[s].todo)

\* Both kinds of option make at least one call; so does visa::lock.
LEMMA CallsRemain ==
  ASSUME LocksInv, Calls, Readings, NEW s \in sessions, op[s] # Idle,
         op[s].cmd \in {"lock"} \cup Setting \cup DOMAIN Reads
  PROVE  \E A : op[s].todo \in Seq(A) \ {<< >>}
<1>1. CASE op[s].cmd = "lock"
  <2>1. PICK args : op[s].todo = <<args>>
    BY <1>1 DEF LocksInv, Commands
  <2>2. <<args>> \in Seq({args}) /\ <<args>> # << >>
    OBVIOUS
  <2> QED
    BY <2>1, <2>2
<1>2. CASE op[s].cmd \in Setting
  BY <1>2 DEF Calls, CallsLeft
<1>3. CASE op[s].cmd \in DOMAIN Reads
  BY <1>3 DEF Readings, Reading
<1> QED
  BY <1>1, <1>2, <1>3

LEMMA ReturnShortens ==
  ASSUME LocksInv, Calls, Readings, NEW s \in sessions, op[s] # Idle, VisaReturns(s)
  PROVE  CallsOf(s)' < CallsOf(s)
<1>1. s \in Sessions /\ op = [t \in Sessions |-> op[t]]
  BY LocksAssumption DEF LocksInv, Shape
<1>2. op[s].cmd \in {"lock"} \cup Setting \cup DOMAIN Reads
  BY DEF VisaReturns, LockReturns, SetNext, GetNext
<1>3. PICK A : op[s].todo \in Seq(A) \ {<< >>}
  BY <1>2, CallsRemain
<1>4. PICK n \in Nat \ {0} : n = Len(op[s].todo)
  BY <1>3
<1>5. op'[s].todo = << >> \/ (n > 1 /\ op'[s].todo = Tail(op[s].todo))
  <2>1. CASE LockReturns(s)
    BY <1>1, <2>1 DEF LockReturns, LockEnded, Finish, Idle
  <2>2. CASE SetNext(s)
    <3>1. \/ op' = [op EXCEPT ![s] = Idle]
          \/ /\ n > 1
             /\ op' = [op EXCEPT ![s] = [cmd |-> op[s].cmd, todo |-> Tail(op[s].todo),
                                         got |-> << >>, status |-> SUCCESS]]
      BY <1>1, <1>4, <2>2 DEF SetNext, Finish
    <3>2. CASE op' = [op EXCEPT ![s] = Idle]
      BY <1>1, <3>2 DEF Idle
    <3>3. ASSUME NEW rest, op' = [op EXCEPT ![s] = [cmd |-> op[s].cmd, todo |-> rest,
                                                    got |-> << >>, status |-> SUCCESS]]
          PROVE  op'[s].todo = rest
      BY <1>1, <3>3
    <3> QED
      BY <3>1, <3>2, <3>3
  <2>3. CASE GetNext(s)
    <3>1. PICK read \in {SUCCESS, CONN_LOST} : \E value : Continues(s, read, value)
      BY <2>3, GetContinues
    <3>2. PICK value : Continues(s, read, value)
      BY <3>1
    <3>3. CASE n > 1 /\ ~ (op[s].cmd = "mode" /\ IsError(read))
      <4>1. PICK got, status :
              op' = [op EXCEPT ![s] = [cmd |-> op[s].cmd, todo |-> Tail(op[s].todo),
                                       got |-> got, status |-> status]]
        BY <1>1, <1>4, <3>2, <3>3 DEF Continues
      <4> QED
        BY <1>1, <3>3, <4>1
    <3>4. CASE ~ (n > 1 /\ ~ (op[s].cmd = "mode" /\ IsError(read)))
      <4>1. op' = [op EXCEPT ![s] = Idle]
        BY <1>4, <3>2, <3>4 DEF Continues, Finish
      <4> QED
        BY <1>1, <4>1 DEF Idle
    <3> QED
      BY <3>3, <3>4
  <2> QED
    BY <2>1, <2>2, <2>3 DEF VisaReturns
<1>6. n > 1 => Len(Tail(op[s].todo)) = n - 1
  BY <1>3, <1>4, Shrinks
<1>7. Len(<< >>) = 0 /\ 0 < n /\ n - 1 < n
  OBVIOUS
<1>8. CASE op'[s].todo = << >>
  BY <1>4, <1>7, <1>8 DEF CallsOf
<1>9. CASE n > 1 /\ op'[s].todo = Tail(op[s].todo)
  BY <1>4, <1>6, <1>7, <1>9 DEF CallsOf
<1> QED
  BY <1>5, <1>8, <1>9

\* Every return of a VISA call leaves its command fewer calls to make, until it
\* ends; and no step of another session, whatever locks it takes or gives back,
\* gives it more.  This is what CommandsReturn needs beside fairness and viLock.
THEOREM CallsRunOut ==
  Spec => [][\A s \in sessions : op[s] # Idle =>
               \/ CallsOf(s)' < CallsOf(s)
               \/ ~ VisaReturns(s) /\ UNCHANGED op[s]]_vars
<1> DEFINE A == \A s \in sessions : op[s] # Idle =>
                  \/ CallsOf(s)' < CallsOf(s)
                  \/ ~ VisaReturns(s) /\ UNCHANGED op[s]
           Inv == ModeInv /\ Readings /\ LastErrorExplains
<1>1. ASSUME Inv, Next PROVE A
  <2> SUFFICES ASSUME NEW s \in sessions, op[s] # Idle, ~ VisaReturns(s)
               PROVE  CallsOf(s)' < CallsOf(s) \/ op'[s] = op[s]
    BY <1>1, ReturnShortens DEF ModeInv
  <2>1. PICK u \in sessions : Does(u)
    BY <1>1, NextDoes
  <2>2. s \in Sessions /\ op = [t \in Sessions |-> op[t]]
    BY <1>1, LocksAssumption DEF ModeInv, LocksInv, Shape
  <2>3. CASE u # s
    BY <1>1, <2>1, <2>2, <2>3, Alone DEF ModeInv
  <2>4. CASE u = s
    <3>1. ~ Ready(s)
      BY DEF Ready
    <3>2. LockFails(s)
      BY <2>1, <2>4, <3>1 DEF Does, VisaReturns, tclvisa_lock, tclvisa_unlock, Reopen,
                              setOptionProc, getOptionProc, tclvisa_set_attribute
    <3>3. op'[s].todo = << >> /\ op[s].cmd = "lock"
      BY <2>2, <3>2 DEF LockFails, LockEnded, Finish, Idle
    <3>4. PICK args : op[s].todo = <<args>>
      BY <1>1, <3>3 DEF ModeInv, LocksInv, Commands
    <3>5. Len(<< >>) = 0 /\ Len(<<args>>) = 1
      OBVIOUS
    <3> QED
      BY <3>3, <3>4, <3>5 DEF CallsOf
  <2> QED
    BY <2>3, <2>4
<1>2. Inv /\ [Next]_vars => Inv'
  BY ModeStep, ErrorsStep DEF ModeInv
<1>3. Init => Inv
  BY ModeInitially, ReadingsInitially
<1>4. Inv /\ [Next]_vars => [A]_vars
  BY <1>1
<1> QED
  BY <1>2, <1>3, <1>4, PTL DEF Spec
================================================================================
