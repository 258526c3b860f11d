------------------------- MODULE SerialPortTypeProofs -------------------------
(***************************************************************************)
(* What values pass between scripts, the driver and VISA, for any number   *)
(* of sessions: a port is only ever set to what VISA defines, and -mode    *)
(* reads back a mode that -mode accepts, with the values set under the     *)
(* lock if there is one; and the type invariant.  LocksInv and ModeInv of  *)
(* SerialPortProofs are the ground for it.                                 *)
(***************************************************************************)
EXTENDS SerialPortProofs

-------------------------------------------------------------------------------
(* Attributes and modes *)

Domains == [BAUD |-> Nat, PARITY |-> {Parities[p] : p \in DOMAIN Parities},
            DATA |-> 5 .. 8, STOP |-> StopBits]

LEMMA ModeDomains ==
  ASSUME NEW m \in ModeArgs, TtyParseMode(m), NEW a \in Attributes
  PROVE  Wanted(m)[a] \in Domains[a]
<1>1. m.baud \in Nat
  BY PortAssumption
<1>2. /\ Wanted(m)["BAUD"] = m.baud
      /\ Wanted(m)["PARITY"] = Parities[m.parity]
      /\ Wanted(m)["DATA"] = m.data
      /\ Wanted(m)["STOP"] = IF m.stop = 1 THEN "STOP_ONE" ELSE "STOP_TWO"
  BY DEF Wanted
<1>3. /\ Domains["BAUD"] = Nat
      /\ Domains["PARITY"] = {Parities[p] : p \in DOMAIN Parities}
      /\ Domains["DATA"] = 5 .. 8
      /\ Domains["STOP"] = StopBits
  BY DEF Domains
<1>4. Parities[m.parity] \in {Parities[p] : p \in DOMAIN Parities}
  BY DEF TtyParseMode
<1>5. a \in {"BAUD", "PARITY", "DATA", "STOP"}
  BY DEF Attributes
<1> QED
  BY <1>1, <1>2, <1>3, <1>4, <1>5 DEF TtyParseMode, StopBits

\* What -mode makes of the four attributes it has read.
LEMMA ReadIsAccepted ==
  ASSUME NEW g, g[2] \in Domains["PARITY"], g[3] \in Domains["DATA"], g[4] \in Domains["STOP"]
  PROVE  TtyParseMode(getTtyAttributes(g)) \/ getTtyAttributes(g).stop = -1
<1>1. /\ getTtyAttributes(g).parity = fromVisaParity(g[2])
      /\ getTtyAttributes(g).data = g[3]
      /\ getTtyAttributes(g).stop = fromVisaStopBits(g[4])
  BY DEF getTtyAttributes
<1>2. \E p \in DOMAIN Parities : Parities[p] = g[2]
  <2>1. Domains["PARITY"] = {Parities[p] : p \in DOMAIN Parities}
    BY DEF Domains
  <2> QED
    BY <2>1
<1>3. fromVisaParity(g[2]) \in DOMAIN Parities
  BY <1>2 DEF fromVisaParity
<1>4. g[3] \in 5 .. 8
  BY DEF Domains
<1>5. fromVisaStopBits(g[4]) \in {1, 2, -1}
  BY DEF fromVisaStopBits
<1> QED
  BY <1>1, <1>3, <1>4, <1>5 DEF TtyParseMode

LEMMA RequestsAre ==
  ASSUME NEW pair \in Requested
  PROVE  pair[1] \in Attributes /\ pair = <<pair[1], pair[2]>>
<1>1. PICK m \in ModeArgs : TtyParseMode(m) /\ pair \in ModeOf(m)
  BY DEF Requested
<1>2. PICK a \in Attributes : pair = <<a, Wanted(m)[a]>>
  BY <1>1, WantedOf
<1> QED
  BY <1>2

LEMMA ReadIsWanted ==
  ASSUME NEW pairs, pairs \subseteq Requested, NEW g,
         g[2] \in Domains["PARITY"], g[4] \in Domains["STOP"],
         \A pair \in pairs : /\ pair[1] = "BAUD" => g[1] = pair[2]
                             /\ pair[1] = "PARITY" => g[2] = pair[2]
                             /\ pair[1] = "DATA" => g[3] = pair[2]
                             /\ pair[1] = "STOP" => g[4] = pair[2]
  PROVE  pairs \subseteq ModeOf(getTtyAttributes(g))
<1> DEFINE t == getTtyAttributes(g)
<1>1. /\ t.baud = g[1] /\ t.parity = fromVisaParity(g[2])
      /\ t.data = g[3] /\ t.stop = fromVisaStopBits(g[4])
  BY DEF getTtyAttributes
<1>2. Parities[t.parity] = g[2]
  <2>1. Domains["PARITY"] = {Parities[p] : p \in DOMAIN Parities}
    BY DEF Domains
  <2>2. PICK p \in DOMAIN Parities : Parities[p] = g[2]
    BY <2>1
  <2>3. fromVisaParity(g[2]) = CHOOSE q \in DOMAIN Parities : Parities[q] = g[2]
    BY <2>2 DEF fromVisaParity
  <2> HIDE DEF Parities
  <2> QED
    BY <1>1, <2>2, <2>3
<1>3. /\ g[4] = "STOP_ONE" => t.stop = 1
      /\ g[4] = "STOP_TWO" => t.stop = 2
      /\ g[4] = "STOP_ONE5" => t.stop = -1
      /\ g[4] \in {"STOP_ONE", "STOP_ONE5", "STOP_TWO"}
  <2>1. Domains["STOP"] = StopBits
    BY DEF Domains
  <2> QED
    BY <1>1, <2>1 DEF fromVisaStopBits, StopBits
<1> HIDE DEF t
<1>4. g[4] = CASE t.stop = 1 -> "STOP_ONE" [] t.stop = 2 -> "STOP_TWO" [] OTHER -> "STOP_ONE5"
  <2>1. -1 # 1 /\ -1 # 2 /\ 2 # 1
    BY SMT
  <2>2. CASE t.stop = 1
    BY <1>3, <2>1, <2>2
  <2>3. CASE t.stop = 2
    BY <1>3, <2>1, <2>3
  <2>4. CASE t.stop = -1
    BY <1>3, <2>1, <2>4
  <2> QED
    BY <1>3, <2>2, <2>3, <2>4
<1>5. ModeOf(t) = {<<"BAUD", g[1]>>, <<"PARITY", g[2]>>, <<"DATA", g[3]>>, <<"STOP", g[4]>>}
  BY <1>1, <1>2, <1>4 DEF ModeOf, t
<1>6. ASSUME NEW pair \in pairs PROVE pair \in ModeOf(t)
  <2>1. pair[1] \in {"BAUD", "PARITY", "DATA", "STOP"} /\ pair = <<pair[1], pair[2]>>
    BY <1>6, RequestsAre DEF Attributes
  <2> QED
    BY <1>5, <1>6, <2>1
<1> QED
  BY <1>6 DEF t

-------------------------------------------------------------------------------
(* The invariant *)

\* What -mode and set-attribute have left to set are values VISA defines.
CallGood(x) ==
  x.cmd \in {"-mode", "set-attribute"} =>
    \A i \in 1 .. Len(x.todo) :
      x.todo[i][1] \in Attributes /\ x.todo[i][2] \in Domains[x.todo[i][1]]

Names == <<"BAUD", "PARITY", "DATA", "STOP">>

\* A reading -mode has the first of the attributes, as VISA defines them and as
\* the script asked for them under its lock, and the others to come.
ReadGood(x, m) ==
  x.cmd = "mode" =>
    /\ \E A : x.got \in Seq(A)
    /\ \E A : x.todo \in Seq(A)
    /\ Len(x.got) \in 0 .. 3 /\ Len(x.todo) = 4 - Len(x.got)
    /\ \A i \in 1 .. 4 - Len(x.got) : x.todo[i] = Names[Len(x.got) + i]
    /\ \A i \in 1 .. Len(x.got) :
         /\ x.got[i] \in Domains[Names[i]]
         /\ \A pair \in m : pair[1] = Names[i] => x.got[i] = pair[2]

PortsGood == \A p \in Ports, a \in Attributes : port[p][a] \in Domains[a]

ReadInv ==
  /\ ModeInv
  /\ PortsGood
  /\ \A s \in Sessions : asked[s] \subseteq Requested
  /\ \A s \in sessions : CallGood(op[s]) /\ ReadGood(op[s], asked[s])

-------------------------------------------------------------------------------
(* Steps *)

\* What is to be shown of a step of session s.
LEMMA ReadKept ==
  ASSUME ReadInv, ModeInv', NEW s \in sessions, Does(s), PortsGood',
         asked'[s] \subseteq Requested,
         CallGood(op'[s]), ReadGood(op'[s], asked'[s])
  PROVE  ReadInv'
<1>1. /\ sessions' = sessions /\ sessions \subseteq Sessions
      /\ \A t \in Sessions \ {s} : op'[t] = op[t] /\ asked'[t] = asked[t]
  BY Alone, LocksAssumption DEF ReadInv, ModeInv, LocksInv, Shape
<1>2. \A t \in Sessions : asked'[t] \subseteq Requested
  BY <1>1 DEF ReadInv
<1>3. ASSUME NEW t \in sessions PROVE CallGood(op'[t]) /\ ReadGood(op'[t], asked'[t])
  BY <1>1, <1>3 DEF ReadInv
<1> QED
  BY <1>1, <1>2, <1>3 DEF ReadInv

\* A command of other kinds than -mode's has nothing to show.
LEMMA OtherGood ==
  ASSUME NEW x, NEW m
  PROVE  /\ x.cmd \notin {"-mode", "set-attribute"} => CallGood(x)
         /\ x.cmd # "mode" => ReadGood(x, m)
BY DEF CallGood, ReadGood

LEMMA OtherAnswer == answer'.cmd # "mode" => ModeReadsBack'
BY DEF ModeReadsBack

LEMMA PortsStay == PortsGood /\ port' = port => PortsGood'
BY DEF PortsGood

LEMMA LockReads ==
  ASSUME ReadInv, ModeInv', NEW s \in sessions, LocksOnly(s),
         \/ tclvisa_lock(s) \/ LockFails(s) \/ LockReturns(s)
         \/ tclvisa_unlock(s) \/ Reopen(s)
  PROVE  ReadInv' /\ ModeReadsBack'
<1>1. /\ s \in Sessions /\ op = [t \in Sessions |-> op[t]]
      /\ asked = [t \in Sessions |-> asked[t]]
  BY LocksAssumption DEF ReadInv, ModeInv, LocksInv, Shape, PortShape
<1>2. op[s].cmd \in {"idle", "lock"}
  <2>1. op[s] = Idle \/ op[s].cmd = "lock"
    BY DEF tclvisa_lock, LockFails, LockReturns, tclvisa_unlock, Reopen, Ready
  <2> QED
    BY <2>1 DEF Idle
<1>3. op'[s].cmd \in {"idle", "lock"}
  <2>1. CASE tclvisa_lock(s)
    BY <1>1, <2>1, Starts DEF tclvisa_lock
  <2>2. CASE LockFails(s) \/ LockReturns(s) \/ tclvisa_unlock(s)
    <3>1. op' = [op EXCEPT ![s] = Idle]
      BY <2>2, Ends DEF LockFails, LockReturns, tclvisa_unlock, LockEnded
    <3> QED
      BY <1>1, <3>1 DEF Idle
  <2>3. CASE Reopen(s)
    BY <1>2, <2>3 DEF Reopen
  <2> QED
    BY <2>1, <2>2, <2>3
<1>4. asked'[s] \subseteq Requested /\ PortsGood'
  BY <1>1, PortsStay DEF LocksOnly, ReadInv
<1>5. answer'.cmd # "mode"
  BY <1>2 DEF tclvisa_lock, LockFails, LockReturns, LockEnded, tclvisa_unlock,
              Reopen, Start, Finish, NoAnswer, None
<1>6. Does(s)
  BY DEF Does
<1>7. CallGood(op'[s]) /\ ReadGood(op'[s], asked'[s])
  BY <1>3, OtherGood
<1> QED
  BY <1>4, <1>5, <1>6, <1>7, ReadKept, OtherAnswer

LEMMA SettingReads ==
  ASSUME ReadInv, ModeInv', NEW s \in sessions, setOptionProc(s) \/ tclvisa_set_attribute(s)
  PROVE  ReadInv' /\ ModeReadsBack'
<1>1. /\ s \in Sessions /\ op = [t \in Sessions |-> op[t]]
      /\ asked = [t \in Sessions |-> asked[t]] /\ port' = port /\ Does(s)
      /\ asked[s] \subseteq Requested
  BY LocksAssumption DEF ReadInv, ModeInv, LocksInv, Shape, PortShape, setOptionProc,
                         tclvisa_set_attribute, Does
<1>2. op[s].cmd = "idle"
  <2>1. op[s] = Idle
    BY DEF setOptionProc, tclvisa_set_attribute, Ready
  <2> QED
    BY <2>1 DEF Idle
<1>3. answer'.cmd # "mode"
  BY <1>2 DEF setOptionProc, tclvisa_set_attribute, setMode, setXchar, setHandshake,
              setControl, setRefused, Start, Finish, NoAnswer, None
<1>4. /\ op'[s].cmd # "mode"
      /\ op'[s].cmd \in {"-mode", "set-attribute"} => setMode(s) \/ tclvisa_set_attribute(s)
  BY <1>1 DEF setOptionProc, tclvisa_set_attribute, setMode, setXchar, setHandshake,
              setControl, setRefused, Start, Finish, Idle
<1>5. asked'[s] \subseteq Requested
  BY <1>1 DEF setOptionProc, tclvisa_set_attribute, setMode, Requested
<1>6. CallGood(op'[s])
  <2>1. CASE setMode(s) /\ op'[s].cmd = "-mode"
    <3>1. PICK m \in ModeArgs : TtyParseMode(m) /\ op'[s].todo = setTtyAttributes(m)
      BY <1>1, <2>1 DEF setMode, Start, Finish, Idle
    <3>2. ASSUME NEW i \in 1 .. Len(op'[s].todo)
          PROVE  \E a \in Attributes : op'[s].todo[i] = <<a, Wanted(m)[a]>>
      BY <3>1, <3>2, CallsWanted
    <3>3. ASSUME NEW i \in 1 .. Len(op'[s].todo)
          PROVE  /\ op'[s].todo[i][1] \in Attributes
                 /\ op'[s].todo[i][2] \in Domains[op'[s].todo[i][1]]
      <4>1. PICK a \in Attributes : op'[s].todo[i] = <<a, Wanted(m)[a]>>
        BY <3>2, <3>3
      <4> QED
        BY <3>1, <4>1, ModeDomains
    <3> QED
      BY <3>3 DEF CallGood
  <2>2. CASE tclvisa_set_attribute(s)
    <3>1. op'[s].todo = <<<<"STOP", "STOP_ONE5">>>>
      BY <1>1, <2>2 DEF tclvisa_set_attribute, Start
    <3>2. Len(op'[s].todo) = 1 /\ op'[s].todo[1][1] = "STOP" /\ op'[s].todo[1][2] = "STOP_ONE5"
      BY <3>1
    <3>3. "STOP" \in Attributes /\ "STOP_ONE5" \in Domains["STOP"]
      BY DEF Attributes, Domains, StopBits
    <3> QED
      BY <3>2, <3>3 DEF CallGood
  <2>3. CASE op'[s].cmd \notin {"-mode", "set-attribute"}
    BY <2>3, OtherGood
  <2>4. setMode(s) => op'[s].cmd # "set-attribute"
    BY <1>1 DEF setMode, Start, Finish, Idle
  <2> QED
    BY <1>4, <2>1, <2>2, <2>3, <2>4
<1>7. ReadGood(op'[s], asked'[s])
  BY <1>4, OtherGood
<1> QED
  BY <1>1, <1>3, <1>5, <1>6, <1>7, ReadKept, OtherAnswer, PortsStay DEF ReadInv

LEMMA GetStarts ==
  ASSUME ReadInv, ModeInv', NEW s \in sessions, getOptionProc(s)
  PROVE  ReadInv' /\ ModeReadsBack'
<1>1. /\ s \in Sessions /\ op = [t \in Sessions |-> op[t]] /\ port' = port /\ asked' = asked
      /\ Does(s)
  BY LocksAssumption DEF ReadInv, ModeInv, LocksInv, Shape, getOptionProc, Does
<1>2. PICK option \in DOMAIN Reads : Start(s, option, Reads[option])
  BY DEF getOptionProc
<1>3. /\ op'[s].cmd = option /\ op'[s].todo = Reads[option] /\ op'[s].got = << >>
      /\ answer' = NoAnswer
  BY <1>1, <1>2 DEF Start
<1>4. answer'.cmd # "mode"
  BY <1>3 DEF NoAnswer, None
<1>5. CallGood(op'[s])
  <2>1. option \notin {"-mode", "set-attribute"}
    BY DEF Reads
  <2> QED
    BY <1>3, <2>1, OtherGood
<1>6. ReadGood(op'[s], asked'[s])
  <2>1. CASE option = "mode"
    <3>1. Reads[option] = Names
      BY <2>1 DEF Reads, Names
    <3>2. Names \in Seq(Attributes) /\ Len(Names) = 4 /\ << >> \in Seq({}) /\ Len(<< >>) = 0
      BY DEF Names, Attributes
    <3>3. op'[s].todo = Names
      BY <1>3, <3>1
    <3>4. \A i \in 1 .. 4 : i = 0 + i
      OBVIOUS
    <3> HIDE DEF Names
    <3> QED
      BY <1>3, <3>2, <3>3, <3>4 DEF ReadGood
  <2>2. CASE option # "mode"
    BY <1>3, <2>2, OtherGood
  <2> QED
    BY <2>1, <2>2
<1>7. asked'[s] \subseteq Requested
  BY <1>1 DEF ReadInv
<1>8. PortsGood'
  BY <1>1, PortsStay DEF ReadInv
<1> QED
  BY <1>1, <1>4, <1>5, <1>6, <1>7, <1>8, ReadKept, OtherAnswer

\* A read of one of -mode's attributes, which are all in their domains and, if
\* the script set the mode under its lock, as it wants them.
LEMMA GetReads ==
  ASSUME ReadInv, ModeInv', NEW s \in sessions, GetNext(s)
  PROVE  ReadInv' /\ ModeReadsBack'
<1> DEFINE m == asked[s]
           k == Len(op[s].got)
           v == port[PortOf[s]][op[s].todo[1]]
<1>1. /\ s \in Sessions /\ op = [t \in Sessions |-> op[t]] /\ port' = port /\ asked' = asked
      /\ Does(s) /\ PortOf[s] \in Ports /\ op[s].cmd \in DOMAIN Reads
      /\ asked'[s] \subseteq Requested /\ PortsGood'
      /\ ReadGood(op[s], m)
  BY LocksAssumption, PortsStay
     DEF ReadInv, ModeInv, LocksInv, Shape, Ports, GetNext, Does
<1>2. PICK read \in {SUCCESS, CONN_LOST} :
        Continues(s, read, IF op[s].cmd = "mode" THEN v ELSE "value")
  BY DEF GetNext, Continues
<1> DEFINE got == IF IsError(read) THEN op[s].got
                  ELSE Append(op[s].got, IF op[s].cmd = "mode" THEN v ELSE "value")
           all == Len(got) = Len(Reads[op[s].cmd])
<1>2a. \E status :
         IF Len(op[s].todo) > 1 /\ ~ (op[s].cmd = "mode" /\ IsError(read))
           THEN /\ op' = [op EXCEPT ![s] = [cmd |-> op[s].cmd, todo |-> Tail(@.todo),
                                           got |-> got, status |-> status]]
                /\ answer' = NoAnswer
           ELSE Finish(s, status, IF all \/ op[s].cmd = "ttystatus" THEN "ok" ELSE "error",
                       IF all /\ op[s].cmd = "mode" THEN getTtyAttributes(got) ELSE NoMode)
  BY <1>2 DEF Continues
<1> HIDE DEF v
<1>3. CASE op[s].cmd # "mode"
  <2>1. op'[s].cmd \in {"idle"} \cup (DOMAIN Reads \ {"mode"})
    BY <1>1, <1>2a, <1>3 DEF Finish, Idle
  <2>2. op'[s].cmd \notin {"-mode", "set-attribute", "mode"}
    BY <2>1 DEF Reads
  <2>3. answer'.cmd # "mode"
    BY <1>2a, <1>3 DEF Finish, NoAnswer, None
  <2> QED
    BY <1>1, <2>2, <2>3, OtherGood, OtherAnswer, ReadKept
<1>4. CASE op[s].cmd = "mode"
  <2>1. PICK A, B : op[s].todo \in Seq(A) /\ op[s].got \in Seq(B)
    BY <1>1, <1>4 DEF ReadGood
  <2>2. /\ k \in 0 .. 3 /\ Len(op[s].todo) = 4 - k
        /\ \A i \in 1 .. 4 - k : op[s].todo[i] = Names[k + i]
        /\ \A i \in 1 .. k : /\ op[s].got[i] \in Domains[Names[i]]
                             /\ \A pair \in m : pair[1] = Names[i] => op[s].got[i] = pair[2]
    BY <1>1, <1>4 DEF ReadGood
  <2>3. \A i \in 1 .. 4 : Names[i] \in Attributes
    BY DEF Names, Attributes
  <2>4. op[s].todo[1] = Names[k + 1] /\ Names[k + 1] \in Attributes
    <3>1. 1 \in 1 .. 4 - k /\ k + 1 \in 1 .. 4
      BY <2>2
    <3> QED
      BY <2>2, <2>3, <3>1
  <2>5. v \in Domains[Names[k + 1]]
    BY <1>1, <2>4 DEF ReadInv, PortsGood, v
  <2>6. \A pair \in m : pair[1] = Names[k + 1] => v = pair[2]
    BY <1>1, <1>4, <2>4 DEF ReadInv, ModeInv, Agreed, v
  <2>7. Len(Reads["mode"]) = 4
    <3>1. Reads["mode"] = Names
      BY DEF Reads, Names
    <3> QED
      BY <3>1 DEF Names
  <2> HIDE DEF k, Names, Reads
  <2>8. CASE IsError(read)
    <3>1. \E status, told1 : Finish(s, status, "error", told1)
      <4>1. got = op[s].got
        BY <2>8
      <4>2. k # 4
        BY <2>2
      <4>3. k = Len(op[s].got)
        BY DEF k
      <4> HIDE DEF got
      <4>4. Len(got) # 4
        BY <4>1, <4>2, <4>3
      <4> QED
        BY <1>2a, <1>4, <2>7, <2>8, <4>4
    <3>2. op'[s] = Idle /\ answer'.code = "error"
      BY <1>1, <3>1 DEF Finish
    <3>3. op'[s].cmd = "idle"
      BY <3>2 DEF Idle
    <3> QED
      BY <1>1, <3>2, <3>3, OtherGood, ReadKept DEF ModeReadsBack
  <2>9. CASE ~ IsError(read)
    <3>1. got = Append(op[s].got, v)
      BY <1>4, <2>9
    <3> HIDE DEF got
    <3>2. /\ Len(got) = k + 1 /\ got \in Seq(B \cup {v})
          /\ \A i \in 1 .. k : got[i] = op[s].got[i]
          /\ got[k + 1] = v
      BY <2>1, <3>1, Grows DEF k
    <3>3. \A i \in 1 .. k + 1 : /\ got[i] \in Domains[Names[i]]
                                /\ \A pair \in m : pair[1] = Names[i] => got[i] = pair[2]
      <4> SUFFICES ASSUME NEW i \in 1 .. k + 1
                   PROVE  /\ got[i] \in Domains[Names[i]]
                          /\ \A pair \in m : pair[1] = Names[i] => got[i] = pair[2]
        OBVIOUS
      <4>1. i \in 1 .. k \/ i = k + 1
        BY <2>2
      <4> QED
        BY <2>2, <2>5, <2>6, <3>2, <4>1
    <3>4. CASE k < 3
      <4>1. Len(op[s].todo) > 1
        BY <2>2, <3>4
      <4>2. PICK status :
              op' = [op EXCEPT ![s] = [cmd |-> "mode", todo |-> Tail(op[s].todo),
                                       got |-> got, status |-> status]]
        BY <1>1, <1>2a, <1>4, <2>9, <4>1
      <4>3. /\ op'[s].cmd = "mode" /\ op'[s].todo = Tail(op[s].todo) /\ op'[s].got = got
            /\ answer' = NoAnswer
        BY <1>1, <1>2a, <1>4, <2>9, <4>1, <4>2
      <4>4. /\ Tail(op[s].todo) \in Seq(A) /\ Len(Tail(op[s].todo)) = 4 - (k + 1)
        BY <2>1, <2>2, <4>1, Shrinks
      <4>5. \A i \in 1 .. 4 - (k + 1) : Tail(op[s].todo)[i] = Names[(k + 1) + i]
        <5> SUFFICES ASSUME NEW i \in 1 .. 4 - (k + 1)
                     PROVE  Tail(op[s].todo)[i] = Names[(k + 1) + i]
          OBVIOUS
        <5>1. i + 1 \in 1 .. 4 - k /\ k + (i + 1) = (k + 1) + i
          BY <2>2
        <5>2. Tail(op[s].todo)[i] = op[s].todo[i + 1]
          BY <2>1, <2>2, <4>1
        <5> QED
          BY <2>2, <5>1, <5>2
      <4>6. k + 1 \in 0 .. 3
        BY <2>2, <3>4
      <4>7. ReadGood(op'[s], m)
        BY <3>2, <3>3, <4>3, <4>4, <4>5, <4>6 DEF ReadGood
      <4>8. answer'.cmd # "mode"
        BY <4>3 DEF NoAnswer, None
      <4>9. CallGood(op'[s])
        BY <4>3, OtherGood
      <4> QED
        BY <1>1, <4>7, <4>8, <4>9, OtherAnswer, ReadKept
    <3>5. CASE k = 3
      <4>1. ~ Len(op[s].todo) > 1 /\ Len(got) = 4
        BY <2>2, <3>2, <3>5
      <4>2. \E status : Finish(s, status, "ok", getTtyAttributes(got))
        BY <1>2a, <1>4, <2>7, <4>1
      <4>3. op'[s] = Idle /\ answer'.by = s /\ answer'.value = getTtyAttributes(got)
        BY <1>1, <4>2 DEF Finish
      <4>4. op'[s].cmd = "idle"
        BY <4>3 DEF Idle
      <4>5. Names[1] = "BAUD" /\ Names[2] = "PARITY" /\ Names[3] = "DATA" /\ Names[4] = "STOP"
        BY DEF Names
      <4>6. /\ got[2] \in Domains["PARITY"] /\ got[3] \in Domains["DATA"]
            /\ got[4] \in Domains["STOP"]
            /\ \A pair \in m : /\ pair[1] = "BAUD" => got[1] = pair[2]
                               /\ pair[1] = "PARITY" => got[2] = pair[2]
                               /\ pair[1] = "DATA" => got[3] = pair[2]
                               /\ pair[1] = "STOP" => got[4] = pair[2]
        BY <3>3, <3>5, <4>5
      <4>7. m \subseteq ModeOf(getTtyAttributes(got))
        BY <1>1, <4>6, ReadIsWanted
      <4>8. ModeReadsBack'
        BY <1>1, <4>3, <4>6, <4>7, ReadIsAccepted DEF ModeReadsBack
      <4> QED
        BY <1>1, <4>4, <4>8, OtherGood, ReadKept
    <3> QED
      BY <2>2, <3>4, <3>5
  <2> QED
    BY <2>8, <2>9
<1> QED
  BY <1>3, <1>4

\* A VISA call of a setting command sets an attribute of a port to a value VISA
\* defines, or one that is none of -mode's.
LEMMA SetReads ==
  ASSUME ReadInv, ModeInv', NEW s \in sessions, SetNext(s)
  PROVE  ReadInv' /\ ModeReadsBack'
<1> DEFINE x == op[s]
           attr == x.todo[1][1]
           v == x.todo[1][2]
<1>1. /\ s \in Sessions /\ op = [t \in Sessions |-> op[t]]
      /\ asked = [t \in Sessions |-> asked[t]] /\ asked[s] \subseteq Requested
      /\ Does(s) /\ PortOf[s] \in Ports /\ x.cmd \in Setting
      /\ CallGood(x) /\ CallsLeft(x, asked[s])
  BY LocksAssumption DEF ReadInv, ModeInv, LocksInv, Shape, PortShape, Ports, Calls,
                         SetNext, Does
<1>2. PICK A : x.todo \in Seq(A) \ {<< >>}
  BY <1>1 DEF CallsLeft
<1>3. PICK n \in Nat \ {0} : n = Len(x.todo)
  BY <1>2
<1>4. asked'[s] \subseteq Requested
  <2>1. \A status : Kept(asked[s], attr, status) \subseteq asked[s]
    BY DEF Kept
  <2> QED
    BY <1>1, <2>1 DEF SetNext
<1>5. PortsGood'
  <2>1. CASE port' = port
    BY <2>1, PortsStay DEF ReadInv
  <2>2. CASE port' # port
    <3>1. /\ port' = [port EXCEPT ![PortOf[s]][attr] = v]
          /\ attr \in DOMAIN port[PortOf[s]]
      BY <2>2 DEF SetNext
    <3>2. \A p \in Ports : DOMAIN port[p] = Attributes
      <4> SUFFICES ASSUME NEW p \in Ports PROVE DOMAIN port[p] = Attributes
        OBVIOUS
      <4>1. ModeInv
        BY DEF ReadInv
      <4>2. port[p] = [BAUD |-> port[p].BAUD, PARITY |-> port[p].PARITY,
                       DATA |-> port[p].DATA, STOP |-> port[p].STOP]
        BY <4>1 DEF ModeInv, PortShape
      <4>3. PICK a, b, c, d : port[p] = [BAUD |-> a, PARITY |-> b, DATA |-> c, STOP |-> d]
        BY ONLY <4>2
      <4> QED
        BY <4>3 DEF Attributes
    <3>3. attr \in Attributes
      BY <1>1, <3>1, <3>2
    <3>4. v \in Domains[attr]
      <4>1. x.cmd \in {"-mode", "set-attribute"}
        BY <1>1, <1>3, <3>3 DEF CallsLeft
      <4> QED
        BY <1>1, <1>3, <4>1 DEF CallGood
    <3> HIDE DEF attr, v
    <3>5. /\ port'[PortOf[s]][attr] = v
          /\ \A a \in Attributes \ {attr} : port'[PortOf[s]][a] = port[PortOf[s]][a]
          /\ \A p \in Ports \ {PortOf[s]} : port'[p] = port[p]
      BY <1>1, <3>1, <3>2 DEF ReadInv, ModeInv, PortShape, PortsOnly
    <3> QED
      BY <1>1, <3>4, <3>5 DEF ReadInv, PortsGood
  <2> QED
    BY <2>1, <2>2
<1>6. \/ op'[s] = Idle
      \/ Len(x.todo) > 1 /\ op'[s].cmd = x.cmd /\ op'[s].todo = Tail(x.todo)
  <2>1. \/ op' = [op EXCEPT ![s] = Idle]
        \/ /\ Len(x.todo) > 1
           /\ op' = [op EXCEPT ![s] = [cmd |-> x.cmd, todo |-> Tail(x.todo),
                                       got |-> << >>, status |-> SUCCESS]]
    BY <1>1 DEF SetNext, Finish
  <2>2. \/ op'[s] = Idle
        \/ /\ Len(x.todo) > 1
           /\ op'[s] = [cmd |-> x.cmd, todo |-> Tail(x.todo), got |-> << >>, status |-> SUCCESS]
    BY <1>1, <2>1
  <2> HIDE DEF x
  <2>3. ASSUME op'[s] = [cmd |-> x.cmd, todo |-> Tail(x.todo), got |-> << >>, status |-> SUCCESS]
        PROVE  op'[s].cmd = x.cmd /\ op'[s].todo = Tail(x.todo)
    BY ONLY <2>3
  <2> QED
    BY <2>2, <2>3
<1>7. op'[s].cmd \in {"idle"} \cup Setting
  BY <1>1, <1>6 DEF Idle
<1>8. ReadGood(op'[s], asked'[s])
  BY <1>7, OtherGood DEF Setting
<1>9. CallGood(op'[s])
  <2>1. CASE op'[s] = Idle
    BY <2>1 DEF CallGood, Idle
  <2>2. CASE Len(x.todo) > 1 /\ op'[s].cmd = x.cmd /\ op'[s].todo = Tail(x.todo)
    <3>1. Len(Tail(x.todo)) = n - 1 /\ \A i \in 1 .. n - 1 : Tail(x.todo)[i] = x.todo[i + 1]
      BY <1>2, <1>3, <2>2
    <3>2. \A i \in 1 .. n - 1 : i + 1 \in 1 .. n
      BY <1>3
    <3> HIDE DEF x
    <3> QED
      BY <1>1, <1>3, <2>2, <3>1, <3>2 DEF CallGood
  <2> QED
    BY <1>6, <2>1, <2>2
<1>10. answer'.cmd # "mode"
  <2>1. answer'.cmd = x.cmd \/ answer' = NoAnswer
    BY DEF SetNext, Finish
  <2> QED
    BY <1>1, <2>1 DEF Setting, NoAnswer, None
<1> HIDE DEF x
<1> QED
  BY <1>1, <1>4, <1>5, <1>8, <1>9, <1>10, ReadKept, OtherAnswer

-------------------------------------------------------------------------------

LEMMA ReadInvStep ==
  ASSUME ReadInv, ModeReadsBack, [Next]_vars PROVE ReadInv' /\ ModeReadsBack'
<1>1. ModeInv'
  BY ModeStep DEF ReadInv
<1>2. CASE UNCHANGED vars
  <2>1. ModeReadsBack'
    BY <1>2 DEF vars, lockVars, ModeReadsBack
  <2>2. /\ \A s \in Sessions : asked'[s] \subseteq Requested
        /\ \A s \in sessions : CallGood(op[s])' /\ ReadGood(op[s], asked[s])'
        /\ PortsGood' /\ sessions' = sessions
    BY <1>2 DEF vars, lockVars, ReadInv, PortsGood, CallGood, ReadGood
  <2> QED
    BY <1>1, <2>1, <2>2 DEF ReadInv
<1>3. CASE Next
  <2>1. PICK s \in sessions : Does(s)
    BY <1>3, NextDoes
  <2> QED
    BY <1>1, <2>1, LockReads, SettingReads, GetStarts, GetReads, SetReads DEF Does
<1> QED
  BY <1>2, <1>3

LEMMA ReadInitially == Init => ReadInv /\ ModeReadsBack
<1> SUFFICES ASSUME Init PROVE ReadInv /\ ModeReadsBack
  OBVIOUS
<1>1. ModeInv
  BY ModeInitially
<1>2. sessions \subseteq Sessions
  BY LocksAssumption DEF Init, LocksInit
<1>3. \A s \in sessions : op[s].cmd = "idle"
  BY <1>2 DEF Init, LocksInit, Idle
<1>4. PortsGood
  <2> SUFFICES ASSUME NEW p \in Ports, NEW a \in Attributes PROVE port[p][a] \in Domains[a]
    BY DEF PortsGood
  <2>1. port[p] \in [BAUD : {9600}, PARITY : {"PAR_NONE"}, DATA : {8}, STOP : {"STOP_ONE"}]
    BY DEF Init
  <2>2. /\ port[p].BAUD = 9600 /\ port[p].PARITY = "PAR_NONE" /\ port[p].DATA = 8
        /\ port[p].STOP = "STOP_ONE"
    BY <2>1
  <2>3. Parities["n"] = "PAR_NONE" /\ "n" \in DOMAIN Parities
    BY DEF Parities
  <2>4. /\ Domains["BAUD"] = Nat /\ Domains["DATA"] = 5 .. 8 /\ Domains["STOP"] = StopBits
        /\ Domains["PARITY"] = {Parities[q] : q \in DOMAIN Parities}
    BY DEF Domains
  <2>5. port[p].PARITY \in Domains["PARITY"]
    BY <2>2, <2>3, <2>4
  <2> QED
    BY <2>2, <2>4, <2>5 DEF Attributes, StopBits
<1>5. ModeReadsBack
  BY DEF Init, LocksInit, ModeReadsBack, NoAnswer, None
<1>6. \A s \in sessions : CallGood(op[s]) /\ ReadGood(op[s], asked[s])
  BY <1>3, OtherGood
<1>7. \A s \in Sessions : asked[s] = {}
  BY DEF Init
<1> QED
  BY <1>1, <1>4, <1>5, <1>6, <1>7 DEF ReadInv

\* fconfigure -mode reads a mode that -mode accepts, however many sessions set
\* the same port between its four reads, but for stop bits that have no Tcl
\* form; and under its lock the values the script has set.
THEOREM ModeReadBack == Spec => []ModeReadsBack
<1> DEFINE Inv == ReadInv /\ ModeReadsBack
<1>1. Inv /\ [Next]_vars => Inv'
  BY ReadInvStep
<1> QED
  BY <1>1, ReadInitially, PTL DEF Spec

-------------------------------------------------------------------------------
(* Types *)

CommandNames == {"idle", "lock"} \cup Setting \cup DOMAIN Reads

Keys == {NoKey, "generated", "K"}

\* The locks of session s, with the one it is waiting for.
Nested(s) == ex[s] + sh[s] + IF op[s].cmd = "lock" THEN 1 ELSE 0

LockTypes ==
  /\ \A s \in Sessions : ex[s] \in Nat /\ sh[s] \in Nat /\ Nested(s) <= MaxNest
  /\ \A s \in Sessions : op[s].cmd \in CommandNames
  /\ key \in [Ports -> Keys]
  /\ orphaned \subseteq Ports \X Types
  /\ erred \subseteq sessions
  /\ ordered \subseteq Threads
  /\ \A s \in Sessions \ sessions : op[s] = Idle /\ told[s] = << >>

\* What is to be shown of a step of session s.
LEMMA LockTypesKept ==
  ASSUME ModeInv, LockTypes, NEW s \in sessions, Does(s),
         NEW e \in Nat, NEW h \in Nat,
         ex' = [ex EXCEPT ![s] = e], sh' = [sh EXCEPT ![s] = h],
         e + h + (IF op'[s].cmd = "lock" THEN 1 ELSE 0) <= MaxNest,
         op'[s].cmd \in CommandNames, key' \in [Ports -> Keys],
         orphaned' \subseteq Ports \X Types, erred' \subseteq sessions,
         ordered' \subseteq Threads
  PROVE  LockTypes'
<1>1. /\ s \in Sessions /\ sessions' = sessions
      /\ \A t \in Sessions \ {s} : op'[t] = op[t] /\ told'[t] = told[t]
      /\ ex = [t \in Sessions |-> ex[t]] /\ sh = [t \in Sessions |-> sh[t]]
  BY Alone, LocksAssumption DEF ModeInv, LocksInv, Shape
<1>2. ex'[s] = e /\ sh'[s] = h
      /\ \A t \in Sessions \ {s} : ex'[t] = ex[t] /\ sh'[t] = sh[t]
  BY <1>1
<1>3. ASSUME NEW t \in Sessions
      PROVE  /\ ex'[t] \in Nat /\ sh'[t] \in Nat /\ Nested(t)' <= MaxNest
             /\ op'[t].cmd \in CommandNames
  BY <1>1, <1>2, <1>3 DEF LockTypes, Nested
<1>4. \A t \in Sessions \ sessions : op'[t] = Idle /\ told'[t] = << >>
  BY <1>1 DEF LockTypes
<1> QED
  BY <1>1, <1>3, <1>4 DEF LockTypes

\* A step that leaves the locks alone, and does not begin to wait for one.
LEMMA LockTypesStay ==
  ASSUME ModeInv, LockTypes, NEW s \in sessions, Does(s),
         ex' = ex, sh' = sh, key' = key, orphaned' = orphaned,
         op'[s].cmd \in CommandNames \ {"lock"}, erred' \subseteq sessions,
         ordered' \subseteq Threads
  PROVE  LockTypes'
<1>1. /\ s \in Sessions /\ ex[s] \in Nat /\ sh[s] \in Nat /\ Nested(s) <= MaxNest
      /\ ex' = [ex EXCEPT ![s] = ex[s]] /\ sh' = [sh EXCEPT ![s] = sh[s]]
  BY LocksAssumption DEF ModeInv, LocksInv, Shape, LockTypes
<1>2. ex[s] + sh[s] + (IF op'[s].cmd = "lock" THEN 1 ELSE 0) <= MaxNest
  BY <1>1, LocksAssumption DEF Nested
<1>3. key' \in [Ports -> Keys] /\ orphaned' \subseteq Ports \X Types /\ op'[s].cmd \in CommandNames
  BY DEF LockTypes
<1> QED
  BY <1>1, <1>2, <1>3, LockTypesKept

LEMMA ErredStays ==
  ASSUME erred \subseteq sessions, NEW s \in sessions,
         NEW stored, NEW code, NEW value, Finish(s, stored, code, value)
  PROVE  erred' \subseteq sessions
BY DEF Finish

\* What becomes of the access keys when a session has h shared locks left.
LEMMA KeysStay ==
  ASSUME key \in [Ports -> Keys], NEW s \in sessions, NEW e, NEW h, DropLocks(s, e, h)
  PROVE  key' \in [Ports -> Keys]
BY DEF DropLocks, Keys

LEMMA WaitTypes ==
  ASSUME ModeInv, LockTypes, NEW s \in sessions, Does(s),
         tclvisa_lock(s) \/ LockFails(s) \/ LockReturns(s)
  PROVE  LockTypes'
<1>1. /\ s \in Sessions /\ PortOf[s] \in Ports /\ ex[s] \in Nat /\ sh[s] \in Nat
      /\ Nested(s) <= MaxNest /\ MaxNest \in Nat \ {0} /\ op = [t \in Sessions |-> op[t]]
      /\ ex = [t \in Sessions |-> ex[t]] /\ sh = [t \in Sessions |-> sh[t]]
      /\ key \in [Ports -> Keys] /\ erred \subseteq sessions /\ ordered \subseteq Threads
      /\ orphaned \subseteq Ports \X Types
  BY LocksAssumption DEF ModeInv, LocksInv, Shape, LockTypes, Ports
<1>2. CASE tclvisa_lock(s)
  <2>1. PICK args : Start(s, "lock", <<args>>)
    BY <1>2 DEF tclvisa_lock
  <2>2. op'[s].cmd = "lock" /\ erred' \subseteq sessions
    BY <1>1, <2>1 DEF Start
  <2>3. ex[s] + sh[s] < MaxNest
    BY <1>1, <1>2 DEF tclvisa_lock
  <2>4. ex[s] + sh[s] + (IF op'[s].cmd = "lock" THEN 1 ELSE 0) <= MaxNest
    BY <1>1, <2>2, <2>3
  <2>5. /\ ex' = [ex EXCEPT ![s] = ex[s]] /\ sh' = [sh EXCEPT ![s] = sh[s]]
        /\ key' \in [Ports -> Keys] /\ ordered' \subseteq Threads
        /\ orphaned' \subseteq Ports \X Types
    BY <1>1, <1>2 DEF tclvisa_lock
  <2>6. op'[s].cmd \in CommandNames
    BY <2>2 DEF CommandNames
  <2> QED
    BY <1>1, <2>2, <2>4, <2>5, <2>6, LockTypesKept
<1>3. ASSUME NEW r, NEW status, LockEnded(s, r, status)
      PROVE  op'[s].cmd = "idle" /\ erred' \subseteq sessions
  <2>1. op' = [op EXCEPT ![s] = Idle]
    BY <1>3, Ends DEF LockEnded
  <2>2. erred' \subseteq sessions
    BY <1>1, <1>3, ErredStays DEF LockEnded
  <2> QED
    BY <1>1, <2>1, <2>2 DEF Idle
<1>4. "idle" \in CommandNames \ {"lock"}
  BY DEF CommandNames
<1>5. CASE LockFails(s)
  <2>1. op'[s].cmd = "idle" /\ erred' \subseteq sessions
    BY <1>3, <1>5 DEF LockFails
  <2> QED
    BY <1>1, <1>4, <1>5, <2>1, LockTypesStay DEF LockFails
<1>6. CASE LockReturns(s)
  <2> DEFINE args == op[s].todo[1]
             r == LockRequest(args)
  <2>1. PICK status :
          /\ IF IsError(status) THEN UNCHANGED <<ex, sh, key>>
             ELSE IF r.type = "exclusive"
               THEN /\ ex' = [ex EXCEPT ![s] = @ + 1]
                    /\ UNCHANGED <<sh, key>>
               ELSE /\ sh' = [sh EXCEPT ![s] = @ + 1]
                    /\ key' = [key EXCEPT ![PortOf[s]] =
                                 IF sh[s] > 0 \/ SharedElsewhere(s) THEN @
                                 ELSE IF r.key = NoKey THEN "generated" ELSE r.key]
                    /\ UNCHANGED ex
          /\ LockEnded(s, r, status)
    BY <1>6 DEF LockReturns
  <2>2. op'[s].cmd = "idle" /\ erred' \subseteq sessions
    BY <1>3, <2>1
  <2>3. ex[s] + sh[s] + 1 <= MaxNest
    BY <1>1, <1>6 DEF LockReturns, Nested
  <2>4. r.key \in Keys
    <3>1. args \in {<< >>} \cup LockArgs
      <4>1. PICK a \in {<< >>} \cup LockArgs : op[s].todo = <<a>>
        BY <1>6 DEF LockReturns, ModeInv, LocksInv, Commands
      <4> QED
        BY <4>1
    <3>2. Len(args) > 2 => args[3] = "K"
      <4>1. CASE args = << >>
        BY <4>1
      <4>2. CASE \E t \in Types : args = <<t>>
        BY <4>2
      <4>3. CASE args \in Types \X Waits
        BY <4>3
      <4>4. CASE args \in Types \X Waits \X {"K"}
        BY <4>4
      <4> HIDE DEF args
      <4> QED
        BY <3>1, <4>1, <4>2, <4>3, <4>4, LocksAssumption
    <3> HIDE DEF args
    <3> QED
      BY <3>2 DEF LockRequest, Keys
  <2> HIDE DEF r
  <2>5. key' \in [Ports -> Keys]
    <3>1. \/ key' = key
          \/ key' = [key EXCEPT ![PortOf[s]] = key[PortOf[s]]]
          \/ key' = [key EXCEPT ![PortOf[s]] = "generated"]
          \/ key' = [key EXCEPT ![PortOf[s]] = r.key]
      BY <2>1
    <3> QED
      BY <1>1, <2>4, <3>1 DEF Keys
  <2>6. PICK e \in Nat, h \in Nat :
          ex' = [ex EXCEPT ![s] = e] /\ sh' = [sh EXCEPT ![s] = h] /\ e + h <= MaxNest
    <3>1. CASE UNCHANGED <<ex, sh>>
      <4>1. ex' = [ex EXCEPT ![s] = ex[s]] /\ sh' = [sh EXCEPT ![s] = sh[s]]
        BY <1>1, <3>1
      <4>2. ex[s] + sh[s] <= MaxNest
        BY <1>1, <2>3
      <4> QED
        BY <1>1, <4>1, <4>2
    <3>2. CASE ex' = [ex EXCEPT ![s] = ex[s] + 1] /\ sh' = sh
      <4>1. sh' = [sh EXCEPT ![s] = sh[s]]
        BY <1>1, <3>2
      <4>2. (ex[s] + 1) + sh[s] <= MaxNest /\ ex[s] + 1 \in Nat
        BY <1>1, <2>3
      <4> QED
        BY <1>1, <3>2, <4>1, <4>2
    <3>3. CASE sh' = [sh EXCEPT ![s] = sh[s] + 1] /\ ex' = ex
      <4>1. ex' = [ex EXCEPT ![s] = ex[s]]
        BY <1>1, <3>3
      <4>2. ex[s] + (sh[s] + 1) <= MaxNest /\ sh[s] + 1 \in Nat
        BY <1>1, <2>3
      <4> QED
        BY <1>1, <3>3, <4>1, <4>2
    <3> QED
      BY <2>1, <3>1, <3>2, <3>3
  <2>7. e + h + (IF op'[s].cmd = "lock" THEN 1 ELSE 0) <= MaxNest
    BY <2>2, <2>6
  <2>8. orphaned' \subseteq Ports \X Types /\ ordered' \subseteq Threads
    BY <1>1, <1>6 DEF LockReturns
  <2> QED
    BY <1>4, <2>2, <2>5, <2>6, <2>7, <2>8, LockTypesKept
<1> QED
  BY <1>2, <1>5, <1>6

LEMMA ReleaseTypes ==
  ASSUME ModeInv, LockTypes, NEW s \in sessions, Does(s), tclvisa_unlock(s) \/ Reopen(s)
  PROVE  LockTypes'
<1>1. /\ s \in Sessions /\ PortOf[s] \in Ports /\ ex[s] \in Nat /\ sh[s] \in Nat
      /\ Nested(s) <= MaxNest /\ MaxNest \in Nat \ {0} /\ op = [t \in Sessions |-> op[t]]
      /\ key \in [Ports -> Keys] /\ erred \subseteq sessions /\ ordered \subseteq Threads
      /\ orphaned \subseteq Ports \X Types
  BY LocksAssumption DEF ModeInv, LocksInv, Shape, LockTypes, Ports
<1>2. ex[s] + sh[s] <= MaxNest
  BY <1>1 DEF Nested
<1>3. op'[s].cmd = "idle"
  <2>1. CASE tclvisa_unlock(s)
    <3>1. op' = [op EXCEPT ![s] = Idle]
      BY <2>1, Ends DEF tclvisa_unlock
    <3> QED
      BY <1>1, <3>1 DEF Idle
  <2>2. CASE Reopen(s)
    <3>1. op'[s] = Idle
      BY <2>2 DEF Reopen, Ready
    <3> QED
      BY <3>1 DEF Idle
  <2> QED
    BY <2>1, <2>2
<1>4. "idle" \in CommandNames \ {"lock"}
  BY DEF CommandNames
<1>5. erred' \subseteq sessions /\ ordered' \subseteq Threads
  BY <1>1, ErredStays DEF tclvisa_unlock, Reopen
<1>6. orphaned' \subseteq Ports \X Types
  BY <1>1 DEF tclvisa_unlock, Reopen, Types
<1>7. ASSUME NEW e \in Nat, NEW h \in Nat, e + h <= MaxNest,
             ex' = [ex EXCEPT ![s] = e], sh' = [sh EXCEPT ![s] = h], key' \in [Ports -> Keys]
      PROVE  LockTypes'
  <2>1. e + h + (IF op'[s].cmd = "lock" THEN 1 ELSE 0) <= MaxNest
    BY <1>3, <1>7
  <2> QED
    BY <1>3, <1>4, <1>5, <1>6, <1>7, <2>1, LockTypesKept
<1>8. ASSUME NEW e \in Nat, NEW h \in Nat, e + h <= MaxNest, DropLocks(s, e, h)
      PROVE  LockTypes'
  BY <1>1, <1>7, <1>8, KeysStay DEF DropLocks
<1>9. CASE tclvisa_unlock(s)
  <2>1. CASE ex[s] > 0 /\ DropLocks(s, ex[s] - 1, sh[s])
    <3>1. ex[s] - 1 \in Nat /\ (ex[s] - 1) + sh[s] <= MaxNest
      BY <1>1, <1>2, <2>1
    <3> QED
      BY <1>1, <1>8, <2>1, <3>1
  <2>2. CASE ex[s] = 0 /\ sh[s] > 0 /\ DropLocks(s, 0, sh[s] - 1)
    <3>1. sh[s] - 1 \in Nat /\ 0 + (sh[s] - 1) <= MaxNest
      BY <1>1, <1>2, <2>2
    <3> QED
      BY <1>1, <1>8, <2>2, <3>1
  <2>3. CASE UNCHANGED <<ex, sh, key>>
    BY <1>3, <1>4, <1>5, <1>9, <2>3, LockTypesStay DEF tclvisa_unlock
  <2> QED
    BY <1>9, <2>1, <2>2, <2>3 DEF tclvisa_unlock
<1>10. CASE Reopen(s)
  <2>1. \/ DropLocks(s, 0, 0)
        \/ ex' = [ex EXCEPT ![s] = 0] /\ sh' = [sh EXCEPT ![s] = 0] /\ key' = key
    BY <1>10 DEF Reopen
  <2>2. 0 + 0 <= MaxNest
    BY <1>1
  <2> QED
    BY <1>1, <1>7, <1>8, <2>1, <2>2
<1> QED
  BY <1>9, <1>10

LEMMA OptionTypes ==
  ASSUME ModeInv, LockTypes, NEW s \in sessions, Does(s),
         \/ setOptionProc(s) \/ tclvisa_set_attribute(s) \/ getOptionProc(s)
         \/ SetNext(s) \/ GetNext(s)
  PROVE  LockTypes'
<1>1. /\ s \in Sessions /\ op = [t \in Sessions |-> op[t]]
      /\ erred \subseteq sessions /\ ordered \subseteq Threads
  BY LocksAssumption DEF ModeInv, LocksInv, Shape, LockTypes
<1>2. ex' = ex /\ sh' = sh /\ key' = key /\ orphaned' = orphaned /\ ordered' = ordered
  BY DEF setOptionProc, tclvisa_set_attribute, getOptionProc, SetNext, GetNext, Unlocked
<1>3. /\ "idle" \in CommandNames \ {"lock"} /\ Setting \subseteq CommandNames \ {"lock"}
      /\ DOMAIN Reads \subseteq CommandNames \ {"lock"}
  BY DEF CommandNames, Setting, Reads
<1>4. ASSUME NEW cmd \in CommandNames \ {"lock"}, NEW todo, Start(s, cmd, todo)
      PROVE  op'[s].cmd \in CommandNames \ {"lock"} /\ erred' \subseteq sessions
  BY <1>1, <1>4 DEF Start
<1>5. ASSUME NEW stored, NEW code, NEW value, Finish(s, stored, code, value)
      PROVE  op'[s].cmd \in CommandNames \ {"lock"} /\ erred' \subseteq sessions
  <2>1. op'[s] = Idle
    BY <1>1, <1>5 DEF Finish
  <2>2. op'[s].cmd = "idle"
    BY <2>1 DEF Idle
  <2> QED
    BY <1>1, <1>3, <1>5, <2>2, ErredStays
<1>6. CASE setOptionProc(s) \/ tclvisa_set_attribute(s)
  <2>1. \/ \E cmd \in Setting : \E todo : Start(s, cmd, todo)
        \/ Finish(s, None, "bad", NoMode)
    BY <1>6 DEF setOptionProc, setMode, setXchar, setHandshake, setRefused, setControl,
                tclvisa_set_attribute, Setting
  <2> QED
    BY <1>2, <1>3, <1>4, <1>5, <1>1, <2>1, LockTypesStay
<1>7. CASE getOptionProc(s)
  <2>1. PICK option \in DOMAIN Reads : Start(s, option, Reads[option])
    BY <1>7 DEF getOptionProc
  <2> QED
    BY <1>1, <1>2, <1>3, <1>4, <2>1, LockTypesStay
<1>8. ASSUME NEW x, x.cmd \in CommandNames \ {"lock"}, op' = [op EXCEPT ![s] = x], erred' = erred
      PROVE  op'[s].cmd \in CommandNames \ {"lock"} /\ erred' \subseteq sessions
  BY <1>1, <1>8
<1>9. CASE SetNext(s)
  <2> DEFINE x == [cmd |-> op[s].cmd, todo |-> Tail(op[s].todo), got |-> << >>, status |-> SUCCESS]
  <2>1. x.cmd \in CommandNames \ {"lock"}
    BY <1>3, <1>9 DEF SetNext
  <2>2. \/ \E stored, code, value : Finish(s, stored, code, value)
        \/ op' = [op EXCEPT ![s] = x] /\ erred' = erred
    BY <1>1, <1>9 DEF SetNext
  <2> HIDE DEF x
  <2> QED
    BY <1>1, <1>2, <1>5, <1>8, <2>1, <2>2, LockTypesStay
<1>10. CASE GetNext(s)
  <2>1. \/ \E stored, code, value : Finish(s, stored, code, value)
        \/ \E got, status :
             /\ op' = [op EXCEPT ![s] = [cmd |-> op[s].cmd, todo |-> Tail(op[s].todo),
                                         got |-> got, status |-> status]]
             /\ erred' = erred
    BY <1>1, <1>10 DEF GetNext
  <2>2. op[s].cmd \in CommandNames \ {"lock"}
    BY <1>3, <1>10 DEF GetNext
  <2>3. CASE \E stored, code, value : Finish(s, stored, code, value)
    BY <1>1, <1>2, <1>5, <2>3, LockTypesStay
  <2>4. ASSUME NEW got, NEW status, erred' = erred,
               op' = [op EXCEPT ![s] = [cmd |-> op[s].cmd, todo |-> Tail(op[s].todo),
                                        got |-> got, status |-> status]]
        PROVE  LockTypes'
    <3>1. op'[s].cmd = op[s].cmd
      BY <1>1, <2>4
    <3> QED
      BY <1>1, <1>2, <2>2, <2>4, <3>1, LockTypesStay
  <2> QED
    BY <2>1, <2>3, <2>4
<1> QED
  BY <1>6, <1>7, <1>9, <1>10

LEMMA LockTypesStep == ASSUME ModeInv, LockTypes, [Next]_vars PROVE LockTypes'
<1>1. CASE UNCHANGED vars
  BY <1>1 DEF vars, lockVars, LockTypes, Nested
<1>2. CASE Next
  <2>1. PICK s \in sessions : Does(s)
    BY <1>2, NextDoes
  <2> QED
    BY <2>1, WaitTypes, ReleaseTypes, OptionTypes DEF Does
<1> QED
  BY <1>1, <1>2

LEMMA LockTypesInitially == Init => LockTypes
<1> SUFFICES ASSUME Init PROVE LockTypes
  OBVIOUS
<1>1. \A s \in Sessions : op[s] = Idle /\ told[s] = << >> /\ ex[s] = 0 /\ sh[s] = 0
  BY DEF Init, LocksInit
<1>2. \A s \in Sessions : op[s].cmd = "idle"
  BY <1>1 DEF Idle
<1>3. key \in [Ports -> Keys]
  BY DEF Init, LocksInit, Keys
<1> QED
  BY <1>1, <1>2, <1>3, LocksAssumption DEF Init, LocksInit, LockTypes, Nested, CommandNames

\* A command is over exactly when it has no calls left.
LEMMA NoCallsLeft ==
  ASSUME ReadInv, LockTypes, Readings, NEW s \in Sessions
  PROVE  op[s] = Idle <=> op[s].todo = << >>
<1>1. Idle.todo = << >>
  BY DEF Idle
<1>2. CASE s \notin sessions
  BY <1>1, <1>2 DEF LockTypes
<1>3. CASE s \in sessions /\ op[s].cmd = "idle"
  BY <1>1, <1>3 DEF ReadInv, ModeInv, LocksInv, Commands
<1>4. ASSUME s \in sessions, op[s].cmd # "idle" PROVE op[s].todo # << >>
  <2>1. CASE op[s].cmd = "lock"
    <3>1. PICK args \in {<< >>} \cup LockArgs : op[s].todo = <<args>>
      BY <1>4, <2>1 DEF ReadInv, ModeInv, LocksInv, Commands
    <3> QED
      BY <3>1
  <2>2. CASE op[s].cmd \in Setting
    <3>1. CallsLeft(op[s], asked[s])
      BY <1>4 DEF ReadInv, ModeInv, Calls
    <3> QED
      BY <2>2, <3>1 DEF CallsLeft
  <2>3. CASE op[s].cmd \in DOMAIN Reads
    <3>1. Reading(op[s])
      BY <1>4, <2>3 DEF Readings
    <3> QED
      BY <3>1 DEF Reading
  <2>4. op[s].cmd \in CommandNames
    BY DEF LockTypes
  <2> QED
    BY <1>4, <2>1, <2>2, <2>3, <2>4 DEF CommandNames
<1> QED
  BY <1>1, <1>2, <1>3, <1>4

LEMMA ToldTypes ==
  ASSUME ModeInv, LockTypes, NEW s \in Sessions
  PROVE  told[s] \in UNION {[1 .. n -> Types] : n \in 0 .. MaxNest}
<1>1. ex[s] \in Nat /\ sh[s] \in Nat /\ ex[s] + sh[s] <= MaxNest /\ MaxNest \in Nat
  <2>1. ex[s] \in Nat /\ sh[s] \in Nat /\ Nested(s) <= MaxNest /\ MaxNest \in Nat
    BY LocksAssumption DEF LockTypes
  <2> QED
    BY <2>1 DEF Nested
<1>2. PICK n \in 0 .. MaxNest : told[s] \in [1 .. n -> Types]
  <2>1. CASE s \in sessions
    <3>1. told[s] \in Seq(Types) /\ Len(told[s]) = sh[s] + ex[s]
      BY <2>1 DEF ModeInv, LocksInv, Tells
    <3>2. told[s] \in [1 .. Len(told[s]) -> Types]
      BY <3>1
    <3> QED
      BY <1>1, <3>1, <3>2
  <2>2. CASE s \notin sessions
    <3>1. told[s] = << >>
      BY <2>2 DEF LockTypes
    <3>2. << >> \in [1 .. 0 -> Types]
      OBVIOUS
    <3> QED
      BY <1>1, <3>1, <3>2
  <2> QED
    BY <2>1, <2>2
<1> QED
  BY <1>2

LEMMA PortTypes == ASSUME PortShape, PortsGood PROVE port \in [Ports -> Modes]
<1>1. /\ Domains["BAUD"] = Nat
      /\ Domains["PARITY"] = {Parities[p] : p \in DOMAIN Parities}
      /\ Domains["DATA"] = 5 .. 8
      /\ Domains["STOP"] = StopBits
  BY DEF Domains
<1>2. ASSUME NEW p \in Ports PROVE port[p] \in Modes
  <2>1. port[p] = [BAUD |-> port[p].BAUD, PARITY |-> port[p].PARITY,
                   DATA |-> port[p].DATA, STOP |-> port[p].STOP]
    BY DEF PortShape
  <2>2. /\ port[p].BAUD \in Nat /\ port[p].PARITY \in {Parities[q] : q \in DOMAIN Parities}
        /\ port[p].DATA \in 5 .. 8 /\ port[p].STOP \in StopBits
    BY <1>1 DEF PortsGood, Attributes
  <2> QED
    BY <2>1, <2>2 DEF Modes
<1> QED
  BY <1>2 DEF PortShape, PortsOnly

LEMMA TypesHold ==
  ASSUME ReadInv, LockTypes, Readings
  PROVE  TypeOK
<1>1. ModeInv /\ LocksInv /\ Shape /\ PortShape
  BY DEF ReadInv, ModeInv, LocksInv
<1>2. ASSUME NEW s \in Sessions PROVE ex[s] \in 0 .. MaxNest /\ sh[s] \in 0 .. MaxNest
  <2>1. ex[s] \in Nat /\ sh[s] \in Nat /\ Nested(s) <= MaxNest /\ MaxNest \in Nat
    BY LocksAssumption DEF LockTypes
  <2> QED
    BY <2>1 DEF Nested
<1>3. ex \in [Sessions -> 0 .. MaxNest] /\ sh \in [Sessions -> 0 .. MaxNest]
  BY <1>1, <1>2 DEF Shape
<1>4. told \in [Sessions -> UNION {[1 .. n -> Types] : n \in 0 .. MaxNest}]
  BY <1>1, ToldTypes DEF Shape
<1>5. asked \in [Sessions -> SUBSET Requested]
  BY <1>1 DEF PortShape, ReadInv
<1>6. port \in [Ports -> Modes]
  BY <1>1, PortTypes DEF ReadInv
<1>7. \A s \in Sessions : op[s] = Idle <=> op[s].todo = << >>
  BY NoCallsLeft
<1>8. sessions \in Layouts
  BY <1>1 DEF Shape
<1> QED
  BY <1>3, <1>4, <1>5, <1>6, <1>7, <1>8 DEF TypeOK, LocksTypeOK, LockTypes, Keys

\* Every value the driver passes to VISA is one VISA defines, and no session
\* holds more locks than it was let take, whichever sessions' calls mix.
THEOREM TypeCorrect == Spec => []TypeOK
<1> DEFINE Inv == ReadInv /\ ModeReadsBack /\ LockTypes /\ Readings /\ LastErrorExplains
<1>1. Init => Inv
  <2> SUFFICES ASSUME Init PROVE Readings /\ LastErrorExplains
    BY ReadInitially, LockTypesInitially
  <2>1. \A s \in sessions : op[s].cmd = "idle"
    BY LocksAssumption DEF Init, LocksInit, Idle
  <2>2. "idle" \notin DOMAIN Reads
    BY DEF Reads
  <2>3. LastErrorExplains
    BY DEF Init, LocksInit, LastErrorExplains, NoAnswer, None
  <2> QED
    BY <2>1, <2>2, <2>3 DEF Readings
<1>2. Inv /\ [Next]_vars => Inv'
  BY ReadInvStep, LockTypesStep, ErrorsStep DEF ReadInv, ModeInv
<1>3. Inv => TypeOK
  BY TypesHold
<1> QED
  BY <1>1, <1>2, <1>3, PTL DEF Spec
================================================================================
