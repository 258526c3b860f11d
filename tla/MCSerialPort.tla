---------------------------- MODULE MCSerialPort ----------------------------
(***************************************************************************)
(* Three layouts.  Two threads on one port, one of which uses everything,  *)
(* with two modes, one of them bad.  Two threads that lock two ports.  One *)
(* thread that has opened its port twice.                                  *)
(***************************************************************************)
EXTENDS SerialPort

MCLayouts == {{"s1", "s2"}, {"a1", "a2", "b1", "b2"}, {"a1", "c1"}}
MCSessions == UNION MCLayouts
MCThread == [s \in MCSessions |-> IF s \in {"s1", "a1", "a2", "c1"} THEN "t1" ELSE "t2"]
MCPortOf == [s \in MCSessions |-> IF s \in {"a2", "b2"} THEN 2 ELSE 1]

MCModeArgs ==
  {[baud |-> 300,  parity |-> "e", data |-> 8, stop |-> 2],
   [baud |-> 9600, parity |-> "n", data |-> 8, stop |-> 3]}

MCControlArgs == {<<"DTR", "RING">>}

MCLockArgs == {<< >>, <<"exclusive", "finite", "K">>, <<"shared", "infinite">>,
               <<"shared", "finite", "K">>}
=============================================================================
