---------------------------- MODULE MCMapReduce -----------------------------
(***************************************************************************)
(* Instances of MapReduce for TLC: m runs on the master, c on node 1, node *)
(* 2 has no user.  Every (user, round) accumulates a digit of its own.     *)
(***************************************************************************)
EXTENDS MapReduce

Nodes == [u \in User |-> IF u = "m" THEN 0 ELSE 1]
Digits == [u \in User |-> [r \in 1 .. MaxRounds |-> 5^(2*r + NodeOf[u])]]

\* c's second Map may begin while the master reduces.
Overlapping == [m |-> <<"acc", "map", "reduce", "map", "reduce", "acc">>,
                c |-> <<"acc", "map", "reduce", "map", "acc">>]
Alternating == [m |-> <<"acc", "map", "reduce", "acc", "map", "reduce">>,
                c |-> <<"acc", "map", "acc", "map">>]
BothPrograms == {Overlapping, Alternating}
=============================================================================
