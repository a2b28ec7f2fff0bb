---------------------------- MODULE MCCheckpoint ----------------------------
(***************************************************************************)
(* Instances of Checkpoint for TLC: m runs on the master, a and b on slave *)
(* 1, c on slave 2.  The globals are g1 and, registered last, g2.          *)
(***************************************************************************)
EXTENDS Checkpoint

Nodes == [t \in Thread |-> CASE t = "m" -> 0 [] t \in {"a", "b"} -> 1 [] t = "c" -> 2]

\* Three nodes with a thread each, or two threads on a slave.
ApartOrTogether == {{"m", "a", "c"}, {"m", "a", "b"}}

Registered == <<"g1", "g2">>
ByMaster == [o \in Object |-> 0]

\* Every slave thread writes an object, the slaves' first one a global as well.
WritesObjects == [t \in Thread |-> CASE t = "m" -> {} [] t = "a" -> {"g1", "oa"} [] OTHER -> {"oc"}]
=============================================================================
