------------------------------- MODULE MCSync -------------------------------
(***************************************************************************)
(* Instances of SyncManager for TLC.  Thread m runs on the master, a and b *)
(* on slave 1, c on slave 2, so that a direct call, two threads sharing a  *)
(* socket and two sockets racing all occur.                                *)
(***************************************************************************)
EXTENDS SyncManager

None == {}
Nodes == [t \in Thread |-> CASE t = "m" -> 0 [] t \in {"a", "b"} -> 1 [] t = "c" -> 2]

ThreadsMAC  == {"m", "a", "c"}
ThreadsMABC == {"m", "a", "b", "c"}

Barriers   == {"bar"}
Semaphores == {"sem"}
Events     == {"ev"}

One  == [o \in Barrier \cup Semaphore |-> 1]
Nil  == [o \in Barrier \cup Semaphore |-> 0]
On   == [e \in Event |-> 1]
Off  == [e \in Event |-> 0]
Lock == [t \in Thread |-> {"Acquire", "Release"} \X Semaphore]

\* Timed waits on an event, and a Release nobody's Acquire comes before.
SetWaitReset == [t \in Thread |->
  (CASE t = "m" -> {"Set"} [] t = "a" -> {"Wait", "Reset"} [] OTHER -> {"Wait"}) \X Event
  \cup (IF t = "a" THEN {"Release"} ELSE {}) \X Semaphore]

\* m, a and b meet at the barrier, m and a share a lock; c sets the event that m waits
\* for, as a thread does that is joined.
Everything == [t \in Thread |->
  (IF t = "c" THEN {} ELSE {"Enter"}) \X Barrier
  \cup (IF t \in {"m", "a"} THEN {"Acquire", "Release"} ELSE {}) \X Semaphore
  \cup (CASE t = "c" -> {"Set"} [] t = "m" -> {"Wait"} [] OTHER -> {}) \X Event]
ThreeAndOne == [o \in Barrier \cup Semaphore |-> IF o \in Barrier THEN 3 ELSE 1]
=============================================================================
