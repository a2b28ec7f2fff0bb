------------------------------ MODULE SyncSpec ------------------------------
(***************************************************************************)
(* What DBarrier, DSemaphore and DEvent promise to the threads that call   *)
(* them, with no master, socket, local Event or wait list: when a blocking *)
(* call may return.                                                        *)
(***************************************************************************)
EXTENDS Integers

CONSTANTS Thread, Barrier, Semaphore, Event, Count, AutoReset, IsSignal,
          Parties(_)    \* the threads that meet at a barrier

Object == Barrier \cup Semaphore \cup Event

VARIABLES
  began,   \* per thread and object, blocking calls begun
  ended,   \* per thread and object, blocking calls that returned
  freed,   \* per object, Release / Set calls that took effect
  taken    \* per object, blocking calls that returned

vars == <<began, ended, freed, taken>>

Zero == [o \in Object |-> 0]

Init ==
  /\ began = [t \in Thread |-> Zero]
  /\ ended = [t \in Thread |-> Zero]
  /\ freed = Zero
  /\ taken = Zero

Begin(t, o) ==
  /\ began[t][o] = ended[t][o]
  /\ began' = [began EXCEPT ![t][o] = @ + 1]
  /\ UNCHANGED <<ended, freed, taken>>

\* When a call that thread t has begun on o may return.
Open(t, o) ==
  \/ o \in Barrier   /\ \A u \in Parties(o) : ended[t][o] < began[u][o]
  \/ o \in Semaphore /\ taken[o] < Count[o] + freed[o]
  \/ o \in Event     /\ AutoReset[o] = 1 /\ taken[o] < IsSignal[o] + freed[o]
  \/ o \in Event     /\ AutoReset[o] = 0 /\ (IsSignal[o] = 1 \/ freed[o] > 0)

Return(t, o) ==
  /\ ended[t][o] < began[t][o]
  /\ Open(t, o)
  /\ ended' = [ended EXCEPT ![t][o] = @ + 1]
  /\ taken' = [taken EXCEPT ![o] = @ + 1]
  /\ UNCHANGED <<began, freed>>

Free(o) ==
  /\ o \in Semaphore \cup Event
  /\ freed' = [freed EXCEPT ![o] = @ + 1]
  /\ UNCHANGED <<began, ended, taken>>

Next ==
  \/ \E t \in Thread, o \in Object : Begin(t, o) \/ Return(t, o)
  \/ \E o \in Object : Free(o)

Spec == Init /\ [][Next]_vars
=============================================================================
