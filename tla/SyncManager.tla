---------------------------- MODULE SyncManager ----------------------------
(***************************************************************************)
(* Remote synchronisation of Dogee: DBarrier, DSemaphore and DEvent.       *)
(*                                                                         *)
(* A thread that calls Enter, Acquire or Wait clears its own local Event,  *)
(* hands the request to the master (by a call when it runs on node 0, over *)
(* the node's socket otherwise) and blocks on that local Event.  The       *)
(* master's SyncManager serialises the requests under one mutex, keeps one *)
(* SyncNode per object, and wakes threads: directly on node 0, with a      *)
(* WakeSync command elsewhere.  Release, Set and Reset do not block.       *)
(*                                                                         *)
(* The local Event carries no name of the call it answers: whatever wakes  *)
(* the thread ends the call it is blocked in.                              *)
(***************************************************************************)
EXTENDS Integers, Sequences, FiniteSets

CONSTANTS
  Thread,       \* the threads of the cluster that use the objects
  NodeOf,       \* the node each thread runs on; 0 is the master
  Barrier,      \* DBarrier objects
  Semaphore,    \* DSemaphore objects
  Event,        \* DEvent objects (a DThread is a manual-reset one)
  Count,        \* DSM field "count" of each barrier and semaphore
  AutoReset,    \* DSM field "auto_reset" of each event
  IsSignal,     \* DSM field "is_signal" of each event
  Uses,         \* the calls <<operation, object>> each thread's program makes
  Bracketed,    \* TRUE: a program releases a semaphore only while it holds it,
                \* and makes no blocking call meanwhile
  MayTimeOut,   \* TRUE: calls are made with a timeout >= 0
  MaxCalls      \* bound on the calls a thread makes on one object

Object == Barrier \cup Semaphore \cup Event

\* The calls of DBarrier, DSemaphore and DEvent that wait for an answer.
BlockingCall == ({"Enter"} \X Barrier) \cup ({"Acquire"} \X Semaphore)
                  \cup ({"Wait"} \X Event)
\* The calls that return as soon as the request is handed over.
PostingCall  == ({"Release"} \X Semaphore) \cup ({"Set", "Reset"} \X Event)
Call == BlockingCall \cup PostingCall

\* The threads that meet at barrier b.
Parties(b) == {t \in Thread : <<"Enter", b>> \in Uses[t]}

ASSUME ThreadAssumption  == IsFiniteSet(Thread) /\ NodeOf \in [Thread -> Nat]
ASSUME ObjectAssumption  == /\ Barrier \cap Semaphore = {}
                            /\ Barrier \cap Event = {}
                            /\ Semaphore \cap Event = {}
ASSUME FieldAssumption   == /\ Count \in [Barrier \cup Semaphore -> Nat]
                            /\ AutoReset \in [Event -> {0, 1}]
                            /\ IsSignal \in [Event -> {0, 1}]
ASSUME ProgramAssumption == /\ Uses \in [Thread -> SUBSET Call]
                            /\ Bracketed \in BOOLEAN
                            /\ MayTimeOut \in BOOLEAN
                            /\ MaxCalls \in Nat

Slave == {NodeOf[t] : t \in Thread} \ {0}

VARIABLES
  pc,        \* where each thread is: idle, send, wait or dead (event erased)
  call,      \* the blocking call the thread is in, or was in last
  ready,     \* "ready" of the thread's local Event in ThreadEventMap
  toMaster,  \* per slave, the requests in its socket to the master
  wakes,     \* per thread, the WakeSync commands on their way to it
  sync,      \* sync_data: the SyncNode of each object
  crashed,   \* nodes whose process died
  listening, \* RcMasterListen is still in its loop
  began,     \* per thread and object, blocking calls begun
  ended,     \* per thread and object, blocking calls that returned true
  posted,    \* per thread and object, non-blocking calls made
  freed,     \* per object, Release / Set requests the master has handled
  taken      \* per object, blocking calls that returned true

mem  == <<toMaster, wakes, sync, crashed, listening>>
hist == <<began, ended, posted, freed, taken>>
vars == <<pc, call, ready, mem, hist>>
-----------------------------------------------------------------------------
(* Master: the SyncNodes.                                                  *)

SignalFieldSet(e) == 1                         \* mutant: is_signal not read
SignalField(e) == IsSignal[e]

\* What the first request that names the object builds from the DSM fields.
FreshNode(o) ==
  IF o \in Barrier THEN [made |-> TRUE, val |-> 0, data |-> Count[o], waits |-> <<>>]
  ELSE IF o \in Semaphore
       THEN [made |-> TRUE, val |-> Count[o], data |-> Count[o], waits |-> <<>>]
       ELSE [made |-> TRUE, val |-> SignalField(o), data |-> AutoReset[o], waits |-> <<>>]

SyncNode(o) == IF sync[o].made THEN sync[o] ELSE FreshNode(o)

Threads(ts) == {ts[i] : i \in DOMAIN ts}
Times(ts, t) == Cardinality({i \in DOMAIN ts : ts[i] = t})

\* RcWakeRemoteThread for every entry of ts.  A thread that deleted its local
\* Event leaves a null pointer under its id: waking it on node 0 kills the
\* master, waking it on a slave kills that slave when the command arrives.
Wake(ts) ==
  /\ ready' = [t \in Thread |->
                 IF NodeOf[t] = 0 /\ pc[t] # "dead" /\ t \in Threads(ts) THEN TRUE ELSE ready[t]]
  /\ wakes' = [t \in Thread |-> IF NodeOf[t] = 0 THEN wakes[t] ELSE wakes[t] + Times(ts, t)]
  /\ crashed' = IF \E t \in Threads(ts) : NodeOf[t] = 0 /\ pc[t] = "dead"
                THEN crashed \cup {0} ELSE crashed

WakeNone == UNCHANGED <<ready, wakes, crashed>>

\* Arrival at a barrier: the last of "data" arrivals releases everybody.
LastArrivalEarly(n) == n.val + 2 >= n.data     \* mutant: opens one too early
LastArrival(n) == n.val + 1 >= n.data
Reopen(n) == [n EXCEPT !.val = 0, !.waits = <<>>]
Released(n, t) == <<t>> \o n.waits

BarrierMsg(b, t) ==
  LET n == SyncNode(b) IN
  \/ /\ LastArrival(n)
     /\ sync' = [sync EXCEPT ![b] = Reopen(n)]
     /\ Wake(Released(n, t))
  \/ /\ ~LastArrival(n)
     /\ sync' = [sync EXCEPT ![b] = [n EXCEPT !.val = @ + 1, !.waits = Append(@, t)]]
     /\ WakeNone

HasUnit(n) == n.val - 1 >= 0

SemaphoreMsg(s, t) ==
  LET n == SyncNode(s) IN
  \/ /\ HasUnit(n)
     /\ sync' = [sync EXCEPT ![s] = [n EXCEPT !.val = @ - 1]]
     /\ Wake(<<t>>)
  \/ /\ ~HasUnit(n)
     /\ sync' = [sync EXCEPT ![s] = [n EXCEPT !.val = @ - 1, !.waits = Append(@, t)]]
     /\ WakeNone

\* A waiter is woken only when the incremented value is not negative.  The
\* first request being a Release dereferences the count as an address.
PassesOnPositive(n) == n.val + 1 > 0 /\ n.waits # <<>>   \* mutant: > for >=
PassesOn(n) == n.val + 1 >= 0 /\ n.waits # <<>>

SemaphoreLeaveMsg(s) ==
  LET n == sync[s] IN
  \/ /\ ~n.made
     /\ crashed' = crashed \cup {0}
     /\ UNCHANGED <<sync, ready, wakes>>
  \/ /\ n.made /\ PassesOn(n)
     /\ sync' = [sync EXCEPT ![s] = [n EXCEPT !.val = @ + 1, !.waits = Tail(@)]]
     /\ Wake(<<Head(n.waits)>>)
  \/ /\ n.made /\ ~PassesOn(n)
     /\ sync' = [sync EXCEPT ![s] = [n EXCEPT !.val = @ + 1]]
     /\ WakeNone

ConsumedNever(n) == n                          \* mutant: auto-reset forgotten
Consumed(n) == [n EXCEPT !.val = IF n.data # 0 THEN 0 ELSE @]

EventWaitMsg(e, t) ==
  LET n == SyncNode(e) IN
  \/ /\ n.val # 0
     /\ sync' = [sync EXCEPT ![e] = Consumed(n)]
     /\ Wake(<<t>>)
  \/ /\ n.val = 0
     /\ sync' = [sync EXCEPT ![e] = [n EXCEPT !.waits = Append(@, t)]]
     /\ WakeNone

\* Auto-reset: one waiter consumes the signal.  Manual: everybody passes and
\* the event stays signalled.
HandedOnSignalled(n) == [n EXCEPT !.val = 1, !.waits = Tail(@)] \* mutant: val kept
HandedOn(n) == [n EXCEPT !.val = 0, !.waits = Tail(@)]
WakesOne(n) == n.data # 0
Drained(n) == [n EXCEPT !.val = 1, !.waits = <<>>]

SetEventMsg(e) ==
  LET n == SyncNode(e) IN
  \/ /\ WakesOne(n) /\ n.waits # <<>>
     /\ sync' = [sync EXCEPT ![e] = HandedOn(n)]
     /\ Wake(<<Head(n.waits)>>)
  \/ /\ WakesOne(n) /\ n.waits = <<>>
     /\ sync' = [sync EXCEPT ![e] = [n EXCEPT !.val = 1]]
     /\ WakeNone
  \/ /\ ~WakesOne(n)
     /\ sync' = [sync EXCEPT ![e] = Drained(n)]
     /\ Wake(n.waits)

ResetEventMsg(e) ==
  /\ sync' = [sync EXCEPT ![e] = [SyncNode(e) EXCEPT !.val = 0]]
  /\ WakeNone

\* The request's handler, under the SyncManager mutex.
Handle(m) ==
  /\ \/ m.op = "Enter"   /\ BarrierMsg(m.obj, m.thread)
     \/ m.op = "Acquire" /\ SemaphoreMsg(m.obj, m.thread)
     \/ m.op = "Release" /\ SemaphoreLeaveMsg(m.obj)
     \/ m.op = "Wait"    /\ EventWaitMsg(m.obj, m.thread)
     \/ m.op = "Set"     /\ SetEventMsg(m.obj)
     \/ m.op = "Reset"   /\ ResetEventMsg(m.obj)
  /\ freed' = IF m.op \in {"Release", "Set"} THEN [freed EXCEPT ![m.obj] = @ + 1] ELSE freed

\* A request goes to the handler on the master, to the socket on a slave.
Post(m) ==
  \/ /\ NodeOf[m.thread] = 0
     /\ Handle(m)
     /\ UNCHANGED toMaster
  \/ /\ NodeOf[m.thread] # 0
     /\ toMaster' = [toMaster EXCEPT ![NodeOf[m.thread]] = Append(@, m)]
     /\ UNCHANGED <<ready, wakes, sync, crashed, freed>>
-----------------------------------------------------------------------------
(* Threads.                                                                *)

Request(t, c) == [op |-> c[1], obj |-> c[2], thread |-> t]
Alive(t) == NodeOf[t] \notin crashed

\* Number of units of semaphore s that t has acquired and not released.
Holds(t, s) == ended[t][s] - posted[t][s]

\* Event::ResetEvent on the caller's own local Event.
ResetLocalNever(t) == UNCHANGED ready          \* mutant: previous "ready" kept
ResetLocal(t) == ready' = [ready EXCEPT ![t] = FALSE]

\* RcEnterBarrier, RcEnterSemaphore, RcWaitForEvent: first the local Event is
\* reset ...
Begin(t) ==
  /\ Alive(t) /\ pc[t] = "idle"
  /\ \E c \in Uses[t] \cap BlockingCall :
       /\ began[t][c[2]] < MaxCalls
       /\ Bracketed => \A s \in Semaphore : Holds(t, s) = 0
       /\ call' = [call EXCEPT ![t] = c]
       /\ began' = [began EXCEPT ![t][c[2]] = @ + 1]
  /\ ResetLocal(t)
  /\ pc' = [pc EXCEPT ![t] = "send"]
  /\ UNCHANGED <<mem, ended, posted, freed, taken>>

\* ... then the request is handed over ...
Send(t) ==
  /\ Alive(t) /\ pc[t] = "send"
  /\ pc' = [pc EXCEPT ![t] = "wait"]
  /\ Post(Request(t, call[t]))
  /\ UNCHANGED <<call, listening, began, ended, posted, taken>>

\* ... and WaitForEvent returns once the local Event is ready ...
Return(t) ==
  /\ Alive(t) /\ pc[t] = "wait" /\ ready[t]
  /\ pc' = [pc EXCEPT ![t] = "idle"]
  /\ ended' = [ended EXCEPT ![t][call[t][2]] = @ + 1]
  /\ taken' = [taken EXCEPT ![call[t][2]] = @ + 1]
  /\ UNCHANGED <<call, ready, mem, began, posted, freed>>

\* ... or the timeout passes first.  Nothing tells the master.  wait_for can
\* report the timeout although SetEvent came in time to set "ready".
TimeOut(t) ==
  /\ MayTimeOut
  /\ Alive(t) /\ pc[t] = "wait"
  /\ pc' = [pc EXCEPT ![t] = "idle"]
  /\ UNCHANGED <<call, ready, mem, hist>>

\* RcLeaveSemaphore, RcSetEvent, RcResetEvent.
PostCall(t) ==
  /\ Alive(t) /\ pc[t] = "idle"
  /\ \E c \in Uses[t] \cap PostingCall :
       /\ posted[t][c[2]] < MaxCalls
       /\ (Bracketed /\ c[1] = "Release") => Holds(t, c[2]) > 0
       /\ Post(Request(t, c))
       /\ posted' = [posted EXCEPT ![t][c[2]] = @ + 1]
  /\ UNCHANGED <<pc, call, listening, began, ended, taken>>

\* The thread has made every call of its program.
Finished(t) ==
  \A c \in Uses[t] :
    IF c \in BlockingCall THEN began[t][c[2]] = MaxCalls
    ELSE IF Bracketed /\ c[1] = "Release" THEN Holds(t, c[2]) = 0
         ELSE posted[t][c[2]] = MaxCalls

\* RcDeleteThread: the local Event is deleted and its entry erased.
Exit(t) ==
  /\ Alive(t) /\ pc[t] = "idle" /\ Finished(t)
  /\ pc' = [pc EXCEPT ![t] = "dead"]
  /\ UNCHANGED <<call, ready, mem, hist>>
-----------------------------------------------------------------------------
(* The two receiving loops.                                                *)

\* RcMasterListen takes the next request of slave n from its socket.
MasterListen(n) ==
  /\ listening /\ 0 \notin crashed
  /\ toMaster[n] # <<>>
  /\ toMaster' = [toMaster EXCEPT ![n] = Tail(@)]
  /\ Handle(Head(toMaster[n]))
  /\ UNCHANGED <<pc, call, listening, began, ended, posted, taken>>

\* The socket of a dead slave is drained and recv fails: RcMasterListen
\* returns, and nobody reads the other slaves' requests any more.
ListenFails(n) ==
  /\ listening /\ 0 \notin crashed
  /\ n \in crashed /\ toMaster[n] = <<>>
  /\ listening' = FALSE
  /\ UNCHANGED <<pc, call, ready, toMaster, wakes, sync, crashed, hist>>

Received(t) == wakes[t] > 0

\* RcSlaveMainLoop takes a WakeSync command for thread t: RcSetRemoteEvent.
SlaveWake(t) ==
  /\ Alive(t) /\ Received(t)
  /\ wakes' = [wakes EXCEPT ![t] = @ - 1]
  /\ \/ /\ pc[t] # "dead"
        /\ ready' = [ready EXCEPT ![t] = TRUE]
        /\ UNCHANGED crashed
     \/ /\ pc[t] = "dead"
        /\ crashed' = crashed \cup {NodeOf[t]}
        /\ UNCHANGED ready
  /\ UNCHANGED <<pc, call, toMaster, sync, listening, hist>>
-----------------------------------------------------------------------------
NoCall == <<"none", "none">>
Zero == [o \in Object |-> 0]

Init ==
  /\ pc = [t \in Thread |-> "idle"]
  /\ call = [t \in Thread |-> NoCall]
  /\ ready = [t \in Thread |-> FALSE]
  /\ toMaster = [n \in Slave |-> <<>>]
  /\ wakes = [t \in Thread |-> 0]
  /\ sync = [o \in Object |-> [made |-> FALSE, val |-> 0, data |-> 0, waits |-> <<>>]]
  /\ crashed = {}
  /\ listening = TRUE
  /\ began = [t \in Thread |-> Zero]
  /\ ended = [t \in Thread |-> Zero]
  /\ posted = [t \in Thread |-> Zero]
  /\ freed = Zero
  /\ taken = Zero

ThreadStep(t) == Begin(t) \/ Send(t) \/ Return(t) \/ PostCall(t) \/ Exit(t)

Next ==
  \/ \E t \in Thread : ThreadStep(t) \/ TimeOut(t) \/ SlaveWake(t)
  \/ \E n \in Slave : MasterListen(n) \/ ListenFails(n)

Spec == Init /\ [][Next]_vars

\* Threads run, sockets deliver, and both receiving loops go on taking
\* commands; no thread is promised the timeout.
Fairness ==
  /\ \A t \in Thread : WF_vars(ThreadStep(t)) /\ WF_vars(SlaveWake(t))
  /\ \A n \in Slave : WF_vars(MasterListen(n))

FairSpec == Spec /\ Fairness
-----------------------------------------------------------------------------
(* Properties.                                                             *)

SyncNodes == [made : BOOLEAN, val : Int, data : Int, waits : Seq(Thread)]
Requests  == {Request(t, c) : t \in Thread, c \in Call}

\* The types of the threads' and the master's state.
TypeOK ==
  /\ pc \in [Thread -> {"idle", "send", "wait", "dead"}]
  /\ call \in [Thread -> BlockingCall \cup {NoCall}]
  /\ ready \in [Thread -> BOOLEAN]
  /\ toMaster \in [Slave -> Seq(Requests)]
  /\ wakes \in [Thread -> Nat]
  /\ sync \in [Object -> SyncNodes]
  /\ crashed \subseteq {0} \cup Slave
  /\ listening \in BOOLEAN
  /\ began \in [Thread -> [Object -> Nat]]
  /\ ended \in [Thread -> [Object -> Nat]]
  /\ posted \in [Thread -> [Object -> Nat]]
  /\ freed \in [Object -> Nat]
  /\ taken \in [Object -> Nat]

InFlight(t) ==
  NodeOf[t] # 0 /\ \E i \in DOMAIN toMaster[NodeOf[t]] :
    LET m == toMaster[NodeOf[t]][i]
    IN  m.thread = t /\ <<m.op, m.obj>> \in BlockingCall
Queued(t) == \E o \in Object : t \in Threads(sync[o].waits)

\* A blocked thread is waiting for exactly one thing, and a thread that is not
\* blocked for nothing: its request is in the socket, or it is in the wait
\* list of the object it called, or one WakeSync is on its way, or its local
\* Event is set (RcEnterBarrier .. RcEnterSemaphore, RcWakeRemoteThread).  A
\* thread counted nowhere sleeps for ever; one counted twice is woken early.
Accounted ==
  \A t \in Thread :
    /\ pc[t] # "wait" => ~InFlight(t) /\ ~Queued(t) /\ wakes[t] = 0
    /\ pc[t] = "wait" =>
         \/ InFlight(t) /\ ~Queued(t) /\ wakes[t] = 0 /\ ~ready[t]
         \/ /\ ~InFlight(t) /\ wakes[t] = 0 /\ ~ready[t]
            /\ Times(sync[call[t][2]].waits, t) = 1
            /\ \A o \in Object \ {call[t][2]} : t \notin Threads(sync[o].waits)
         \/ ~InFlight(t) /\ ~Queued(t) /\ wakes[t] = 1 /\ ~ready[t]
         \/ ~InFlight(t) /\ ~Queued(t) /\ wakes[t] = 0 /\ ready[t]

\* DBarrier::Enter: whoever has passed the barrier k times finds that every
\* party has entered it at least k times (BarrierMsg releases nobody early).
BarrierPace ==
  \A b \in Barrier : \A t, u \in Parties(b) : ended[t][b] <= began[u][b]

\* The master never leaves a thread waiting for an event that is signalled:
\* the wait queue is empty while "val" is set, however Set, Reset and Wait
\* requests of different sockets are ordered (EventWaitMsg, SetEventMsg).
NoSignalledWaiter ==
  \A e \in Event : sync[e].val # 0 => sync[e].waits = <<>>

\* An auto-reset event lets one Wait through per Set (plus one when it was
\* created signalled), whatever Sets, Waits and Resets cross.
AutoResetSafe ==
  \A e \in Event : AutoReset[e] = 1 => taken[e] <= IsSignal[e] + freed[e]

\* Every thread makes all its calls and exits: no wake-up is lost, whatever
\* requests, direct calls and wake-ups of other objects cross.
ThreadsFinish == <>(\A t \in Thread : pc[t] = "dead")

\* Every blocking call returns.
CallsReturn == \A t \in Thread : (pc[t] = "wait") ~> (pc[t] # "wait")

S == INSTANCE SyncSpec WITH
       Thread <- Thread, Barrier <- Barrier, Semaphore <- Semaphore, Event <- Event,
       Count <- Count, AutoReset <- AutoReset, IsSignal <- IsSignal, Parties <- Parties,
       began <- began, ended <- ended, freed <- freed, taken <- taken
\* The calls of DBarrier, DSemaphore and DEvent return only when the promise of
\* those classes (SyncSpec) lets them, although the local Event a thread
\* sleeps on does not say which object the wake-up is for.
Implements == S!Spec
=============================================================================
