----------------------------- MODULE ThreadPool -----------------------------
(***************************************************************************)
(* Jobs on a cluster.  Threads of the master submit closures to its        *)
(* DThreadPool, which gives each a DEvent from a bounded set that is used  *)
(* again and again, and sends it over the data socket to a slave.  There   *)
(* the listener puts it into the LThreadPool, whose workers run it and set *)
(* the event.  The submitter waits for the event and hands it back.        *)
(***************************************************************************)
EXTENDS Integers, Sequences, FiniteSets

CONSTANTS
  Client,       \* threads of the master that submit jobs
  NumNodes,     \* nodes of the cluster, node 0 the master
  Threads,      \* per slave, numthreads of its LThreadPool
  MaxWait,      \* thread_pool_max_wait: the most events of the DThreadPool
  BatchOf,      \* per client, the jobs it submits before it waits for them
  Detached,     \* the jobs that are submitted with submit2
  First,        \* the client that fills the set of events, or no client: then
                \* all begin at once
  Impatient,    \* the clients that wait with a timeout
  JobsOf        \* per client, the jobs its program submits

Slave  == 1 .. NumNodes - 1
Job    == UNION {{c} \X (1 .. JobsOf[c]) : c \in Client}
Worker == UNION {{n} \X (1 .. Threads[n]) : n \in Slave}
Event  == 1 .. MaxWait
NoEvent == 0           \* submit2 sends event 0
BadEvent == MaxWait + 1 \* what a reference to freed memory may yield

ASSUME NodeAssumption == /\ NumNodes \in Nat \ {0, 1}
                         /\ Threads \in [Slave -> Nat \ {0}]
ASSUME PoolAssumption == /\ MaxWait \in Nat \ {0} /\ IsFiniteSet(Client)
                         /\ JobsOf \in [Client -> Nat]
                         /\ BatchOf \in [Client -> Nat \ {0}]
                         /\ Detached \subseteq Job
                         /\ Impatient \subseteq Client

VARIABLES
  pc,        \* per client: idle, find, sem, pop, send, wait, give or notify
  cnt,       \* cnt of DDefaultTheadPoolScheduler
  target,    \* per client, the node of the job it is submitting
  made,      \* events.size()
  free,      \* event_queue
  sem,       \* count of sem_lock
  eve,       \* per client, the event its reference stands for
  ref,       \* per client, where that reference points: vector, queue, none or
             \* freed (the vector has been moved)
  held,      \* per client, the DThreadPoolEvents it has not waited for
  njobs,     \* per client, jobs submitted
  ready,     \* clients whose local event is set
  signalled, \* events that are set, on the master
  waits,     \* per event, the wait list on the master
  data,      \* per slave, the closures in the data socket to it
  cmds,      \* per slave, the Set commands in its socket to the master
  listener,  \* per slave, the listener: recv or notify
  q,         \* per slave, the queue of its LThreadPool
  lsem,      \* per slave, the count of its semaphore
  stop,      \* slaves whose LThreadPool is being destroyed
  wpc,       \* per worker: sem, check, pop, run, set or gone
  task,      \* per worker, the closure it took
  done,      \* jobs whose closure has run
  ended,     \* jobs whose Wait returned true
  late       \* jobs whose Wait timed out

pool   == <<cnt, made, free, sem>>
client == <<pc, target, eve, ref, held, njobs>>
master == <<ready, signalled, waits>>
net    == <<data, cmds>>
local  == <<listener, q, lsem, stop, wpc, task>>
hist   == <<done, ended, late>>
vars   == <<pool, client, master, net, local, hist>>
-----------------------------------------------------------------------------
(* submit: the scheduler and FindEvent.                                    *)

Finished(c) == njobs[c] = JobsOf[c]

\* DDefaultTheadPoolScheduler: the slaves in turn.
Schedule(c) ==
  /\ pc[c] = "idle" /\ ~Finished(c) /\ Len(held[c]) < BatchOf[c]
  /\ First \in Client /\ c # First => made = MaxWait
  /\ cnt' = cnt + 1
  /\ target' = [target EXCEPT ![c] = (cnt' % (NumNodes - 1)) + 1]
  /\ njobs' = [njobs EXCEPT ![c] = @ + 1]
  /\ pc' = [pc EXCEPT ![c] = IF <<c, njobs'[c]>> \in Detached THEN "send" ELSE "find"]
  /\ eve' = [eve EXCEPT ![c] = NoEvent]
  /\ UNCHANGED <<made, free, sem, ref, held, master, net, local, hist>>

\* The vector of events doubles its memory when it is full.
Moves == made \in {1, 2, 4, 8, 16}

MayCreate == free = <<>> /\ made < MaxWait

\* FindEvent under event_lock: a new event, or wait for a returned one.
FindEvent(c) ==
  /\ pc[c] = "find"
  /\ \/ /\ MayCreate
        /\ made' = made + 1
        /\ eve' = [eve EXCEPT ![c] = made + 1]
        /\ ref' = [d \in Client |-> IF d = c THEN "vector"
                                 ELSE IF Moves /\ ref[d] = "vector" THEN "freed" ELSE ref[d]]
        /\ pc' = [pc EXCEPT ![c] = "send"]
     \/ /\ ~MayCreate
        /\ pc' = [pc EXCEPT ![c] = "sem"]
        /\ UNCHANGED <<made, eve, ref>>
  /\ UNCHANGED <<cnt, free, sem, target, held, njobs, master, net, local, hist>>

SemOpen(n) == n > 0
WaitSem(c) ==
  /\ pc[c] = "sem" /\ SemOpen(sem)
  /\ sem' = sem - 1
  /\ pc' = [pc EXCEPT ![c] = "pop"]
  /\ UNCHANGED <<cnt, made, free, target, eve, ref, held, njobs, master, net, local, hist>>

PoppedNot(s) == s                              \* mutant: front without pop
Popped(s) == Tail(s)
PopEvent(c) ==
  /\ pc[c] = "pop" /\ free # <<>>
  /\ eve' = [eve EXCEPT ![c] = Head(free)]
  /\ free' = Popped(free)
  /\ ref' = [ref EXCEPT ![c] = "queue"]
  /\ pc' = [pc EXCEPT ![c] = "send"]
  /\ UNCHANGED <<cnt, made, sem, target, held, njobs, master, net, local, hist>>

\* AcExecuteClosureInThreadPool: the closure travels on the data socket.
Sent(n, m) == [data EXCEPT ![n] = Append(@, m)]

\* SendClosureToThreadPool.  The event is read through the reference.
SendClosure(c) ==
  /\ pc[c] = "send"
  /\ \E e \in {eve[c]} \cup (IF ref[c] = "freed" THEN {BadEvent} ELSE {}) :
       LET m == [job |-> <<c, njobs[c]>>, event |-> e] IN
       /\ data' = Sent(target[c], m)
       /\ held' = [held EXCEPT ![c] = IF e = NoEvent THEN @ ELSE Append(@, m)]
  /\ ref' = [ref EXCEPT ![c] = "none"]
  /\ pc' = [pc EXCEPT ![c] = "idle"]
  /\ UNCHANGED <<pool, target, eve, njobs, master, cmds, local, hist>>
-----------------------------------------------------------------------------
(* DThreadPoolEvent::Wait, on the auto-reset events of SyncManager.        *)

StillSignalled(e) == signalled                 \* mutant: a manual-reset event
AfterWait(e) == signalled \ {e}
WaitEvent(c) ==
  /\ pc[c] = "idle" /\ held[c] # <<>>
  /\ Len(held[c]) = BatchOf[c] \/ Finished(c)
  /\ LET e == Head(held[c]).event IN
     \/ /\ e \in signalled
        /\ signalled' = AfterWait(e)
        /\ ready' = ready \cup {c}
        /\ UNCHANGED waits
     \/ /\ e \notin signalled
        /\ ready' = ready \ {c}
        /\ waits' = [waits EXCEPT ![e] = Append(@, c)]
        /\ UNCHANGED signalled
  /\ pc' = [pc EXCEPT ![c] = "wait"]
  /\ UNCHANGED <<pool, target, eve, ref, held, njobs, net, local, hist>>

Woken(c) ==
  /\ pc[c] = "wait" /\ c \in ready
  /\ ended' = ended \cup {Head(held[c]).job}
  /\ pc' = [pc EXCEPT ![c] = "give"]
  /\ UNCHANGED <<pool, target, eve, ref, held, njobs, master, net, local, done, late>>

\* The event goes back although its job is still out.
TimeOut(c) ==
  /\ c \in Impatient /\ pc[c] = "wait" /\ c \notin ready
  /\ late' = late \cup {Head(held[c]).job}
  /\ pc' = [pc EXCEPT ![c] = "give"]
  /\ UNCHANGED <<pool, target, eve, ref, held, njobs, master, net, local, done, ended>>

GiveBack(c) ==
  /\ pc[c] = "give"
  /\ free' = Append(free, Head(held[c]).event)
  /\ held' = [held EXCEPT ![c] = Tail(@)]
  /\ pc' = [pc EXCEPT ![c] = "notify"]
  /\ UNCHANGED <<cnt, made, sem, target, eve, ref, njobs, master, net, local, hist>>

Notify(c) ==
  /\ pc[c] = "notify"
  /\ sem' = sem + 1
  /\ pc' = [pc EXCEPT ![c] = "idle"]
  /\ UNCHANGED <<cnt, made, free, target, eve, ref, held, njobs, master, net, local, hist>>
-----------------------------------------------------------------------------
(* A slave: AcListenData, the queue and the workers.                       *)

\* enqueue pushes under the lock, then raises the semaphore.
Receive(n) ==
  /\ listener[n] = "recv" /\ data[n] # <<>> /\ n \notin stop
  /\ q' = [q EXCEPT ![n] = Append(@, Head(data[n]))]
  /\ data' = [data EXCEPT ![n] = Tail(@)]
  /\ listener' = [listener EXCEPT ![n] = "notify"]
  /\ UNCHANGED <<pool, client, master, cmds, lsem, stop, wpc, task, hist>>

RaisedOnce(n) == IF Len(q[n]) = 1 THEN lsem[n] + 1 ELSE lsem[n]  \* mutant: only when it was empty
Raised(n) == lsem[n] + 1
Enqueued(n) ==
  /\ listener[n] = "notify"
  /\ lsem' = [lsem EXCEPT ![n] = Raised(n)]
  /\ listener' = [listener EXCEPT ![n] = "recv"]
  /\ UNCHANGED <<pool, client, master, net, q, stop, wpc, task, hist>>

WorkerWait(w) ==
  /\ wpc[w] = "sem" /\ lsem[w[1]] > 0
  /\ lsem' = [lsem EXCEPT ![w[1]] = @ - 1]
  /\ wpc' = [wpc EXCEPT ![w] = "check"]
  /\ UNCHANGED <<pool, client, master, net, listener, q, stop, task, hist>>

StoppingIgnored(n) == FALSE                    \* mutant: stop not tested
Stopping(n) == n \in stop
WorkerCheck(w) ==
  /\ wpc[w] = "check"
  /\ wpc' = [wpc EXCEPT ![w] = IF Stopping(w[1]) THEN "gone" ELSE "pop"]
  /\ UNCHANGED <<pool, client, master, net, listener, q, lsem, stop, task, hist>>

WorkerPop(w) ==
  /\ wpc[w] = "pop" /\ q[w[1]] # <<>>
  /\ task' = [task EXCEPT ![w] = Head(q[w[1]])]
  /\ q' = [q EXCEPT ![w[1]] = Tail(@)]
  /\ wpc' = [wpc EXCEPT ![w] = "run"]
  /\ UNCHANGED <<pool, client, master, net, listener, lsem, stop, hist>>

Idle == [job |-> <<>>, event |-> NoEvent]

\* ExecuteClosureInLocalThreadPool: the closure, then the event if there is one.
AfterRun(e) == IF e = NoEvent THEN "sem" ELSE "set"
RunClosure(w) ==
  /\ wpc[w] = "run"
  /\ done' = done \cup {task[w].job}
  /\ wpc' = [wpc EXCEPT ![w] = AfterRun(task[w].event)]
  /\ UNCHANGED <<pool, client, master, net, listener, q, lsem, stop, task, ended, late>>

SetEvent(w) ==
  /\ wpc[w] = "set"
  /\ cmds' = [cmds EXCEPT ![w[1]] = Append(@, task[w].event)]
  /\ task' = [task EXCEPT ![w] = Idle]
  /\ wpc' = [wpc EXCEPT ![w] = "sem"]
  /\ UNCHANGED <<pool, client, master, data, listener, q, lsem, stop, hist>>

\* SyncManager's SetEventMsg of an auto-reset event: one waiter or the flag.
MasterSet(n) ==
  /\ cmds[n] # <<>>
  /\ LET e == Head(cmds[n]) IN
     \/ /\ waits[e] = <<>>
        /\ signalled' = signalled \cup {e}
        /\ UNCHANGED <<ready, waits>>
     \/ /\ waits[e] # <<>>
        /\ ready' = ready \cup {Head(waits[e])}
        /\ waits' = [waits EXCEPT ![e] = Tail(@)]
        /\ UNCHANGED signalled
  /\ cmds' = [cmds EXCEPT ![n] = Tail(@)]
  /\ UNCHANGED <<pool, client, data, local, hist>>

\* ~LThreadPool after RcCmdClose, which the master sends when the program ends.
StopUnits(n) == Threads[n]
Close(n) ==
  /\ n \notin stop
  /\ \A c \in Client : pc[c] = "idle" /\ Finished(c) /\ held[c] = <<>>
  /\ stop' = stop \cup {n}
  /\ lsem' = [lsem EXCEPT ![n] = @ + StopUnits(n)]
  /\ UNCHANGED <<pool, client, master, net, listener, q, wpc, task, hist>>
-----------------------------------------------------------------------------
Init ==
  /\ pc = [c \in Client |-> "idle"]
  /\ cnt = 0 /\ made = 0 /\ free = <<>> /\ sem = 0
  /\ target = [c \in Client |-> 0]
  /\ eve = [c \in Client |-> NoEvent]
  /\ ref = [c \in Client |-> "none"]
  /\ held = [c \in Client |-> <<>>]
  /\ njobs = [c \in Client |-> 0]
  /\ ready = {} /\ signalled = {}
  /\ waits = [e \in Event \cup {BadEvent} |-> <<>>]
  /\ data = [n \in Slave |-> <<>>]
  /\ cmds = [n \in Slave |-> <<>>]
  /\ listener = [n \in Slave |-> "recv"]
  /\ q = [n \in Slave |-> <<>>]
  /\ lsem = [n \in Slave |-> 0]
  /\ stop = {}
  /\ wpc = [w \in Worker |-> "sem"]
  /\ task = [w \in Worker |-> Idle]
  /\ done = {} /\ ended = {} /\ late = {}

ClientStep(c) ==
  \/ Schedule(c) \/ FindEvent(c) \/ WaitSem(c) \/ PopEvent(c) \/ SendClosure(c)
  \/ WaitEvent(c) \/ Woken(c) \/ GiveBack(c) \/ Notify(c)

WorkerStep(w) ==
  \/ WorkerWait(w) \/ WorkerCheck(w) \/ WorkerPop(w) \/ RunClosure(w) \/ SetEvent(w)

ListenerStep(n) == Receive(n) \/ Enqueued(n)

Next ==
  \/ \E c \in Client : ClientStep(c) \/ TimeOut(c)
  \/ \E w \in Worker : WorkerStep(w)
  \/ \E n \in Slave : ListenerStep(n) \/ MasterSet(n) \/ Close(n)

Spec == Init /\ [][Next]_vars

\* Threads are scheduled and sockets deliver.  Timeouts and the end of the
\* program are not forced.
Fairness ==
  /\ \A c \in Client : WF_vars(ClientStep(c))
  /\ \A w \in Worker : WF_vars(WorkerStep(w))
  /\ \A n \in Slave : WF_vars(ListenerStep(n)) /\ WF_vars(MasterSet(n))

FairSpec == Spec /\ Fairness
-----------------------------------------------------------------------------
(* Properties.                                                             *)

\* The places where event e of the pool is: on its way to a job, with a job
\* that has not been waited for, or returned.
Places(e) ==
  {<<"send", c>> : c \in {d \in Client : pc[d] = "send" /\ eve[d] = e}}
    \cup (UNION {{<<c, i>> : i \in {k \in DOMAIN held[c] : held[c][k].event = e}} : c \in Client})
    \cup {<<"free", i>> : i \in {k \in DOMAIN free : free[k] = e}}

\* An event serves one job at a time and is never lost (FindEvent against
\* Wait, by several threads): it is in exactly one place.  There are never more
\* than the limit, and a closure carries an event of the pool.
EventsApart ==
  /\ made <= MaxWait
  /\ \A c \in Client : \A i \in DOMAIN held[c] : held[c][i].event <= made
  /\ \A e \in 1 .. made : Cardinality(Places(e)) = 1

\* As long as no wait has timed out, a Wait of DThreadPoolEvent that returned
\* true returned after its job ran, although its event served other jobs before.
WaitMeansDone == late = {} => ended \subseteq done

\* front() is never called on an empty queue: a unit of a semaphore stands for
\* an entry of its queue, also while a pool is being destroyed (FindEvent and
\* LThreadPool::dequeue).
NoEmptyFront ==
  /\ \A c \in Client : pc[c] = "pop" => free # <<>>
  /\ \A w \in Worker : wpc[w] = "pop" => q[w[1]] # <<>>

ClientsFinish == \A c \in Client : pc[c] = "idle" /\ Finished(c) /\ held[c] = <<>>
JobsRun ==
  \A n \in Slave \ stop :
    data[n] = <<>> /\ q[n] = <<>> /\ cmds[n] = <<>> /\ \A w \in Worker : w[1] = n => wpc[w] = "sem"
PoolStops == \A w \in Worker : w[1] \in stop => wpc[w] = "gone"

\* Every client gets its jobs submitted and waited for, unless a wait times out:
\* the bounded set of events locks nobody out.  (As in DData::Map, no client
\* submits more jobs than there are events before it waits.)  Every closure
\* that was sent is run, unless the program ends before: none stays in a socket
\* or a queue while workers sleep.  And the destructor of LThreadPool ends every
\* worker, busy ones too, so that its joins return.
PoolServes ==
  /\ <>(late # {}) \/ <>[]ClientsFinish
  /\ <>[](JobsRun /\ PoolStops)
=============================================================================
