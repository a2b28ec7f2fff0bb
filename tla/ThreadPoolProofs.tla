-------------------------- MODULE ThreadPoolProofs --------------------------
(***************************************************************************)
(* ThreadPool for any number of clients, nodes, workers, events and jobs:  *)
(* no queue is read when it is empty, no event serves two jobs, and Wait   *)
(* returns after its own job has run.                                      *)
(***************************************************************************)
EXTENDS ThreadPool, FiniteSetTheorems, TLAPS

Ids == 0 .. BadEvent
Closure == [job : Client \X Nat, event : Ids]

TypeOK ==
  /\ pc \in [Client -> {"idle", "find", "sem", "pop", "send", "wait", "give", "notify"}]
  /\ made \in Nat /\ sem \in Nat /\ free \in Seq(Ids)
  /\ eve \in [Client -> Ids]
  /\ ref \in [Client -> {"none", "vector", "queue", "freed"}]
  /\ held \in [Client -> Seq(Closure)]
  /\ njobs \in [Client -> Nat]
  /\ data \in [Slave -> Seq(Closure)]
  /\ listener \in [Slave -> {"recv", "notify"}]
  /\ q \in [Slave -> Seq(Closure)]
  /\ lsem \in [Slave -> Nat]
  /\ stop \subseteq Slave
  /\ wpc \in [Worker -> {"sem", "check", "pop", "run", "set", "gone"}]
  /\ task \in [Worker -> Closure \cup {Idle}]

\* An event leaves through Wait, so one is there to be given back.
Holding == \A c \in Client : pc[c] \in {"wait", "give"} => held[c] # <<>>

TypeInv == TypeOK /\ Holding

\* A worker is on a slave.
LEMMA WorkerNode ==
  ASSUME NEW w \in Worker
  PROVE  w[1] \in Slave
  BY DEF Worker

\* The initial state has its type.
LEMMA InitType == Init => TypeInv
<1>1. MaxWait \in Nat
  BY PoolAssumption
<1>2. 0 \in Ids
  BY <1>1 DEF Ids, BadEvent
<1> QED BY <1>2 DEF Init, TypeInv, TypeOK, Holding, NoEvent

\* The clients keep the types.
LEMMA ClientType ==
  ASSUME TypeInv, NEW c \in Client, ClientStep(c) \/ TimeOut(c)
  PROVE  TypeInv'
<1> USE DEF TypeInv
<1>0. /\ MaxWait \in Nat /\ 0 \in Ids /\ BadEvent \in Ids
      /\ \A e \in 0 .. MaxWait : e \in Ids
  BY PoolAssumption DEF Ids, BadEvent
<1>l. UNCHANGED local => UNCHANGED <<listener, q, lsem, stop, wpc, task>>
  BY DEF local
<1>1. CASE Schedule(c)
  <2>1. UNCHANGED <<made, free, sem, ref, held, data>> /\ UNCHANGED local
    BY <1>1 DEF Schedule, net
  <2>2. pc' \in [Client -> {"idle", "find", "sem", "pop", "send", "wait", "give", "notify"}]
    BY <1>1 DEF Schedule, TypeOK
  <2>3. njobs' \in [Client -> Nat] /\ eve' \in [Client -> Ids]
    BY <1>0, <1>1 DEF Schedule, TypeOK, NoEvent
  <2>4. Holding'
    BY <1>1, <2>1 DEF Schedule, TypeOK, Holding
  <2> QED BY <1>l, <2>1, <2>2, <2>3, <2>4 DEF TypeOK
<1>2. CASE FindEvent(c)
  <2>1. UNCHANGED <<free, sem, held, njobs, data>> /\ UNCHANGED local
    BY <1>2 DEF FindEvent, net
  <2>2. pc' \in [Client -> {"idle", "find", "sem", "pop", "send", "wait", "give", "notify"}]
    BY <1>2 DEF FindEvent, TypeOK
  <2>a. made < MaxWait => made + 1 \in Ids
    BY <1>0 DEF TypeOK
  <2>b. made \in Nat /\ eve \in [Client -> Ids]
    BY DEF TypeOK
  <2>c. \/ made < MaxWait /\ made' = made + 1 /\ eve' = [eve EXCEPT ![c] = made + 1]
        \/ UNCHANGED <<made, eve>>
    BY <1>2 DEF FindEvent, MayCreate
  <2>3. made' \in Nat /\ eve' \in [Client -> Ids]
    BY <2>a, <2>b, <2>c
  <2>4. ref' \in [Client -> {"none", "vector", "queue", "freed"}]
    BY <1>2 DEF FindEvent, TypeOK
  <2>5. Holding'
    BY <1>2, <2>1 DEF FindEvent, TypeOK, Holding
  <2> QED BY <1>l, <2>1, <2>2, <2>3, <2>4, <2>5 DEF TypeOK
<1>3. CASE WaitSem(c)
  <2>1. UNCHANGED <<made, free, eve, ref, held, njobs, data>> /\ UNCHANGED local
    BY <1>3 DEF WaitSem, net
  <2>2. /\ pc' \in [Client -> {"idle", "find", "sem", "pop", "send", "wait", "give", "notify"}]
        /\ sem' \in Nat /\ Holding'
    BY <1>3, <2>1 DEF WaitSem, SemOpen, TypeOK, Holding
  <2> QED BY <1>l, <2>1, <2>2 DEF TypeOK
<1>4. CASE PopEvent(c)
  <2>1. UNCHANGED <<made, sem, held, njobs, data>> /\ UNCHANGED local
    BY <1>4 DEF PopEvent, net
  <2>2. /\ pc' \in [Client -> {"idle", "find", "sem", "pop", "send", "wait", "give", "notify"}]
        /\ ref' \in [Client -> {"none", "vector", "queue", "freed"}] /\ Holding'
    BY <1>4, <2>1 DEF PopEvent, TypeOK, Holding
  <2>3. eve' \in [Client -> Ids] /\ free' \in Seq(Ids)
    BY <1>4 DEF PopEvent, Popped, TypeOK
  <2> QED BY <1>l, <2>1, <2>2, <2>3 DEF TypeOK
<1>5. CASE SendClosure(c)
  <2>1. UNCHANGED <<made, sem, free, eve, njobs>> /\ UNCHANGED local
    BY <1>5 DEF SendClosure, pool
  <2>2. PICK e \in Ids :
          LET m == [job |-> <<c, njobs[c]>>, event |-> e] IN
          /\ data' = Sent(target[c], m)
          /\ held' = [held EXCEPT ![c] = IF e = NoEvent THEN @ ELSE Append(@, m)]
    <3>1. eve[c] \in Ids /\ \A e \in (IF ref[c] = "freed" THEN {BadEvent} ELSE {}) : e \in Ids
      BY <1>0 DEF TypeOK
    <3> QED BY <1>5, <3>1 DEF SendClosure
  <2> DEFINE m == [job |-> <<c, njobs[c]>>, event |-> e]
  <2>3. m \in Closure
    BY DEF Closure, TypeOK
  <2> HIDE DEF m
  <2>4. held' \in [Client -> Seq(Closure)] /\ data' \in [Slave -> Seq(Closure)]
    <3>1. /\ data' = [data EXCEPT ![target[c]] = Append(@, m)]
          /\ held' = [held EXCEPT ![c] = IF e = NoEvent THEN @ ELSE Append(@, m)]
      BY <2>2 DEF m, Sent
    <3>2. data \in [Slave -> Seq(Closure)] /\ held \in [Client -> Seq(Closure)]
      BY DEF TypeOK
    <3>3. \A s \in Seq(Closure) : Append(s, m) \in Seq(Closure)
      BY <2>3
    <3> QED BY <3>1, <3>2, <3>3
  <2>5. /\ pc' \in [Client -> {"idle", "find", "sem", "pop", "send", "wait", "give", "notify"}]
        /\ ref' \in [Client -> {"none", "vector", "queue", "freed"}]
    BY <1>5 DEF SendClosure, TypeOK
  <2>6. Holding'
    BY <1>5, <2>2 DEF SendClosure, TypeOK, Holding
  <2> QED BY <1>l, <2>1, <2>4, <2>5, <2>6 DEF TypeOK
<1>6. CASE WaitEvent(c)
  <2>1. UNCHANGED <<made, sem, free, eve, ref, held, njobs, data>> /\ UNCHANGED local
    BY <1>6 DEF WaitEvent, pool, net
  <2>2. /\ pc' \in [Client -> {"idle", "find", "sem", "pop", "send", "wait", "give", "notify"}]
        /\ Holding'
    BY <1>6, <2>1 DEF WaitEvent, TypeOK, Holding
  <2> QED BY <1>l, <2>1, <2>2 DEF TypeOK
<1>7. CASE Woken(c) \/ TimeOut(c)
  <2>1. UNCHANGED <<made, sem, free, eve, ref, held, njobs, data>> /\ UNCHANGED local
    BY <1>7 DEF Woken, TimeOut, pool, net
  <2>2. /\ pc' \in [Client -> {"idle", "find", "sem", "pop", "send", "wait", "give", "notify"}]
        /\ Holding'
    BY <1>7, <2>1 DEF Woken, TimeOut, TypeOK, Holding
  <2> QED BY <1>l, <2>1, <2>2 DEF TypeOK
<1>8. CASE GiveBack(c)
  <2>1. UNCHANGED <<made, sem, eve, ref, njobs, data>> /\ UNCHANGED local
    BY <1>8 DEF GiveBack, net
  <2>2. held[c] # <<>> /\ held[c] \in Seq(Closure)
    BY <1>8 DEF GiveBack, Holding, TypeOK
  <2>a. Head(held[c]) \in Closure /\ Tail(held[c]) \in Seq(Closure)
    BY <2>2
  <2>3. Head(held[c]).event \in Ids /\ Tail(held[c]) \in Seq(Closure)
    BY <2>a DEF Closure
  <2>4. free' \in Seq(Ids) /\ held' \in [Client -> Seq(Closure)]
    <3>1. free' \in Seq(Ids)
      BY <1>8, <2>3 DEF GiveBack, TypeOK
    <3>2. held' = [held EXCEPT ![c] = Tail(held[c])] /\ held \in [Client -> Seq(Closure)]
      BY <1>8 DEF GiveBack, TypeOK
    <3> QED BY <2>3, <3>1, <3>2
  <2>5. pc' \in [Client -> {"idle", "find", "sem", "pop", "send", "wait", "give", "notify"}]
    <3>1. pc' = [pc EXCEPT ![c] = "notify"]
      BY <1>8 DEF GiveBack
    <3> QED BY <3>1 DEF TypeOK
  <2>6. Holding'
    <3>1. /\ \A d \in Client \ {c} : pc'[d] = pc[d] /\ held'[d] = held[d]
          /\ pc'[c] = "notify"
      BY <1>8 DEF GiveBack, TypeOK
    <3> QED BY <3>1 DEF Holding
  <2> QED BY <1>l, <2>1, <2>4, <2>5, <2>6 DEF TypeOK
<1>9. CASE Notify(c)
  <2>1. UNCHANGED <<made, free, eve, ref, held, njobs, data>> /\ UNCHANGED local
    BY <1>9 DEF Notify, net
  <2>2. /\ pc' \in [Client -> {"idle", "find", "sem", "pop", "send", "wait", "give", "notify"}]
        /\ sem' \in Nat /\ Holding'
    BY <1>9, <2>1 DEF Notify, TypeOK, Holding
  <2> QED BY <1>l, <2>1, <2>2 DEF TypeOK
<1> QED BY <1>1, <1>2, <1>3, <1>4, <1>5, <1>6, <1>7, <1>8, <1>9 DEF ClientStep

\* So do the workers, the listeners, the master and the destructor of the pool.
LEMMA NodeType ==
  ASSUME TypeInv, \/ \E w \in Worker : WorkerStep(w)
                  \/ \E n \in Slave : ListenerStep(n) \/ MasterSet(n) \/ Close(n)
  PROVE  TypeInv'
<1> USE DEF TypeInv
<1>c. UNCHANGED <<pool, client>> => UNCHANGED <<pc, made, sem, free, eve, ref, held, njobs>> /\ Holding'
  BY DEF pool, client, Holding
<1>1. ASSUME NEW w \in Worker, WorkerStep(w) PROVE TypeInv'
  <2>0. UNCHANGED <<pool, client, data, listener, stop>>
    BY <1>1 DEF WorkerStep, WorkerWait, WorkerCheck, WorkerPop, RunClosure, SetEvent, net
  <2>1. wpc' \in [Worker -> {"sem", "check", "pop", "run", "set", "gone"}]
    <3>1. PICK l \in {"sem", "check", "pop", "run", "set", "gone"} : wpc' = [wpc EXCEPT ![w] = l]
      BY <1>1 DEF WorkerStep, WorkerWait, WorkerCheck, WorkerPop, RunClosure, SetEvent, AfterRun
    <3> QED BY <3>1 DEF TypeOK
  <2>2. lsem' \in [Slave -> Nat]
    <3>1. \/ lsem' = lsem
          \/ lsem[w[1]] > 0 /\ lsem' = [lsem EXCEPT ![w[1]] = @ - 1]
      BY <1>1 DEF WorkerStep, WorkerWait, WorkerCheck, WorkerPop, RunClosure, SetEvent
    <3>2. w[1] \in Slave /\ lsem \in [Slave -> Nat]
      BY WorkerNode DEF TypeOK
    <3> QED BY <3>1, <3>2
  <2>3. q' \in [Slave -> Seq(Closure)] /\ task' \in [Worker -> Closure \cup {Idle}]
    <3>1. CASE WorkerPop(w)
      <4>1. q[w[1]] \in Seq(Closure) /\ q[w[1]] # <<>> /\ w[1] \in Slave
        BY <3>1, WorkerNode DEF WorkerPop, TypeOK
      <4>2. Head(q[w[1]]) \in Closure /\ Tail(q[w[1]]) \in Seq(Closure)
        BY <4>1
      <4>3. /\ q' = [q EXCEPT ![w[1]] = Tail(q[w[1]])] /\ task' = [task EXCEPT ![w] = Head(q[w[1]])]
            /\ q \in [Slave -> Seq(Closure)] /\ task \in [Worker -> Closure \cup {Idle}]
        BY <3>1 DEF WorkerPop, TypeOK
      <4> QED BY <4>2, <4>3
    <3>2. CASE ~WorkerPop(w)
      BY <1>1, <3>2 DEF WorkerStep, WorkerWait, WorkerCheck, RunClosure, SetEvent, TypeOK
    <3> QED BY <3>1, <3>2
  <2> QED BY <1>c, <2>0, <2>1, <2>2, <2>3 DEF TypeOK
<1>2. ASSUME NEW n \in Slave, Receive(n) PROVE TypeInv'
  <2>1. data[n] \in Seq(Closure) /\ data[n] # <<>> /\ q[n] \in Seq(Closure)
    BY <1>2 DEF Receive, TypeOK
  <2>2. Append(q[n], Head(data[n])) \in Seq(Closure) /\ Tail(data[n]) \in Seq(Closure)
    BY <2>1
  <2>3. q' \in [Slave -> Seq(Closure)] /\ data' \in [Slave -> Seq(Closure)]
    BY <1>2, <2>2 DEF Receive, TypeOK
  <2>4. listener' \in [Slave -> {"recv", "notify"}] /\ UNCHANGED <<pool, client, lsem, stop, wpc, task>>
    BY <1>2 DEF Receive, TypeOK
  <2> QED BY <1>c, <2>3, <2>4 DEF TypeOK
<1>3. ASSUME NEW n \in Slave, Enqueued(n) PROVE TypeInv'
  <2>1. UNCHANGED <<pool, client, data, q, stop, wpc, task>>
    BY <1>3 DEF Enqueued, net
  <2>2. lsem' \in [Slave -> Nat] /\ listener' \in [Slave -> {"recv", "notify"}]
    BY <1>3 DEF Enqueued, Raised, TypeOK
  <2> QED BY <1>c, <2>1, <2>2 DEF TypeOK
<1>4. ASSUME NEW n \in Slave, MasterSet(n) PROVE TypeInv'
  BY <1>c, <1>4 DEF MasterSet, local, TypeOK
<1>5. ASSUME NEW n \in Slave, Close(n) PROVE TypeInv'
  <2>1. UNCHANGED <<pool, client, data, listener, q, wpc, task>>
    BY <1>5 DEF Close, net
  <2>2. lsem' \in [Slave -> Nat] /\ stop' \subseteq Slave
    <3>1. Threads[n] \in Nat /\ lsem \in [Slave -> Nat] /\ lsem' = [lsem EXCEPT ![n] = @ + Threads[n]]
      BY <1>5, NodeAssumption DEF Close, StopUnits, TypeOK
    <3>2. lsem[n] + Threads[n] \in Nat
      BY <3>1
    <3> QED BY <1>5, <3>1, <3>2 DEF Close, TypeOK
  <2> QED BY <1>c, <2>1, <2>2 DEF TypeOK
<1> QED BY <1>1, <1>2, <1>3, <1>4, <1>5 DEF ListenerStep

\* Every step keeps the type.
LEMMA NextType == TypeInv /\ [Next]_vars => TypeInv'
<1> SUFFICES ASSUME TypeInv, [Next]_vars PROVE TypeInv'
  OBVIOUS
<1>1. CASE Next
  BY <1>1, ClientType, NodeType DEF Next
<1>2. CASE UNCHANGED vars
  BY <1>2 DEF vars, pool, client, net, local, TypeInv, TypeOK, Holding
<1> QED BY <1>1, <1>2

(***************************************************************************)
(* Queues that are guarded by a semaphore.                                 *)
(***************************************************************************)

\* The clients between the unit of sem_lock and the entry of event_queue.
Claims == {c \in Client : pc[c] \in {"pop", "notify"}}

\* Every entry of event_queue has its unit, in the semaphore or with a client.
Tickets == sem + Cardinality(Claims) = Len(free)

\* The workers of slave n that are at one of the places L.
At(n, L) == {w \in Worker : w[1] = n /\ wpc[w] \in L}

\* The same for the queue of an LThreadPool.  The destructor raises the
\* semaphore without an entry; from then on nobody begins to pop.
LocalTickets ==
  \A n \in Slave :
    /\ n \notin stop => lsem[n] + Cardinality(At(n, {"check", "pop"}))
                          + (IF listener[n] = "notify" THEN 1 ELSE 0) = Len(q[n])
    /\ n \in stop => Cardinality(At(n, {"pop"})) <= Len(q[n])

\* Finitely many clients are between the semaphore and the list.
LEMMA ClaimsFinite == IsFiniteSet(Claims) /\ Cardinality(Claims) \in Nat
<1>1. Claims \subseteq Client /\ IsFiniteSet(Client)
  BY PoolAssumption DEF Claims
<1>2. IsFiniteSet(Claims)
  BY <1>1, FS_Subset
<1> QED BY <1>2, FS_CardinalityType

\* A node has finitely many workers.
LEMMA AtFinite ==
  ASSUME NEW n \in Slave, NEW L
  PROVE  IsFiniteSet(At(n, L)) /\ Cardinality(At(n, L)) \in Nat
<1>1. Threads[n] \in Nat
  BY NodeAssumption
<1>a. 1 \in Int /\ Threads[n] \in Int
  BY <1>1
<1>b. IsFiniteSet(1 .. Threads[n])
  BY <1>a, FS_Interval
<1>2. IsFiniteSet({n}) /\ IsFiniteSet(1 .. Threads[n])
  BY <1>b, FS_Singleton
<1>3. IsFiniteSet({n} \X (1 .. Threads[n]))
  BY <1>2, FS_Product
<1>4. At(n, L) \subseteq {n} \X (1 .. Threads[n])
  <2> SUFFICES ASSUME NEW w \in At(n, L) PROVE w \in {n} \X (1 .. Threads[n])
    OBVIOUS
  <2>1. w \in Worker /\ w[1] = n
    BY DEF At
  <2>2. PICK k \in Slave : w \in {k} \X (1 .. Threads[k])
    BY <2>1 DEF Worker
  <2>3. k = n
    BY <2>1, <2>2
  <2> QED BY <2>2, <2>3
<1>5. IsFiniteSet(At(n, L))
  BY <1>3, <1>4, FS_Subset
<1> QED BY <1>5, FS_CardinalityType

\* A client's step.
LEMMA ClientTickets ==
  ASSUME TypeInv, Tickets, NEW c \in Client, ClientStep(c) \/ TimeOut(c)
  PROVE  Tickets'
<1> USE DEF TypeInv
<1>f. IsFiniteSet(Claims) /\ Cardinality(Claims) \in Nat
  BY ClaimsFinite
<1>g. sem \in Nat /\ Len(free) \in Nat /\ sem + Cardinality(Claims) = Len(free) /\ free \in Seq(Ids)
  BY DEF TypeOK, Tickets
<1>o. ASSUME NEW l, pc' = [pc EXCEPT ![c] = l], l \notin {"pop", "notify"}, pc[c] \notin {"pop", "notify"}
      PROVE  Claims' = Claims
  BY <1>o DEF Claims, TypeOK
<1>a. ASSUME NEW l \in {"pop", "notify"}, pc' = [pc EXCEPT ![c] = l], pc[c] \notin {"pop", "notify"}
      PROVE  Cardinality(Claims)' = Cardinality(Claims) + 1
  <2>1. Claims' = Claims \cup {c} /\ c \notin Claims
    BY <1>a DEF Claims, TypeOK
  <2>2. Cardinality(Claims \cup {c}) = Cardinality(Claims) + 1
    BY <1>f, <2>1, FS_AddElement
  <2> QED BY <2>1, <2>2
<1>r. ASSUME NEW l \in {"send", "idle"}, pc' = [pc EXCEPT ![c] = l], pc[c] \in {"pop", "notify"}
      PROVE  Cardinality(Claims)' = Cardinality(Claims) - 1
  <2>1. Claims' = Claims \ {c} /\ c \in Claims
    BY <1>r DEF Claims, TypeOK
  <2>2. Cardinality(Claims \ {c}) = Cardinality(Claims) - 1
    BY <1>f, <2>1, FS_RemoveElement
  <2> QED BY <2>1, <2>2
<1>1. CASE Schedule(c) \/ FindEvent(c) \/ SendClosure(c) \/ WaitEvent(c) \/ Woken(c) \/ TimeOut(c)
  <2>1. UNCHANGED <<sem, free>>
    BY <1>1 DEF Schedule, FindEvent, SendClosure, WaitEvent, Woken, TimeOut, pool
  <2>2. pc[c] \notin {"pop", "notify"}
    BY <1>1 DEF Schedule, FindEvent, SendClosure, WaitEvent, Woken, TimeOut
  <2>3. PICK l \in {"send", "find", "sem", "idle", "wait", "give"} : pc' = [pc EXCEPT ![c] = l]
    <3>1. CASE Schedule(c)
      BY <3>1 DEF Schedule
    <3>2. CASE FindEvent(c)
      BY <3>2 DEF FindEvent
    <3>3. CASE SendClosure(c) \/ WaitEvent(c) \/ Woken(c) \/ TimeOut(c)
      BY <3>3 DEF SendClosure, WaitEvent, Woken, TimeOut
    <3> QED BY <1>1, <3>1, <3>2, <3>3
  <2> QED BY <1>o, <2>1, <2>2, <2>3 DEF Tickets
<1>2. CASE WaitSem(c)
  <2>1. sem' = sem - 1 /\ UNCHANGED free /\ pc[c] = "sem" /\ pc' = [pc EXCEPT ![c] = "pop"]
    BY <1>2 DEF WaitSem
  <2>2. Cardinality(Claims)' = Cardinality(Claims) + 1
    BY <1>a, <2>1
  <2> QED BY <1>f, <1>g, <2>1, <2>2 DEF Tickets
<1>3. CASE PopEvent(c)
  <2>1. UNCHANGED sem /\ free # <<>> /\ free' = Tail(free) /\ pc[c] = "pop" /\ pc' = [pc EXCEPT ![c] = "send"]
    BY <1>3 DEF PopEvent, Popped
  <2>2. Cardinality(Claims)' = Cardinality(Claims) - 1
    BY <1>r, <2>1
  <2>3. Len(Tail(free)) = Len(free) - 1
    BY <2>1 DEF TypeOK
  <2> QED BY <1>f, <1>g, <2>1, <2>2, <2>3 DEF Tickets
<1>4. CASE GiveBack(c)
  <2>1. UNCHANGED sem /\ free' = Append(free, Head(held[c]).event) /\ pc[c] = "give"
        /\ pc' = [pc EXCEPT ![c] = "notify"]
    BY <1>4 DEF GiveBack
  <2>2. Cardinality(Claims)' = Cardinality(Claims) + 1
    BY <1>a, <2>1
  <2>3. Len(Append(free, Head(held[c]).event)) = Len(free) + 1
    BY DEF TypeOK
  <2> QED BY <1>f, <1>g, <2>1, <2>2, <2>3 DEF Tickets
<1>5. CASE Notify(c)
  <2>1. sem' = sem + 1 /\ UNCHANGED free /\ pc[c] = "notify" /\ pc' = [pc EXCEPT ![c] = "idle"]
    BY <1>5 DEF Notify
  <2>2. Cardinality(Claims)' = Cardinality(Claims) - 1
    BY <1>r, <2>1
  <2> QED BY <1>f, <1>g, <2>1, <2>2 DEF Tickets
<1> QED BY <1>1, <1>2, <1>3, <1>4, <1>5 DEF ClientStep

\* What a worker that moves from one place to another does to a count of places.
LEMMA WorkerMoves ==
  ASSUME TypeOK, NEW w \in Worker, NEW n \in Slave, NEW L,
         NEW l \in {"sem", "check", "pop", "run", "set", "gone"}, wpc' = [wpc EXCEPT ![w] = l]
  PROVE  /\ w[1] # n \/ (wpc[w] \in L <=> l \in L) => At(n, L)' = At(n, L)
         /\ w[1] = n /\ wpc[w] \notin L /\ l \in L
              => Cardinality(At(n, L))' = Cardinality(At(n, L)) + 1
         /\ w[1] = n /\ wpc[w] \in L /\ l \notin L
              => Cardinality(At(n, L))' = Cardinality(At(n, L)) - 1
<1>0. /\ wpc'[w] = l
      /\ \A v \in Worker \ {w} : wpc'[v] = wpc[v]
  BY DEF TypeOK
<1>1. ASSUME w[1] # n \/ (wpc[w] \in L <=> l \in L) PROVE At(n, L)' = At(n, L)
  BY <1>0, <1>1 DEF At
<1>2. ASSUME w[1] = n, wpc[w] \notin L, l \in L
      PROVE  Cardinality(At(n, L))' = Cardinality(At(n, L)) + 1
  <2>1. At(n, L)' = At(n, L) \cup {w} /\ w \notin At(n, L)
    BY <1>0, <1>2 DEF At
  <2>2. Cardinality(At(n, L) \cup {w}) = Cardinality(At(n, L)) + 1
    BY <2>1, AtFinite, FS_AddElement
  <2> QED BY <2>1, <2>2
<1>3. ASSUME w[1] = n, wpc[w] \in L, l \notin L
      PROVE  Cardinality(At(n, L))' = Cardinality(At(n, L)) - 1
  <2>1. At(n, L)' = At(n, L) \ {w} /\ w \in At(n, L)
    BY <1>0, <1>3 DEF At
  <2>2. Cardinality(At(n, L) \ {w}) = Cardinality(At(n, L)) - 1
    BY <2>1, AtFinite, FS_RemoveElement
  <2> QED BY <2>1, <2>2
<1> QED BY <1>1, <1>2, <1>3

\* LocalTickets of one slave.
TicketsOf(n) ==
  /\ n \notin stop => lsem[n] + Cardinality(At(n, {"check", "pop"}))
                        + (IF listener[n] = "notify" THEN 1 ELSE 0) = Len(q[n])
  /\ n \in stop => Cardinality(At(n, {"pop"})) <= Len(q[n])

\* A worker's step.
LEMMA WorkerTickets ==
  ASSUME TypeInv, LocalTickets, NEW w \in Worker, WorkerStep(w)
  PROVE  LocalTickets'
<1> USE DEF TypeInv
<1> SUFFICES ASSUME NEW n \in Slave PROVE TicketsOf(n)'
  BY DEF LocalTickets, TicketsOf
<1> DEFINE B == At(n, {"check", "pop"})
           P == At(n, {"pop"})
           I == IF listener[n] = "notify" THEN 1 ELSE 0
<1>0. /\ n \notin stop => lsem[n] + Cardinality(B) + I = Len(q[n])
      /\ n \in stop => Cardinality(P) <= Len(q[n])
  BY DEF LocalTickets
<1>f. Cardinality(B) \in Nat /\ Cardinality(P) \in Nat /\ I \in Nat /\ lsem[n] \in Nat /\ Len(q[n]) \in Nat
  BY AtFinite DEF TypeOK
<1>u. UNCHANGED <<stop, listener>>
  BY DEF WorkerStep, WorkerWait, WorkerCheck, WorkerPop, RunClosure, SetEvent
<1>g. ASSUME n \notin stop => lsem'[n] + Cardinality(B)' + I = Len(q'[n]),
             n \in stop => Cardinality(P)' <= Len(q'[n])
      PROVE  TicketsOf(n)'
  BY <1>g, <1>u DEF TicketsOf
<1> HIDE DEF B, P, I
<1>1. CASE WorkerWait(w)
  <2>1. wpc[w] = "sem" /\ wpc' = [wpc EXCEPT ![w] = "check"] /\ UNCHANGED q
    BY <1>1 DEF WorkerWait
  <2>2. lsem'[n] = IF w[1] = n THEN lsem[n] - 1 ELSE lsem[n]
    BY <1>1 DEF WorkerWait, TypeOK
  <2>3. P' = P
    BY <2>1, WorkerMoves DEF P
  <2>4. CASE w[1] = n
    <3>1. Cardinality(B)' = Cardinality(B) + 1
      BY <2>1, <2>4, WorkerMoves DEF B
    <3> QED BY <1>0, <1>f, <1>g, <2>1, <2>2, <2>3, <2>4, <3>1
  <2>5. CASE w[1] # n
    <3>1. B' = B
      BY <2>1, <2>5, WorkerMoves DEF B
    <3> QED BY <1>0, <1>f, <1>g, <2>1, <2>2, <2>3, <2>5, <3>1
  <2> QED BY <2>4, <2>5
<1>2. CASE WorkerCheck(w)
  <2>1. /\ wpc[w] = "check" /\ UNCHANGED <<q, lsem>>
        /\ wpc' = [wpc EXCEPT ![w] = IF w[1] \in stop THEN "gone" ELSE "pop"]
    BY <1>2 DEF WorkerCheck, Stopping
  <2>2. CASE w[1] \in stop
    <3>1. wpc' = [wpc EXCEPT ![w] = "gone"]
      BY <2>1, <2>2
    <3>2. P' = P
      BY <2>1, <3>1, WorkerMoves DEF P
    <3>3. n \notin stop => B' = B
      BY <2>1, <2>2, <3>1, WorkerMoves DEF B
    <3> QED BY <1>0, <1>f, <1>g, <2>1, <3>2, <3>3
  <2>3. CASE w[1] \notin stop
    <3>1. wpc' = [wpc EXCEPT ![w] = "pop"]
      BY <2>1, <2>3
    <3>2. B' = B
      BY <2>1, <3>1, WorkerMoves DEF B
    <3>3. n \in stop => P' = P
      BY <2>1, <2>3, <3>1, WorkerMoves DEF P
    <3> QED BY <1>0, <1>f, <1>g, <2>1, <3>2, <3>3
  <2> QED BY <2>2, <2>3
<1>3. CASE WorkerPop(w)
  <2>1. wpc[w] = "pop" /\ wpc' = [wpc EXCEPT ![w] = "run"] /\ UNCHANGED lsem
    BY <1>3 DEF WorkerPop
  <2>4. CASE w[1] = n
    <3>1. Cardinality(B)' = Cardinality(B) - 1
      BY <2>1, <2>4, WorkerMoves DEF B
    <3>2. Cardinality(P)' = Cardinality(P) - 1
      BY <2>1, <2>4, WorkerMoves DEF P
    <3>3. q'[n] = Tail(q[n]) /\ q[n] # <<>> /\ q[n] \in Seq(Closure)
      BY <1>3, <2>4 DEF WorkerPop, TypeOK
    <3>4. Len(q'[n]) = Len(q[n]) - 1
      BY <3>3
    <3>5. n \notin stop => lsem'[n] + Cardinality(B)' + I = Len(q'[n])
      <4>1. lsem'[n] = lsem[n]
        BY <2>1
      <4>2. ASSUME NEW a \in Nat, NEW b \in Nat, NEW i \in Nat, NEW k \in Nat, a + b + i = k
            PROVE  a + (b - 1) + i = k - 1
        BY <4>2
      <4> QED BY <1>0, <1>f, <3>1, <3>4, <4>1, <4>2
    <3>6. n \in stop => Cardinality(P)' <= Len(q'[n])
      BY <1>0, <1>f, <3>2, <3>4
    <3> QED BY <1>g, <3>5, <3>6
  <2>5. CASE w[1] # n
    <3>1. B' = B
      BY <2>1, <2>5, WorkerMoves DEF B
    <3>2. P' = P
      BY <2>1, <2>5, WorkerMoves DEF P
    <3>3. q'[n] = q[n]
      BY <1>3, <2>5 DEF WorkerPop, TypeOK
    <3> QED BY <1>0, <1>f, <1>g, <2>1, <3>1, <3>2, <3>3
  <2> QED BY <2>4, <2>5
<1>4. CASE RunClosure(w) \/ SetEvent(w)
  <2>1. /\ wpc[w] \in {"run", "set"} /\ UNCHANGED <<q, lsem>>
        /\ \E l \in {"sem", "set"} : wpc' = [wpc EXCEPT ![w] = l]
    BY <1>4 DEF RunClosure, SetEvent, AfterRun
  <2>a. PICK l \in {"sem", "set"} : wpc' = [wpc EXCEPT ![w] = l]
    BY <2>1
  <2>b. /\ l \in {"sem", "check", "pop", "run", "set", "gone"}
        /\ wpc[w] \notin {"check", "pop"} /\ l \notin {"check", "pop"}
        /\ wpc[w] \notin {"pop"} /\ l \notin {"pop"}
    BY <2>1
  <2>2. B' = B
    BY <2>a, <2>b, WorkerMoves, Zenon DEF B
  <2>3. P' = P
    BY <2>a, <2>b, WorkerMoves, Zenon DEF P
  <2> QED BY <1>0, <1>f, <1>g, <2>1, <2>2, <2>3
<1> QED BY <1>1, <1>2, <1>3, <1>4 DEF WorkerStep

\* A listener's step, a command the master serves, and the destructor.
LEMMA NodeTickets ==
  ASSUME TypeInv, LocalTickets, NEW m \in Slave, ListenerStep(m) \/ MasterSet(m) \/ Close(m)
  PROVE  LocalTickets'
<1> USE DEF TypeInv
<1> SUFFICES ASSUME NEW n \in Slave PROVE TicketsOf(n)'
  BY DEF LocalTickets, TicketsOf
<1> DEFINE B == At(n, {"check", "pop"})
           P == At(n, {"pop"})
<1>0. /\ n \notin stop => lsem[n] + Cardinality(B) + (IF listener[n] = "notify" THEN 1 ELSE 0) = Len(q[n])
      /\ n \in stop => Cardinality(P) <= Len(q[n])
  BY DEF LocalTickets
<1>f. Cardinality(B) \in Nat /\ Cardinality(P) \in Nat /\ lsem[n] \in Nat /\ Len(q[n]) \in Nat
  BY AtFinite DEF TypeOK
<1>w. wpc' = wpc => B' = B /\ P' = P
  BY DEF At
<1>g. ASSUME n \notin stop' => lsem'[n] + Cardinality(B)' + (IF listener'[n] = "notify" THEN 1 ELSE 0)
                                 = Len(q'[n]),
             n \in stop' => Cardinality(P)' <= Len(q'[n])
      PROVE  TicketsOf(n)'
  BY <1>g DEF TicketsOf
<1>p. Cardinality(P) <= Cardinality(B)
  <2>1. P \subseteq B /\ IsFiniteSet(B)
    BY AtFinite DEF At
  <2> QED BY <2>1, FS_Subset
<1> HIDE DEF B, P
<1>1. CASE Receive(m)
  <2>1. UNCHANGED <<lsem, stop, wpc>>
    BY <1>1 DEF Receive
  <2>2. CASE n = m
    <3>1. /\ q'[n] = Append(q[n], Head(data[n])) /\ q[n] \in Seq(Closure)
          /\ data[n] \in Seq(Closure) /\ data[n] # <<>>
          /\ listener[n] = "recv" /\ listener'[n] = "notify" /\ n \notin stop
      BY <1>1, <2>2 DEF Receive, TypeOK
    <3>2. Len(q'[n]) = Len(q[n]) + 1
      BY <3>1
    <3> QED BY <1>0, <1>f, <1>g, <1>w, <2>1, <3>1, <3>2
  <2>3. CASE n # m
    <3>1. q'[n] = q[n] /\ listener'[n] = listener[n]
      BY <1>1, <2>3 DEF Receive, TypeOK
    <3> QED BY <1>0, <1>g, <1>w, <2>1, <3>1
  <2> QED BY <2>2, <2>3
<1>2. CASE Enqueued(m)
  <2>1. UNCHANGED <<q, stop, wpc>>
    BY <1>2 DEF Enqueued
  <2>2. CASE n = m
    <3>1. lsem'[n] = lsem[n] + 1 /\ listener[n] = "notify" /\ listener'[n] = "recv"
      BY <1>2, <2>2 DEF Enqueued, Raised, TypeOK
    <3> QED BY <1>0, <1>f, <1>g, <1>w, <2>1, <3>1
  <2>3. CASE n # m
    <3>1. lsem'[n] = lsem[n] /\ listener'[n] = listener[n]
      BY <1>2, <2>3 DEF Enqueued, TypeOK
    <3> QED BY <1>0, <1>g, <1>w, <2>1, <3>1
  <2> QED BY <2>2, <2>3
<1>3. CASE MasterSet(m)
  <2>1. UNCHANGED <<listener, q, lsem, stop, wpc>>
    BY <1>3 DEF MasterSet, local
  <2> QED BY <1>0, <1>g, <1>w, <2>1
<1>4. CASE Close(m)
  <2>1. UNCHANGED <<listener, q, wpc>> /\ stop' = stop \cup {m}
    BY <1>4 DEF Close
  <2>2. CASE n = m
    <3>1. n \notin stop /\ n \in stop'
      BY <1>4, <2>2 DEF Close
    <3>2. Cardinality(P) <= Len(q[n])
      BY <1>0, <1>f, <1>p, <3>1
    <3> QED BY <1>g, <1>w, <2>1, <3>1, <3>2
  <2>3. CASE n # m
    <3>1. lsem'[n] = lsem[n] /\ (n \in stop' <=> n \in stop)
      BY <1>4, <2>3 DEF Close, TypeOK
    <3> QED BY <1>0, <1>g, <1>w, <2>1, <3>1
  <2> QED BY <2>2, <2>3
<1> QED BY <1>1, <1>2, <1>3, <1>4 DEF ListenerStep

\* At the start there is neither an entry nor a unit.
LEMMA InitTickets == Init => Tickets /\ LocalTickets
<1> SUFFICES ASSUME Init PROVE Tickets /\ LocalTickets
  OBVIOUS
<1>1. Claims = {}
  BY DEF Init, Claims
<1>2. Tickets
  BY <1>1, FS_EmptySet DEF Init, Tickets
<1>3. ASSUME NEW n \in Slave PROVE TicketsOf(n)
  <2>1. At(n, {"check", "pop"}) = {}
    BY DEF Init, At
  <2>2. Cardinality(At(n, {"check", "pop"})) = 0
    BY <2>1, FS_EmptySet
  <2>3. stop = {} /\ lsem[n] = 0 /\ listener[n] = "recv" /\ q[n] = <<>>
    BY DEF Init
  <2> QED BY <2>2, <2>3 DEF TicketsOf
<1> QED BY <1>2, <1>3 DEF LocalTickets, TicketsOf

\* Units and entries go together.
LEMMA NextTickets ==
  TypeInv /\ Tickets /\ LocalTickets /\ [Next]_vars => Tickets' /\ LocalTickets'
<1> SUFFICES ASSUME TypeInv, Tickets, LocalTickets, [Next]_vars PROVE Tickets' /\ LocalTickets'
  OBVIOUS
<1>a. UNCHANGED <<pool, client>> => Tickets'
  BY DEF pool, client, Tickets, Claims
<1>b. UNCHANGED local => LocalTickets'
  <2> SUFFICES ASSUME UNCHANGED local, NEW n \in Slave PROVE TicketsOf(n)'
    BY DEF LocalTickets, TicketsOf
  <2>1. UNCHANGED <<listener, q, lsem, stop, wpc>> /\ TicketsOf(n)
    BY DEF local, LocalTickets, TicketsOf
  <2>2. At(n, {"check", "pop"})' = At(n, {"check", "pop"}) /\ At(n, {"pop"})' = At(n, {"pop"})
    BY <2>1 DEF At
  <2> QED BY <2>1, <2>2 DEF TicketsOf
<1>1. ASSUME NEW c \in Client, ClientStep(c) \/ TimeOut(c) PROVE Tickets' /\ LocalTickets'
  <2>1. UNCHANGED local
    BY <1>1 DEF ClientStep, Schedule, FindEvent, WaitSem, PopEvent, SendClosure, WaitEvent,
                Woken, GiveBack, Notify, TimeOut
  <2> QED BY <1>1, <1>b, <2>1, ClientTickets
<1>2. ASSUME NEW w \in Worker, WorkerStep(w) PROVE Tickets' /\ LocalTickets'
  <2>1. UNCHANGED <<pool, client>>
    BY <1>2 DEF WorkerStep, WorkerWait, WorkerCheck, WorkerPop, RunClosure, SetEvent
  <2> QED BY <1>2, <1>a, <2>1, WorkerTickets
<1>3. ASSUME NEW n \in Slave, ListenerStep(n) \/ MasterSet(n) \/ Close(n) PROVE Tickets' /\ LocalTickets'
  <2>1. UNCHANGED <<pool, client>>
    BY <1>3 DEF ListenerStep, Receive, Enqueued, MasterSet, Close
  <2> QED BY <1>3, <1>a, <2>1, NodeTickets
<1>4. CASE UNCHANGED vars
  BY <1>4, <1>a, <1>b DEF vars
<1> QED BY <1>1, <1>2, <1>3, <1>4 DEF Next

\* A unit that was taken and an entry that was not yet read: the queue is not
\* empty.
LEMMA TicketsServe == TypeInv /\ Tickets /\ LocalTickets => NoEmptyFront
<1> SUFFICES ASSUME TypeInv, Tickets, LocalTickets PROVE NoEmptyFront
  OBVIOUS
<1>t. sem \in Nat /\ free \in Seq(Ids)
  BY DEF TypeInv, TypeOK
<1>1. ASSUME NEW c \in Client, pc[c] = "pop" PROVE free # <<>>
  <2>1. c \in Claims
    BY <1>1 DEF Claims
  <2>2. Cardinality(Claims) \in Nat /\ Cardinality(Claims) # 0
    BY <2>1, ClaimsFinite, FS_EmptySet
  <2>3. Len(free) > 0
    BY <1>t, <2>2 DEF Tickets
  <2> QED BY <1>t, <2>3
<1>2. ASSUME NEW w \in Worker, wpc[w] = "pop" PROVE q[w[1]] # <<>>
  <2>1. PICK n \in Slave : n = w[1]
    BY WorkerNode
  <2>2. w \in At(n, {"pop"}) /\ w \in At(n, {"check", "pop"})
    BY <1>2, <2>1 DEF At
  <2>3. /\ Cardinality(At(n, {"pop"})) \in Nat /\ Cardinality(At(n, {"pop"})) # 0
        /\ Cardinality(At(n, {"check", "pop"})) \in Nat /\ Cardinality(At(n, {"check", "pop"})) # 0
    BY <2>2, AtFinite, FS_EmptySet
  <2>4. TicketsOf(n) /\ lsem[n] \in Nat /\ q[n] \in Seq(Closure)
    BY DEF LocalTickets, TicketsOf, TypeInv, TypeOK
  <2>5. Len(q[n]) > 0
    BY <2>3, <2>4 DEF TicketsOf
  <2> QED BY <2>1, <2>4, <2>5
<1> QED BY <1>1, <1>2 DEF NoEmptyFront

\* No thread ever calls front() on an empty queue, of the events that were given
\* back (FindEvent) or of the closures of a slave (LThreadPool::dequeue), for any
\* number of clients, slaves, workers, events and jobs, timeouts and the
\* destruction of the pool included.
THEOREM NoEmptyFrontHolds == Spec => []NoEmptyFront
<1>1. Init => TypeInv /\ Tickets /\ LocalTickets
  BY InitType, InitTickets
<1>2. TypeInv /\ Tickets /\ LocalTickets /\ [Next]_vars => (TypeInv /\ Tickets /\ LocalTickets)'
  BY NextType, NextTickets
<1> QED BY <1>1, <1>2, TicketsServe, PTL DEF Spec

(***************************************************************************)
(* The events of the pool.                                                 *)
(***************************************************************************)

\* The events of a list, of events or of DThreadPoolEvents, and that none is
\* in it twice.
In(s) == {s[i] : i \in DOMAIN s}
Once(s) == \A i, j \in DOMAIN s : s[i] = s[j] => i = j
EventsIn(s) == {s[i].event : i \in DOMAIN s}
EventsOnce(s) == \A i, j \in DOMAIN s : s[i].event = s[j].event => i = j

\* Taking the first entry of a list of events.
LEMMA TailOnce ==
  ASSUME NEW S, NEW s \in Seq(S), s # <<>>, Once(s)
  PROVE  Once(Tail(s)) /\ In(Tail(s)) = In(s) \ {Head(s)} /\ Head(s) \in In(s)
<1>1. /\ DOMAIN s = 1 .. Len(s) /\ DOMAIN Tail(s) = 1 .. Len(s) - 1 /\ Len(s) \in Nat \ {0}
      /\ Head(s) = s[1] /\ \A i \in 1 .. Len(s) - 1 : Tail(s)[i] = s[i + 1]
  OBVIOUS
<1>2. ASSUME NEW i \in DOMAIN Tail(s), NEW j \in DOMAIN Tail(s), Tail(s)[i] = Tail(s)[j] PROVE i = j
  BY <1>1, <1>2 DEF Once
<1>3. ASSUME NEW e, e \in In(Tail(s)) PROVE e \in In(s) \ {Head(s)}
  <2>1. PICK i \in 1 .. Len(s) - 1 : e = s[i + 1]
    BY <1>1, <1>3 DEF In
  <2>2. i + 1 \in DOMAIN s /\ 1 \in DOMAIN s /\ i + 1 # 1
    BY <1>1, <2>1
  <2> QED BY <1>1, <2>1, <2>2 DEF In, Once
<1>4. ASSUME NEW e, e \in In(s), e # Head(s) PROVE e \in In(Tail(s))
  <2>1. PICK i \in DOMAIN s : e = s[i]
    BY <1>4 DEF In
  <2>2. i - 1 \in 1 .. Len(s) - 1 /\ i = (i - 1) + 1
    BY <1>1, <1>4, <2>1
  <2>3. Tail(s)[i - 1] = e
    BY <1>1, <2>1, <2>2
  <2> QED BY <1>1, <2>2, <2>3 DEF In
<1>5. Head(s) \in In(s)
  BY <1>1 DEF In
<1> QED BY <1>2, <1>3, <1>4, <1>5 DEF Once

\* Adding one that is not in it.
LEMMA AppendOnce ==
  ASSUME NEW S, NEW s \in Seq(S), NEW x \in S, x \notin In(s), Once(s)
  PROVE  Once(Append(s, x)) /\ In(Append(s, x)) = In(s) \cup {x}
<1> DEFINE t == Append(s, x)
<1>1. /\ DOMAIN s = 1 .. Len(s) /\ DOMAIN t = 1 .. Len(s) + 1 /\ Len(s) \in Nat
      /\ t[Len(s) + 1] = x /\ \A i \in 1 .. Len(s) : t[i] = s[i]
  OBVIOUS
<1> HIDE DEF t
<1>2. ASSUME NEW i \in DOMAIN t, NEW j \in DOMAIN t, t[i] = t[j] PROVE i = j
  <2>1. (i \in DOMAIN s \/ i = Len(s) + 1) /\ (j \in DOMAIN s \/ j = Len(s) + 1)
    BY <1>1
  <2> QED BY <1>1, <1>2, <2>1 DEF Once, In
<1>3. In(t) = In(s) \cup {x}
  <2>1. DOMAIN t = DOMAIN s \cup {Len(s) + 1}
    BY <1>1
  <2> QED BY <1>1, <2>1 DEF In
<1> QED BY <1>2, <1>3 DEF Once, t

\* The same for a list of DThreadPoolEvents.
LEMMA TailEvents ==
  ASSUME NEW S, NEW s \in Seq(S), s # <<>>, EventsOnce(s)
  PROVE  EventsOnce(Tail(s)) /\ EventsIn(Tail(s)) = EventsIn(s) \ {Head(s).event}
         /\ Head(s).event \in EventsIn(s)
<1>1. /\ DOMAIN s = 1 .. Len(s) /\ DOMAIN Tail(s) = 1 .. Len(s) - 1 /\ Len(s) \in Nat \ {0}
      /\ Head(s) = s[1] /\ \A i \in 1 .. Len(s) - 1 : Tail(s)[i] = s[i + 1]
  OBVIOUS
<1>2. ASSUME NEW i \in DOMAIN Tail(s), NEW j \in DOMAIN Tail(s), Tail(s)[i].event = Tail(s)[j].event
      PROVE  i = j
  BY <1>1, <1>2 DEF EventsOnce
<1>3. ASSUME NEW e, e \in EventsIn(Tail(s)) PROVE e \in EventsIn(s) \ {Head(s).event}
  <2>1. PICK i \in 1 .. Len(s) - 1 : e = s[i + 1].event
    BY <1>1, <1>3 DEF EventsIn
  <2>2. i + 1 \in DOMAIN s /\ 1 \in DOMAIN s /\ i + 1 # 1
    BY <1>1, <2>1
  <2> QED BY <1>1, <2>1, <2>2 DEF EventsIn, EventsOnce
<1>4. ASSUME NEW e, e \in EventsIn(s), e # Head(s).event PROVE e \in EventsIn(Tail(s))
  <2>1. PICK i \in DOMAIN s : e = s[i].event
    BY <1>4 DEF EventsIn
  <2>2. i - 1 \in 1 .. Len(s) - 1 /\ i = (i - 1) + 1
    BY <1>1, <1>4, <2>1
  <2>3. Tail(s)[i - 1].event = e
    BY <1>1, <2>1, <2>2
  <2> QED BY <1>1, <2>2, <2>3 DEF EventsIn
<1>5. Head(s).event \in EventsIn(s)
  BY <1>1 DEF EventsIn
<1> QED BY <1>2, <1>3, <1>4, <1>5 DEF EventsOnce

\* The events of a queue after a push.
LEMMA AppendEvents ==
  ASSUME NEW S, NEW s \in Seq(S), NEW x \in S, x.event \notin EventsIn(s), EventsOnce(s)
  PROVE  EventsOnce(Append(s, x)) /\ EventsIn(Append(s, x)) = EventsIn(s) \cup {x.event}
<1> DEFINE t == Append(s, x)
<1>1. /\ DOMAIN s = 1 .. Len(s) /\ DOMAIN t = 1 .. Len(s) + 1 /\ Len(s) \in Nat
      /\ t[Len(s) + 1] = x /\ \A i \in 1 .. Len(s) : t[i] = s[i]
  OBVIOUS
<1> HIDE DEF t
<1>2. ASSUME NEW i \in DOMAIN t, NEW j \in DOMAIN t, t[i].event = t[j].event PROVE i = j
  <2>1. (i \in DOMAIN s \/ i = Len(s) + 1) /\ (j \in DOMAIN s \/ j = Len(s) + 1)
    BY <1>1
  <2> QED BY <1>1, <1>2, <2>1 DEF EventsOnce, EventsIn
<1>3. EventsIn(t) = EventsIn(s) \cup {x.event}
  <2>1. DOMAIN t = DOMAIN s \cup {Len(s) + 1}
    BY <1>1
  <2> QED BY <1>1, <2>1 DEF EventsIn
<1> QED BY <1>2, <1>3 DEF EventsOnce, t

\* The event a client is about to send.
Out(c) == IF pc[c] = "send" /\ eve[c] # NoEvent THEN {eve[c]} ELSE {}

\* Only First creates events and looks at the vector, so it is never moved
\* under a reference.
Filling ==
  /\ made <= MaxWait
  /\ \A c \in Client : ref[c] # "freed"
  /\ \A c \in Client \ {First} : ref[c] # "vector" /\ (pc[c] = "find" => made = MaxWait)

\* An event is with one owner, and every event has an owner.
Owners ==
  /\ \A c, d \in Client : c # d => Out(c) \cap Out(d) = {} /\ EventsIn(held[c]) \cap EventsIn(held[d]) = {}
  /\ \A c, d \in Client : Out(c) \cap EventsIn(held[d]) = {}
  /\ \A c \in Client : Out(c) \cap In(free) = {} /\ EventsIn(held[c]) \cap In(free) = {}
  /\ \A e : e \in 1 .. made <=> \/ e \in In(free)
                                \/ \E c \in Client : e \in Out(c) \/ e \in EventsIn(held[c])

EventInv == Filling /\ Owners /\ Once(free) /\ \A c \in Client : EventsOnce(held[c])

\* What Owners depends on.
LEMMA OwnersKept ==
  ASSUME Owners, made' = made, In(free)' = In(free),
         \A c \in Client : Out(c)' = Out(c) /\ EventsIn(held[c])' = EventsIn(held[c])
  PROVE  Owners'
BY DEF Owners

\* A client's step moves at most one event, and from one owner to the next.
LEMMA ClientEvents ==
  ASSUME First \in Client, TypeInv, EventInv, NEW c \in Client, ClientStep(c) \/ TimeOut(c)
  PROVE  EventInv'
<1> USE DEF TypeInv
<1>t. /\ MaxWait \in Nat /\ made \in Nat /\ free \in Seq(Ids)
      /\ held \in [Client -> Seq(Closure)] /\ held[c] \in Seq(Closure)
  BY PoolAssumption DEF TypeOK
<1>o. ASSUME NEW d \in Client, pc'[d] = pc[d], eve'[d] = eve[d] PROVE Out(d)' = Out(d)
  BY <1>o DEF Out
<1>1. CASE Schedule(c)
  <2>1. /\ UNCHANGED <<made, free, ref, held>>
        /\ pc[c] = "idle" /\ pc'[c] \in {"send", "find"} /\ eve'[c] = NoEvent
        /\ \A d \in Client \ {c} : pc'[d] = pc[d] /\ eve'[d] = eve[d]
        /\ c # First => made = MaxWait
    BY <1>1 DEF Schedule, TypeOK
  <2>2. \A d \in Client : Out(d)' = Out(d)
    <3>1. Out(c)' = {} /\ Out(c) = {}
      BY <2>1 DEF Out
    <3> QED BY <1>o, <2>1, <3>1
  <2>3. Owners'
    BY <2>1, <2>2, OwnersKept DEF EventInv
  <2>4. Filling'
    BY <2>1 DEF EventInv, Filling
  <2> QED BY <2>1, <2>3, <2>4 DEF EventInv
<1>2. CASE FindEvent(c) /\ ~MayCreate
  <2>1. /\ UNCHANGED <<made, free, ref, held, eve>>
        /\ pc[c] = "find" /\ pc'[c] = "sem" /\ \A d \in Client \ {c} : pc'[d] = pc[d]
    BY <1>2 DEF FindEvent, TypeOK
  <2>2. \A d \in Client : Out(d)' = Out(d)
    <3>1. Out(c)' = {} /\ Out(c) = {}
      BY <2>1 DEF Out
    <3> QED BY <1>o, <2>1, <3>1
  <2>3. Owners'
    BY <2>1, <2>2, OwnersKept DEF EventInv
  <2>4. Filling'
    BY <2>1 DEF EventInv, Filling
  <2> QED BY <2>1, <2>3, <2>4 DEF EventInv
<1>3. CASE FindEvent(c) /\ MayCreate
  <2>1. /\ UNCHANGED <<free, held>> /\ made < MaxWait /\ made' = made + 1
        /\ pc[c] = "find" /\ pc'[c] = "send" /\ eve'[c] = made + 1 /\ ref'[c] = "vector"
        /\ \A d \in Client \ {c} : pc'[d] = pc[d] /\ eve'[d] = eve[d]
        /\ \A d \in Client \ {c} : ref[d] # "vector" => ref'[d] = ref[d]
    BY <1>3 DEF FindEvent, MayCreate, TypeOK
  <2>2. c = First
    BY <1>t, <2>1 DEF EventInv, Filling
  <2>3. Filling'
    BY <1>t, <2>1, <2>2 DEF EventInv, Filling
  <2>4. /\ Out(c)' = {made + 1} /\ Out(c) = {}
        /\ \A d \in Client \ {c} : Out(d)' = Out(d)
    <3>1. made + 1 # NoEvent
      BY <1>t DEF NoEvent
    <3>2. Out(c)' = {made + 1} /\ Out(c) = {}
      BY <2>1, <3>1 DEF Out
    <3> QED BY <1>o, <2>1, <3>2
  <2>5. Owners'
    <3>1. made + 1 \notin 1 .. made /\ 1 .. made' = 1 .. made \cup {made + 1}
      BY <1>t, <2>1
    <3>2. made + 1 \notin In(free) /\ \A d \in Client : made + 1 \notin Out(d) /\ made + 1 \notin EventsIn(held[d])
      BY <3>1 DEF EventInv, Owners
    <3> QED BY <2>1, <2>4, <3>1, <3>2 DEF EventInv, Owners
  <2> QED BY <2>1, <2>3, <2>5 DEF EventInv
<1>4. CASE PopEvent(c)
  <2> DEFINE e == Head(free)
  <2>1. /\ UNCHANGED <<made, held>> /\ free # <<>> /\ free' = Tail(free)
        /\ pc[c] = "pop" /\ pc'[c] = "send" /\ eve'[c] = e /\ ref'[c] = "queue"
        /\ \A d \in Client \ {c} : pc'[d] = pc[d] /\ eve'[d] = eve[d] /\ ref'[d] = ref[d]
    BY <1>4 DEF PopEvent, Popped, TypeOK
  <2>2. Once(free') /\ In(free)' = In(free) \ {e} /\ e \in In(free)
    BY <1>t, <2>1, TailOnce DEF EventInv
  <2> HIDE DEF e
  <2>3. Filling'
    BY <2>1 DEF EventInv, Filling
  <2>4. /\ Out(c)' = {e} /\ Out(c) = {}
        /\ \A d \in Client \ {c} : Out(d)' = Out(d)
    <3>1. e # NoEvent
      BY <1>t, <2>2 DEF NoEvent, EventInv, Owners
    <3>2. Out(c)' = {e} /\ Out(c) = {}
      BY <2>1, <3>1 DEF Out
    <3> QED BY <1>o, <2>1, <3>2
  <2>5. Owners'
    <3>1. \A d \in Client : e \notin Out(d) /\ e \notin EventsIn(held[d])
      BY <2>2 DEF EventInv, Owners
    <3>2. e \in 1 .. made
      BY <2>2 DEF EventInv, Owners
    <3> QED BY <2>1, <2>2, <2>4, <3>1, <3>2 DEF EventInv, Owners
  <2> QED BY <2>1, <2>2, <2>3, <2>5 DEF EventInv
<1>5. CASE SendClosure(c)
  <2> DEFINE m == [job |-> <<c, njobs[c]>>, event |-> eve[c]]
  <2>1. /\ UNCHANGED <<made, free, eve>>
        /\ pc[c] = "send" /\ pc'[c] = "idle" /\ ref'[c] = "none"
        /\ \A d \in Client \ {c} : pc'[d] = pc[d] /\ ref'[d] = ref[d] /\ held'[d] = held[d]
        /\ held'[c] = IF eve[c] = NoEvent THEN held[c] ELSE Append(held[c], m)
    <3>1. held' = [held EXCEPT ![c] = IF eve[c] = NoEvent THEN @ ELSE Append(@, m)]
      BY <1>5 DEF SendClosure, EventInv, Filling
    <3>2. /\ UNCHANGED <<made, free, eve>> /\ pc[c] = "send"
          /\ pc' = [pc EXCEPT ![c] = "idle"] /\ ref' = [ref EXCEPT ![c] = "none"]
      BY <1>5 DEF SendClosure, pool
    <3> HIDE DEF m
    <3> QED BY <3>1, <3>2 DEF TypeOK
  <2>m. m \in Closure /\ m.event = eve[c]
    BY DEF Closure, TypeOK
  <2> HIDE DEF m
  <2>2. Filling'
    BY <2>1 DEF EventInv, Filling
  <2>3. /\ Out(c)' = {} /\ Out(c) = IF eve[c] = NoEvent THEN {} ELSE {eve[c]}
        /\ \A d \in Client \ {c} : Out(d)' = Out(d)
    <3>1. Out(c)' = {} /\ Out(c) = IF eve[c] = NoEvent THEN {} ELSE {eve[c]}
      BY <2>1 DEF Out
    <3> QED BY <1>o, <2>1, <3>1
  <2>4. CASE eve[c] = NoEvent
    <3>1. \A d \in Client : held'[d] = held[d] /\ Out(d)' = Out(d)
      BY <2>1, <2>3, <2>4
    <3>2. Owners'
      BY <2>1, <3>1, OwnersKept DEF EventInv
    <3> QED BY <2>1, <2>2, <3>1, <3>2 DEF EventInv
  <2>5. CASE eve[c] # NoEvent
    <3>1. Out(c) = {eve[c]} /\ held'[c] = Append(held[c], m)
      BY <2>1, <2>3, <2>5
    <3>2. eve[c] \notin EventsIn(held[c]) /\ EventsOnce(held[c])
      BY <3>1 DEF EventInv, Owners
    <3>3. EventsOnce(held'[c]) /\ EventsIn(held'[c]) = EventsIn(held[c]) \cup {eve[c]}
      BY <1>t, <2>m, <3>1, <3>2, AppendEvents
    <3>4. \A d \in Client \ {c} : EventsIn(held'[d]) = EventsIn(held[d])
      BY <2>1
    <3>5. Owners'
      <4>1. eve[c] \in 1 .. made /\ eve[c] \notin In(free)
        BY <3>1 DEF EventInv, Owners
      <4>2. \A d \in Client \ {c} : eve[c] \notin EventsIn(held[d]) /\ eve[c] \notin Out(d)
        BY <3>1 DEF EventInv, Owners
      <4>3. \A d \in Client : Out(d)' \subseteq Out(d)
        BY <2>3
      <4>4. /\ \A a, b \in Client : a # b => Out(a)' \cap Out(b)' = {}
            /\ \A a \in Client : Out(a)' \cap In(free) = {}
        BY <4>3 DEF EventInv, Owners
      <4>5. \A a, b \in Client : a # b => EventsIn(held'[a]) \cap EventsIn(held'[b]) = {}
        BY <3>3, <3>4, <4>2 DEF EventInv, Owners
      <4>6. \A a, b \in Client : Out(a)' \cap EventsIn(held'[b]) = {}
        BY <2>3, <3>3, <3>4, <4>2, <4>3 DEF EventInv, Owners
      <4>7. \A a \in Client : EventsIn(held'[a]) \cap In(free) = {}
        BY <3>3, <3>4, <4>1 DEF EventInv, Owners
      <4>8. \A e : (\E a \in Client : e \in Out(a)' \/ e \in EventsIn(held'[a]))
                    <=> (\E a \in Client : e \in Out(a) \/ e \in EventsIn(held[a]))
        BY <2>3, <3>1, <3>3, <3>4
      <4> QED BY <2>1, <4>4, <4>5, <4>6, <4>7, <4>8 DEF EventInv, Owners
    <3> QED BY <2>1, <2>2, <3>3, <3>5 DEF EventInv
  <2> QED BY <2>4, <2>5
<1>6. CASE WaitSem(c) \/ WaitEvent(c) \/ Woken(c) \/ TimeOut(c) \/ Notify(c)
  <2>1. /\ UNCHANGED <<made, free, held, eve, ref>>
        /\ pc[c] # "send" /\ pc'[c] \notin {"send", "find"} /\ \A d \in Client \ {c} : pc'[d] = pc[d]
    <3>1. /\ UNCHANGED <<made, free, held, eve, ref>> /\ pc[c] # "send"
          /\ \E l \in {"pop", "wait", "give", "idle"} : pc' = [pc EXCEPT ![c] = l]
      BY <1>6 DEF WaitSem, WaitEvent, Woken, TimeOut, Notify, pool
    <3> QED BY <3>1 DEF TypeOK
  <2>2. \A d \in Client : Out(d)' = Out(d)
    <3>1. Out(c)' = {} /\ Out(c) = {}
      BY <2>1 DEF Out
    <3> QED BY <1>o, <2>1, <3>1
  <2>3. Owners'
    BY <2>1, <2>2, OwnersKept DEF EventInv
  <2>4. Filling'
    BY <2>1 DEF EventInv, Filling
  <2> QED BY <2>1, <2>3, <2>4 DEF EventInv
<1>7. CASE GiveBack(c)
  <2> DEFINE e == Head(held[c]).event
  <2>1. /\ UNCHANGED <<made, eve, ref>> /\ held[c] # <<>> /\ held'[c] = Tail(held[c])
        /\ free' = Append(free, e) /\ pc[c] = "give" /\ pc'[c] = "notify"
        /\ \A d \in Client \ {c} : pc'[d] = pc[d] /\ held'[d] = held[d]
    BY <1>7 DEF GiveBack, TypeOK, Holding
  <2>2. /\ EventsOnce(held'[c]) /\ EventsIn(held'[c]) = EventsIn(held[c]) \ {e}
        /\ e \in EventsIn(held[c])
    BY <1>t, <2>1, TailEvents DEF EventInv
  <2>m. e \in Ids
    <3>1. Head(held[c]) \in Closure
      BY <1>t, <2>1
    <3> QED BY <3>1 DEF Closure
  <2> HIDE DEF e
  <2>3. e \in 1 .. made /\ e \notin In(free)
    BY <2>2 DEF EventInv, Owners
  <2>4. Once(free') /\ In(free)' = In(free) \cup {e}
    BY <1>t, <2>1, <2>3, <2>m, AppendOnce DEF EventInv
  <2>5. Filling'
    BY <2>1 DEF EventInv, Filling
  <2>6. \A d \in Client : Out(d)' = Out(d)
    <3>1. Out(c)' = {} /\ Out(c) = {}
      BY <2>1 DEF Out
    <3> QED BY <1>o, <2>1, <3>1
  <2>7. Owners'
    <3>1. \A d \in Client \ {c} : EventsIn(held'[d]) = EventsIn(held[d]) /\ e \notin EventsIn(held[d])
      BY <2>1, <2>2 DEF EventInv, Owners
    <3>2. \A d \in Client : e \notin Out(d)
      BY <2>2 DEF EventInv, Owners
    <3>3. \A d \in Client : EventsIn(held'[d]) \subseteq EventsIn(held[d])
      BY <2>2, <3>1
    <3>4. /\ \A a, b \in Client : a # b => EventsIn(held'[a]) \cap EventsIn(held'[b]) = {}
          /\ \A a, b \in Client : Out(a) \cap EventsIn(held'[b]) = {}
      BY <3>3 DEF EventInv, Owners
    <3>5. \A a \in Client : EventsIn(held'[a]) \cap In(free)' = {}
      BY <2>2, <2>4, <3>1 DEF EventInv, Owners
    <3>6. \A a \in Client : Out(a) \cap In(free)' = {}
      BY <2>4, <3>2 DEF EventInv, Owners
    <3>7. \A x : (x \in In(free)' \/ \E a \in Client : x \in Out(a) \/ x \in EventsIn(held'[a]))
                  <=> (x \in In(free) \/ \E a \in Client : x \in Out(a) \/ x \in EventsIn(held[a]))
      BY <2>2, <2>4, <3>1
    <3>8. \A x : x \in 1 .. made' <=> \/ x \in In(free)'
                                        \/ \E a \in Client : x \in Out(a)' \/ x \in EventsIn(held'[a])
      BY <2>1, <2>6, <3>7 DEF EventInv, Owners
    <3>9. \A a, b \in Client : a # b => Out(a)' \cap Out(b)' = {}
      BY <2>6 DEF EventInv, Owners
    <3> QED BY <2>6, <3>4, <3>5, <3>6, <3>8, <3>9 DEF Owners
  <2> QED BY <2>1, <2>2, <2>4, <2>5, <2>7 DEF EventInv
<1> QED BY <1>1, <1>2, <1>3, <1>4, <1>5, <1>6, <1>7 DEF ClientStep

\* Nobody else touches the events of the pool.
LEMMA NextEvents ==
  ASSUME First \in Client, TypeInv, EventInv, [Next]_vars
  PROVE  EventInv'
<1>1. ASSUME UNCHANGED <<pool, client>> PROVE EventInv'
  <2>1. UNCHANGED <<pc, made, free, eve, ref, held>>
    BY <1>1 DEF pool, client
  <2>2. \A c \in Client : Out(c)' = Out(c)
    BY <2>1 DEF Out
  <2>3. Owners'
    BY <2>1, <2>2, OwnersKept DEF EventInv
  <2> QED BY <2>1, <2>3 DEF EventInv, Filling
<1>2. ASSUME NEW w \in Worker, WorkerStep(w) PROVE UNCHANGED <<pool, client>>
  BY <1>2 DEF WorkerStep, WorkerWait, WorkerCheck, WorkerPop, RunClosure, SetEvent
<1>3. ASSUME NEW n \in Slave, ListenerStep(n) \/ MasterSet(n) \/ Close(n) PROVE UNCHANGED <<pool, client>>
  BY <1>3 DEF ListenerStep, Receive, Enqueued, MasterSet, Close
<1>4. UNCHANGED vars => UNCHANGED <<pool, client>>
  BY DEF vars
<1> QED BY <1>1, <1>2, <1>3, <1>4, ClientEvents DEF Next

\* No event has been made at the start.
LEMMA InitEvents == Init => EventInv
<1> SUFFICES ASSUME Init PROVE EventInv
  OBVIOUS
<1>1. free = <<>> /\ made = 0 /\ MaxWait \in Nat
  BY PoolAssumption DEF Init
<1>2. \A c \in Client : held[c] = <<>> /\ Out(c) = {} /\ ref[c] = "none" /\ pc[c] = "idle"
  BY DEF Init, Out
<1>3. /\ In(<<>>) = {} /\ Once(<<>>) /\ EventsIn(<<>>) = {} /\ EventsOnce(<<>>)
  BY DEF In, Once, EventsIn, EventsOnce
<1>4. 1 .. 0 = {}
  OBVIOUS
<1>5. Filling
  BY <1>1, <1>2 DEF Filling
<1>6. Owners
  BY <1>1, <1>2, <1>3, <1>4 DEF Owners
<1> QED BY <1>1, <1>2, <1>3, <1>5, <1>6 DEF EventInv

\* One owner is one place.
LEMMA OnePlace == TypeInv /\ EventInv => EventsApart
<1> SUFFICES ASSUME TypeInv, EventInv PROVE EventsApart
  OBVIOUS
<1>0. /\ made <= MaxWait /\ made \in Nat
      /\ \A c \in Client : \A i \in DOMAIN held[c] : held[c][i].event \in 1 .. made
  BY DEF EventInv, Filling, Owners, TypeInv, TypeOK, EventsIn
<1>1. ASSUME NEW e \in 1 .. made PROVE Cardinality(Places(e)) = 1
  <2> DEFINE S == {d \in Client : pc[d] = "send" /\ eve[d] = e}
             H(c) == {k \in DOMAIN held[c] : held[c][k].event = e}
             F == {k \in DOMAIN free : free[k] = e}
  <2>1. ASSUME NEW p
        PROVE  p \in Places(e) <=> \/ \E c \in S : p = <<"send", c>>
                                   \/ \E c \in Client : \E i \in H(c) : p = <<c, i>>
                                   \/ \E i \in F : p = <<"free", i>>
    <3>1. Places(e) = {<<"send", c>> : c \in S} \cup (UNION {{<<c, i>> : i \in H(c)} : c \in Client})
                        \cup {<<"free", i>> : i \in F}
      BY DEF Places
    <3> HIDE DEF S, H, F
    <3>2. p \in {<<"send", c>> : c \in S} <=> \E c \in S : p = <<"send", c>>
      OBVIOUS
    <3>3. p \in {<<"free", i>> : i \in F} <=> \E i \in F : p = <<"free", i>>
      OBVIOUS
    <3>4. p \in UNION {{<<c, i>> : i \in H(c)} : c \in Client}
            <=> \E c \in Client : \E i \in H(c) : p = <<c, i>>
      OBVIOUS
    <3> QED BY <3>1, <3>2, <3>3, <3>4, Zenon
  <2>n. e # NoEvent
    BY <1>0 DEF NoEvent
  <2>2. /\ \A c \in Client : c \in S <=> e \in Out(c)
        /\ \A c \in Client : H(c) # {} <=> e \in EventsIn(held[c])
        /\ F # {} <=> e \in In(free)
    BY <2>n DEF Out, In, EventsIn
  <2>3. /\ \A c \in Client : \A i, j \in H(c) : i = j
        /\ \A i, j \in F : i = j
    BY DEF EventInv, Once, EventsOnce
  <2>4. S \subseteq Client
    OBVIOUS
  <2> HIDE DEF S, H, F
  <2>5. \E p : p \in Places(e) /\ \A x \in Places(e) : x = p
    <3>1. CASE e \in In(free)
      <4>1. S = {} /\ \A c \in Client : H(c) = {}
        BY <2>2, <2>4, <3>1 DEF EventInv, Owners
      <4>2. PICK i \in F : TRUE
        BY <2>2, <3>1
      <4>3. <<"free", i>> \in Places(e) /\ \A x \in Places(e) : x = <<"free", i>>
        BY <2>1, <2>3, <4>1, <4>2
      <4> QED BY <4>3
    <3>2. CASE \E c \in Client : e \in Out(c)
      <4>1. PICK c \in Client : e \in Out(c)
        BY <3>2
      <4>2. S = {c} /\ F = {} /\ \A d \in Client : H(d) = {}
        BY <2>2, <2>4, <4>1 DEF EventInv, Owners
      <4>3. <<"send", c>> \in Places(e) /\ \A x \in Places(e) : x = <<"send", c>>
        BY <2>1, <4>2
      <4> QED BY <4>3
    <3>3. CASE \E c \in Client : e \in EventsIn(held[c])
      <4>1. PICK c \in Client : e \in EventsIn(held[c])
        BY <3>3
      <4>2. S = {} /\ F = {} /\ \A d \in Client \ {c} : H(d) = {}
        BY <2>2, <2>4, <4>1 DEF EventInv, Owners
      <4>3. PICK i \in H(c) : TRUE
        BY <2>2, <4>1
      <4>4. <<c, i>> \in Places(e) /\ \A x \in Places(e) : x = <<c, i>>
        BY <2>1, <2>3, <4>2, <4>3
      <4> QED BY <4>4
    <3> QED BY <3>1, <3>2, <3>3 DEF EventInv, Owners
  <2>6. PICK p : Places(e) = {p}
    BY <2>5
  <2> QED BY <2>6, FS_Singleton
<1> QED BY <1>0, <1>1 DEF EventsApart

\* An event of the DThreadPool serves one job at a time and none is lost, for any
\* number of clients, jobs and events, when the set is filled by one thread
\* before the others begin (FindEvent, SendClosureToThreadPool, Wait); timeouts
\* are allowed.  Without First two threads may fill it, and the reference of one
\* into the vector dangles.
THEOREM EventsApartHolds ==
  ASSUME First \in Client
  PROVE  Spec => []EventsApart
<1>1. Init => TypeInv /\ EventInv
  BY InitType, InitEvents
<1>2. TypeInv /\ EventInv /\ [Next]_vars => (TypeInv /\ EventInv)'
  BY NextType, NextEvents
<1> QED BY <1>1, <1>2, OnePlace, PTL DEF Spec

(***************************************************************************)
(* The signal of an event.  A job that was sent is one signal that travels *)
(* from the data socket to the client that waits.  As long as no wait has  *)
(* timed out, an event has at most one signal, and it belongs to the job   *)
(* that the event is held for.                                             *)
(***************************************************************************)

\* The events of the closures in s: submit2 sends none.
Pending(s) == {s[i].event : i \in DOMAIN s} \ {NoEvent}
PendingOnce(s) == \A i, j \in DOMAIN s : s[i].event = s[j].event /\ s[i].event # NoEvent => i = j

\* The places a signal passes, and the events whose signal is at p.
Stage == ({"data", "queue", "cmds"} \X Slave) \cup ({"task"} \X Worker) \cup ({"ready"} \X Client)
           \cup {<<"set", 0>>}
Signal(p) ==
  IF p[1] = "data" THEN Pending(data[p[2]])
  ELSE IF p[1] = "queue" THEN Pending(q[p[2]])
  ELSE IF p[1] = "cmds" THEN In(cmds[p[2]])
  ELSE IF p[1] = "task" THEN {task[p[2]].event} \ {NoEvent}
  ELSE IF p[1] = "ready" THEN IF pc[p[2]] = "wait" /\ p[2] \in ready THEN {Head(held[p[2]]).event} ELSE {}
  ELSE signalled

\* An event's signal is at one place, and only as long as the event is held.
OneSignal ==
  /\ \A p, r \in Stage : p # r => Signal(p) \cap Signal(r) = {}
  /\ \A n \in Slave : PendingOnce(data[n]) /\ PendingOnce(q[n]) /\ Once(cmds[n])
  /\ \A p \in Stage : \A e \in Signal(p) : \E c \in Client : e \in EventsIn(held[c])
  /\ \A p \in Stage : \A c \in Client : pc[c] = "give" => Head(held[c]).event \notin Signal(p)

\* A worker has a job while it runs it and until it has set the event.
Working ==
  \A w \in Worker : /\ wpc[w] \notin {"run", "set"} => task[w].event = NoEvent
                    /\ wpc[w] = "set" => task[w].event # NoEvent

\* m is for the job for which its event is held.
Agrees(m) ==
  m.event # NoEvent =>
    \A c \in Client : \A i \in DOMAIN held[c] : held[c][i].event = m.event => held[c][i].job = m.job

\* The job for which e is held has run.
Ran(e) == \A c \in Client : \A i \in DOMAIN held[c] : held[c][i].event = e => held[c][i].job \in done

Matching ==
  /\ \A n \in Slave : \A m \in In(data[n]) \cup In(q[n]) : Agrees(m)
  /\ \A w \in Worker : \A m \in {task[w]} : Agrees(m)
  /\ \A w \in Worker : wpc[w] = "set" => \A e \in {task[w].event} : Ran(e)
  /\ \A p \in Stage : p[1] \in {"cmds", "ready", "set"} => \A e \in Signal(p) : Ran(e)

\* Only the client that waits for an event is on its wait list.
Waiting ==
  /\ cmds \in [Slave -> Seq(Event)]
  /\ waits \in [Event \cup {BadEvent} -> Seq(Client)]
  /\ \A e \in Event :
       waits[e] # <<>> => /\ waits[e] = <<Head(waits[e])>> /\ pc[Head(waits[e])] = "wait"
                          /\ Head(waits[e]) \notin ready
                          /\ Head(held[Head(waits[e])]).event = e

Signals == OneSignal /\ Working /\ Matching /\ Waiting /\ ended \subseteq done
SignalInv == late = {} => Signals

\* The events on their way in a queue after a pop.
LEMMA TailPending ==
  ASSUME NEW S, NEW s \in Seq(S), s # <<>>, PendingOnce(s)
  PROVE  /\ PendingOnce(Tail(s)) /\ Pending(Tail(s)) = Pending(s) \ {Head(s).event}
         /\ Head(s).event # NoEvent => Head(s).event \in Pending(s)
         /\ In(Tail(s)) \subseteq In(s) /\ Head(s) \in In(s)
<1>1. /\ DOMAIN s = 1 .. Len(s) /\ DOMAIN Tail(s) = 1 .. Len(s) - 1 /\ Len(s) \in Nat \ {0}
      /\ Head(s) = s[1] /\ \A i \in 1 .. Len(s) - 1 : Tail(s)[i] = s[i + 1]
  OBVIOUS
<1>2. ASSUME NEW i \in DOMAIN Tail(s), NEW j \in DOMAIN Tail(s),
             Tail(s)[i].event = Tail(s)[j].event, Tail(s)[i].event # NoEvent
      PROVE  i = j
  BY <1>1, <1>2 DEF PendingOnce
<1>3. ASSUME NEW e, e \in Pending(Tail(s)) PROVE e \in Pending(s) \ {Head(s).event}
  <2>1. PICK i \in 1 .. Len(s) - 1 : e = s[i + 1].event /\ e # NoEvent
    BY <1>1, <1>3 DEF Pending
  <2>2. i + 1 \in DOMAIN s /\ 1 \in DOMAIN s /\ i + 1 # 1
    BY <1>1, <2>1
  <2> QED BY <1>1, <2>1, <2>2 DEF Pending, PendingOnce
<1>4. ASSUME NEW e, e \in Pending(s), e # Head(s).event PROVE e \in Pending(Tail(s))
  <2>1. PICK i \in DOMAIN s : e = s[i].event /\ e # NoEvent
    BY <1>4 DEF Pending
  <2>2. i - 1 \in 1 .. Len(s) - 1 /\ i = (i - 1) + 1
    BY <1>1, <1>4, <2>1
  <2>3. Tail(s)[i - 1].event = e
    BY <1>1, <2>1, <2>2
  <2> QED BY <1>1, <2>1, <2>2, <2>3 DEF Pending
<1>5. Head(s).event # NoEvent => Head(s).event \in Pending(s)
  BY <1>1 DEF Pending
<1>6. In(Tail(s)) \subseteq In(s) /\ Head(s) \in In(s)
  BY <1>1 DEF In
<1> QED BY <1>2, <1>3, <1>4, <1>5, <1>6 DEF PendingOnce

\* The events on their way in a queue after a push.
LEMMA AppendPending ==
  ASSUME NEW S, NEW s \in Seq(S), NEW x \in S, x.event \notin Pending(s), PendingOnce(s)
  PROVE  /\ PendingOnce(Append(s, x)) /\ In(Append(s, x)) = In(s) \cup {x}
         /\ Pending(Append(s, x)) = Pending(s) \cup ({x.event} \ {NoEvent})
<1> DEFINE t == Append(s, x)
<1>1. /\ DOMAIN s = 1 .. Len(s) /\ DOMAIN t = 1 .. Len(s) + 1 /\ Len(s) \in Nat
      /\ t[Len(s) + 1] = x /\ \A i \in 1 .. Len(s) : t[i] = s[i]
  OBVIOUS
<1> HIDE DEF t
<1>2. ASSUME NEW i \in DOMAIN t, NEW j \in DOMAIN t, t[i].event = t[j].event, t[i].event # NoEvent PROVE i = j
  <2>1. (i \in DOMAIN s \/ i = Len(s) + 1) /\ (j \in DOMAIN s \/ j = Len(s) + 1)
    BY <1>1
  <2> QED BY <1>1, <1>2, <2>1 DEF PendingOnce, Pending
<1>3. /\ In(t) = In(s) \cup {x}
      /\ Pending(t) = Pending(s) \cup ({x.event} \ {NoEvent})
  <2>1. DOMAIN t = DOMAIN s \cup {Len(s) + 1}
    BY <1>1
  <2> QED BY <1>1, <2>1 DEF Pending, In
<1> QED BY <1>2, <1>3 DEF PendingOnce, t

\* The places, and what is there.
LEMMA StageKinds ==
  ASSUME NEW p \in Stage
  PROVE  \/ \E n \in Slave : p = <<"data", n>> \/ p = <<"queue", n>> \/ p = <<"cmds", n>>
         \/ \E w \in Worker : p = <<"task", w>>
         \/ \E c \in Client : p = <<"ready", c>>
         \/ p = <<"set", 0>>
BY DEF Stage

\* The stages of a signal.
LEMMA StageIn ==
  /\ \A n \in Slave : <<"data", n>> \in Stage /\ <<"queue", n>> \in Stage /\ <<"cmds", n>> \in Stage
  /\ \A w \in Worker : <<"task", w>> \in Stage
  /\ \A c \in Client : <<"ready", c>> \in Stage
  /\ <<"set", 0>> \in Stage
BY DEF Stage

\* The events at each stage.
LEMMA SignalAt ==
  /\ \A n \in Slave : /\ Signal(<<"data", n>>) = Pending(data[n])
                      /\ Signal(<<"queue", n>>) = Pending(q[n])
                      /\ Signal(<<"cmds", n>>) = In(cmds[n])
  /\ \A w \in Worker : Signal(<<"task", w>>) = {task[w].event} \ {NoEvent}
  /\ \A c \in Client : Signal(<<"ready", c>>) = IF pc[c] = "wait" /\ c \in ready THEN {Head(held[c]).event} ELSE {}
  /\ Signal(<<"set", 0>>) = signalled
BY DEF Signal

\* The events at each stage after a step.
LEMMA SignalAtNext ==
  /\ \A n \in Slave : /\ Signal(<<"data", n>>)' = Pending(data'[n])
                      /\ Signal(<<"queue", n>>)' = Pending(q'[n])
                      /\ Signal(<<"cmds", n>>)' = In(cmds'[n])
  /\ \A w \in Worker : Signal(<<"task", w>>)' = {task'[w].event} \ {NoEvent}
  /\ \A c \in Client : Signal(<<"ready", c>>)'
                         = IF pc'[c] = "wait" /\ c \in ready' THEN {Head(held'[c]).event} ELSE {}
  /\ Signal(<<"set", 0>>)' = signalled'
BY DEF Signal

\* A step moves the events of the stages it touches only.
LEMMA SignalFrame ==
  /\ \A n \in Slave : /\ data'[n] = data[n] => Signal(<<"data", n>>)' = Signal(<<"data", n>>)
                      /\ q'[n] = q[n] => Signal(<<"queue", n>>)' = Signal(<<"queue", n>>)
                      /\ cmds'[n] = cmds[n] => Signal(<<"cmds", n>>)' = Signal(<<"cmds", n>>)
  /\ \A w \in Worker : task'[w] = task[w] => Signal(<<"task", w>>)' = Signal(<<"task", w>>)
  /\ \A c \in Client : \/ pc'[c] = pc[c] /\ held'[c] = held[c] /\ (c \in ready' <=> c \in ready)
                       \/ pc[c] # "wait" /\ pc'[c] # "wait"
                       => Signal(<<"ready", c>>)' = Signal(<<"ready", c>>)
  /\ signalled' = signalled => Signal(<<"set", 0>>)' = Signal(<<"set", 0>>)
<1>1. ASSUME NEW c \in Client, \/ pc'[c] = pc[c] /\ held'[c] = held[c] /\ (c \in ready' <=> c \in ready)
                               \/ pc[c] # "wait" /\ pc'[c] # "wait"
      PROVE  Signal(<<"ready", c>>)' = Signal(<<"ready", c>>)
  BY <1>1, SignalAt, SignalAtNext
<1> QED BY <1>1, SignalAt, SignalAtNext

\* A signal e that comes to b and is nowhere else.
LEMMA SignalMoves ==
  ASSUME \A p, r \in Stage : p # r => Signal(p) \cap Signal(r) = {},
         NEW b \in Stage, NEW e,
         \A p \in Stage \ {b} : Signal(p)' \subseteq Signal(p) \ {e},
         Signal(b)' \subseteq Signal(b) \cup {e}
  PROVE  \A p, r \in Stage : p # r => Signal(p)' \cap Signal(r)' = {}
OBVIOUS

\* Steps that move no signal.
LEMMA SignalsKept ==
  ASSUME TypeOK, Signals, UNCHANGED <<data, q, cmds, task, signalled, waits, held, ready, done, ended>>,
         \A c \in Client : \/ pc'[c] = pc[c]
                           \/ pc[c] \notin {"wait", "give"} /\ pc'[c] \notin {"wait", "give"},
         \A w \in Worker : \/ wpc'[w] = wpc[w]
                           \/ wpc[w] \notin {"run", "set"} /\ wpc'[w] \notin {"run", "set"}
  PROVE  Signals'
<1>1. \A p \in Stage : Signal(p)' = Signal(p)
  <2>1. \A n \in Slave : data'[n] = data[n] /\ q'[n] = q[n] /\ cmds'[n] = cmds[n]
    OBVIOUS
  <2>2. \A c \in Client : \/ pc'[c] = pc[c] /\ held'[c] = held[c] /\ (c \in ready' <=> c \in ready)
                          \/ pc[c] # "wait" /\ pc'[c] # "wait"
    OBVIOUS
  <2> QED BY <2>1, <2>2, StageKinds, SignalFrame
<1>2. /\ \A m : Agrees(m)' <=> Agrees(m)
      /\ \A e : Ran(e)' <=> Ran(e)
  BY DEF Agrees, Ran
<1>3. OneSignal'
  BY <1>1 DEF Signals, OneSignal
<1>4. Working'
  BY DEF Signals, Working
<1>5. Matching'
  BY <1>1, <1>2 DEF Signals, Matching
<1>6. Waiting'
  <2>1. \A e \in Event : waits[e] # <<>> => Head(waits[e]) \in Client
    BY DEF Signals, Waiting
  <2> QED BY <2>1 DEF Signals, Waiting
<1> QED BY <1>3, <1>4, <1>5, <1>6 DEF Signals

\* An event that is about to be sent has no signal yet.
LEMMA SendSignals ==
  ASSUME TypeInv, EventInv, Signals, NEW c \in Client, SendClosure(c)
  PROVE  Signals'
<1>a. PICK e \in Ids : e = eve[c]
  BY DEF TypeInv, TypeOK
<1>b. PICK m \in Closure : m = [job |-> <<c, njobs[c]>>, event |-> e]
  BY DEF Closure, TypeInv, TypeOK
<1>1. /\ data' = [data EXCEPT ![target[c]] = Append(@, m)]
      /\ held' = [held EXCEPT ![c] = IF e = NoEvent THEN @ ELSE Append(@, m)]
  BY <1>a, <1>b DEF SendClosure, EventInv, Filling, Sent
<1>2. /\ UNCHANGED <<q, cmds, task, wpc, signalled, waits, ready, done, ended>> /\ pc[c] = "send"
      /\ pc' = [pc EXCEPT ![c] = "idle"]
  BY DEF SendClosure, local, master, hist
<1>m. m \in Closure /\ m.event = e
  BY <1>b
<1>t. /\ pc \in [Client -> {"idle", "find", "sem", "pop", "send", "wait", "give", "notify"}]
      /\ held \in [Client -> Seq(Closure)] /\ data \in [Slave -> Seq(Closure)]
  BY DEF TypeInv, TypeOK
<1>3. e # NoEvent => e \in Out(c)
  BY <1>2, <1>a DEF Out
<1>4. e # NoEvent => /\ \A d \in Client : e \notin EventsIn(held[d])
                     /\ \A p \in Stage : e \notin Signal(p)
  <2>1. e # NoEvent => \A d \in Client : e \notin EventsIn(held[d])
    BY <1>3 DEF EventInv, Owners
  <2> QED BY <2>1 DEF Signals, OneSignal
<1>p. \A d \in Client : /\ pc'[d] = IF d = c THEN "idle" ELSE pc[d]
                        /\ held'[d] = IF d = c /\ e # NoEvent THEN Append(held[d], m) ELSE held[d]
  BY <1>1, <1>2, <1>t
<1>h. \A d \in Client : /\ In(held'[d]) \subseteq In(held[d]) \cup (IF e = NoEvent THEN {} ELSE {m})
                        /\ In(held[d]) \subseteq In(held'[d])
  <2>1. \A s \in Seq(Closure) : In(Append(s, m)) = In(s) \cup {m}
    <3> TAKE s \in Seq(Closure)
    <3>1. /\ DOMAIN s = 1 .. Len(s) /\ DOMAIN Append(s, m) = 1 .. Len(s) + 1 /\ Len(s) \in Nat
          /\ Append(s, m)[Len(s) + 1] = m /\ \A i \in 1 .. Len(s) : Append(s, m)[i] = s[i]
      BY <1>m
    <3>2. DOMAIN Append(s, m) = DOMAIN s \cup {Len(s) + 1}
      BY <3>1
    <3> QED BY <3>1, <3>2 DEF In
  <2> QED BY <1>p, <1>t, <2>1
<1>5. /\ \A x : Agrees(x) /\ (x.event # NoEvent => x.event # e) => Agrees(x)'
      /\ \A x : Ran(x) /\ (x # e \/ e = NoEvent) => Ran(x)'
      /\ Agrees(m)'
  <2>1. /\ \A x : Agrees(x) <=> (x.event # NoEvent => \A d \in Client : \A y \in In(held[d]) :
                                   y.event = x.event => y.job = x.job)
        /\ \A x : Agrees(x)' <=> (x.event # NoEvent => \A d \in Client : \A y \in In(held'[d]) :
                                   y.event = x.event => y.job = x.job)
    BY DEF Agrees, In
  <2>2. /\ \A x : Ran(x) <=> \A d \in Client : \A y \in In(held[d]) : y.event = x => y.job \in done
        /\ \A x : Ran(x)' <=> \A d \in Client : \A y \in In(held'[d]) : y.event = x => y.job \in done
    BY <1>2 DEF Ran, In
  <2>3. e # NoEvent => \A d \in Client : \A y \in In(held[d]) : y.event # e
    BY <1>4 DEF In, EventsIn
  <2>4. \A x : Agrees(x) /\ (x.event # NoEvent => x.event # e) => Agrees(x)'
    BY <1>h, <1>m, <2>1
  <2>5. \A x : Ran(x) /\ (x # e \/ e = NoEvent) => Ran(x)'
    BY <1>h, <1>m, <2>2
  <2>6. Agrees(m)'
    BY <1>h, <1>m, <2>1, <2>3
  <2> QED BY <2>4, <2>5, <2>6
<1>6. /\ \A p \in Stage : p[1] # "data" => Signal(p)' = Signal(p)
      /\ \A n \in Slave : n # target[c] => Signal(<<"data", n>>)' = Signal(<<"data", n>>)
      /\ \A n \in Slave : n = target[c] =>
           /\ Signal(<<"data", n>>)' = Signal(<<"data", n>>) \cup ({e} \ {NoEvent})
           /\ PendingOnce(data'[n]) /\ In(data'[n]) = In(data[n]) \cup {m}
  <2>1. ASSUME NEW p \in Stage, p[1] # "data" PROVE Signal(p)' = Signal(p)
    <3>1. ASSUME NEW d \in Client PROVE Signal(<<"ready", d>>)' = Signal(<<"ready", d>>)
      BY <1>2, <1>p, SignalFrame
    <3>2. \A n \in Slave : q'[n] = q[n] /\ cmds'[n] = cmds[n]
      BY <1>2
    <3>3. \A n \in Slave : p # <<"data", n>>
      BY <2>1
    <3>4. \A w \in Worker : task'[w] = task[w]
      BY <1>2
    <3> QED BY <1>2, <3>1, <3>2, <3>3, <3>4, StageKinds, SignalFrame
  <2>2. ASSUME NEW n \in Slave, n # target[c] PROVE Signal(<<"data", n>>)' = Signal(<<"data", n>>)
    BY <1>1, <1>t, <2>2, SignalAt, SignalAtNext
  <2>3. ASSUME NEW n \in Slave, n = target[c]
        PROVE  /\ Signal(<<"data", n>>)' = Signal(<<"data", n>>) \cup ({e} \ {NoEvent})
               /\ PendingOnce(data'[n]) /\ In(data'[n]) = In(data[n]) \cup {m}
    <3>1. data'[n] = Append(data[n], m) /\ data[n] \in Seq(Closure) /\ PendingOnce(data[n])
      BY <1>1, <1>t, <2>3 DEF Signals, OneSignal
    <3>2. m.event \notin Pending(data[n])
      <4>1. Signal(<<"data", n>>) = Pending(data[n]) /\ <<"data", n>> \in Stage
        BY SignalAt, StageIn
      <4> QED BY <1>4, <1>m, <4>1 DEF Pending
    <3>3. /\ PendingOnce(data'[n]) /\ In(data'[n]) = In(data[n]) \cup {m}
          /\ Pending(data'[n]) = Pending(data[n]) \cup ({e} \ {NoEvent})
      BY <1>m, <3>1, <3>2, AppendPending
    <3> QED BY <3>3, SignalAt, SignalAtNext
  <2> QED BY <2>1, <2>2, <2>3
<1>n. \A p \in Stage : p[1] # "data" \/ \E n \in Slave : p = <<"data", n>>
  BY StageKinds
<1>s. \A p \in Stage : Signal(p)' \subseteq Signal(p) \cup ({e} \ {NoEvent})
  BY <1>6, <1>n
<1>7. OneSignal'
  <2>1. \A p, r \in Stage : p # r => Signal(p)' \cap Signal(r)' = {}
    <3>1. CASE \E n \in Slave : n = target[c] /\ e # NoEvent
      <4>1. PICK n \in Slave : n = target[c]
        BY <3>1
      <4>2. <<"data", n>> \in Stage
        BY StageIn
      <4>3. \A p \in Stage \ {<<"data", n>>} : Signal(p)' \subseteq Signal(p) \ {e}
        BY <1>4, <1>6, <1>n, <3>1, <4>1
      <4>4. Signal(<<"data", n>>)' \subseteq Signal(<<"data", n>>) \cup {e}
        BY <1>6, <4>1
      <4>5. \A p, r \in Stage : p # r => Signal(p) \cap Signal(r) = {}
        BY DEF Signals, OneSignal
      <4> QED BY <4>2, <4>3, <4>4, <4>5, SignalMoves
    <3>2. CASE ~\E n \in Slave : n = target[c] /\ e # NoEvent
      <4>1. \A p \in Stage : Signal(p)' = Signal(p)
        <5> TAKE p \in Stage
        <5>1. CASE p[1] # "data"
          BY <1>6, <5>1
        <5>2. ASSUME NEW n \in Slave, p = <<"data", n>> PROVE Signal(p)' = Signal(p)
          BY <1>6, <3>2, <5>2
        <5> QED BY <1>n, <5>1, <5>2
      <4> QED BY <4>1 DEF Signals, OneSignal
    <3> QED BY <3>1, <3>2
  <2>2. \A n \in Slave : PendingOnce(data'[n]) /\ PendingOnce(q'[n]) /\ Once(cmds'[n])
    <3> TAKE n \in Slave
    <3>1. n # target[c] => data'[n] = data[n]
      BY <1>1, <1>t
    <3> QED BY <1>2, <1>6, <3>1 DEF Signals, OneSignal
  <2>3. \A d \in Client : EventsIn(held[d]) \subseteq EventsIn(held'[d])
    BY <1>h DEF EventsIn, In
  <2>4. e # NoEvent => e \in EventsIn(held'[c])
    <3> HAVE e # NoEvent
    <3>1. held'[c] = Append(held[c], m) /\ held[c] \in Seq(Closure)
      BY <1>p, <1>t
    <3>2. Len(held[c]) + 1 \in DOMAIN held'[c] /\ held'[c][Len(held[c]) + 1] = m
      BY <1>m, <3>1
    <3> QED BY <1>m, <3>2 DEF EventsIn
  <2>5. \A p \in Stage : \A x \in Signal(p)' : \E d \in Client : x \in EventsIn(held'[d])
    BY <1>s, <2>3, <2>4 DEF Signals, OneSignal
  <2>6. \A p \in Stage : \A d \in Client : pc'[d] = "give" => Head(held'[d]).event \notin Signal(p)'
    <3> SUFFICES ASSUME NEW p \in Stage, NEW d \in Client, pc'[d] = "give"
                 PROVE  Head(held'[d]).event \notin Signal(p)'
      OBVIOUS
    <3>1. d # c /\ pc[d] = "give" /\ held'[d] = held[d] /\ held[d] # <<>> /\ held[d] \in Seq(Closure)
      BY <1>p, <1>t DEF TypeInv, Holding
    <3>2. Head(held[d]).event \notin Signal(p)
      BY <3>1 DEF Signals, OneSignal
    <3>3. Head(held[d]).event \in EventsIn(held[d])
      BY <3>1 DEF EventsIn
    <3> QED BY <1>4, <1>s, <3>1, <3>2, <3>3
  <2> QED BY <2>1, <2>2, <2>5, <2>6 DEF OneSignal
<1>8. Working'
  BY <1>2 DEF Signals, Working
<1>9. Matching'
  <2>1. ASSUME NEW n \in Slave, NEW x \in In(data'[n]) \cup In(q'[n]) PROVE Agrees(x)'
    <3>1. CASE x = m
      BY <1>5, <3>1
    <3>2. CASE x \in In(data[n]) \cup In(q[n])
      <4>1. x.event # NoEvent => x.event \in Pending(data[n]) \cup Pending(q[n])
        BY <3>2 DEF In, Pending
      <4>2. x.event # NoEvent => x.event # e
        BY <1>4, <4>1, SignalAt, StageIn
      <4> QED BY <1>5, <3>2, <4>2 DEF Signals, Matching
    <3>3. n # target[c] => data'[n] = data[n]
      BY <1>1, <1>t
    <3> QED BY <1>2, <1>6, <2>1, <3>1, <3>2, <3>3
  <2>2. ASSUME NEW w \in Worker PROVE \A x \in {task'[w]} : Agrees(x)'
    <3>1. task[w].event # NoEvent => task[w].event # e
      BY <1>4, SignalAt, StageIn
    <3> QED BY <1>2, <1>5, <3>1 DEF Signals, Matching
  <2>3. ASSUME NEW w \in Worker, wpc'[w] = "set" PROVE \A x \in {task'[w].event} : Ran(x)'
    <3>1. task[w].event # NoEvent
      BY <1>2, <2>3 DEF Signals, Working
    <3>2. task[w].event # e
      BY <1>4, <3>1, SignalAt, StageIn
    <3> QED BY <1>2, <1>5, <2>3, <3>2 DEF Signals, Matching
  <2>4. ASSUME NEW p \in Stage, p[1] \in {"cmds", "ready", "set"}, NEW x \in Signal(p)' PROVE Ran(x)'
    <3>1. x \in Signal(p)
      BY <1>6, <2>4
    <3>2. x # e \/ e = NoEvent
      BY <1>4, <3>1
    <3> QED BY <1>5, <2>4, <3>1, <3>2 DEF Signals, Matching
  <2> QED BY <2>1, <2>2, <2>3, <2>4 DEF Matching
<1>10. Waiting'
  <2>1. ASSUME NEW x \in Event, waits[x] # <<>>
        PROVE  /\ pc'[Head(waits[x])] = pc[Head(waits[x])]
               /\ held'[Head(waits[x])] = held[Head(waits[x])]
    <3>1. Head(waits[x]) \in Client /\ pc[Head(waits[x])] = "wait"
      BY <2>1 DEF Signals, Waiting
    <3> QED BY <1>2, <1>p, <3>1
  <2> QED BY <1>2, <2>1 DEF Signals, Waiting
<1> QED BY <1>2, <1>7, <1>8, <1>9, <1>10 DEF Signals

\* The client whose event is held at the head of its list, and nobody else.
LEMMA HeadHeld ==
  ASSUME TypeInv, NEW c \in Client, held[c] # <<>>
  PROVE  Head(held[c]).event \in EventsIn(held[c]) /\ Head(held[c]) \in In(held[c])
<1>1. held[c] \in Seq(Closure)
  BY DEF TypeInv, TypeOK
<1> QED BY <1>1 DEF EventsIn, In

\* Wait takes the signal, or the client goes on the wait list of its event.
LEMMA WaitSignals ==
  ASSUME TypeInv, EventInv, Signals, NEW c \in Client, WaitEvent(c)
  PROVE  Signals'
<1>a. PICK e : e = Head(held[c]).event
  OBVIOUS
<1>1. /\ UNCHANGED <<data, q, cmds, task, wpc, held, done, ended>> /\ pc[c] = "idle" /\ held[c] # <<>>
      /\ pc' = [pc EXCEPT ![c] = "wait"]
  BY DEF WaitEvent, net, local, hist
<1>2. \/ e \in signalled /\ signalled' = signalled \ {e} /\ ready' = ready \cup {c} /\ UNCHANGED waits
      \/ /\ e \notin signalled /\ UNCHANGED signalled /\ ready' = ready \ {c}
         /\ waits' = [waits EXCEPT ![e] = Append(@, c)]
  BY <1>a DEF WaitEvent, AfterWait
<1>p. \A d \in Client : pc'[d] = IF d = c THEN "wait" ELSE pc[d]
  BY <1>1 DEF TypeInv, TypeOK
<1>3. e \in EventsIn(held[c]) /\ e \in Event
  <2>1. e \in EventsIn(held[c])
    BY <1>1, <1>a, HeadHeld
  <2>2. e \in 1 .. made /\ made <= MaxWait /\ made \in Nat /\ MaxWait \in Nat
    BY <2>1, PoolAssumption DEF EventInv, Owners, Filling, TypeInv, TypeOK
  <2> QED BY <2>1, <2>2 DEF Event
<1>4. /\ \A x : Agrees(x)' <=> Agrees(x)
      /\ \A x : Ran(x)' <=> Ran(x)
  BY <1>1 DEF Agrees, Ran
<1>k. <<"ready", c>> \in Stage /\ <<"set", 0>> \in Stage /\ <<"ready", c>> # <<"set", 0>>
  BY StageIn
<1>5. /\ \A p \in Stage \ {<<"ready", c>>, <<"set", 0>>} : Signal(p)' = Signal(p)
      /\ Signal(<<"ready", c>>) = {}
      /\ Signal(<<"ready", c>>)' = IF e \in signalled THEN {e} ELSE {}
      /\ Signal(<<"set", 0>>) = signalled /\ Signal(<<"set", 0>>)' = signalled \ {e}
  <2>1. /\ \A n \in Slave : data'[n] = data[n] /\ q'[n] = q[n] /\ cmds'[n] = cmds[n]
        /\ \A w \in Worker : task'[w] = task[w]
    BY <1>1
  <2>2. \A d \in Client \ {c} : pc'[d] = pc[d] /\ held'[d] = held[d] /\ (d \in ready' <=> d \in ready)
    BY <1>1, <1>2, <1>p
  <2>3. \A d \in Client \ {c} : Signal(<<"ready", d>>)' = Signal(<<"ready", d>>)
    BY <2>2, SignalFrame
  <2>4. \A p \in Stage \ {<<"ready", c>>, <<"set", 0>>} : Signal(p)' = Signal(p)
    <3> TAKE p \in Stage \ {<<"ready", c>>, <<"set", 0>>}
    <3> QED BY <2>1, <2>3, StageKinds, SignalFrame
  <2>5. Signal(<<"ready", c>>) = {}
    BY <1>1, SignalAt
  <2>6. Signal(<<"ready", c>>)' = IF e \in signalled THEN {e} ELSE {}
    <3>1. pc'[c] = "wait" /\ held'[c] = held[c] /\ (c \in ready' <=> e \in signalled)
      BY <1>1, <1>2, <1>p
    <3> QED BY <1>a, <3>1, SignalAtNext
  <2>7. Signal(<<"set", 0>>) = signalled /\ Signal(<<"set", 0>>)' = signalled \ {e}
    BY <1>2, SignalAt, SignalAtNext
  <2> QED BY <2>4, <2>5, <2>6, <2>7
<1>6. \A p, r \in Stage : p # r => Signal(p)' \cap Signal(r)' = {}
  <2>1. \A p, r \in Stage : p # r => Signal(p) \cap Signal(r) = {}
    BY DEF Signals, OneSignal
  <2>2. CASE e \in signalled
    <3>1. \A p \in Stage \ {<<"ready", c>>} : Signal(p)' \subseteq Signal(p) \ {e}
      BY <1>5, <1>k, <2>1, <2>2
    <3>2. Signal(<<"ready", c>>)' \subseteq Signal(<<"ready", c>>) \cup {e}
      BY <1>5
    <3> QED BY <1>k, <2>1, <3>1, <3>2, SignalMoves
  <2>3. CASE e \notin signalled
    <3>1. \A p \in Stage : Signal(p)' \subseteq Signal(p)
      BY <1>5, <2>3
    <3> QED BY <2>1, <3>1
  <2> QED BY <2>2, <2>3
<1>7. OneSignal'
  <2>1. \A p \in Stage : \A x \in Signal(p)' : x \in Signal(p) \/ x \in Signal(<<"set", 0>>)
    BY <1>5
  <2>2. \A p \in Stage : \A x \in Signal(p)' : \E d \in Client : x \in EventsIn(held'[d])
    BY <1>1, <1>k, <2>1 DEF Signals, OneSignal
  <2>3. \A p \in Stage : \A d \in Client : pc'[d] = "give" => Head(held'[d]).event \notin Signal(p)'
    BY <1>1, <1>k, <1>p, <2>1 DEF Signals, OneSignal
  <2>4. \A n \in Slave : PendingOnce(data'[n]) /\ PendingOnce(q'[n]) /\ Once(cmds'[n])
    BY <1>1 DEF Signals, OneSignal
  <2> QED BY <1>6, <2>2, <2>3, <2>4 DEF OneSignal
<1>8. Working'
  BY <1>1 DEF Signals, Working
<1>9. Matching'
  <2>1. ASSUME NEW p \in Stage, p[1] \in {"cmds", "ready", "set"}, NEW x \in Signal(p)' PROVE Ran(x)'
    <3>1. x \in Signal(p) \/ x \in Signal(<<"set", 0>>)
      BY <1>5, <2>1
    <3> QED BY <1>4, <1>k, <2>1, <3>1 DEF Signals, Matching
  <2> QED BY <1>1, <1>4, <2>1 DEF Signals, Matching
<1>10. Waiting'
  <2>0. ASSUME NEW x \in Event, waits[x] # <<>>
        PROVE  /\ Head(waits[x]) \in Client /\ Head(waits[x]) # c
               /\ x \in EventsIn(held[Head(waits[x])]) /\ x # e
    <3>1. /\ Head(waits[x]) \in Client /\ pc[Head(waits[x])] = "wait"
          /\ x = Head(held[Head(waits[x])]).event
      BY <2>0 DEF Signals, Waiting
    <3>2. Head(waits[x]) # c /\ held[Head(waits[x])] # <<>>
      BY <1>1, <3>1 DEF TypeInv, Holding
    <3>3. x \in EventsIn(held[Head(waits[x])])
      BY <3>1, <3>2, HeadHeld
    <3> QED BY <1>3, <3>1, <3>2, <3>3 DEF EventInv, Owners
  <2>1. CASE UNCHANGED waits /\ ready' = ready \cup {c}
    <3>1. ASSUME NEW x \in Event, waits'[x] # <<>>
          PROVE  /\ waits'[x] = <<Head(waits'[x])>> /\ pc'[Head(waits'[x])] = "wait"
                 /\ Head(waits'[x]) \notin ready' /\ Head(held'[Head(waits'[x])]).event = x
      BY <1>1, <1>p, <2>0, <2>1, <3>1 DEF Signals, Waiting
    <3> QED BY <1>1, <2>1, <3>1 DEF Signals, Waiting
  <2>2. CASE waits' = [waits EXCEPT ![e] = Append(@, c)] /\ ready' = ready \ {c}
    <3>1. waits[e] = <<>>
      BY <1>3, <2>0
    <3>2. waits \in [Event \cup {BadEvent} -> Seq(Client)]
      BY DEF Signals, Waiting
    <3>3. waits'[e] = <<c>> /\ \A x \in Event \ {e} : waits'[x] = waits[x]
      BY <1>3, <2>2, <3>1, <3>2
    <3>4. waits' \in [Event \cup {BadEvent} -> Seq(Client)]
      BY <1>3, <2>2, <3>2
    <3>5. ASSUME NEW x \in Event \ {e}, waits'[x] # <<>>
          PROVE  /\ waits'[x] = <<Head(waits'[x])>> /\ pc'[Head(waits'[x])] = "wait"
                 /\ Head(waits'[x]) \notin ready' /\ Head(held'[Head(waits'[x])]).event = x
      BY <1>1, <1>p, <2>0, <2>2, <3>3, <3>5 DEF Signals, Waiting
    <3>6. /\ waits'[e] = <<Head(waits'[e])>> /\ pc'[Head(waits'[e])] = "wait"
          /\ Head(waits'[e]) \notin ready' /\ Head(held'[Head(waits'[e])]).event = e
      <4>1. Head(waits'[e]) = c
        BY <3>3
      <4> QED BY <1>1, <1>a, <1>p, <2>2, <3>3, <4>1
    <3> QED BY <1>1, <3>4, <3>5, <3>6 DEF Signals, Waiting
  <2> QED BY <1>2, <2>1, <2>2
<1> QED BY <1>1, <1>7, <1>8, <1>9, <1>10 DEF Signals

\* The signal arrives.
LEMMA WokenSignals ==
  ASSUME TypeInv, EventInv, Signals, NEW c \in Client, Woken(c)
  PROVE  Signals'
<1>a. PICK e : e = Head(held[c]).event
  OBVIOUS
<1>1. /\ UNCHANGED <<data, q, cmds, task, wpc, held, done, ready, signalled, waits>>
      /\ pc[c] = "wait" /\ c \in ready /\ held[c] # <<>>
      /\ pc' = [pc EXCEPT ![c] = "give"] /\ ended' = ended \cup {Head(held[c]).job}
  BY DEF Woken, net, local, master, TypeInv, Holding
<1>p. \A d \in Client : pc'[d] = IF d = c THEN "give" ELSE pc[d]
  BY <1>1 DEF TypeInv, TypeOK
<1>4. /\ \A x : Agrees(x)' <=> Agrees(x)
      /\ \A x : Ran(x)' <=> Ran(x)
  BY <1>1 DEF Agrees, Ran
<1>k. <<"ready", c>> \in Stage /\ Signal(<<"ready", c>>) = {e}
  BY <1>1, <1>a, StageIn, SignalAt
<1>5. /\ \A p \in Stage \ {<<"ready", c>>} : Signal(p)' = Signal(p) /\ e \notin Signal(p)
      /\ Signal(<<"ready", c>>)' = {}
  <2>1. /\ \A n \in Slave : data'[n] = data[n] /\ q'[n] = q[n] /\ cmds'[n] = cmds[n]
        /\ \A w \in Worker : task'[w] = task[w]
        /\ \A d \in Client \ {c} : pc'[d] = pc[d] /\ held'[d] = held[d] /\ (d \in ready' <=> d \in ready)
    BY <1>1, <1>p
  <2>3. \A d \in Client \ {c} : Signal(<<"ready", d>>)' = Signal(<<"ready", d>>)
    BY <2>1, SignalFrame
  <2>4. \A p \in Stage \ {<<"ready", c>>} : Signal(p)' = Signal(p)
    <3> TAKE p \in Stage \ {<<"ready", c>>}
    <3> QED BY <1>1, <2>1, <2>3, StageKinds, SignalFrame
  <2>5. Signal(<<"ready", c>>)' = {}
    BY <1>p, SignalAtNext
  <2>6. \A p \in Stage \ {<<"ready", c>>} : e \notin Signal(p)
    BY <1>k DEF Signals, OneSignal
  <2> QED BY <2>4, <2>5, <2>6
<1>7. OneSignal'
  <2>1. \A p \in Stage : Signal(p)' \subseteq Signal(p) /\ e \notin Signal(p)'
    BY <1>5
  <2>2. \A p \in Stage : \A d \in Client : pc'[d] = "give" => Head(held'[d]).event \notin Signal(p)'
    BY <1>1, <1>a, <1>p, <2>1 DEF Signals, OneSignal
  <2> QED BY <1>1, <2>1, <2>2 DEF Signals, OneSignal
<1>8. Working'
  BY <1>1 DEF Signals, Working
<1>9. Matching'
  <2>1. \A p \in Stage : Signal(p)' \subseteq Signal(p)
    BY <1>5
  <2> QED BY <1>1, <1>4, <2>1 DEF Signals, Matching
<1>10. Waiting'
  <2>0. ASSUME NEW x \in Event, waits[x] # <<>> PROVE Head(waits[x]) \in Client /\ Head(waits[x]) # c
    BY <1>1, <2>0 DEF Signals, Waiting
  <2> QED BY <1>1, <1>p, <2>0 DEF Signals, Waiting
<1>11. Head(held[c]).job \in done
  <2>1. Ran(e)
    BY <1>k DEF Signals, Matching
  <2>2. held[c] \in Seq(Closure)
    BY DEF TypeInv, TypeOK
  <2>3. 1 \in DOMAIN held[c] /\ held[c][1] = Head(held[c])
    BY <1>1, <2>2
  <2> QED BY <1>a, <2>1, <2>3 DEF Ran
<1> QED BY <1>1, <1>7, <1>8, <1>9, <1>10, <1>11 DEF Signals

\* The event is given back after its signal was used.
LEMMA GiveSignals ==
  ASSUME TypeInv, EventInv, Signals, NEW c \in Client, GiveBack(c)
  PROVE  Signals'
<1>a. PICK e : e = Head(held[c]).event
  OBVIOUS
<1>1. /\ UNCHANGED <<data, q, cmds, task, wpc, done, ended, ready, signalled, waits>>
      /\ pc[c] = "give" /\ held[c] # <<>> /\ held[c] \in Seq(Closure)
      /\ pc' = [pc EXCEPT ![c] = "notify"] /\ held' = [held EXCEPT ![c] = Tail(@)]
  BY DEF GiveBack, net, local, master, hist, TypeInv, TypeOK, Holding
<1>p. \A d \in Client : /\ pc'[d] = IF d = c THEN "notify" ELSE pc[d]
                        /\ held'[d] = IF d = c THEN Tail(held[d]) ELSE held[d]
  BY <1>1 DEF TypeInv, TypeOK
<1>2. /\ \A d \in Client : In(held'[d]) \subseteq In(held[d])
      /\ \A d \in Client : EventsIn(held[d]) \subseteq EventsIn(held'[d]) \cup {e}
  <2>1. EventsIn(Tail(held[c])) = EventsIn(held[c]) \ {e}
    BY <1>1, <1>a, TailEvents DEF EventInv
  <2>2. In(Tail(held[c])) \subseteq In(held[c])
    <3>1. /\ DOMAIN held[c] = 1 .. Len(held[c]) /\ DOMAIN Tail(held[c]) = 1 .. Len(held[c]) - 1
          /\ Len(held[c]) \in Nat \ {0}
          /\ \A i \in 1 .. Len(held[c]) - 1 : Tail(held[c])[i] = held[c][i + 1]
      BY <1>1
    <3> QED BY <3>1 DEF In
  <2> QED BY <1>p, <2>1, <2>2
<1>4. /\ \A x : Agrees(x) => Agrees(x)'
      /\ \A x : Ran(x) => Ran(x)'
  <2>1. /\ \A x : Agrees(x) <=> (x.event # NoEvent => \A d \in Client : \A y \in In(held[d]) :
                                   y.event = x.event => y.job = x.job)
        /\ \A x : Agrees(x)' <=> (x.event # NoEvent => \A d \in Client : \A y \in In(held'[d]) :
                                   y.event = x.event => y.job = x.job)
    BY DEF Agrees, In
  <2>2. /\ \A x : Ran(x) <=> \A d \in Client : \A y \in In(held[d]) : y.event = x => y.job \in done
        /\ \A x : Ran(x)' <=> \A d \in Client : \A y \in In(held'[d]) : y.event = x => y.job \in done
    BY <1>1 DEF Ran, In
  <2> QED BY <1>2, <2>1, <2>2
<1>5. \A p \in Stage : Signal(p)' = Signal(p) /\ e \notin Signal(p)
  <2>1. /\ \A n \in Slave : data'[n] = data[n] /\ q'[n] = q[n] /\ cmds'[n] = cmds[n]
        /\ \A w \in Worker : task'[w] = task[w]
    BY <1>1
  <2>2. \A d \in Client : \/ pc'[d] = pc[d] /\ held'[d] = held[d] /\ (d \in ready' <=> d \in ready)
                          \/ pc[d] # "wait" /\ pc'[d] # "wait"
    BY <1>1, <1>p
  <2>3. \A p \in Stage : Signal(p)' = Signal(p)
    <3> TAKE p \in Stage
    <3> QED BY <1>1, <2>1, <2>2, StageKinds, SignalFrame
  <2>4. \A p \in Stage : e \notin Signal(p)
    BY <1>1, <1>a DEF Signals, OneSignal
  <2> QED BY <2>3, <2>4
<1>7. OneSignal'
  <2>1. \A p \in Stage : \A x \in Signal(p)' : \E d \in Client : x \in EventsIn(held'[d])
    BY <1>2, <1>5 DEF Signals, OneSignal
  <2>2. \A p \in Stage : \A d \in Client : pc'[d] = "give" => Head(held'[d]).event \notin Signal(p)'
    BY <1>5, <1>p DEF Signals, OneSignal
  <2> QED BY <1>1, <1>5, <2>1, <2>2 DEF Signals, OneSignal
<1>8. Working'
  BY <1>1 DEF Signals, Working
<1>9. Matching'
  BY <1>1, <1>4, <1>5 DEF Signals, Matching
<1>10. Waiting'
  <2>0. ASSUME NEW x \in Event, waits[x] # <<>> PROVE Head(waits[x]) \in Client /\ Head(waits[x]) # c
    BY <1>1, <2>0 DEF Signals, Waiting
  <2> QED BY <1>1, <1>p, <2>0 DEF Signals, Waiting
<1> QED BY <1>1, <1>7, <1>8, <1>9, <1>10 DEF Signals

\* A signal x goes from place a to place b of the same slave, or stays.
LEMMA SignalPasses ==
  ASSUME Signals, UNCHANGED <<pc, held>>, NEW a \in Stage, NEW b \in Stage, a # b, NEW X,
         X \subseteq Signal(a),
         \A p \in Stage \ {a, b} : Signal(p)' = Signal(p),
         Signal(a)' = Signal(a) \ X, Signal(b)' = Signal(b) \cup X,
         \A n \in Slave : PendingOnce(data'[n]) /\ PendingOnce(q'[n]) /\ Once(cmds'[n])
  PROVE  OneSignal'
<1>1. \A p, r \in Stage : p # r => Signal(p) \cap Signal(r) = {}
  BY DEF Signals, OneSignal
<1>2. \A p \in Stage \ {b} : Signal(p)' \subseteq Signal(p) \ X
  BY <1>1
<1>3. \A p, r \in Stage : p # r => Signal(p)' \cap Signal(r)' = {}
  <2> SUFFICES ASSUME NEW p \in Stage, NEW r \in Stage, p # r PROVE Signal(p)' \cap Signal(r)' = {}
    OBVIOUS
  <2>1. CASE p # b /\ r # b
    BY <1>1, <1>2, <2>1
  <2>2. CASE p = b
    BY <1>1, <1>2, <2>2
  <2>3. CASE r = b
    BY <1>1, <1>2, <2>3
  <2> QED BY <2>1, <2>2, <2>3
<1>4. \A p \in Stage : \A x \in Signal(p)' : \E r \in Stage : x \in Signal(r)
  BY <1>2
<1>5. \A p \in Stage : \A x \in Signal(p)' : \E d \in Client : x \in EventsIn(held'[d])
  BY <1>4 DEF Signals, OneSignal
<1>6. \A p \in Stage : \A d \in Client : pc'[d] = "give" => Head(held'[d]).event \notin Signal(p)'
  BY <1>4 DEF Signals, OneSignal
<1> QED BY <1>3, <1>5, <1>6 DEF OneSignal

\* The listener takes a closure from the socket to the queue.
LEMMA ReceiveSignals ==
  ASSUME TypeInv, Signals, NEW n \in Slave, Receive(n)
  PROVE  Signals'
<1>a. PICK m : m = Head(data[n])
  OBVIOUS
<1>1. /\ UNCHANGED <<pc, held, cmds, task, wpc, done, ended, ready, signalled, waits>>
      /\ data[n] # <<>> /\ data[n] \in Seq(Closure) /\ q[n] \in Seq(Closure)
      /\ q' = [q EXCEPT ![n] = Append(@, m)] /\ data' = [data EXCEPT ![n] = Tail(@)]
  BY <1>a DEF Receive, client, master, hist, TypeInv, TypeOK
<1>p. /\ \A k \in Slave \ {n} : data'[k] = data[k] /\ q'[k] = q[k]
      /\ data'[n] = Tail(data[n]) /\ q'[n] = Append(q[n], m)
  BY <1>1 DEF TypeInv, TypeOK
<1>2. /\ PendingOnce(data'[n]) /\ Pending(data'[n]) = Pending(data[n]) \ {m.event}
      /\ m.event # NoEvent => m.event \in Pending(data[n])
      /\ In(data'[n]) \subseteq In(data[n]) /\ m \in In(data[n]) /\ m \in Closure
  <2>1. PendingOnce(data[n])
    BY DEF Signals, OneSignal
  <2> QED BY <1>1, <1>a, <1>p, <2>1, TailPending
<1>k. /\ <<"data", n>> \in Stage /\ <<"queue", n>> \in Stage /\ <<"data", n>> # <<"queue", n>>
      /\ Signal(<<"data", n>>) = Pending(data[n]) /\ Signal(<<"queue", n>>) = Pending(q[n])
      /\ Signal(<<"data", n>>)' = Pending(data'[n]) /\ Signal(<<"queue", n>>)' = Pending(q'[n])
  BY StageIn, SignalAt, SignalAtNext
<1>3. /\ PendingOnce(q'[n]) /\ In(q'[n]) = In(q[n]) \cup {m}
      /\ Pending(q'[n]) = Pending(q[n]) \cup ({m.event} \ {NoEvent})
  <2>1. m.event \notin Pending(q[n])
    <3>1. m.event = NoEvent => m.event \notin Pending(q[n])
      BY DEF Pending
    <3> QED BY <1>2, <1>k, <3>1 DEF Signals, OneSignal
  <2>2. PendingOnce(q[n])
    BY DEF Signals, OneSignal
  <2> QED BY <1>1, <1>2, <1>p, <2>1, <2>2, AppendPending
<1>4. /\ \A x : Agrees(x)' <=> Agrees(x)
      /\ \A x : Ran(x)' <=> Ran(x)
  BY <1>1 DEF Agrees, Ran
<1>5. \A p \in Stage \ {<<"data", n>>, <<"queue", n>>} : Signal(p)' = Signal(p)
  <2>1. /\ \A k \in Slave : cmds'[k] = cmds[k]
        /\ \A w \in Worker : task'[w] = task[w]
        /\ \A d \in Client : pc'[d] = pc[d] /\ held'[d] = held[d] /\ (d \in ready' <=> d \in ready)
    BY <1>1
  <2> TAKE p \in Stage \ {<<"data", n>>, <<"queue", n>>}
  <2> QED BY <1>1, <1>p, <2>1, StageKinds, SignalFrame
<1>7. OneSignal'
  <2>1. \A k \in Slave : PendingOnce(data'[k]) /\ PendingOnce(q'[k]) /\ Once(cmds'[k])
    BY <1>1, <1>2, <1>3, <1>p DEF Signals, OneSignal
  <2>2. PICK X : X = {m.event} \ {NoEvent}
    OBVIOUS
  <2>3. /\ X \subseteq Signal(<<"data", n>>)
        /\ Signal(<<"data", n>>)' = Signal(<<"data", n>>) \ X
        /\ Signal(<<"queue", n>>)' = Signal(<<"queue", n>>) \cup X
    <3>1. NoEvent \notin Pending(data[n])
      BY DEF Pending
    <3> QED BY <1>2, <1>3, <1>k, <2>2, <3>1
  <2> QED BY <1>1, <1>5, <1>k, <2>1, <2>3, SignalPasses
<1>8. Working'
  BY <1>1 DEF Signals, Working
<1>9. Matching'
  <2>1. \A k \in Slave : \A x \in In(data'[k]) \cup In(q'[k]) : x \in In(data[k]) \cup In(q[k])
    BY <1>2, <1>3, <1>p
  <2>2. \A p \in Stage : p[1] \in {"cmds", "ready", "set"} => Signal(p)' = Signal(p)
    BY <1>5
  <2> QED BY <1>1, <1>4, <2>1, <2>2 DEF Signals, Matching
<1>10. Waiting'
  BY <1>1 DEF Signals, Waiting
<1> QED BY <1>1, <1>7, <1>8, <1>9, <1>10 DEF Signals

\* A worker takes a closure from the queue.
LEMMA PopSignals ==
  ASSUME TypeInv, Signals, NEW w \in Worker, WorkerPop(w)
  PROVE  Signals'
<1>n. PICK n \in Slave : n = w[1]
  BY WorkerNode
<1>a. PICK m : m = Head(q[n])
  OBVIOUS
<1>1. /\ UNCHANGED <<pc, held, data, cmds, done, ended, ready, signalled, waits>>
      /\ wpc[w] = "pop" /\ q[n] # <<>> /\ q[n] \in Seq(Closure)
      /\ q' = [q EXCEPT ![n] = Tail(@)] /\ task' = [task EXCEPT ![w] = m]
      /\ wpc' = [wpc EXCEPT ![w] = "run"]
  BY <1>a, <1>n DEF WorkerPop, client, master, net, hist, TypeInv, TypeOK
<1>p. /\ \A k \in Slave \ {n} : q'[k] = q[k]
      /\ q'[n] = Tail(q[n]) /\ task'[w] = m /\ wpc'[w] = "run"
      /\ \A v \in Worker \ {w} : task'[v] = task[v] /\ wpc'[v] = wpc[v]
  BY <1>1 DEF TypeInv, TypeOK
<1>2. /\ PendingOnce(q'[n]) /\ Pending(q'[n]) = Pending(q[n]) \ {m.event}
      /\ m.event # NoEvent => m.event \in Pending(q[n])
      /\ In(q'[n]) \subseteq In(q[n]) /\ m \in In(q[n])
  <2>1. PendingOnce(q[n])
    BY DEF Signals, OneSignal
  <2> QED BY <1>1, <1>a, <1>p, <2>1, TailPending
<1>3. task[w].event = NoEvent
  BY <1>1 DEF Signals, Working
<1>k. /\ <<"queue", n>> \in Stage /\ <<"task", w>> \in Stage /\ <<"queue", n>> # <<"task", w>>
      /\ Signal(<<"queue", n>>) = Pending(q[n]) /\ Signal(<<"task", w>>) = {}
      /\ Signal(<<"queue", n>>)' = Pending(q'[n]) /\ Signal(<<"task", w>>)' = {m.event} \ {NoEvent}
  <2>1. /\ <<"queue", n>> \in Stage /\ <<"task", w>> \in Stage /\ <<"queue", n>> # <<"task", w>>
        /\ Signal(<<"queue", n>>) = Pending(q[n]) /\ Signal(<<"task", w>>) = {task[w].event} \ {NoEvent}
        /\ Signal(<<"queue", n>>)' = Pending(q'[n])
        /\ Signal(<<"task", w>>)' = {task'[w].event} \ {NoEvent}
    BY StageIn, SignalAt, SignalAtNext
  <2> QED BY <1>3, <1>p, <2>1
<1>4. /\ \A x : Agrees(x)' <=> Agrees(x)
      /\ \A x : Ran(x)' <=> Ran(x)
  BY <1>1 DEF Agrees, Ran
<1>5. \A p \in Stage \ {<<"queue", n>>, <<"task", w>>} : Signal(p)' = Signal(p)
  <2>1. /\ \A k \in Slave : cmds'[k] = cmds[k] /\ data'[k] = data[k]
        /\ \A d \in Client : pc'[d] = pc[d] /\ held'[d] = held[d] /\ (d \in ready' <=> d \in ready)
    BY <1>1
  <2> TAKE p \in Stage \ {<<"queue", n>>, <<"task", w>>}
  <2> QED BY <1>1, <1>p, <2>1, StageKinds, SignalFrame
<1>7. OneSignal'
  <2>1. \A k \in Slave : PendingOnce(data'[k]) /\ PendingOnce(q'[k]) /\ Once(cmds'[k])
    BY <1>1, <1>2, <1>p DEF Signals, OneSignal
  <2>2. PICK X : X = {m.event} \ {NoEvent}
    OBVIOUS
  <2>3. /\ X \subseteq Signal(<<"queue", n>>)
        /\ Signal(<<"queue", n>>)' = Signal(<<"queue", n>>) \ X
        /\ Signal(<<"task", w>>)' = Signal(<<"task", w>>) \cup X
    <3>1. NoEvent \notin Pending(q[n])
      BY DEF Pending
    <3> QED BY <1>2, <1>k, <2>2, <3>1
  <2> QED BY <1>1, <1>5, <1>k, <2>1, <2>3, SignalPasses
<1>8. Working'
  BY <1>p DEF Signals, Working
<1>9. Matching'
  <2>1. \A k \in Slave : \A x \in In(data'[k]) \cup In(q'[k]) : x \in In(data[k]) \cup In(q[k])
    BY <1>1, <1>2, <1>p
  <2>2. \A p \in Stage : p[1] \in {"cmds", "ready", "set"} => Signal(p)' = Signal(p)
    BY <1>5
  <2>3. \A v \in Worker : \A x \in {task'[v]} : Agrees(x)
    BY <1>2, <1>p DEF Signals, Matching
  <2>4. \A v \in Worker : wpc'[v] = "set" => \A x \in {task'[v].event} : Ran(x)
    BY <1>p DEF Signals, Matching
  <2>5. \A k \in Slave : \A x \in In(data'[k]) \cup In(q'[k]) : Agrees(x)
    BY <2>1 DEF Signals, Matching
  <2>6. \A p \in Stage : p[1] \in {"cmds", "ready", "set"} => \A x \in Signal(p)' : Ran(x)
    BY <2>2 DEF Signals, Matching
  <2> QED BY <1>4, <2>3, <2>4, <2>5, <2>6 DEF Matching
<1>10. Waiting'
  BY <1>1 DEF Signals, Waiting
<1> QED BY <1>1, <1>7, <1>8, <1>9, <1>10 DEF Signals

\* The job runs.
LEMMA RunSignals ==
  ASSUME TypeInv, Signals, NEW w \in Worker, RunClosure(w)
  PROVE  Signals'
<1>1. /\ UNCHANGED <<pc, held, data, q, cmds, task, ended, ready, signalled, waits>>
      /\ wpc[w] = "run" /\ done' = done \cup {task[w].job}
      /\ wpc' = [wpc EXCEPT ![w] = IF task[w].event = NoEvent THEN "sem" ELSE "set"]
  BY DEF RunClosure, AfterRun, client, master, net
<1>p. /\ wpc'[w] = IF task[w].event = NoEvent THEN "sem" ELSE "set"
      /\ \A v \in Worker \ {w} : wpc'[v] = wpc[v]
  BY <1>1 DEF TypeInv, TypeOK
<1>4. /\ \A x : Agrees(x)' <=> Agrees(x)
      /\ \A x : Ran(x) => Ran(x)'
  BY <1>1 DEF Agrees, Ran
<1>5. \A p \in Stage : Signal(p)' = Signal(p)
  <2>1. /\ \A k \in Slave : cmds'[k] = cmds[k] /\ data'[k] = data[k] /\ q'[k] = q[k]
        /\ \A v \in Worker : task'[v] = task[v]
        /\ \A d \in Client : pc'[d] = pc[d] /\ held'[d] = held[d] /\ (d \in ready' <=> d \in ready)
    BY <1>1
  <2> TAKE p \in Stage
  <2> QED BY <1>1, <2>1, StageKinds, SignalFrame
<1>7. OneSignal'
  BY <1>1, <1>5 DEF Signals, OneSignal
<1>8. Working'
  BY <1>1, <1>p DEF Signals, Working
<1>9. Matching'
  <2>1. task[w].event # NoEvent => \A x \in {task[w].event} : Ran(x)'
    <3>1. Agrees(task[w])
      BY DEF Signals, Matching
    <3> QED BY <1>1, <3>1 DEF Agrees, Ran
  <2>2. \A v \in Worker : wpc'[v] = "set" => \A x \in {task'[v].event} : Ran(x)'
    <3> TAKE v \in Worker
    <3>1. CASE v = w
      BY <1>1, <1>p, <2>1, <3>1
    <3>2. CASE v # w
      BY <1>1, <1>4, <1>p, <3>2 DEF Signals, Matching
    <3> QED BY <3>1, <3>2
  <2> QED BY <1>1, <1>4, <1>5, <2>2 DEF Signals, Matching
<1>10. Waiting'
  BY <1>1 DEF Signals, Waiting
<1>11. ended' \subseteq done'
  BY <1>1 DEF Signals
<1> QED BY <1>7, <1>8, <1>9, <1>10, <1>11 DEF Signals

\* The worker sends the command to set the event.
LEMMA SetSignals ==
  ASSUME TypeInv, EventInv, Signals, NEW w \in Worker, SetEvent(w)
  PROVE  Signals'
<1>n. PICK n \in Slave : n = w[1]
  BY WorkerNode
<1>a. PICK e : e = task[w].event
  OBVIOUS
<1>1. /\ UNCHANGED <<pc, held, data, q, done, ended, ready, signalled, waits>>
      /\ wpc[w] = "set" /\ cmds' = [cmds EXCEPT ![n] = Append(@, e)] /\ task' = [task EXCEPT ![w] = Idle]
      /\ wpc' = [wpc EXCEPT ![w] = "sem"]
  BY <1>a, <1>n DEF SetEvent, client, master, hist
<1>c. cmds \in [Slave -> Seq(Event)]
  BY DEF Signals, Waiting
<1>p. /\ \A k \in Slave \ {n} : cmds'[k] = cmds[k]
      /\ cmds'[n] = Append(cmds[n], e) /\ task'[w] = Idle /\ wpc'[w] = "sem"
      /\ \A v \in Worker \ {w} : task'[v] = task[v] /\ wpc'[v] = wpc[v]
  BY <1>1, <1>c DEF TypeInv, TypeOK
<1>2. Idle.event = NoEvent /\ e # NoEvent
  BY <1>1, <1>a DEF Signals, Working, Idle
<1>k. /\ <<"cmds", n>> \in Stage /\ <<"task", w>> \in Stage /\ <<"cmds", n>> # <<"task", w>>
      /\ Signal(<<"cmds", n>>) = In(cmds[n]) /\ Signal(<<"task", w>>) = {e}
      /\ Signal(<<"cmds", n>>)' = In(cmds'[n]) /\ Signal(<<"task", w>>)' = {}
  <2>1. /\ <<"cmds", n>> \in Stage /\ <<"task", w>> \in Stage /\ <<"cmds", n>> # <<"task", w>>
        /\ Signal(<<"cmds", n>>) = In(cmds[n]) /\ Signal(<<"task", w>>) = {task[w].event} \ {NoEvent}
        /\ Signal(<<"cmds", n>>)' = In(cmds'[n])
        /\ Signal(<<"task", w>>)' = {task'[w].event} \ {NoEvent}
    BY StageIn, SignalAt, SignalAtNext
  <2> QED BY <1>2, <1>a, <1>p, <2>1
<1>e. e \in Event
  <2>1. \E d \in Client : e \in EventsIn(held[d])
    BY <1>k DEF Signals, OneSignal
  <2>2. e \in 1 .. made /\ made <= MaxWait /\ made \in Nat /\ MaxWait \in Nat
    BY <2>1, PoolAssumption DEF EventInv, Owners, Filling, TypeInv, TypeOK
  <2> QED BY <2>2 DEF Event
<1>3. Once(cmds'[n]) /\ In(cmds'[n]) = In(cmds[n]) \cup {e}
  <2>1. e \notin In(cmds[n]) /\ Once(cmds[n])
    BY <1>k DEF Signals, OneSignal
  <2> QED BY <1>c, <1>e, <1>p, <2>1, AppendOnce
<1>4. /\ \A x : Agrees(x)' <=> Agrees(x)
      /\ \A x : Ran(x)' <=> Ran(x)
  BY <1>1 DEF Agrees, Ran
<1>5. \A p \in Stage \ {<<"task", w>>, <<"cmds", n>>} : Signal(p)' = Signal(p)
  <2>1. /\ \A k \in Slave : q'[k] = q[k] /\ data'[k] = data[k]
        /\ \A d \in Client : pc'[d] = pc[d] /\ held'[d] = held[d] /\ (d \in ready' <=> d \in ready)
    BY <1>1
  <2> TAKE p \in Stage \ {<<"task", w>>, <<"cmds", n>>}
  <2> QED BY <1>1, <1>p, <2>1, StageKinds, SignalFrame
<1>7. OneSignal'
  <2>1. \A k \in Slave : PendingOnce(data'[k]) /\ PendingOnce(q'[k]) /\ Once(cmds'[k])
    BY <1>1, <1>3, <1>p DEF Signals, OneSignal
  <2>2. PICK X : X = {e}
    OBVIOUS
  <2>3. /\ X \subseteq Signal(<<"task", w>>)
        /\ Signal(<<"task", w>>)' = Signal(<<"task", w>>) \ X
        /\ Signal(<<"cmds", n>>)' = Signal(<<"cmds", n>>) \cup X
    BY <1>3, <1>k, <2>2
  <2> QED BY <1>1, <1>5, <1>k, <2>1, <2>3, SignalPasses
<1>8. Working'
  BY <1>2, <1>p DEF Signals, Working
<1>9. Matching'
  <2>1. \A v \in Worker : \A x \in {task'[v]} : Agrees(x)
    <3> TAKE v \in Worker
    <3>1. Agrees(Idle)
      BY <1>2 DEF Agrees
    <3> QED BY <1>p, <3>1 DEF Signals, Matching
  <2>2. \A v \in Worker : wpc'[v] = "set" => \A x \in {task'[v].event} : Ran(x)
    BY <1>p DEF Signals, Matching
  <2>3. \A p \in Stage : p[1] \in {"cmds", "ready", "set"} => \A x \in Signal(p)' : Ran(x)
    <3>1. Ran(e)
      BY <1>1, <1>a DEF Signals, Matching
    <3>2. \A p \in Stage : p[1] \in {"cmds", "ready", "set"} => Signal(p)' \subseteq Signal(p) \cup {e}
      BY <1>3, <1>5, <1>k
    <3> QED BY <3>1, <3>2 DEF Signals, Matching
  <2>4. \A k \in Slave : \A x \in In(data'[k]) \cup In(q'[k]) : Agrees(x)
    BY <1>1 DEF Signals, Matching
  <2> QED BY <1>4, <2>1, <2>2, <2>3, <2>4 DEF Matching
<1>10. Waiting'
  <2>1. cmds' \in [Slave -> Seq(Event)]
    BY <1>1, <1>c, <1>e
  <2> QED BY <1>1, <2>1 DEF Signals, Waiting
<1> QED BY <1>1, <1>7, <1>8, <1>9, <1>10 DEF Signals

\* The master sets the event, or wakes the client that waits for it.
LEMMA MasterSignals ==
  ASSUME TypeInv, EventInv, Signals, NEW n \in Slave, MasterSet(n)
  PROVE  Signals'
<1>a. PICK e : e = Head(cmds[n])
  OBVIOUS
<1>c. cmds \in [Slave -> Seq(Event)] /\ waits \in [Event \cup {BadEvent} -> Seq(Client)]
  BY DEF Signals, Waiting
<1>1. /\ UNCHANGED <<pc, held, data, q, task, wpc, done, ended>> /\ cmds[n] # <<>>
      /\ cmds' = [cmds EXCEPT ![n] = Tail(@)]
  BY DEF MasterSet, client, local, hist
<1>2. \/ waits[e] = <<>> /\ signalled' = signalled \cup {e} /\ UNCHANGED <<ready, waits>>
      \/ /\ waits[e] # <<>> /\ ready' = ready \cup {Head(waits[e])} /\ UNCHANGED signalled
         /\ waits' = [waits EXCEPT ![e] = Tail(@)]
  BY <1>a DEF MasterSet
<1>p. /\ \A k \in Slave \ {n} : cmds'[k] = cmds[k]
      /\ cmds'[n] = Tail(cmds[n]) /\ cmds' \in [Slave -> Seq(Event)]
  BY <1>1, <1>c
<1>3. /\ Once(cmds'[n]) /\ In(cmds'[n]) = In(cmds[n]) \ {e} /\ e \in In(cmds[n]) /\ e \in Event
  <2>1. Once(cmds[n]) /\ cmds[n] \in Seq(Event)
    BY <1>c DEF Signals, OneSignal
  <2>2. e \in Event
    BY <1>1, <1>a, <2>1
  <2> QED BY <1>1, <1>a, <1>p, <2>1, <2>2, TailOnce
<1>k. /\ <<"cmds", n>> \in Stage /\ Signal(<<"cmds", n>>) = In(cmds[n])
      /\ Signal(<<"cmds", n>>)' = In(cmds'[n])
  BY StageIn, SignalAt, SignalAtNext
<1>4. /\ \A x : Agrees(x)' <=> Agrees(x)
      /\ \A x : Ran(x)' <=> Ran(x)
  BY <1>1 DEF Agrees, Ran
<1>r. Ran(e)
  BY <1>3, <1>k DEF Signals, Matching
<1>6. ASSUME NEW b \in Stage, b[1] \in {"ready", "set"},
             \A p \in Stage \ {<<"cmds", n>>, b} : Signal(p)' = Signal(p),
             Signal(b)' = Signal(b) \cup {e}
      PROVE  OneSignal' /\ Matching'
  <2>0. \A k \in Slave : PendingOnce(data'[k]) /\ PendingOnce(q'[k]) /\ Once(cmds'[k])
    BY <1>1, <1>3, <1>p DEF Signals, OneSignal
  <2>1. PICK X : X = {e}
    OBVIOUS
  <2>2. /\ X \subseteq Signal(<<"cmds", n>>) /\ <<"cmds", n>> # b
        /\ Signal(<<"cmds", n>>)' = Signal(<<"cmds", n>>) \ X /\ Signal(b)' = Signal(b) \cup X
    BY <1>3, <1>6, <1>k, <2>1
  <2>3. OneSignal'
    BY <1>1, <1>6, <1>k, <2>0, <2>2, SignalPasses
  <2>4. \A p \in Stage : Signal(p)' \subseteq Signal(p) \cup {e}
    BY <1>3, <1>6, <1>k
  <2>5. \A p \in Stage : p[1] \in {"cmds", "ready", "set"} => \A x \in Signal(p)' : Ran(x)
    BY <1>r, <2>4 DEF Signals, Matching
  <2> QED BY <1>1, <1>4, <2>3, <2>5 DEF Signals, Matching
<1>f. /\ \A k \in Slave : q'[k] = q[k] /\ data'[k] = data[k]
      /\ \A w \in Worker : task'[w] = task[w]
  BY <1>1
<1>8. Working'
  BY <1>1 DEF Signals, Working
<1>9. CASE waits[e] = <<>>
  <2>1. signalled' = signalled \cup {e} /\ UNCHANGED <<ready, waits>>
    BY <1>2, <1>9
  <2>2. /\ <<"set", 0>> \in Stage /\ <<"set", 0>>[1] \in {"ready", "set"}
        /\ Signal(<<"set", 0>>)' = Signal(<<"set", 0>>) \cup {e}
    BY <2>1, StageIn, SignalAt, SignalAtNext
  <2>3. \A p \in Stage \ {<<"cmds", n>>, <<"set", 0>>} : Signal(p)' = Signal(p)
    <3>1. \A d \in Client : pc'[d] = pc[d] /\ held'[d] = held[d] /\ (d \in ready' <=> d \in ready)
      BY <1>1, <2>1
    <3> TAKE p \in Stage \ {<<"cmds", n>>, <<"set", 0>>}
    <3> QED BY <1>f, <1>p, <3>1, StageKinds, SignalFrame
  <2>4. OneSignal' /\ Matching'
    BY <1>6, <2>2, <2>3
  <2>5. Waiting'
    BY <1>1, <1>p, <2>1 DEF Signals, Waiting
  <2> QED BY <1>1, <1>8, <2>4, <2>5 DEF Signals
<1>10. CASE waits[e] # <<>>
  <2>0. PICK c \in Client : c = Head(waits[e])
    BY <1>10, <1>3, <1>c
  <2>1. /\ ready' = ready \cup {c} /\ UNCHANGED signalled /\ waits' = [waits EXCEPT ![e] = Tail(@)]
        /\ waits[e] = <<c>> /\ pc[c] = "wait" /\ c \notin ready /\ Head(held[c]).event = e
    BY <1>10, <1>2, <1>3, <2>0 DEF Signals, Waiting
  <2>2. /\ <<"ready", c>> \in Stage /\ <<"ready", c>>[1] \in {"ready", "set"}
        /\ Signal(<<"ready", c>>)' = Signal(<<"ready", c>>) \cup {e}
    <3>1. Signal(<<"ready", c>>) = {}
      BY <2>1, SignalAt
    <3>2. pc'[c] = "wait" /\ c \in ready' /\ Head(held'[c]).event = e
      BY <1>1, <2>1
    <3>3. Signal(<<"ready", c>>)' = {e}
      BY <3>2, SignalAtNext
    <3> QED BY <3>1, <3>3, StageIn
  <2>3. \A p \in Stage \ {<<"cmds", n>>, <<"ready", c>>} : Signal(p)' = Signal(p)
    <3>1. \A d \in Client \ {c} : pc'[d] = pc[d] /\ held'[d] = held[d] /\ (d \in ready' <=> d \in ready)
      BY <1>1, <2>1
    <3>2. /\ \A d \in Client \ {c} : Signal(<<"ready", d>>)' = Signal(<<"ready", d>>)
          /\ \A k \in Slave \ {n} : Signal(<<"cmds", k>>)' = Signal(<<"cmds", k>>)
          /\ Signal(<<"set", 0>>)' = Signal(<<"set", 0>>)
      BY <1>p, <2>1, <3>1, SignalFrame
    <3> TAKE p \in Stage \ {<<"cmds", n>>, <<"ready", c>>}
    <3> QED BY <1>f, <3>2, StageKinds, SignalFrame
  <2>4. OneSignal' /\ Matching'
    BY <1>6, <2>2, <2>3
  <2>5. Waiting'
    <3>1. Tail(waits[e]) = <<>> /\ Tail(waits[e]) \in Seq(Client)
      BY <2>1
    <3>2. waits' \in [Event \cup {BadEvent} -> Seq(Client)]
      BY <1>3, <1>c, <2>1, <3>1
    <3>3. waits'[e] = <<>> /\ \A x \in Event \ {e} : waits'[x] = waits[x]
      BY <1>3, <1>c, <2>1, <3>1
    <3>4. ASSUME NEW x \in Event, waits'[x] # <<>>
          PROVE  /\ waits'[x] = <<Head(waits'[x])>> /\ pc'[Head(waits'[x])] = "wait"
                 /\ Head(waits'[x]) \notin ready' /\ Head(held'[Head(waits'[x])]).event = x
      <4>1. x # e /\ waits'[x] = waits[x]
        BY <3>3, <3>4
      <4>2. /\ waits[x] = <<Head(waits[x])>> /\ pc[Head(waits[x])] = "wait"
            /\ Head(waits[x]) \notin ready /\ Head(held[Head(waits[x])]).event = x
        BY <3>4, <4>1 DEF Signals, Waiting
      <4>3. Head(waits[x]) # c
        BY <2>1, <4>1, <4>2
      <4> QED BY <1>1, <2>1, <4>1, <4>2, <4>3
    <3> QED BY <1>p, <3>2, <3>4 DEF Waiting
  <2> QED BY <1>1, <1>8, <2>4, <2>5 DEF Signals
<1> QED BY <1>9, <1>10

\* A job that is waited for has one signal at most, whoever steps.
LEMMA NextSignals ==
  ASSUME TypeInv, EventInv, SignalInv, [Next]_vars
  PROVE  SignalInv'
<1>l. late' = {} => late = {}
  <2>1. ASSUME NEW c \in Client, ClientStep(c) \/ TimeOut(c) PROVE late \subseteq late'
    BY <2>1 DEF ClientStep, Schedule, FindEvent, WaitSem, PopEvent, SendClosure, WaitEvent, Woken,
                GiveBack, Notify, TimeOut, hist
  <2>2. ASSUME NEW w \in Worker, WorkerStep(w) PROVE late \subseteq late'
    BY <2>2 DEF WorkerStep, WorkerWait, WorkerCheck, WorkerPop, RunClosure, SetEvent, hist
  <2>3. ASSUME NEW n \in Slave, ListenerStep(n) \/ MasterSet(n) \/ Close(n) PROVE late \subseteq late'
    BY <2>3 DEF ListenerStep, Receive, Enqueued, MasterSet, Close, hist
  <2> QED BY <2>1, <2>2, <2>3 DEF Next, vars, hist
<1> SUFFICES ASSUME late' = {}, Signals PROVE Signals'
  BY <1>l DEF SignalInv
<1>1. ASSUME NEW c \in Client, TimeOut(c) PROVE FALSE
  BY <1>1 DEF TimeOut
<1>k. TypeOK
  BY DEF TypeInv
<1>2. ASSUME NEW c \in Client, Schedule(c) \/ FindEvent(c) \/ WaitSem(c) \/ PopEvent(c) \/ Notify(c)
      PROVE  Signals'
  <2>1. UNCHANGED <<data, q, cmds, task, wpc, signalled, waits, held, ready, done, ended>>
    BY <1>2 DEF Schedule, FindEvent, WaitSem, PopEvent, Notify, master, net, local, hist
  <2>2. /\ pc[c] \notin {"wait", "give"} /\ pc'[c] \notin {"wait", "give"}
        /\ \A d \in Client \ {c} : pc'[d] = pc[d]
    BY <1>2 DEF Schedule, FindEvent, WaitSem, PopEvent, Notify, TypeInv, TypeOK
  <2>3. \A d \in Client : \/ pc'[d] = pc[d]
                          \/ pc[d] \notin {"wait", "give"} /\ pc'[d] \notin {"wait", "give"}
    BY <2>2
  <2> QED BY <1>k, <2>1, <2>3, SignalsKept
<1>3. ASSUME NEW c \in Client, ClientStep(c) PROVE Signals'
  BY <1>2, <1>3, SendSignals, WaitSignals, WokenSignals, GiveSignals DEF ClientStep
<1>4. ASSUME NEW w \in Worker, WorkerWait(w) \/ WorkerCheck(w) PROVE Signals'
  <2>1. UNCHANGED <<pc, data, q, cmds, task, signalled, waits, held, ready, done, ended>>
    BY <1>4 DEF WorkerWait, WorkerCheck, client, master, net, hist
  <2>2. /\ wpc[w] \notin {"run", "set"} /\ wpc'[w] \notin {"run", "set"}
        /\ \A v \in Worker \ {w} : wpc'[v] = wpc[v]
    BY <1>4 DEF WorkerWait, WorkerCheck, TypeInv, TypeOK
  <2> QED BY <1>k, <2>1, <2>2, SignalsKept
<1>5. ASSUME NEW w \in Worker, WorkerStep(w) PROVE Signals'
  BY <1>4, <1>5, PopSignals, RunSignals, SetSignals DEF WorkerStep
<1>6. ASSUME NEW n \in Slave, Enqueued(n) \/ Close(n) PROVE Signals'
  <2>1. UNCHANGED <<pc, data, q, cmds, task, wpc, signalled, waits, held, ready, done, ended>>
    BY <1>6 DEF Enqueued, Close, client, master, net, hist
  <2> QED BY <1>k, <2>1, SignalsKept
<1>7. CASE UNCHANGED vars
  <2>1. UNCHANGED <<pc, data, q, cmds, task, wpc, signalled, waits, held, ready, done, ended>>
    BY <1>7 DEF vars, client, master, net, local, hist
  <2> QED BY <1>k, <2>1, SignalsKept
<1> QED BY <1>1, <1>3, <1>5, <1>6, <1>7, ReceiveSignals, MasterSignals DEF Next, ListenerStep

\* Nothing has been sent at the start.
LEMMA InitSignals == Init => SignalInv
<1> SUFFICES ASSUME Init PROVE Signals
  BY DEF SignalInv
<1>1. In(<<>>) = {} /\ Once(<<>>) /\ Pending(<<>>) = {} /\ PendingOnce(<<>>)
  BY DEF In, Once, Pending, PendingOnce
<1>2. /\ \A n \in Slave : data[n] = <<>> /\ q[n] = <<>> /\ cmds[n] = <<>>
      /\ \A w \in Worker : task[w] = Idle /\ wpc[w] = "sem"
      /\ \A c \in Client : pc[c] = "idle" /\ held[c] = <<>>
      /\ signalled = {} /\ ended = {}
  BY DEF Init
<1>3. Idle.event = NoEvent
  BY DEF Idle
<1>4. \A p \in Stage : Signal(p) = {}
  <2>1. \A n \in Slave : Signal(<<"data", n>>) = {} /\ Signal(<<"queue", n>>) = {} /\ Signal(<<"cmds", n>>) = {}
    BY <1>1, <1>2, SignalAt
  <2>2. \A w \in Worker : Signal(<<"task", w>>) = {}
    BY <1>2, <1>3, SignalAt
  <2>3. \A c \in Client : Signal(<<"ready", c>>) = {}
    BY <1>2, SignalAt
  <2>4. Signal(<<"set", 0>>) = {}
    BY <1>2, SignalAt
  <2> QED BY <2>1, <2>2, <2>3, <2>4, StageKinds
<1>5. OneSignal
  BY <1>1, <1>2, <1>4 DEF OneSignal
<1>6. Working
  BY <1>2, <1>3 DEF Working
<1>7. Matching
  <2>1. Agrees(Idle)
    BY <1>3 DEF Agrees
  <2> QED BY <1>1, <1>2, <1>4, <2>1 DEF Matching
<1>8. Waiting
  BY DEF Init, Waiting
<1> QED BY <1>2, <1>5, <1>6, <1>7, <1>8 DEF Signals

\* As long as no wait has timed out, a Wait of DThreadPoolEvent that returned true
\* returned after its own job ran, however often its event was used before, for
\* any number of clients, jobs, slaves, workers and events (SendClosureToThreadPool,
\* ExecuteClosureInLocalThreadPool, Wait).
THEOREM WaitMeansDoneHolds ==
  ASSUME First \in Client
  PROVE  Spec => []WaitMeansDone
<1>1. Init => TypeInv /\ EventInv /\ SignalInv
  BY InitType, InitEvents, InitSignals
<1>2. TypeInv /\ EventInv /\ SignalInv /\ [Next]_vars => (TypeInv /\ EventInv /\ SignalInv)'
  BY NextType, NextEvents, NextSignals
<1>3. SignalInv => WaitMeansDone
  BY DEF SignalInv, Signals, WaitMeansDone
<1> QED BY <1>1, <1>2, <1>3, PTL DEF Spec
=============================================================================
