---------------------------- MODULE TrainProofs -----------------------------
(***************************************************************************)
(* Proof about Train, for every number of nodes, workers and iterations    *)
(* and any failures: no iteration is repeated on its own result or left    *)
(* out.                                                                    *)
(*                                                                         *)
(* The argument goes node by node.  The generation of a slave's local      *)
(* barrier is even until the main thread has filled means and all have met *)
(* for the first time in an iteration, and odd while the workers compute:  *)
(* a thread is where the generation lets it be, or has yet to wake up from *)
(* the meeting before.  So no worker reads means when the main thread      *)
(* writes it, and the sum has one contribution of every worker.            *)
(***************************************************************************)
EXTENDS Train, FiniteSetTheorems, TLAPS

Nodes == 0 .. N - 1
Procs == LThread \cup {Master}
Party(n) == {x \in LThread : x[1] = n}       \* the threads at the local barrier of n
Iter == Nat \cup {-1}

\* Places of a slave's main thread and of a worker while the generation is even,
\* and places of both while it is odd.
MainEarly == {"enter", "started", "fetch", "lock1", "sum", "give", "given", "summed",
              "enteragain", "left", "free", "exit"}
WorkerEarly == {"none", "loop", "lock1", "exit", "undefined"}
EarlyPlace(x) == IF x[2] = 0 THEN MainEarly ELSE WorkerEarly
LatePlace(x) == IF x[2] = 0 THEN {"meet2", "lock2"} ELSE {"compute", "computed", "lock2"}
Place == MainEarly \cup WorkerEarly \cup {"meet2", "lock2", "compute", "computed"}
         \cup {"begin", "load", "wait1", "wait2"}

TypeTrain ==
  /\ pc \in [Procs -> Place]
  /\ n_iter \in [Nodes -> Iter]
  /\ param \in [Part -> Int]
  /\ means = [n \in Slave |-> means[n]]
  /\ saw = [x \in Workers |-> saw[x]]
  /\ centers = [x \in Workers |-> centers[x]]
  /\ count \in [Slave -> Int] /\ gen \in [Slave -> Nat] /\ mygen \in [LThread -> Int]
  /\ given = [n \in Slave |-> given[n]]
  /\ written \in SUBSET Part /\ written # Part
  /\ saved.param \in [Part -> Int] /\ saved.n_iter \in [Nodes -> Iter]

\* The key of g_param is known to all, and the checkpoint is one of an iteration.
SavedInv ==
  /\ key = Known /\ saved.word = TRUE
  /\ \A p \in Part, n \in Nodes : saved.param[p] = saved.n_iter[n] + 1

\* The iteration of node n, counted from the checkpoint.
IterOf(n) == n_iter[n] = IF pc[Main(n)] = "enteragain" THEN saved.n_iter[n] + 1 ELSE saved.n_iter[n]

\* The slaves begin when the master does, and leave the first meeting with it.
MasterInv ==
  /\ pc[Master] \in {"begin", "enter", "started", "enteragain", "left", "exit"}
  /\ pc[Master] = "begin" => \A x \in LThread : pc[x] = "none"
  /\ \A n \in Slave : pc[Master] \in {"begin", "enter"} <=> pc[Main(n)] \in {"none", "load", "enter"}

Even(g) == g % 2 = 0
Arrives(x, n) == pc[x] \in {"wait1", "wait2"} /\ mygen[x] = gen[n]
Arrived(n) == {x \in Party(n) : Arrives(x, n)}

EarlyAt(x, n) ==
  \/ pc[x] \in EarlyPlace(x)
  \/ pc[x] = "wait1" /\ mygen[x] = gen[n]
  \/ pc[x] = "wait2" /\ mygen[x] = gen[n] - 1
LateAt(x, n) ==
  \/ pc[x] \in LatePlace(x)
  \/ pc[x] = "wait2" /\ mygen[x] = gen[n]
  \/ pc[x] = "wait1" /\ mygen[x] = gen[n] - 1

\* The local barrier of n, once slave_main has made it.
Made(n) == pc[Main(n)] \notin {"none", "load"}
Phase(n) ==
  /\ Made(n) /\ Even(gen[n]) => \A x \in Party(n) : EarlyAt(x, n)
  /\ Made(n) /\ ~Even(gen[n]) => \A x \in Party(n) : LateAt(x, n)
Counted(n) == Made(n) => count[n] = THREAD_NUM[n] + 1 - Cardinality(Arrived(n))
NotStarted(n) == pc[Main(n)] \in {"none", "load", "enter", "started"} => \A x \in Worker(n) : pc[x] = "none"
Deleted(n) == n \in freed => pc[Main(n)] = "exit"

\* The parameters as node n knows them.
Added(n, p) == IF pc[Main(n)] = "summed" \/ (pc[Main(n)] = "given" /\ p \in written) THEN 2 ELSE 1
ParamOf(n) == \A p \in Part : param[p] = n_iter[n] + Added(n, p)

\* What slave n gives to the accumulation.
SumOf(n) == Sum([i \in 1 .. THREAD_NUM[n] |-> n_iter[n] + 1])
GivenOf(n) ==
  /\ given[n] = IF pc[Main(n)] = "given" THEN SumOf(n) ELSE Nothing
  /\ pc[Main(n)] = "give" => means[n] = SumOf(n)
  /\ written # {} => pc[Main(n)] = "given"

\* What the workers of n read and compute.
Filled(n) == means[n] = Params([p \in Part |-> n_iter[n] + 1])
FilledOf(n) ==
  \/ pc[Main(n)] \in {"lock1", "wait1", "meet2", "lock2"}
  \/ pc[Main(n)] = "wait2" /\ mygen[Main(n)] = gen[n]
  => Filled(n)
SawOf(n) == \A x \in Worker(n) : pc[x] = "computed" => saw[x] = means[n]
CentersOf(n) ==
  /\ \A x \in Worker(n) : pc[x] = "lock2" \/ (pc[x] = "wait2" /\ mygen[x] = gen[n]) => centers[x] = n_iter[n] + 1
  /\ pc[Main(n)] = "sum" \/ (pc[Main(n)] = "wait2" /\ mygen[Main(n)] # gen[n])
     => \A x \in Worker(n) : centers[x] = n_iter[n] + 1

BarOf(n) == Phase(n) /\ Counted(n) /\ NotStarted(n) /\ Deleted(n)
DataOf(n) == FilledOf(n) /\ SawOf(n) /\ CentersOf(n)
SlaveInv(n) == IterOf(n) /\ ParamOf(n) /\ GivenOf(n) /\ BarOf(n) /\ DataOf(n)

Rounds == TypeTrain /\ SavedInv /\ MasterInv /\ IterOf(0) /\ \A n \in Slave : SlaveInv(n)

TrainInv == crashes \in Nat /\ keep \in Keeps /\ (KeyKept => Rounds)
-----------------------------------------------------------------------------
(* Threads.                                                                *)

\* Threads of slave n: its main thread and its workers.
LEMMA Threads ==
  ASSUME NEW n \in Slave
  PROVE  /\ n \in Nodes /\ n # 0
         /\ Main(n) \in Party(n) /\ Main(n) \in LThread /\ Main(n) \in Procs
         /\ Main(n)[1] = n /\ Main(n)[2] = 0 /\ Main(n) # Master
         /\ Worker(n) = {x \in Party(n) : x[2] # 0}
         /\ Worker(n) = {x \in Workers : x[1] = n}
         /\ \A x \in Party(n) : x[2] = 0 => x = Main(n)
<1>1. n \in Nodes /\ n # 0 /\ n \in Nat
  BY TrainAssumption DEF Slave, Nodes
<1>2. Main(n) \in LThread /\ Main(n)[1] = n /\ Main(n)[2] = 0 /\ Main(n) # Master
  BY <1>1 DEF LThread, Main, Master
<1>3. \A x \in Workers : x[1] \in Slave /\ x[2] \in 1 .. THREAD_NUM[x[1]] /\ x = <<x[1], x[2]>>
  BY DEF Workers, Worker
<1>4. \A x \in Workers : x[2] # 0
  BY <1>3, TrainAssumption DEF Slave
<1>5. Worker(n) = {x \in Workers : x[1] = n}
  <2>1. \A x \in Worker(n) : x \in Workers /\ x[1] = n
    BY DEF Workers, Worker
  <2>2. \A x \in Workers : x[1] = n => x \in Worker(n)
    BY <1>3 DEF Worker
  <2> QED
    BY <2>1, <2>2
<1>6. Worker(n) = {x \in Party(n) : x[2] # 0}
  BY <1>4, <1>5 DEF Party, LThread, Main
<1>7. \A x \in Party(n) : x[2] = 0 => x = Main(n)
  BY <1>4 DEF Party, LThread, Main
<1> QED
  BY <1>1, <1>2, <1>5, <1>6, <1>7 DEF Party, Procs

\* A thread at a local barrier belongs to one slave.
LEMMA OneParty ==
  ASSUME NEW x \in LThread
  PROVE  x[1] \in Slave /\ x \in Party(x[1]) /\ x \in Procs /\ x # Master
<1>1. x[1] \in Slave
  BY DEF LThread, Workers, Worker, Main
<1> QED
  BY <1>1, TrainAssumption DEF Party, Procs, Master, Slave

\* The master is a thread of its own.
LEMMA MasterApart ==
  /\ Master \in Procs /\ Master \notin LThread /\ Main(0) = Master
  /\ 0 \in Nodes /\ 0 \notin Slave /\ Nodes = Slave \cup {0} /\ Nodes = Part
  /\ Mains = {Master} \cup {Main(n) : n \in Slave}
<1>1. Master \notin LThread
  BY OneParty
<1>2. 0 \in Nodes /\ 0 \notin Slave /\ Nodes = Slave \cup {0} /\ Nodes = Part
  BY TrainAssumption DEF Nodes, Slave, Part
<1> QED
  BY <1>1, <1>2 DEF Procs, Main, Master, Mains, Nodes

\* The parties of a barrier are as many as LBarrier is told.
LEMMA PartySize ==
  ASSUME NEW n \in Slave
  PROVE  IsFiniteSet(Party(n)) /\ Cardinality(Party(n)) = THREAD_NUM[n] + 1
<1>1. THREAD_NUM[n] \in Nat
  BY TrainAssumption DEF Slave
<1>2. Party(n) = {<<n, i>> : i \in 0 .. THREAD_NUM[n]}
  <2>1. \A x \in Worker(n) : \E i \in 1 .. THREAD_NUM[n] : x = <<n, i>>
    BY DEF Worker
  <2>2. \A i \in 1 .. THREAD_NUM[n] : <<n, i>> \in Worker(n)
    BY DEF Worker
  <2>3. \A x \in Party(n) : x \in Worker(n) \/ x = <<n, 0>>
    BY Threads DEF Main
  <2>4. Worker(n) \subseteq Party(n) /\ <<n, 0>> \in Party(n)
    BY Threads DEF Main
  <2>5. \A x \in Party(n) : \E i \in 0 .. THREAD_NUM[n] : x = <<n, i>>
    BY <1>1, <2>1, <2>3
  <2>6. \A i \in 0 .. THREAD_NUM[n] : <<n, i>> \in Party(n)
    BY <1>1, <2>2, <2>4
  <2> QED
    BY <2>5, <2>6
<1>3. PICK f : f = [i \in 0 .. THREAD_NUM[n] |-> <<n, i>>]
  OBVIOUS
<1>4. ExistsBijection(0 .. THREAD_NUM[n], Party(n))
  <2>1. f \in [0 .. THREAD_NUM[n] -> Party(n)]
    BY <1>2, <1>3
  <2>2. \A i, j \in 0 .. THREAD_NUM[n] : f[i] = f[j] => i = j
    BY <1>3
  <2>3. \A x \in Party(n) : \E i \in 0 .. THREAD_NUM[n] : f[i] = x
    BY <1>2, <1>3
  <2>4. f \in Bijection(0 .. THREAD_NUM[n], Party(n))
    BY <2>1, <2>2, <2>3 DEF Bijection, Injection, Surjection, IsInjective
  <2> QED
    BY <2>4 DEF ExistsBijection
<1>5. IsFiniteSet(0 .. THREAD_NUM[n]) /\ Cardinality(0 .. THREAD_NUM[n]) = THREAD_NUM[n] + 1
  BY <1>1, FS_Interval
<1> QED
  BY <1>4, <1>5, FS_Bijection

\* A finite set of threads that lacks one and is one smaller lacks no other.
LEMMA AllButOne ==
  ASSUME NEW P, IsFiniteSet(P), NEW S \in SUBSET P, NEW x \in P, x \notin S,
         Cardinality(S) + 1 = Cardinality(P)
  PROVE  \A y \in P : y = x \/ y \in S
<1>1. IsFiniteSet(S) /\ Cardinality(S) \in Nat
  BY FS_Subset, FS_CardinalityType
<1>2. IsFiniteSet(S \cup {x}) /\ Cardinality(S \cup {x}) = Cardinality(S) + 1
  BY <1>1, FS_AddElement
<1>3. S \cup {x} = P
  BY <1>2, FS_Subset
<1> QED
  BY <1>3

\* Generations are even and odd in turn.
LEMMA EvenOdd == Even(0) /\ \A g \in Nat : Even(g + 1) <=> ~Even(g)
  BY DEF Even
-----------------------------------------------------------------------------
(* Steps of one thread.                                                    *)

\* A function changed at a point.
LEMMA FunChanged ==
  ASSUME NEW S, NEW T, NEW f \in [S -> T], NEW x, NEW v \in T
  PROVE  [f EXCEPT ![x] = v] \in [S -> T]
  OBVIOUS

\* A step leaves the threads, the barrier and the buffers of slave n alone.
Untouched(n) ==
  /\ \A x \in Party(n) : pc'[x] = pc[x] /\ mygen'[x] = mygen[x]
  /\ \A x \in Worker(n) : saw'[x] = saw[x] /\ centers'[x] = centers[x]
  /\ n_iter'[n] = n_iter[n] /\ means'[n] = means[n] /\ given'[n] = given[n]
  /\ count'[n] = count[n] /\ gen'[n] = gen[n] /\ (n \in freed' => n \in freed)
  /\ param' = param /\ written' = written /\ saved' = saved

\* What holds of a slave holds after a step elsewhere.
LEMMA UntouchedKeeps ==
  ASSUME NEW n \in Slave, SlaveInv(n), Untouched(n)
  PROVE  SlaveInv(n)'
<1>0. Main(n) \in Party(n) /\ Worker(n) \subseteq Party(n)
  BY Threads
<1>1. pc'[Main(n)] = pc[Main(n)] /\ mygen'[Main(n)] = mygen[Main(n)]
  BY <1>0 DEF Untouched
<1>2. Arrived(n)' = Arrived(n)
  BY DEF Arrived, Arrives, Untouched
<1>3. IterOf(n)' /\ ParamOf(n)' /\ GivenOf(n)'
  <2>1. IterOf(n)'
    BY <1>1 DEF SlaveInv, IterOf, Untouched
  <2>2. ParamOf(n)'
    BY <1>1 DEF SlaveInv, ParamOf, Added, Untouched
  <2>3. GivenOf(n)'
    BY <1>1 DEF SlaveInv, GivenOf, SumOf, Untouched
  <2> QED
    BY <2>1, <2>2, <2>3
<1>4. BarOf(n)'
  <2>1. Phase(n)'
    BY <1>1 DEF SlaveInv, BarOf, Phase, Made, EarlyAt, LateAt, Untouched
  <2>2. Counted(n)'
    BY <1>1, <1>2 DEF SlaveInv, BarOf, Counted, Made, Untouched
  <2>3. NotStarted(n)'
    BY <1>0, <1>1 DEF SlaveInv, BarOf, NotStarted, Untouched
  <2>4. Deleted(n)'
    BY <1>1 DEF SlaveInv, BarOf, Deleted, Untouched
  <2> QED
    BY <2>1, <2>2, <2>3, <2>4 DEF BarOf
<1>5. DataOf(n)'
  <2>1. FilledOf(n)'
    BY <1>1 DEF SlaveInv, DataOf, FilledOf, Filled, Untouched
  <2>2. SawOf(n)'
    BY <1>0 DEF SlaveInv, DataOf, SawOf, Untouched
  <2>3. CentersOf(n)'
    BY <1>0, <1>1 DEF SlaveInv, DataOf, CentersOf, Untouched
  <2> QED
    BY <2>1, <2>2, <2>3 DEF DataOf
<1> QED
  BY <1>3, <1>4, <1>5 DEF SlaveInv

\* A thread x of slave n that has begun goes on to l: what is left to show is
\* about n.
LEMMA ThreadStep ==
  ASSUME Rounds, NEW n \in Slave, NEW x \in Party(n), NEW l \in Place,
         pc[x] # "none", pc' = [pc EXCEPT ![x] = l],
         x = Main(n) => (pc[x] \in {"none", "load", "enter"} <=> l \in {"none", "load", "enter"}),
         key' = key, saved' = saved, n_iter'[0] = n_iter[0],
         \A m \in Slave \ {n} : Untouched(m),
         TypeTrain', SlaveInv(n)'
  PROVE  Rounds'
<1>0. /\ x \in Procs /\ x \in LThread /\ x # Master /\ TypeTrain /\ SavedInv /\ MasterInv /\ IterOf(0)
      /\ Master \in Procs /\ Main(0) = Master
  BY OneParty, MasterApart DEF Party, Rounds
<1>1. /\ \A y \in Procs : pc'[y] = IF y = x THEN l ELSE pc[y]
      /\ pc'[Master] = pc[Master] /\ pc[Master] # "begin"
  BY <1>0 DEF TypeTrain, MasterInv
<1>2. SavedInv'
  BY <1>0 DEF SavedInv
<1>3. IterOf(0)'
  BY <1>0, <1>1 DEF IterOf
<1>4. ASSUME NEW m \in Slave
      PROVE  pc'[Main(m)] \in {"none", "load", "enter"} <=> pc[Main(m)] \in {"none", "load", "enter"}
  <2>1. Main(m) \in Procs /\ (Main(m) = x => m = n)
    BY Threads DEF Party
  <2> QED
    BY <1>1, <2>1
<1>5. MasterInv'
  BY <1>0, <1>1, <1>4 DEF MasterInv
<1>6. \A m \in Slave : SlaveInv(m)'
  BY UntouchedKeeps DEF Rounds
<1> QED
  BY <1>2, <1>3, <1>5, <1>6 DEF Rounds

\* A thread that is not at the barrier shows how far the generation is.
LEMMA PhaseOf ==
  ASSUME NEW n \in Slave, NEW x \in Party(n), BarOf(n), Made(n)
  PROVE  /\ pc[x] \in EarlyPlace(x) => Even(gen[n])
         /\ pc[x] \in LatePlace(x) => ~Even(gen[n])
         /\ Even(gen[n]) => EarlyAt(x, n)
         /\ ~Even(gen[n]) => LateAt(x, n)
<1>1. Even(gen[n]) => EarlyAt(x, n)
  BY DEF BarOf, Phase
<1>2. ~Even(gen[n]) => LateAt(x, n)
  BY DEF BarOf, Phase
<1>3. pc[x] \in EarlyPlace(x) => ~LateAt(x, n)
  BY DEF EarlyPlace, LatePlace, LateAt, MainEarly, WorkerEarly
<1>4. pc[x] \in LatePlace(x) => ~EarlyAt(x, n)
  BY DEF EarlyPlace, LatePlace, EarlyAt, MainEarly, WorkerEarly
<1> QED
  BY <1>1, <1>2, <1>3, <1>4

\* A worker that has begun was started by a main thread with a barrier.
LEMMA WorkerMade ==
  ASSUME NEW n \in Slave, BarOf(n), NEW x \in Worker(n), pc[x] # "none"
  PROVE  Made(n) /\ pc[Main(n)] \notin {"none", "load", "enter", "started"}
  BY DEF BarOf, NotStarted, Made

\* A thread of slave n that is not counted at the barrier goes from place to
\* place within the generation.
LEMMA BarMovesAt ==
  ASSUME NEW n \in Slave, NEW x \in Party(n), BarOf(n), Made(n), NEW l,
         pc'[x] = l, count'[n] = count[n], gen'[n] = gen[n],
         \A y \in Party(n) : y # x => pc'[y] = pc[y] /\ mygen'[y] = mygen[y],
         ~Arrives(x, n), Even(gen[n]) => l \in EarlyPlace(x), ~Even(gen[n]) => l \in LatePlace(x),
         NotStarted(n)', Deleted(n)'
  PROVE  BarOf(n)'
<1>1. l \notin {"wait1", "wait2"}
  BY DEF EarlyPlace, LatePlace, MainEarly, WorkerEarly
<1>2. \A y \in Party(n) : Arrives(y, n)' <=> Arrives(y, n)
  BY <1>1 DEF Arrives
<1>3. Arrived(n)' = Arrived(n)
  BY <1>2 DEF Arrived
<1>4. Counted(n)'
  BY <1>3 DEF BarOf, Counted
<1>5. ASSUME NEW y \in Party(n), Even(gen[n]) PROVE EarlyAt(y, n)'
  BY <1>5, PhaseOf DEF EarlyAt
<1>6. ASSUME NEW y \in Party(n), ~Even(gen[n]) PROVE LateAt(y, n)'
  BY <1>6, PhaseOf DEF LateAt
<1>7. Phase(n)'
  BY <1>5, <1>6 DEF Phase
<1> QED
  BY <1>4, <1>7 DEF BarOf

\* The same for a step that changes the place of that thread only.
LEMMA BarMoves ==
  ASSUME TypeTrain, NEW n \in Slave, NEW x \in Party(n), BarOf(n), Made(n), NEW l,
         pc' = [pc EXCEPT ![x] = l], UNCHANGED <<count, gen>>,
         \A y \in Party(n) : y # x => mygen'[y] = mygen[y],
         ~Arrives(x, n), Even(gen[n]) => l \in EarlyPlace(x), ~Even(gen[n]) => l \in LatePlace(x),
         NotStarted(n)', Deleted(n)'
  PROVE  BarOf(n)'
<1>1. x \in Procs /\ Party(n) \subseteq Procs
  BY DEF Party, Procs
<1>2. \A y \in Procs : pc'[y] = IF y = x THEN l ELSE pc[y]
  BY <1>1 DEF TypeTrain
<1>3. pc'[x] = l /\ \A y \in Party(n) : y # x => pc'[y] = pc[y] /\ mygen'[y] = mygen[y]
  BY <1>1, <1>2
<1> QED
  BY <1>3, BarMovesAt

\* Places of a main thread that tell nothing about the accumulation.
Plain == Place \ {"give", "given", "summed", "enteragain"}

\* Neither a worker's steps nor those of a main thread between such places
\* change what slave n knows of the parameters.
LEMMA ResultKeeps ==
  ASSUME NEW n \in Slave, IterOf(n), ParamOf(n), GivenOf(n),
         \/ pc'[Main(n)] = pc[Main(n)] /\ means' = means
         \/ pc[Main(n)] \in Plain /\ pc'[Main(n)] \in Plain,
         UNCHANGED <<n_iter, param, given, written, saved>>
  PROVE  IterOf(n)' /\ ParamOf(n)' /\ GivenOf(n)'
<1>1. IterOf(n)'
  BY DEF IterOf, Plain
<1>2. ParamOf(n)'
  BY DEF ParamOf, Added, Plain
<1>3. GivenOf(n)'
  BY DEF GivenOf, SumOf, Plain
<1> QED
  BY <1>1, <1>2, <1>3

\* Threads of another slave are other threads.
LEMMA OtherThreads ==
  ASSUME NEW n \in Slave, NEW x \in Party(n), NEW m \in Slave \ {n}
  PROVE  /\ \A y \in Party(m) : y # x /\ y \in Procs /\ y \in LThread
         /\ \A y \in Worker(m) : y # x /\ y \in Workers /\ y \in Party(m)
<1>1. \A y \in Party(m) : y # x /\ y \in Procs /\ y \in LThread
  BY DEF Party, Procs
<1> QED
  BY <1>1, Threads

\* A step that changes the place of thread x of slave n, and of the rest only
\* what is n's, leaves the other slaves alone.
LEMMA OthersUntouched ==
  ASSUME TypeTrain, NEW n \in Slave, NEW x \in Party(n), NEW l,
         pc' = [pc EXCEPT ![x] = l],
         \A y \in LThread \ Party(n) : mygen'[y] = mygen[y],
         \A y \in Workers \ Worker(n) : saw'[y] = saw[y] /\ centers'[y] = centers[y],
         \A m \in Slave \ {n} : /\ n_iter'[m] = n_iter[m] /\ means'[m] = means[m] /\ given'[m] = given[m]
                               /\ count'[m] = count[m] /\ gen'[m] = gen[m] /\ (m \in freed' => m \in freed),
         UNCHANGED <<param, written, saved>>
  PROVE  \A m \in Slave \ {n} : Untouched(m)
<1> SUFFICES ASSUME NEW m \in Slave \ {n} PROVE Untouched(m)
  OBVIOUS
<1>0. x \in Procs
  BY OneParty DEF Party
<1>1. \A y \in Party(m) : pc'[y] = pc[y]
  BY <1>0, OtherThreads DEF TypeTrain
<1>2. \A y \in Party(m) : y \in LThread \ Party(n)
  BY DEF Party
<1>3. \A y \in Worker(m) : y \in Workers \ Worker(n)
  BY Threads
<1> QED
  BY <1>1, <1>2, <1>3 DEF Untouched

\* The facts of a slave.
LEMMA RoundsOf ==
  ASSUME Rounds, NEW n \in Slave
  PROVE  /\ TypeTrain /\ IterOf(n) /\ ParamOf(n) /\ GivenOf(n) /\ BarOf(n) /\ DataOf(n)
         /\ FilledOf(n) /\ SawOf(n) /\ CentersOf(n) /\ Phase(n) /\ Counted(n) /\ NotStarted(n) /\ Deleted(n)
  BY DEF Rounds, SlaveInv, BarOf, DataOf

\* The threads of a worker's slave.
LEMMA WorkerOf ==
  ASSUME NEW n \in Slave, NEW x \in Worker(n)
  PROVE  /\ x \in Party(n) /\ x \in Workers /\ x \in Procs /\ x \in LThread /\ x[1] = n /\ x[2] # 0
         /\ x # Main(n) /\ Main(n) \in Procs /\ Main(n) \in Party(n) /\ Main(n) \in LThread
  BY Threads DEF Party, Procs

\* slave_worker at the top of its loop.
LEMMA WorkerLoopKeeps ==
  ASSUME Rounds, NEW n \in Slave, NEW x \in Worker(n), WorkerLoop(x)
  PROVE  Rounds'
<1>0. /\ TypeTrain /\ IterOf(n) /\ ParamOf(n) /\ GivenOf(n) /\ BarOf(n) /\ DataOf(n)
      /\ FilledOf(n) /\ SawOf(n) /\ CentersOf(n) /\ Phase(n) /\ Counted(n) /\ NotStarted(n) /\ Deleted(n)
  BY RoundsOf
<1>1. /\ x \in Party(n) /\ x \in Workers /\ x \in Procs /\ x \in LThread /\ x[1] = n /\ x[2] # 0
      /\ x # Main(n) /\ Main(n) \in Procs /\ Main(n) \in Party(n)
  BY WorkerOf
<1>2. PICK l \in {"lock1", "exit"} : pc' = [pc EXCEPT ![x] = l]
  BY DEF WorkerLoop, Goto
<1>3. /\ pc[x] = "loop" /\ UNCHANGED <<n_iter, means, freed, saved, key, param, given, written>>
      /\ UNCHANGED <<saw, centers, count, gen, mygen>>
  BY DEF WorkerLoop, keyVars, accVars
<1>4. Made(n) /\ pc[Main(n)] \notin {"none", "load", "enter", "started"}
  BY <1>0, <1>3, WorkerMade
<1>5. Even(gen[n])
  BY <1>0, <1>1, <1>3, <1>4, PhaseOf DEF EarlyPlace, WorkerEarly
<1>6. l \in EarlyPlace(x) /\ l \in Place
  BY <1>1 DEF EarlyPlace, WorkerEarly, Place, MainEarly
<1>7. \A y \in Procs : pc'[y] = IF y = x THEN l ELSE pc[y]
  BY <1>0, <1>1, <1>2 DEF TypeTrain
<1>8. TypeTrain'
  BY <1>0, <1>2, <1>3, <1>6 DEF TypeTrain
<1>9. NotStarted(n)' /\ Deleted(n)'
  BY <1>0, <1>1, <1>3, <1>4, <1>7 DEF NotStarted, Deleted
<1>10. BarOf(n)'
  BY <1>0, <1>1, <1>2, <1>3, <1>4, <1>5, <1>6, <1>9, BarMoves DEF Arrives
<1>11. IterOf(n)' /\ ParamOf(n)' /\ GivenOf(n)'
  BY <1>0, <1>1, <1>3, <1>7, ResultKeeps
<1>12. \A y \in Worker(n) : y \in Procs
  BY WorkerOf
<1>13. FilledOf(n)'
  BY <1>0, <1>1, <1>3, <1>7 DEF FilledOf, Filled
<1>14. SawOf(n)'
  BY <1>0, <1>3, <1>7, <1>12 DEF SawOf
<1>15. CentersOf(n)'
  BY <1>0, <1>1, <1>3, <1>7, <1>12 DEF CentersOf
<1>16. SlaveInv(n)'
  BY <1>10, <1>11, <1>13, <1>14, <1>15 DEF SlaveInv, DataOf
<1>17. \A m \in Slave \ {n} : Untouched(m)
  BY <1>0, <1>1, <1>2, <1>3, OthersUntouched
<1> QED
  BY <1>1, <1>2, <1>3, <1>6, <1>8, <1>16, <1>17, ThreadStep

\* A worker begins to read means.
LEMMA ComputeKeeps ==
  ASSUME Rounds, NEW n \in Slave, NEW x \in Worker(n), Compute(x)
  PROVE  Rounds'
<1>0. /\ TypeTrain /\ IterOf(n) /\ ParamOf(n) /\ GivenOf(n) /\ BarOf(n) /\ DataOf(n)
      /\ FilledOf(n) /\ SawOf(n) /\ CentersOf(n) /\ Phase(n) /\ Counted(n) /\ NotStarted(n) /\ Deleted(n)
  BY RoundsOf
<1>1. /\ x \in Party(n) /\ x \in Workers /\ x \in Procs /\ x \in LThread /\ x[1] = n /\ x[2] # 0
      /\ x # Main(n) /\ Main(n) \in Procs /\ Main(n) \in Party(n)
  BY WorkerOf
<1>2. pc' = [pc EXCEPT ![x] = "computed"] /\ saw' = [saw EXCEPT ![x] = means[n]]
  BY <1>1 DEF Compute, Goto
<1>3. /\ pc[x] = "compute" /\ UNCHANGED <<n_iter, means, freed, saved, key, param, given, written>>
      /\ UNCHANGED <<centers, count, gen, mygen>>
  BY DEF Compute, keyVars, accVars, barVars
<1>4. Made(n) /\ pc[Main(n)] \notin {"none", "load", "enter", "started"}
  BY <1>0, <1>3, WorkerMade
<1>5. ~Even(gen[n])
  BY <1>0, <1>1, <1>3, <1>4, PhaseOf DEF LatePlace
<1>6. "computed" \in LatePlace(x) /\ "computed" \in Place
  BY <1>1 DEF LatePlace, Place
<1>7. \A y \in Procs : pc'[y] = IF y = x THEN "computed" ELSE pc[y]
  BY <1>0, <1>1, <1>2 DEF TypeTrain
<1>8. \A y \in Workers : saw'[y] = IF y = x THEN means[n] ELSE saw[y]
  BY <1>0, <1>1, <1>2 DEF TypeTrain
<1>9. TypeTrain'
  <2>1. saw' = [y \in Workers |-> saw'[y]]
    BY <1>0, <1>2 DEF TypeTrain
  <2>2. pc' \in [Procs -> Place]
    BY <1>0, <1>2, <1>6 DEF TypeTrain
  <2> QED
    BY <1>0, <1>3, <2>1, <2>2 DEF TypeTrain
<1>10. NotStarted(n)' /\ Deleted(n)'
  BY <1>0, <1>1, <1>3, <1>4, <1>7 DEF NotStarted, Deleted
<1>11. BarOf(n)'
  BY <1>0, <1>1, <1>2, <1>3, <1>4, <1>5, <1>6, <1>10, BarMoves DEF Arrives
<1>12. IterOf(n)' /\ ParamOf(n)' /\ GivenOf(n)'
  BY <1>0, <1>1, <1>3, <1>7, ResultKeeps
<1>13. \A y \in Worker(n) : y \in Procs /\ y \in Workers
  BY WorkerOf
<1>14. FilledOf(n)'
  BY <1>0, <1>1, <1>3, <1>7 DEF FilledOf, Filled
<1>15. SawOf(n)'
  BY <1>0, <1>3, <1>7, <1>8, <1>13 DEF SawOf
<1>16. CentersOf(n)'
  BY <1>0, <1>1, <1>3, <1>7, <1>13 DEF CentersOf
<1>17. SlaveInv(n)'
  BY <1>11, <1>12, <1>14, <1>15, <1>16 DEF SlaveInv, DataOf
<1>18. \A m \in Slave \ {n} : Untouched(m)
  BY <1>0, <1>1, <1>2, <1>3, <1>8, OthersUntouched
<1> QED
  BY <1>1, <1>2, <1>3, <1>6, <1>9, <1>17, <1>18, ThreadStep

\* A version is read back from means.
LEMMA VersionOf == ASSUME NEW c \in Iter PROVE Version(Params([p \in Part |-> c])) = c
<1>1. 0 \in Part
  BY MasterApart
<1>2. PICK m : m = Params([p \in Part |-> c])
  OBVIOUS
<1>3. m.kind = "param" /\ m.of = [p \in Part |-> c]
  BY <1>2 DEF Params
<1>4. \A p \in Part : m.of[p] = c
  BY <1>3
<1>5. Version(m) = c
  BY <1>1, <1>3, <1>4 DEF Version
<1> QED
  BY <1>2, <1>5

\* While the generation is odd the main thread has filled means and waits.
LEMMA FilledLate ==
  ASSUME NEW n \in Slave, BarOf(n), FilledOf(n), Made(n), ~Even(gen[n])
  PROVE  /\ Filled(n) /\ pc[Main(n)] # "sum"
         /\ pc[Main(n)] = "wait2" => mygen[Main(n)] = gen[n]
<1>1. LateAt(Main(n), n) /\ Main(n)[2] = 0
  BY PhaseOf, Threads
<1> QED
  BY <1>1 DEF LateAt, LatePlace, FilledOf

\* A thread that has begun has a barrier.
LEMMA ThreadMade ==
  ASSUME NEW n \in Slave, BarOf(n), NEW x \in Party(n), pc[x] \notin {"none", "load"}
  PROVE  Made(n)
<1>1. CASE x = Main(n)
  BY <1>1 DEF Made
<1>2. CASE x # Main(n)
  BY <1>2, Threads, WorkerMade
<1> QED
  BY <1>1, <1>2

\* A worker has computed its contribution.
LEMMA ComputedKeeps ==
  ASSUME Rounds, NEW n \in Slave, NEW x \in Worker(n), Computed(x)
  PROVE  Rounds'
<1>0. /\ TypeTrain /\ IterOf(n) /\ ParamOf(n) /\ GivenOf(n) /\ BarOf(n) /\ DataOf(n)
      /\ FilledOf(n) /\ SawOf(n) /\ CentersOf(n) /\ Phase(n) /\ Counted(n) /\ NotStarted(n) /\ Deleted(n)
  BY RoundsOf
<1>1. /\ x \in Party(n) /\ x \in Workers /\ x \in Procs /\ x \in LThread /\ x[1] = n /\ x[2] # 0
      /\ x # Main(n) /\ Main(n) \in Procs /\ Main(n) \in Party(n)
  BY WorkerOf
<1>2. /\ pc' = [pc EXCEPT ![x] = "lock2"] /\ saw' = [saw EXCEPT ![x] = Nothing]
      /\ centers' = [centers EXCEPT ![x] = IF means[n] = saw[x] THEN Version(saw[x]) ELSE Garbage]
  BY <1>1 DEF Computed, Goto
<1>3. /\ pc[x] = "computed" /\ UNCHANGED <<n_iter, means, freed, saved, key, param, given, written>>
      /\ UNCHANGED <<count, gen, mygen>>
  BY DEF Computed, keyVars, accVars
<1>4. Made(n) /\ pc[Main(n)] \notin {"none", "load", "enter", "started"}
  BY <1>0, <1>3, WorkerMade
<1>5. ~Even(gen[n])
  BY <1>0, <1>1, <1>3, <1>4, PhaseOf DEF LatePlace
<1>6. "lock2" \in LatePlace(x) /\ "lock2" \in Place
  BY <1>1 DEF LatePlace, Place
<1>7. \A y \in Procs : pc'[y] = IF y = x THEN "lock2" ELSE pc[y]
  BY <1>0, <1>1, <1>2 DEF TypeTrain
<1>8. n_iter[n] + 1 \in Iter
  BY <1>0, Threads DEF TypeTrain, Iter
<1>9. Filled(n) /\ saw[x] = means[n]
  BY <1>0, <1>3, <1>4, <1>5, FilledLate DEF SawOf
<1>10. Version(saw[x]) = n_iter[n] + 1
  BY <1>8, <1>9, VersionOf DEF Filled
<1>11. \A y \in Workers : centers'[y] = IF y = x THEN n_iter[n] + 1 ELSE centers[y]
  BY <1>0, <1>1, <1>2, <1>9, <1>10 DEF TypeTrain
<1>12. \A y \in Workers : y # x => saw'[y] = saw[y]
  BY <1>0, <1>2 DEF TypeTrain
<1>13. TypeTrain'
  <2>1. saw' = [y \in Workers |-> saw'[y]]
    BY <1>0, <1>2 DEF TypeTrain
  <2>2. pc' \in [Procs -> Place]
    BY <1>0, <1>2, <1>6 DEF TypeTrain
  <2>3. centers' = [y \in Workers |-> centers'[y]]
    BY <1>0, <1>2 DEF TypeTrain
  <2> QED
    BY <1>0, <1>3, <2>1, <2>2, <2>3 DEF TypeTrain
<1>14. NotStarted(n)' /\ Deleted(n)'
  BY <1>0, <1>1, <1>3, <1>4, <1>7 DEF NotStarted, Deleted
<1>15. BarOf(n)'
  BY <1>0, <1>1, <1>2, <1>3, <1>4, <1>5, <1>6, <1>14, BarMoves DEF Arrives
<1>16. IterOf(n)' /\ ParamOf(n)' /\ GivenOf(n)'
  BY <1>0, <1>1, <1>3, <1>7, ResultKeeps
<1>17. \A y \in Worker(n) : y \in Procs /\ y \in Workers
  BY WorkerOf
<1>18. FilledOf(n)'
  BY <1>0, <1>1, <1>3, <1>7 DEF FilledOf, Filled
<1>19. SawOf(n)'
  BY <1>0, <1>3, <1>7, <1>12, <1>17 DEF SawOf
<1>20. CentersOf(n)'
  <2>1. pc[Main(n)] # "sum" /\ (pc[Main(n)] = "wait2" => mygen[Main(n)] = gen[n])
    BY <1>0, <1>4, <1>5, FilledLate
  <2> QED
    BY <1>0, <1>1, <1>3, <1>7, <1>11, <1>17, <2>1 DEF CentersOf
<1>21. SlaveInv(n)'
  BY <1>15, <1>16, <1>18, <1>19, <1>20 DEF SlaveInv, DataOf
<1>22. \A m \in Slave \ {n} : Untouched(m)
  <2>1. \A y \in Workers \ Worker(n) : saw'[y] = saw[y] /\ centers'[y] = centers[y]
    BY <1>11, <1>12
  <2>2. pc' = [pc EXCEPT ![x] = "lock2"]
    BY <1>2
  <2> QED
    BY <1>0, <1>1, <1>3, <2>1, <2>2, OthersUntouched
<1> QED
  BY <1>1, <1>2, <1>3, <1>6, <1>13, <1>21, <1>22, ThreadStep

\* slave_main goes on from its first meeting to its second.
LEMMA CallKeeps ==
  ASSUME Rounds, NEW n \in Slave, NEW x \in Party(n), Call(x)
  PROVE  Rounds'
<1>0. /\ TypeTrain /\ IterOf(n) /\ ParamOf(n) /\ GivenOf(n) /\ BarOf(n) /\ DataOf(n)
      /\ FilledOf(n) /\ SawOf(n) /\ CentersOf(n) /\ Phase(n) /\ Counted(n) /\ NotStarted(n) /\ Deleted(n)
  BY RoundsOf
<1>1. /\ pc[x] = "meet2" /\ pc' = [pc EXCEPT ![x] = "lock2"]
      /\ UNCHANGED <<n_iter, means, freed, saved, key, param, given, written>>
      /\ UNCHANGED <<saw, centers, count, gen, mygen>>
  BY DEF Call, Goto, keyVars, accVars, workVars
<1>2. Made(n) /\ Main(n) \in Procs /\ Main(n)[2] = 0 /\ x \in Procs
  BY <1>0, <1>1, ThreadMade, Threads, OneParty DEF Party
<1>3. x = Main(n)
  <2>1. EarlyAt(x, n) \/ LateAt(x, n)
    BY <1>0, <1>2, PhaseOf
  <2>2. x[2] = 0
    BY <1>1, <2>1 DEF EarlyAt, LateAt, EarlyPlace, LatePlace, MainEarly, WorkerEarly
  <2> QED
    BY <2>2, Threads
<1>4. ~Even(gen[n])
  BY <1>0, <1>1, <1>2, <1>3, PhaseOf DEF LatePlace
<1>5. "lock2" \in LatePlace(x) /\ "lock2" \in Place /\ "lock2" \in Plain /\ "meet2" \in Plain
  BY DEF LatePlace, Place, Plain
<1>6. \A y \in Procs : pc'[y] = IF y = x THEN "lock2" ELSE pc[y]
  BY <1>0, <1>1 DEF TypeTrain
<1>7. TypeTrain'
  BY <1>0, <1>1, <1>5 DEF TypeTrain
<1>8. NotStarted(n)' /\ Deleted(n)'
  BY <1>0, <1>1, <1>2, <1>3, <1>6 DEF NotStarted, Deleted
<1>9. BarOf(n)'
  BY <1>0, <1>1, <1>2, <1>4, <1>5, <1>8, BarMoves DEF Arrives
<1>10. IterOf(n)' /\ ParamOf(n)' /\ GivenOf(n)'
  BY <1>0, <1>1, <1>2, <1>3, <1>5, <1>6, ResultKeeps
<1>11. \A y \in Worker(n) : y \in Procs /\ y # x
  BY <1>3, WorkerOf
<1>12. DataOf(n)'
  BY <1>0, <1>1, <1>2, <1>3, <1>6, <1>11 DEF DataOf, FilledOf, Filled, SawOf, CentersOf
<1>13. SlaveInv(n)'
  BY <1>9, <1>10, <1>12 DEF SlaveInv
<1>14. \A m \in Slave \ {n} : Untouched(m)
  BY <1>0, <1>1, OthersUntouched
<1>15. n_iter'[0] = n_iter[0]
  BY <1>1
<1> QED
  BY <1>1, <1>5, <1>7, <1>13, <1>14, <1>15, ThreadStep

\* A waiter finds the generation changed.
LEMMA WakeUpKeeps ==
  ASSUME Rounds, NEW n \in Slave, NEW x \in Party(n), WakeUp(x)
  PROVE  Rounds'
<1>0. /\ TypeTrain /\ IterOf(n) /\ ParamOf(n) /\ GivenOf(n) /\ BarOf(n) /\ DataOf(n)
      /\ FilledOf(n) /\ SawOf(n) /\ CentersOf(n) /\ Phase(n) /\ Counted(n) /\ NotStarted(n) /\ Deleted(n)
  BY RoundsOf
<1>1. /\ x[1] = n /\ x \in Procs /\ x \in LThread /\ Main(n) \in Procs /\ Main(n) \in LThread /\ Main(n)[2] = 0
      /\ (x[2] = 0 => x = Main(n))
  BY Threads, OneParty DEF Party
<1>2. PICK l : l = Past(x, pc[x] = "wait2") /\ pc' = [pc EXCEPT ![x] = l]
  BY DEF WakeUp, Goto
<1>3. /\ pc[x] \in {"wait1", "wait2"} /\ gen[n] # mygen[x] /\ mygen' = [mygen EXCEPT ![x] = 0]
      /\ UNCHANGED <<n_iter, means, freed, saved, key, param, given, written>>
      /\ UNCHANGED <<saw, centers, count, gen>>
  BY <1>1 DEF WakeUp, keyVars, accVars, workVars
<1>4. Made(n)
  BY <1>0, <1>3, ThreadMade
<1>5. /\ Even(gen[n]) => pc[x] = "wait2" /\ l = (IF x[2] = 0 THEN "sum" ELSE "loop")
      /\ ~Even(gen[n]) => pc[x] = "wait1" /\ l = (IF x[2] = 0 THEN "meet2" ELSE "compute")
  <2>1. CASE Even(gen[n])
    <3>1. EarlyAt(x, n)
      BY <1>0, <1>4, <2>1, PhaseOf
    <3>2. pc[x] = "wait2"
      BY <1>3, <3>1 DEF EarlyAt, EarlyPlace, MainEarly, WorkerEarly
    <3> QED
      BY <1>2, <2>1, <3>2 DEF Past
  <2>2. CASE ~Even(gen[n])
    <3>1. LateAt(x, n)
      BY <1>0, <1>4, <2>2, PhaseOf
    <3>2. pc[x] = "wait1"
      BY <1>3, <3>1 DEF LateAt, LatePlace
    <3> QED
      BY <1>2, <2>2, <3>2 DEF Past
  <2> QED
    BY <2>1, <2>2
<1>6. /\ Even(gen[n]) => l \in EarlyPlace(x)
      /\ ~Even(gen[n]) => l \in LatePlace(x)
      /\ l \in Place /\ l \in Plain /\ l \notin {"none", "load", "enter", "started"}
      /\ pc[x] \in Plain
  BY <1>3, <1>5 DEF EarlyPlace, LatePlace, MainEarly, WorkerEarly, Place, Plain
<1>7. \A y \in Procs : pc'[y] = IF y = x THEN l ELSE pc[y]
  BY <1>0, <1>1, <1>2 DEF TypeTrain
<1>8. \A y \in LThread : mygen'[y] = IF y = x THEN 0 ELSE mygen[y]
  BY <1>0, <1>1, <1>3 DEF TypeTrain
<1>9. TypeTrain'
  <2>1. pc' \in [Procs -> Place]
    BY <1>0, <1>2, <1>6 DEF TypeTrain
  <2>2. mygen \in [LThread -> Int]
    BY <1>0 DEF TypeTrain
  <2>3. mygen' \in [LThread -> Int]
    BY <1>3, <2>2, FunChanged
  <2> QED
    BY <1>0, <1>3, <2>1, <2>3 DEF TypeTrain
<1>10. \A y \in Worker(n) : y \in Procs /\ y \in LThread /\ y # Main(n) /\ y[2] # 0
  BY WorkerOf
<1>11. NotStarted(n)' /\ Deleted(n)'
  <2>1. NotStarted(n)'
    BY <1>0, <1>1, <1>3, <1>6, <1>7, <1>10 DEF NotStarted
  <2>2. n \notin freed
    BY <1>1 DEF WakeUp
  <2> QED
    BY <1>3, <2>1, <2>2 DEF Deleted
<1>12. BarOf(n)'
  <2>1. \A y \in Party(n) : y # x => mygen'[y] = mygen[y]
    BY <1>8 DEF Party
  <2>2. ~Arrives(x, n)
    BY <1>3 DEF Arrives
  <2>3. pc' = [pc EXCEPT ![x] = l] /\ UNCHANGED <<count, gen>>
    BY <1>2, <1>3
  <2> QED
    BY <1>0, <1>4, <1>6, <1>11, <2>1, <2>2, <2>3, BarMoves
<1>13. IterOf(n)' /\ ParamOf(n)' /\ GivenOf(n)'
  <2>1. \/ pc'[Main(n)] = pc[Main(n)] /\ means' = means
        \/ pc[Main(n)] \in Plain /\ pc'[Main(n)] \in Plain
    BY <1>1, <1>3, <1>6, <1>7
  <2> QED
    BY <1>0, <1>3, <2>1, ResultKeeps
<1>14. FilledOf(n)'
  BY <1>0, <1>1, <1>3, <1>5, <1>7, <1>8 DEF FilledOf, Filled
<1>15. SawOf(n)'
  BY <1>0, <1>3, <1>5, <1>7, <1>10 DEF SawOf
<1>16. CentersOf(n)'
  <2>1. \A y \in Worker(n) : pc'[y] = "lock2" \/ (pc'[y] = "wait2" /\ mygen'[y] = gen'[n]) => centers'[y] = n_iter'[n] + 1
    BY <1>0, <1>3, <1>5, <1>7, <1>8, <1>10 DEF CentersOf
  <2>2. pc'[Main(n)] = "sum" \/ (pc'[Main(n)] = "wait2" /\ mygen'[Main(n)] # gen'[n])
        => pc[Main(n)] = "sum" \/ (pc[Main(n)] = "wait2" /\ mygen[Main(n)] # gen[n])
    BY <1>1, <1>3, <1>5, <1>7, <1>8
  <2> QED
    BY <1>0, <1>3, <2>1, <2>2 DEF CentersOf
<1>17. SlaveInv(n)'
  BY <1>12, <1>13, <1>14, <1>15, <1>16 DEF SlaveInv, DataOf
<1>18. \A m \in Slave \ {n} : Untouched(m)
  <2>1. \A y \in LThread \ Party(n) : mygen'[y] = mygen[y]
    BY <1>8
  <2> QED
    BY <1>0, <1>2, <1>3, <2>1, OthersUntouched
<1>19. n_iter'[0] = n_iter[0] /\ pc[x] # "none"
  BY <1>3
<1>20. x = Main(n) => (pc[x] \in {"none", "load", "enter"} <=> l \in {"none", "load", "enter"})
  BY <1>3, <1>6
<1> QED
  BY <1>2, <1>3, <1>6, <1>9, <1>17, <1>18, <1>19, <1>20, ThreadStep

\* A worker is still at the last meeting when the barrier is deleted.
LEMMA WakeUpDeletedKeeps ==
  ASSUME Rounds, NEW n \in Slave, NEW x \in Party(n), WakeUpDeleted(x)
  PROVE  Rounds'
<1>0. /\ TypeTrain /\ IterOf(n) /\ ParamOf(n) /\ GivenOf(n) /\ BarOf(n) /\ DataOf(n)
      /\ FilledOf(n) /\ SawOf(n) /\ CentersOf(n) /\ Phase(n) /\ Counted(n) /\ NotStarted(n) /\ Deleted(n)
  BY RoundsOf
<1>1. /\ x[1] = n /\ x \in Procs /\ x \in LThread /\ Main(n) \in Procs /\ Main(n) \in Party(n) /\ Main(n)[2] = 0
      /\ (x[2] = 0 => x = Main(n))
  BY Threads, OneParty DEF Party
<1>2. PICK l \in {"exit", "undefined"} : pc' = [pc EXCEPT ![x] = l]
  BY DEF WakeUpDeleted, Goto
<1>3. /\ pc[x] = "wait2" /\ n \in freed
      /\ UNCHANGED <<n_iter, means, freed, saved, key, param, given, written>>
      /\ UNCHANGED <<saw, centers, count, gen, mygen>>
  BY <1>1 DEF WakeUpDeleted, keyVars, accVars, workVars, barVars
<1>4. pc[Main(n)] = "exit" /\ x # Main(n) /\ x[2] # 0
  BY <1>0, <1>1, <1>3 DEF Deleted
<1>5. Made(n) /\ Even(gen[n])
  <2>1. Made(n)
    BY <1>4 DEF Made
  <2>2. pc[Main(n)] \in EarlyPlace(Main(n))
    BY <1>1, <1>4 DEF EarlyPlace, MainEarly
  <2> QED
    BY <1>0, <1>1, <2>1, <2>2, PhaseOf
<1>6. ~Arrives(x, n)
  <2>1. EarlyAt(x, n)
    BY <1>0, <1>5, PhaseOf
  <2>2. mygen[x] = gen[n] - 1
    BY <1>3, <2>1 DEF EarlyAt, EarlyPlace, MainEarly, WorkerEarly
  <2>3. gen[n] \in Nat
    BY <1>0 DEF TypeTrain
  <2> QED
    BY <2>2, <2>3 DEF Arrives
<1>7. l \in EarlyPlace(x) /\ l \in Place
  BY <1>4 DEF EarlyPlace, WorkerEarly, Place, MainEarly
<1>8. \A y \in Procs : pc'[y] = IF y = x THEN l ELSE pc[y]
  BY <1>0, <1>1, <1>2 DEF TypeTrain
<1>9. TypeTrain'
  BY <1>0, <1>2, <1>3, <1>7 DEF TypeTrain
<1>10. \A y \in Worker(n) : y \in Procs
  BY WorkerOf
<1>11. NotStarted(n)' /\ Deleted(n)'
  BY <1>0, <1>1, <1>3, <1>4, <1>8 DEF NotStarted, Deleted
<1>12. BarOf(n)'
  BY <1>0, <1>2, <1>3, <1>5, <1>6, <1>7, <1>11, BarMoves
<1>13. IterOf(n)' /\ ParamOf(n)' /\ GivenOf(n)'
  BY <1>0, <1>1, <1>3, <1>4, <1>8, ResultKeeps
<1>14. FilledOf(n)'
  BY <1>0, <1>1, <1>3, <1>4, <1>8 DEF FilledOf, Filled
<1>15. SawOf(n)'
  BY <1>0, <1>3, <1>8, <1>10 DEF SawOf
<1>16. CentersOf(n)'
  BY <1>0, <1>1, <1>3, <1>4, <1>8, <1>10 DEF CentersOf
<1>17. SlaveInv(n)'
  BY <1>12, <1>13, <1>14, <1>15, <1>16 DEF SlaveInv, DataOf
<1>18. \A m \in Slave \ {n} : Untouched(m)
  BY <1>0, <1>2, <1>3, OthersUntouched
<1>19. n_iter'[0] = n_iter[0] /\ pc[x] # "none"
  BY <1>3
<1> QED
  BY <1>2, <1>3, <1>4, <1>7, <1>9, <1>17, <1>18, <1>19, ThreadStep

\* A thread comes to the barrier and is not the last one.
LEMMA ComesKeeps ==
  ASSUME Rounds, NEW n \in Slave, NEW x \in Party(n), CountDown(x), ~LastIn(count[n] - 1)
  PROVE  Rounds'
<1>0. /\ TypeTrain /\ IterOf(n) /\ ParamOf(n) /\ GivenOf(n) /\ BarOf(n) /\ DataOf(n)
      /\ FilledOf(n) /\ SawOf(n) /\ CentersOf(n) /\ Phase(n) /\ Counted(n) /\ NotStarted(n) /\ Deleted(n)
  BY RoundsOf
<1>1. /\ x[1] = n /\ x \in Procs /\ x \in LThread /\ Main(n) \in Procs /\ Main(n) \in LThread /\ Main(n)[2] = 0
      /\ (x[2] = 0 => x = Main(n)) /\ Main(n) \in Party(n)
  BY Threads, OneParty DEF Party
<1>2. PICK l : l = (IF pc[x] = "lock1" THEN "wait1" ELSE "wait2") /\ pc' = [pc EXCEPT ![x] = l]
  BY <1>1 DEF CountDown, Goto
<1>3. pc[x] \in {"lock1", "lock2"}
  BY DEF CountDown
<1>4. count' = [count EXCEPT ![n] = @ - 1] /\ mygen' = [mygen EXCEPT ![x] = gen[n]] /\ gen' = gen
  BY <1>1 DEF CountDown
<1>5. /\ UNCHANGED <<n_iter, means, freed, saved, key, param, given, written>>
      /\ UNCHANGED <<saw, centers>>
  BY DEF CountDown, keyVars, accVars, workVars
<1>6. Made(n) /\ gen[n] \in Nat /\ count[n] \in Int
  BY <1>0, <1>3, ThreadMade DEF TypeTrain
<1>7. /\ pc[x] = "lock1" => Even(gen[n])
      /\ pc[x] = "lock2" => ~Even(gen[n])
  BY <1>0, <1>6, PhaseOf DEF EarlyPlace, LatePlace, MainEarly, WorkerEarly
<1>8. l \in Place /\ l \in Plain /\ l \in {"wait1", "wait2"} /\ pc[x] \in Plain
  BY <1>2, <1>3 DEF Place, Plain, MainEarly, WorkerEarly
<1>9. \A y \in Procs : pc'[y] = IF y = x THEN l ELSE pc[y]
  BY <1>0, <1>1, <1>2 DEF TypeTrain
<1>10. \A y \in LThread : mygen'[y] = IF y = x THEN gen[n] ELSE mygen[y]
  BY <1>0, <1>1, <1>4 DEF TypeTrain
<1>11. TypeTrain'
  <2>1. pc' \in [Procs -> Place]
    BY <1>0, <1>2, <1>8 DEF TypeTrain
  <2>2. mygen' \in [LThread -> Int]
    <3>1. mygen \in [LThread -> Int]
      BY <1>0 DEF TypeTrain
    <3> QED
      BY <1>4, <1>6, <3>1, FunChanged
  <2>3. count' \in [Slave -> Int]
    BY <1>0, <1>4, <1>6 DEF TypeTrain
  <2> QED
    BY <1>0, <1>4, <1>5, <2>1, <2>2, <2>3 DEF TypeTrain
<1>12. \A y \in Party(n) : y \in Procs /\ y \in LThread
  BY DEF Party, Procs
<1>13. Worker(n) \subseteq Party(n) /\ Main(n) \notin Worker(n)
  BY Threads
<1>14. BarOf(n)'
  <2>1. ASSUME NEW y \in Party(n), Even(gen[n]) PROVE EarlyAt(y, n)'
    <3>1. CASE y = x
      BY <1>2, <1>3, <1>4, <1>7, <1>9, <1>10, <1>12, <2>1, <3>1 DEF EarlyAt
    <3>2. CASE y # x
      <4>1. EarlyAt(y, n)
        BY <1>0, <1>6, <2>1, PhaseOf
      <4> QED
        BY <1>4, <1>9, <1>10, <1>12, <3>2, <4>1 DEF EarlyAt
    <3> QED
      BY <3>1, <3>2
  <2>2. ASSUME NEW y \in Party(n), ~Even(gen[n]) PROVE LateAt(y, n)'
    <3>1. CASE y = x
      BY <1>2, <1>3, <1>4, <1>7, <1>9, <1>10, <1>12, <2>2, <3>1 DEF LateAt
    <3>2. CASE y # x
      <4>1. LateAt(y, n)
        BY <1>0, <1>6, <2>2, PhaseOf
      <4> QED
        BY <1>4, <1>9, <1>10, <1>12, <3>2, <4>1 DEF LateAt
    <3> QED
      BY <3>1, <3>2
  <2>3. Phase(n)'
    BY <1>4, <2>1, <2>2 DEF Phase
  <2>4. x \notin Arrived(n)
    BY <1>3 DEF Arrived, Arrives
  <2>5. Arrived(n)' = Arrived(n) \cup {x}
    <3>1. \A y \in Party(n) : Arrives(y, n)' <=> Arrives(y, n) \/ y = x
      BY <1>4, <1>8, <1>9, <1>10, <1>12 DEF Arrives
    <3> QED
      BY <3>1 DEF Arrived
  <2>6. IsFiniteSet(Arrived(n)) /\ Cardinality(Arrived(n)) \in Nat
    <3>1. Arrived(n) \in SUBSET Party(n)
      BY DEF Arrived
    <3> QED
      BY <3>1, PartySize, FS_Subset, FS_CardinalityType
  <2>7. Cardinality(Arrived(n)') = Cardinality(Arrived(n)) + 1
    BY <2>4, <2>5, <2>6, FS_AddElement
  <2>8. count'[n] = count[n] - 1 /\ count[n] = THREAD_NUM[n] + 1 - Cardinality(Arrived(n)) /\ THREAD_NUM[n] \in Nat
    BY <1>0, <1>4, <1>6, TrainAssumption DEF TypeTrain, Counted, Slave
  <2>9. count'[n] = THREAD_NUM[n] + 1 - Cardinality(Arrived(n)')
    BY <2>6, <2>7, <2>8
  <2>10. Counted(n)'
    BY <2>9 DEF Counted
  <2>11. NotStarted(n)'
    BY <1>0, <1>1, <1>3, <1>8, <1>9, <1>12, <1>13 DEF NotStarted
  <2>12. Deleted(n)'
    <3>1. ASSUME n \in freed, x = Main(n) PROVE FALSE
      BY <1>0, <1>3, <3>1 DEF Deleted
    <3> QED
      BY <1>0, <1>1, <1>5, <1>9, <3>1 DEF Deleted
  <2> QED
    BY <2>3, <2>10, <2>11, <2>12 DEF BarOf
<1>15. IterOf(n)' /\ ParamOf(n)' /\ GivenOf(n)'
  <2>1. \/ pc'[Main(n)] = pc[Main(n)] /\ means' = means
        \/ pc[Main(n)] \in Plain /\ pc'[Main(n)] \in Plain
    BY <1>1, <1>5, <1>8, <1>9
  <2> QED
    BY <1>0, <1>5, <2>1, ResultKeeps
<1>16. FilledOf(n)'
  BY <1>0, <1>1, <1>2, <1>3, <1>4, <1>5, <1>9, <1>10 DEF FilledOf, Filled
<1>17. SawOf(n)'
  BY <1>0, <1>5, <1>8, <1>9, <1>12, <1>13 DEF SawOf
<1>18. CentersOf(n)'
  <2>1. ASSUME NEW y \in Worker(n), pc'[y] = "lock2" \/ (pc'[y] = "wait2" /\ mygen'[y] = gen'[n])
        PROVE  centers'[y] = n_iter'[n] + 1
    <3>1. pc[y] = "lock2" \/ (pc[y] = "wait2" /\ mygen[y] = gen[n])
      BY <1>2, <1>3, <1>4, <1>9, <1>10, <1>12, <1>13, <2>1
    <3> QED
      BY <1>0, <1>5, <3>1 DEF CentersOf
  <2>2. pc'[Main(n)] = "sum" \/ (pc'[Main(n)] = "wait2" /\ mygen'[Main(n)] # gen'[n])
        => pc[Main(n)] = "sum" \/ (pc[Main(n)] = "wait2" /\ mygen[Main(n)] # gen[n])
    BY <1>1, <1>2, <1>4, <1>8, <1>9, <1>10
  <2> QED
    BY <1>0, <1>5, <2>1, <2>2 DEF CentersOf
<1>19. SlaveInv(n)'
  BY <1>14, <1>15, <1>16, <1>17, <1>18 DEF SlaveInv, DataOf
<1>20. \A m \in Slave \ {n} : Untouched(m)
  <2>1. \A y \in LThread \ Party(n) : mygen'[y] = mygen[y]
    BY <1>10
  <2>2. \A m \in Slave \ {n} : count'[m] = count[m]
    BY <1>0, <1>4 DEF TypeTrain
  <2> QED
    BY <1>0, <1>2, <1>4, <1>5, <2>1, <2>2, OthersUntouched
<1>21. n_iter'[0] = n_iter[0] /\ pc[x] # "none"
  BY <1>3, <1>5
<1>22. x = Main(n) => (pc[x] \in {"none", "load", "enter"} <=> l \in {"none", "load", "enter"})
  BY <1>3, <1>8
<1> QED
  BY <1>2, <1>5, <1>8, <1>11, <1>19, <1>20, <1>21, <1>22, ThreadStep

\* The last thread comes: all others are at the barrier, in this generation.
LEMMA LastComesKeeps ==
  ASSUME Rounds, NEW n \in Slave, NEW x \in Party(n), CountDown(x), LastIn(count[n] - 1)
  PROVE  Rounds'
<1>0. /\ TypeTrain /\ IterOf(n) /\ ParamOf(n) /\ GivenOf(n) /\ BarOf(n) /\ DataOf(n)
      /\ FilledOf(n) /\ SawOf(n) /\ CentersOf(n) /\ Phase(n) /\ Counted(n) /\ NotStarted(n) /\ Deleted(n)
  BY RoundsOf
<1>1. /\ x[1] = n /\ x \in Procs /\ x \in LThread /\ Main(n) \in Procs /\ Main(n) \in LThread /\ Main(n)[2] = 0
      /\ (x[2] = 0 => x = Main(n)) /\ Main(n) \in Party(n)
  BY Threads, OneParty DEF Party
<1>2. PICK l : l = Past(x, pc[x] = "lock2") /\ pc' = [pc EXCEPT ![x] = l]
  BY <1>1 DEF CountDown, Goto
<1>3. pc[x] \in {"lock1", "lock2"}
  BY DEF CountDown
<1>4. count' = [count EXCEPT ![n] = THREAD_NUM[n] + 1] /\ gen' = [gen EXCEPT ![n] = @ + 1] /\ mygen' = mygen
  BY <1>1 DEF CountDown, Renewed
<1>5. /\ UNCHANGED <<n_iter, means, freed, saved, key, param, given, written>>
      /\ UNCHANGED <<saw, centers>>
  BY DEF CountDown, keyVars, accVars, workVars
<1>6. Made(n) /\ gen[n] \in Nat /\ count[n] \in Int /\ count[n] = 1 /\ THREAD_NUM[n] \in Nat
  <2>1. Made(n)
    BY <1>0, <1>3, ThreadMade
  <2>2. gen[n] \in Nat /\ count[n] \in Int
    BY <1>0 DEF TypeTrain
  <2>3. count[n] = 1
    BY <2>2 DEF LastIn
  <2>4. THREAD_NUM[n] \in Nat
    BY TrainAssumption DEF Slave
  <2> QED
    BY <2>1, <2>2, <2>3, <2>4
<1>7. /\ pc[x] = "lock1" => Even(gen[n])
      /\ pc[x] = "lock2" => ~Even(gen[n])
  BY <1>0, <1>6, PhaseOf DEF EarlyPlace, LatePlace, MainEarly, WorkerEarly
<1>8. /\ gen'[n] = gen[n] + 1 /\ count'[n] = THREAD_NUM[n] + 1
      /\ Even(gen'[n]) <=> ~Even(gen[n])
  BY <1>0, <1>4, <1>6, EvenOdd DEF TypeTrain
<1>9. /\ Even(gen[n]) => pc[x] = "lock1" /\ l = (IF x[2] = 0 THEN "meet2" ELSE "compute")
      /\ ~Even(gen[n]) => pc[x] = "lock2" /\ l = (IF x[2] = 0 THEN "sum" ELSE "loop")
  BY <1>2, <1>3, <1>7 DEF Past
<1>10. \A y \in Procs : pc'[y] = IF y = x THEN l ELSE pc[y]
  BY <1>0, <1>1, <1>2 DEF TypeTrain
<1>11. \A y \in Party(n) : y = x \/ y \in Arrived(n)
  <2>1. x \notin Arrived(n) /\ Arrived(n) \in SUBSET Party(n)
    BY <1>3 DEF Arrived, Arrives
  <2>2. Cardinality(Arrived(n)) \in Nat
    BY <2>1, PartySize, FS_Subset, FS_CardinalityType
  <2>3. IsFiniteSet(Party(n)) /\ Cardinality(Party(n)) = THREAD_NUM[n] + 1
    BY PartySize
  <2>4. count[n] = THREAD_NUM[n] + 1 - Cardinality(Arrived(n))
    BY <1>0, <1>6 DEF Counted
  <2>5. Cardinality(Arrived(n)) + 1 = Cardinality(Party(n))
    BY <1>6, <2>2, <2>3, <2>4
  <2> QED
    BY <2>1, <2>3, <2>5, AllButOne
<1>12. \A y \in Party(n) : y \in Procs /\ y \in LThread
  BY DEF Party, Procs
<1>13. ASSUME NEW y \in Party(n), y # x
       PROVE  /\ mygen[y] = gen[n] /\ pc'[y] = pc[y]
              /\ Even(gen[n]) => pc[y] = "wait1"
              /\ ~Even(gen[n]) => pc[y] = "wait2"
  <2>1. mygen[y] = gen[n] /\ pc[y] \in {"wait1", "wait2"}
    BY <1>11, <1>13 DEF Arrived, Arrives
  <2>2. Even(gen[n]) => pc[y] = "wait1"
    <3>1. Even(gen[n]) => EarlyAt(y, n)
      BY <1>0, <1>6, PhaseOf
    <3> QED
      BY <1>6, <2>1, <3>1 DEF EarlyAt, EarlyPlace, MainEarly, WorkerEarly
  <2>3. ~Even(gen[n]) => pc[y] = "wait2"
    <3>1. ~Even(gen[n]) => LateAt(y, n)
      BY <1>0, <1>6, PhaseOf
    <3> QED
      BY <1>6, <2>1, <3>1 DEF LateAt, LatePlace
  <2> QED
    BY <1>10, <1>12, <1>13, <2>1, <2>2, <2>3
<1>14. l \in Place /\ l \in Plain /\ pc[x] \in Plain /\ l \in {"meet2", "compute", "sum", "loop"}
  BY <1>3, <1>9 DEF Place, Plain, MainEarly, WorkerEarly
<1>15. TypeTrain'
  <2>1. pc' \in [Procs -> Place]
    BY <1>0, <1>2, <1>14 DEF TypeTrain
  <2>2. gen' \in [Slave -> Nat]
    BY <1>0, <1>4, <1>6 DEF TypeTrain
  <2>3. count' \in [Slave -> Int]
    BY <1>0, <1>4, <1>6 DEF TypeTrain
  <2> QED
    BY <1>0, <1>4, <1>5, <2>1, <2>2, <2>3 DEF TypeTrain
<1>16. Worker(n) \subseteq Party(n) /\ Main(n) \notin Worker(n) /\ \A y \in Worker(n) : y[2] # 0
  BY Threads
<1>17. BarOf(n)'
  <2>1. ASSUME NEW y \in Party(n), Even(gen[n]) PROVE LateAt(y, n)'
    <3>1. CASE y = x
      BY <1>9, <1>10, <1>12, <2>1, <3>1 DEF LateAt, LatePlace
    <3>2. CASE y # x
      BY <1>4, <1>6, <1>8, <1>13, <2>1, <3>2 DEF LateAt
    <3> QED
      BY <3>1, <3>2
  <2>2. ASSUME NEW y \in Party(n), ~Even(gen[n]) PROVE EarlyAt(y, n)'
    <3>1. CASE y = x
      BY <1>9, <1>10, <1>12, <2>2, <3>1 DEF EarlyAt, EarlyPlace, MainEarly, WorkerEarly
    <3>2. CASE y # x
      BY <1>4, <1>6, <1>8, <1>13, <2>2, <3>2 DEF EarlyAt
    <3> QED
      BY <3>1, <3>2
  <2>3. Phase(n)'
    BY <1>8, <2>1, <2>2 DEF Phase
  <2>4. Arrived(n)' = {}
    <3>1. \A y \in Party(n) : ~Arrives(y, n)'
      BY <1>4, <1>6, <1>8, <1>10, <1>12, <1>13, <1>14 DEF Arrives
    <3> QED
      BY <3>1 DEF Arrived
  <2>5. Cardinality(Arrived(n)') = 0
    BY <2>4, FS_EmptySet
  <2>6. Counted(n)'
    BY <1>6, <1>8, <2>5 DEF Counted
  <2>7. NotStarted(n)'
    BY <1>1, <1>10, <1>13, <1>14 DEF NotStarted
  <2>8. Deleted(n)'
    <3>1. n \notin freed
      BY <1>0, <1>1, <1>3, <1>13 DEF Deleted
    <3> QED
      BY <1>5, <3>1 DEF Deleted
  <2> QED
    BY <2>3, <2>6, <2>7, <2>8 DEF BarOf
<1>18. IterOf(n)' /\ ParamOf(n)' /\ GivenOf(n)'
  <2>1. \/ pc'[Main(n)] = pc[Main(n)] /\ means' = means
        \/ pc[Main(n)] \in Plain /\ pc'[Main(n)] \in Plain
    BY <1>1, <1>5, <1>10, <1>14
  <2> QED
    BY <1>0, <1>5, <2>1, ResultKeeps
<1>19. FilledOf(n)'
  <2>1. CASE Even(gen[n])
    <3>1. pc[Main(n)] \in {"lock1", "wait1"}
      BY <1>1, <1>9, <1>13, <2>1
    <3> QED
      BY <1>0, <1>5, <3>1 DEF FilledOf, Filled
  <2>2. CASE ~Even(gen[n])
    <3>1. pc'[Main(n)] \in {"sum", "wait2"} /\ (pc'[Main(n)] = "wait2" => mygen'[Main(n)] # gen'[n])
      BY <1>1, <1>4, <1>6, <1>8, <1>9, <1>10, <1>13, <2>2
    <3> QED
      BY <3>1 DEF FilledOf
  <2> QED
    BY <2>1, <2>2
<1>20. SawOf(n)'
  BY <1>10, <1>12, <1>13, <1>14, <1>16 DEF SawOf
<1>21. CentersOf(n)'
  <2>1. \A y \in Worker(n) : ~(pc'[y] = "lock2" \/ (pc'[y] = "wait2" /\ mygen'[y] = gen'[n]))
    BY <1>4, <1>6, <1>8, <1>10, <1>12, <1>13, <1>14, <1>16
  <2>2. CASE Even(gen[n])
    <3>1. pc'[Main(n)] \in {"meet2", "wait1"}
      BY <1>1, <1>9, <1>10, <1>13, <2>2
    <3> QED
      BY <2>1, <3>1 DEF CentersOf
  <2>3. CASE ~Even(gen[n])
    <3>1. \A y \in Worker(n) : pc[y] = "lock2" \/ (pc[y] = "wait2" /\ mygen[y] = gen[n])
      BY <1>9, <1>13, <1>16, <2>3
    <3>2. \A y \in Worker(n) : centers'[y] = n_iter'[n] + 1
      BY <1>0, <1>5, <3>1 DEF CentersOf
    <3> QED
      BY <3>2 DEF CentersOf
  <2> QED
    BY <2>2, <2>3
<1>22. SlaveInv(n)'
  BY <1>17, <1>18, <1>19, <1>20, <1>21 DEF SlaveInv, DataOf
<1>23. \A m \in Slave \ {n} : Untouched(m)
  <2>1. \A m \in Slave \ {n} : count'[m] = count[m] /\ gen'[m] = gen[m]
    BY <1>0, <1>4 DEF TypeTrain
  <2> QED
    BY <1>0, <1>2, <1>4, <1>5, <2>1, OthersUntouched
<1>24. n_iter'[0] = n_iter[0] /\ pc[x] # "none"
  BY <1>3, <1>5
<1>25. x = Main(n) => (pc[x] \in {"none", "load", "enter"} <=> l \in {"none", "load", "enter"})
  BY <1>3, <1>14
<1> QED
  BY <1>2, <1>5, <1>14, <1>15, <1>22, <1>23, <1>24, <1>25, ThreadStep
-----------------------------------------------------------------------------
(* Steps of slave_main.                                                    *)

\* The main thread of slave n goes on to l, and leaves v in means, g in the
\* accumulation and i in n_iter.
Moves(n, l, v, g, i) ==
  /\ pc[Main(n)] \in {"fetch", "sum", "give", "summed", "free"} /\ pc' = [pc EXCEPT ![Main(n)] = l]
  /\ UNCHANGED <<count, gen, mygen, saw, centers, param, written, saved, key>>
  /\ means' = [means EXCEPT ![n] = v] /\ given' = [given EXCEPT ![n] = g]
  /\ n_iter' = [n_iter EXCEPT ![n] = i] /\ i \in Iter
  /\ freed' = freed \/ (freed' = freed \cup {n} /\ l = "exit")

\* slave_main goes on outside the barrier, in an even generation: no worker reads
\* means or has a contribution in the making.
LEMMA MainMoves ==
  ASSUME Rounds, NEW n \in Slave, NEW l \in {"lock1", "give", "given", "enteragain", "exit"}, NEW v, NEW g, NEW i,
         Moves(n, l, v, g, i), IterOf(n)', ParamOf(n)', GivenOf(n)', FilledOf(n)'
  PROVE  Rounds'
<1>a. /\ pc[Main(n)] \in {"fetch", "sum", "give", "summed", "free"} /\ pc' = [pc EXCEPT ![Main(n)] = l]
      /\ UNCHANGED <<count, gen, mygen, saw, centers, param, written, saved, key>>
      /\ means' = [means EXCEPT ![n] = v] /\ given' = [given EXCEPT ![n] = g]
      /\ n_iter' = [n_iter EXCEPT ![n] = i] /\ i \in Iter
      /\ freed' = freed \/ (freed' = freed \cup {n} /\ l = "exit")
  BY DEF Moves
<1> USE <1>a
<1>0. /\ TypeTrain /\ BarOf(n) /\ NotStarted(n) /\ Deleted(n)
  BY RoundsOf
<1>1. /\ Main(n) \in Procs /\ Main(n) \in Party(n) /\ Main(n)[2] = 0 /\ n # 0 /\ 0 \in Nodes /\ n \in Nodes
  BY Threads, MasterApart
<1>2. Made(n) /\ Even(gen[n])
  <2>1. Made(n)
    BY DEF Made
  <2>2. pc[Main(n)] \in EarlyPlace(Main(n))
    BY <1>1 DEF EarlyPlace, MainEarly
  <2> QED
    BY <1>0, <1>1, <2>1, <2>2, PhaseOf
<1>3. l \in Place /\ l \in EarlyPlace(Main(n))
  BY <1>1 DEF Place, EarlyPlace, MainEarly
<1>4. \A y \in Procs : pc'[y] = IF y = Main(n) THEN l ELSE pc[y]
  BY <1>0, <1>1 DEF TypeTrain
<1>5. \A m \in Slave : m # n => means'[m] = means[m] /\ given'[m] = given[m]
  BY <1>0 DEF TypeTrain
<1>6. \A m \in Nodes : n_iter'[m] = IF m = n THEN i ELSE n_iter[m]
  BY <1>0 DEF TypeTrain
<1>7. TypeTrain'
  <2>1. pc' \in [Procs -> Place]
    BY <1>0, <1>3 DEF TypeTrain
  <2>2. means' = [m \in Slave |-> means'[m]]
    BY <1>0 DEF TypeTrain
  <2>3. given' = [m \in Slave |-> given'[m]]
    BY <1>0 DEF TypeTrain
  <2>4. n_iter' \in [Nodes -> Iter]
    BY <1>0, FunChanged DEF TypeTrain
  <2> QED
    BY <1>0, <2>1, <2>2, <2>3, <2>4 DEF TypeTrain
<1>8. NotStarted(n)' /\ Deleted(n)'
  <2>1. n \notin freed
    BY <1>0 DEF Deleted
  <2> QED
    BY <1>1, <1>4, <2>1 DEF NotStarted, Deleted
<1>9. BarOf(n)'
  BY <1>0, <1>1, <1>2, <1>3, <1>8, BarMoves DEF Arrives
<1>10. ASSUME NEW y \in Worker(n)
       PROVE  pc'[y] = pc[y] /\ pc[y] \notin {"computed", "lock2"} /\ (pc[y] = "wait2" => mygen[y] # gen[n])
  <2>1. y \in Party(n) /\ y # Main(n) /\ y \in Procs /\ y[2] # 0
    BY WorkerOf
  <2>2. EarlyAt(y, n)
    BY <1>0, <1>2, <2>1, PhaseOf
  <2>3. gen[n] \in Nat
    BY <1>0 DEF TypeTrain
  <2> QED
    BY <1>4, <2>1, <2>2, <2>3 DEF EarlyAt, EarlyPlace, WorkerEarly
<1>11. SawOf(n)'
  BY <1>10 DEF SawOf
<1>12. CentersOf(n)'
  <2>1. pc'[Main(n)] \notin {"sum", "wait2"}
    BY <1>1, <1>4
  <2> QED
    BY <1>10, <2>1 DEF CentersOf
<1>13. SlaveInv(n)'
  BY <1>9, <1>11, <1>12 DEF SlaveInv, DataOf
<1>14. \A m \in Slave \ {n} : Untouched(m)
  <2>1. \A m \in Slave \ {n} : n_iter'[m] = n_iter[m] /\ means'[m] = means[m] /\ given'[m] = given[m]
    BY <1>5, <1>6, Threads
  <2>2. \A m \in Slave \ {n} : m \in freed' => m \in freed
    OBVIOUS
  <2> QED
    BY <1>0, <1>1, <2>1, <2>2, OthersUntouched
<1>15. n_iter'[0] = n_iter[0]
  BY <1>1, <1>6
<1> QED
  BY <1>1, <1>3, <1>7, <1>13, <1>14, <1>15, ThreadStep

\* A function is not changed by its own value.
LEMMA SameAt == ASSUME NEW S, NEW f, f = [s \in S |-> f[s]], NEW x PROVE [f EXCEPT ![x] = f[x]] = f
  OBVIOUS

\* No function changes.
LEMMA NothingChanged ==
  ASSUME TypeTrain, NEW n \in Slave
  PROVE  /\ [means EXCEPT ![n] = means[n]] = means
         /\ [given EXCEPT ![n] = given[n]] = given
         /\ [n_iter EXCEPT ![n] = n_iter[n]] = n_iter /\ n_iter[n] \in Iter
<1>1. n_iter = [m \in Nodes |-> n_iter[m]] /\ n \in Nodes
  BY Threads DEF TypeTrain
<1>2. n_iter[n] \in Iter
  BY <1>1 DEF TypeTrain
<1> QED
  BY <1>1, <1>2, SameAt DEF TypeTrain

\* fetch_global_param: the parameters of this iteration.
LEMMA FetchKeeps ==
  ASSUME Rounds, NEW n \in Slave, Fetch(n)
  PROVE  Rounds'
<1>0. TypeTrain /\ IterOf(n) /\ ParamOf(n) /\ GivenOf(n) /\ SavedInv
  BY RoundsOf DEF Rounds
<1>1. /\ pc[Main(n)] = "fetch" /\ pc' = [pc EXCEPT ![Main(n)] = "lock1"]
      /\ means' = [means EXCEPT ![n] = g_param]
      /\ UNCHANGED <<count, gen, mygen, saw, centers, param, written, saved, key, given, n_iter, freed>>
  BY DEF Fetch, Goto, keyVars, accVars, workVars
<1>2. g_param = Params([p \in Part |-> n_iter[n] + 1])
  <2>1. param = [p \in Part |-> n_iter[n] + 1]
    <3>1. \A p \in Part : param[p] = n_iter[n] + 1
      BY <1>0, <1>1 DEF ParamOf, Added
    <3>2. param = [p \in Part |-> param[p]]
      BY <1>0 DEF TypeTrain
    <3> QED
      BY <3>1, <3>2
  <2>2. key.slaves
    BY <1>0 DEF SavedInv, Known
  <2> QED
    BY <2>1, <2>2 DEF g_param
<1>3. means'[n] = g_param
  BY <1>0, <1>1 DEF TypeTrain
<1>4. FilledOf(n)'
  BY <1>1, <1>2, <1>3 DEF FilledOf, Filled
<1>5. pc'[Main(n)] = "lock1" /\ "lock1" \in Plain /\ "fetch" \in Plain
  BY <1>0, <1>1, Threads DEF TypeTrain, Plain, Place, MainEarly
<1>6. IterOf(n)' /\ ParamOf(n)' /\ GivenOf(n)'
  BY <1>0, <1>1, <1>5, ResultKeeps
<1>7. /\ given' = [given EXCEPT ![n] = given[n]] /\ n_iter' = [n_iter EXCEPT ![n] = n_iter[n]]
      /\ n_iter[n] \in Iter
  BY <1>0, <1>1, NothingChanged
<1>8. PICK v, g, i : v = g_param /\ g = given[n] /\ i = n_iter[n]
  OBVIOUS
<1>9. Moves(n, "lock1", v, g, i)
  BY <1>1, <1>7, <1>8 DEF Moves
<1> QED
  BY <1>4, <1>6, <1>9, MainMoves

\* The contributions of the workers are added up.
LEMMA AddUpKeeps ==
  ASSUME Rounds, NEW n \in Slave, AddUp(n)
  PROVE  Rounds'
<1>0. TypeTrain /\ IterOf(n) /\ ParamOf(n) /\ GivenOf(n) /\ CentersOf(n)
  BY RoundsOf
<1>1. /\ pc[Main(n)] = "sum" /\ pc' = [pc EXCEPT ![Main(n)] = "give"]
      /\ means' = [means EXCEPT ![n] = Sum([i \in 1 .. THREAD_NUM[n] |-> centers[<<n, i>>]])]
      /\ UNCHANGED <<count, gen, mygen, saw, centers, param, written, saved, key, given, n_iter, freed>>
  BY DEF AddUp, Goto, keyVars, accVars, workVars, barVars
<1>2. Sum([i \in 1 .. THREAD_NUM[n] |-> centers[<<n, i>>]]) = SumOf(n)
  <2>1. \A i \in 1 .. THREAD_NUM[n] : <<n, i>> \in Worker(n)
    BY DEF Worker
  <2>2. \A i \in 1 .. THREAD_NUM[n] : centers[<<n, i>>] = n_iter[n] + 1
    BY <1>0, <1>1, <2>1 DEF CentersOf
  <2>3. [i \in 1 .. THREAD_NUM[n] |-> centers[<<n, i>>]] = [i \in 1 .. THREAD_NUM[n] |-> n_iter[n] + 1]
    BY <2>2
  <2> QED
    BY <2>3 DEF SumOf
<1>3. means'[n] = SumOf(n) /\ pc'[Main(n)] = "give"
  BY <1>0, <1>1, <1>2, Threads DEF TypeTrain
<1>4. FilledOf(n)'
  BY <1>3 DEF FilledOf
<1>5. IterOf(n)' /\ ParamOf(n)'
  BY <1>0, <1>1, <1>3 DEF IterOf, ParamOf, Added
<1>6. GivenOf(n)'
  BY <1>0, <1>1, <1>3 DEF GivenOf, SumOf
<1>7. /\ given' = [given EXCEPT ![n] = given[n]] /\ n_iter' = [n_iter EXCEPT ![n] = n_iter[n]]
      /\ n_iter[n] \in Iter
  BY <1>0, <1>1, NothingChanged
<1>8. PICK v, g, i : v = SumOf(n) /\ g = given[n] /\ i = n_iter[n]
  OBVIOUS
<1>9. Moves(n, "give", v, g, i)
  BY <1>1, <1>2, <1>7, <1>8 DEF Moves
<1> QED
  BY <1>4, <1>5, <1>6, <1>9, MainMoves

\* The sum of this slave is given to the accumulator.
LEMMA AccumulateKeeps ==
  ASSUME Rounds, NEW n \in Slave, Accumulate(n)
  PROVE  Rounds'
<1>0. TypeTrain /\ IterOf(n) /\ ParamOf(n) /\ GivenOf(n) /\ SavedInv
  BY RoundsOf DEF Rounds
<1>1. key.g_accu
  BY <1>0 DEF SavedInv, Known
<1>2. /\ pc[Main(n)] = "give" /\ pc' = [pc EXCEPT ![Main(n)] = "given"]
      /\ given' = [given EXCEPT ![n] = means[n]]
      /\ UNCHANGED <<count, gen, mygen, saw, centers, param, written, saved, key, means, n_iter, freed>>
  BY <1>1 DEF Accumulate, Goto, keyVars, workVars, barVars
<1>3. given'[n] = means[n] /\ pc'[Main(n)] = "given"
  BY <1>0, <1>2, Threads DEF TypeTrain
<1>4. FilledOf(n)'
  BY <1>3 DEF FilledOf
<1>5. written = {}
  BY <1>0, <1>2 DEF GivenOf
<1>6. IterOf(n)' /\ ParamOf(n)'
  BY <1>0, <1>2, <1>3, <1>5 DEF IterOf, ParamOf, Added
<1>7. GivenOf(n)'
  BY <1>0, <1>2, <1>3 DEF GivenOf, SumOf
<1>8. /\ means' = [means EXCEPT ![n] = means[n]] /\ n_iter' = [n_iter EXCEPT ![n] = n_iter[n]]
      /\ n_iter[n] \in Iter
  BY <1>0, <1>2, NothingChanged
<1>9. PICK v, i : v = means[n] /\ i = n_iter[n]
  OBVIOUS
<1>10. Moves(n, "given", v, v, i)
  BY <1>2, <1>8, <1>9 DEF Moves
<1> QED
  BY <1>4, <1>6, <1>7, <1>10, MainMoves

\* The iteration is done.
LEMMA EnterNextKeeps ==
  ASSUME Rounds, NEW n \in Slave, EnterNext(n)
  PROVE  Rounds'
<1>0. TypeTrain /\ IterOf(n) /\ ParamOf(n) /\ GivenOf(n)
  BY RoundsOf
<1>1. /\ pc[Main(n)] = "summed" /\ pc' = [pc EXCEPT ![Main(n)] = "enteragain"]
      /\ n_iter' = [n_iter EXCEPT ![n] = n_iter[n] + 1]
      /\ UNCHANGED <<count, gen, mygen, saw, centers, param, written, saved, key, means, given, freed>>
  BY DEF EnterNext, Goto, keyVars, accVars, workVars, barVars
<1>2. n_iter[n] \in Iter /\ n_iter[n] + 1 \in Iter
  BY <1>0, Threads DEF TypeTrain, Iter
<1>3. n_iter'[n] = n_iter[n] + 1 /\ pc'[Main(n)] = "enteragain"
  BY <1>0, <1>1, Threads DEF TypeTrain
<1>4. FilledOf(n)'
  BY <1>3 DEF FilledOf
<1>5. IterOf(n)'
  BY <1>0, <1>1, <1>3 DEF IterOf
<1>6. ParamOf(n)'
  <2>1. \A p \in Part : param[p] = n_iter[n] + 2
    BY <1>0, <1>1 DEF ParamOf, Added
  <2>2. n_iter[n] \in Int
    BY <1>2 DEF Iter
  <2>3. \A p \in Part : param'[p] = n_iter'[n] + 1
    BY <1>1, <1>3, <2>1, <2>2
  <2> QED
    BY <1>3, <2>3 DEF ParamOf, Added
<1>7. GivenOf(n)'
  BY <1>0, <1>1, <1>3 DEF GivenOf
<1>8. /\ means' = [means EXCEPT ![n] = means[n]] /\ given' = [given EXCEPT ![n] = given[n]]
  BY <1>0, <1>1, NothingChanged
<1>9. PICK v, g : v = means[n] /\ g = given[n]
  OBVIOUS
<1>10. PICK i \in Iter : i = n_iter[n] + 1
  BY <1>2
<1>11. Moves(n, "enteragain", v, g, i)
  BY <1>1, <1>8, <1>9, <1>10 DEF Moves
<1> QED
  BY <1>4, <1>5, <1>6, <1>7, <1>11, MainMoves

\* slave_main ends.
LEMMA FreeKeeps ==
  ASSUME Rounds, NEW n \in Slave, Free(n)
  PROVE  Rounds'
<1>0. TypeTrain /\ IterOf(n) /\ ParamOf(n) /\ GivenOf(n)
  BY RoundsOf
<1>1. /\ pc[Main(n)] = "free" /\ pc' = [pc EXCEPT ![Main(n)] = "exit"]
      /\ means' = [means EXCEPT ![n] = Nothing] /\ freed' = freed \cup {n}
      /\ UNCHANGED <<count, gen, mygen, saw, centers, param, written, saved, key, given, n_iter>>
  BY DEF Free, Goto, keyVars, accVars, workVars, barVars
<1>2. pc'[Main(n)] = "exit" /\ "exit" \in Plain /\ "free" \in Plain
  BY <1>0, <1>1, Threads DEF TypeTrain, Plain, Place, MainEarly
<1>3. FilledOf(n)'
  BY <1>2 DEF FilledOf
<1>4. IterOf(n)' /\ ParamOf(n)' /\ GivenOf(n)'
  BY <1>0, <1>1, <1>2, ResultKeeps
<1>5. /\ given' = [given EXCEPT ![n] = given[n]] /\ n_iter' = [n_iter EXCEPT ![n] = n_iter[n]]
      /\ n_iter[n] \in Iter
  BY <1>0, <1>1, NothingChanged
<1>6. PICK v, g, i : v = Nothing /\ g = given[n] /\ i = n_iter[n]
  OBVIOUS
<1>7. Moves(n, "exit", v, g, i)
  BY <1>1, <1>5, <1>6 DEF Moves
<1> QED
  BY <1>3, <1>4, <1>7, MainMoves

\* slave_main outside the barrier, and not before a call of it, has no part in
\* what the workers do.
Outside == {"enter", "started", "fetch", "give", "given", "summed", "enteragain", "left", "free", "exit"}

\* When it is there after a step, no worker reads means or computes.
LEMMA OutsideData ==
  ASSUME NEW n \in Slave, BarOf(n)', pc'[Main(n)] \in Outside, gen'[n] \in Nat
  PROVE  DataOf(n)'
<1>1. Main(n) \in Party(n) /\ Main(n)[2] = 0
  BY Threads
<1>2. ~LateAt(Main(n), n)'
  BY <1>1 DEF LateAt, LatePlace, Outside
<1>3. Made(n)'
  BY DEF Made, Outside
<1>4. \A y \in Party(n) : EarlyAt(y, n)'
  BY <1>1, <1>2, <1>3 DEF BarOf, Phase
<1>5. ASSUME NEW y \in Worker(n)
      PROVE  pc'[y] \notin {"computed", "lock2"} /\ (pc'[y] = "wait2" => mygen'[y] # gen'[n])
  <2>1. y \in Party(n) /\ y[2] # 0
    BY WorkerOf
  <2>2. EarlyAt(y, n)'
    BY <1>4, <2>1
  <2> QED
    BY <2>1, <2>2 DEF EarlyAt, EarlyPlace, WorkerEarly
<1>6. FilledOf(n)'
  BY DEF FilledOf, Outside
<1>7. SawOf(n)'
  BY <1>5 DEF SawOf
<1>8. CentersOf(n)'
  BY <1>5 DEF CentersOf, Outside
<1> QED
  BY <1>6, <1>7, <1>8 DEF DataOf

\* slave_main outside the barrier shows that the generation is even.
LEMMA OutsideEven ==
  ASSUME NEW n \in Slave, BarOf(n), pc[Main(n)] \in Outside
  PROVE  /\ Made(n) /\ Even(gen[n]) /\ ~Arrives(Main(n), n)
         /\ \A y \in Party(n) : EarlyAt(y, n)
<1>1. Main(n) \in Party(n) /\ Main(n)[2] = 0
  BY Threads
<1>2. pc[Main(n)] \in EarlyPlace(Main(n)) /\ Made(n) /\ ~Arrives(Main(n), n)
  BY <1>1 DEF EarlyPlace, MainEarly, Made, Arrives, Outside
<1>3. Even(gen[n])
  BY <1>1, <1>2, PhaseOf
<1> QED
  BY <1>2, <1>3, PhaseOf

\* A step of slave n: what is left to show is about n.
LEMMA SlaveStep ==
  ASSUME Rounds, NEW n \in Slave,
         \A y \in Procs \ Party(n) : pc'[y] = pc[y], pc[Main(n)] # "none",
         pc[Main(n)] \in {"none", "load", "enter"} <=> pc'[Main(n)] \in {"none", "load", "enter"},
         key' = key, saved' = saved, n_iter'[0] = n_iter[0],
         \A m \in Slave \ {n} : Untouched(m),
         TypeTrain', SlaveInv(n)'
  PROVE  Rounds'
<1>0. /\ Main(n) \in LThread /\ SavedInv /\ MasterInv /\ IterOf(0)
      /\ Master \in Procs /\ Master \notin LThread /\ Main(0) = Master
  BY Threads, MasterApart DEF Rounds
<1>1. pc'[Master] = pc[Master] /\ pc[Master] # "begin"
  BY <1>0 DEF Party, MasterInv
<1>2. SavedInv'
  BY <1>0 DEF SavedInv
<1>3. IterOf(0)'
  BY <1>0, <1>1 DEF IterOf
<1>4. ASSUME NEW m \in Slave
      PROVE  pc'[Main(m)] \in {"none", "load", "enter"} <=> pc[Main(m)] \in {"none", "load", "enter"}
  <2>1. Main(m) \in Procs /\ (m # n => Main(m) \notin Party(n))
    BY Threads DEF Party
  <2> QED
    BY <2>1
<1>5. MasterInv'
  BY <1>0, <1>1, <1>4 DEF MasterInv
<1>6. \A m \in Slave : SlaveInv(m)'
  BY UntouchedKeeps DEF Rounds
<1> QED
  BY <1>2, <1>3, <1>5, <1>6 DEF Rounds

\* slave_main makes its buffers and a new barrier.
LEMMA LoadKeeps ==
  ASSUME Rounds, NEW n \in Slave, Load(n)
  PROVE  Rounds'
<1>0. /\ TypeTrain /\ IterOf(n) /\ ParamOf(n) /\ GivenOf(n) /\ BarOf(n) /\ NotStarted(n) /\ Deleted(n)
  BY RoundsOf
<1>1. /\ pc[Main(n)] = "load" /\ pc' = [pc EXCEPT ![Main(n)] = "enter"]
      /\ count' = [count EXCEPT ![n] = THREAD_NUM[n] + 1] /\ gen' = [gen EXCEPT ![n] = 0]
      /\ means' = [means EXCEPT ![n] = g_param]
      /\ UNCHANGED <<n_iter, freed, saved, key, mygen, param, given, written, saw, centers>>
  BY DEF Load, Goto, keyVars, accVars, workVars
<1>2. /\ Main(n) \in Procs /\ Main(n) \in Party(n) /\ Main(n)[2] = 0 /\ THREAD_NUM[n] \in Nat
      /\ \A y \in Party(n) : y \in Procs /\ (y = Main(n) \/ (y \in Worker(n) /\ y[2] # 0))
      /\ \A y \in Worker(n) : y \in Procs /\ y # Main(n) /\ y \in Party(n)
  <2>1. THREAD_NUM[n] \in Nat
    BY TrainAssumption DEF Slave
  <2> QED
    BY <2>1, Threads, WorkerOf DEF Party, Procs
<1>3. \A y \in Procs : pc'[y] = IF y = Main(n) THEN "enter" ELSE pc[y]
  BY <1>0, <1>1, <1>2 DEF TypeTrain
<1>4. \A y \in Worker(n) : pc'[y] = "none"
  BY <1>0, <1>1, <1>2, <1>3 DEF NotStarted
<1>5. /\ gen'[n] = 0 /\ count'[n] = THREAD_NUM[n] + 1
      /\ \A m \in Slave \ {n} : gen'[m] = gen[m] /\ count'[m] = count[m] /\ means'[m] = means[m]
  BY <1>0, <1>1 DEF TypeTrain
<1>6. TypeTrain'
  <2>1. pc' \in [Procs -> Place]
    BY <1>0, <1>1 DEF TypeTrain, Place, MainEarly
  <2>2. gen' \in [Slave -> Nat]
    BY <1>0, <1>1 DEF TypeTrain
  <2>3. count' \in [Slave -> Int]
    BY <1>0, <1>1, <1>2 DEF TypeTrain
  <2>4. means' = [m \in Slave |-> means'[m]]
    BY <1>0, <1>1 DEF TypeTrain
  <2> QED
    BY <1>0, <1>1, <2>1, <2>2, <2>3, <2>4 DEF TypeTrain
<1>7. pc'[Main(n)] = "enter"
  BY <1>2, <1>3
<1>8. BarOf(n)'
  <2>1. \A y \in Party(n) : EarlyAt(y, n)'
    BY <1>2, <1>4, <1>7 DEF EarlyAt, EarlyPlace, MainEarly, WorkerEarly
  <2>2. Phase(n)'
    BY <1>5, <2>1, EvenOdd DEF Phase
  <2>3. Arrived(n)' = {}
    BY <1>2, <1>4, <1>7 DEF Arrived, Arrives
  <2>4. Cardinality(Arrived(n)') = 0
    BY <2>3, FS_EmptySet
  <2>5. Counted(n)'
    BY <1>2, <1>5, <2>4 DEF Counted
  <2>6. NotStarted(n)'
    BY <1>4 DEF NotStarted
  <2>7. Deleted(n)'
    BY <1>0, <1>1 DEF Deleted
  <2> QED
    BY <2>2, <2>5, <2>6, <2>7 DEF BarOf
<1>9. DataOf(n)'
  BY <1>5, <1>7, <1>8, OutsideData DEF Outside
<1>10. IterOf(n)' /\ ParamOf(n)' /\ GivenOf(n)'
  <2>1. pc[Main(n)] \in Plain /\ pc'[Main(n)] \in Plain
    BY <1>1, <1>7 DEF Plain, Place, MainEarly
  <2> QED
    BY <1>0, <1>1, <2>1, ResultKeeps
<1>11. SlaveInv(n)'
  BY <1>8, <1>9, <1>10 DEF SlaveInv
<1>12. \A m \in Slave \ {n} : Untouched(m)
  BY <1>0, <1>1, <1>2, <1>5, OthersUntouched
<1>13. \A y \in Procs \ Party(n) : pc'[y] = pc[y]
  BY <1>2, <1>3
<1>14. n_iter'[0] = n_iter[0] /\ key' = key /\ saved' = saved
  BY <1>1
<1> QED
  BY <1>1, <1>6, <1>7, <1>11, <1>12, <1>13, <1>14, SlaveStep

\* slave_main leaves the checkpoint barrier; the first time it starts its workers.
LEMMA EnteredKeeps ==
  ASSUME Rounds, NEW n \in Slave, Entered(n)
  PROVE  Rounds'
<1>0. /\ TypeTrain /\ IterOf(n) /\ ParamOf(n) /\ GivenOf(n) /\ BarOf(n) /\ NotStarted(n) /\ Deleted(n) /\ Counted(n)
  BY RoundsOf
<1>1. /\ Main(n) \in Procs /\ Main(n) \in Party(n) /\ Main(n)[2] = 0
      /\ \A y \in Party(n) : y \in Procs /\ (y = Main(n) \/ (y \in Worker(n) /\ y[2] # 0))
      /\ \A y \in Worker(n) : y \in Procs /\ y # Main(n) /\ y \in Party(n)
  BY Threads, WorkerOf DEF Party, Procs
<1>2. /\ pc[Main(n)] \in {"started", "left"}
      /\ UNCHANGED <<n_iter, means, freed, saved, key, param, given, written, saw, centers, count, gen, mygen>>
  BY DEF Entered, keyVars, accVars, barVars
<1>3. PICK l \in {"fetch", "free"} :
        pc' = [y \in DOMAIN pc |->
                 IF y = Main(n) THEN l
                 ELSE IF pc[Main(n)] = "started" /\ y \in Worker(n) THEN "loop" ELSE pc[y]]
  BY DEF Entered
<1>4. \A y \in Procs : pc'[y] = IF y = Main(n) THEN l
                                ELSE IF pc[Main(n)] = "started" /\ y \in Worker(n) THEN "loop" ELSE pc[y]
  BY <1>0, <1>3 DEF TypeTrain
<1>5. Made(n) /\ Even(gen[n]) /\ \A y \in Party(n) : EarlyAt(y, n)
  BY <1>0, <1>2, OutsideEven DEF Outside
<1>6. pc[Main(n)] = "started" => \A y \in Worker(n) : pc[y] = "none"
  BY <1>0 DEF NotStarted
<1>7. TypeTrain'
  <2>1. pc' \in [Procs -> Place]
    <3>1. \A y \in Procs : pc'[y] \in Place
      BY <1>0, <1>4 DEF TypeTrain, Place, MainEarly, WorkerEarly
    <3>2. pc' = [y \in Procs |-> pc'[y]]
      BY <1>0, <1>3 DEF TypeTrain
    <3> QED
      BY <3>1, <3>2
  <2> QED
    BY <1>0, <1>2, <2>1 DEF TypeTrain
<1>8. pc'[Main(n)] = l
  BY <1>1, <1>4
<1>9. BarOf(n)'
  <2>1. ASSUME NEW y \in Party(n) PROVE EarlyAt(y, n)'
    <3>1. CASE y = Main(n)
      BY <1>1, <1>8, <3>1 DEF EarlyAt, EarlyPlace, MainEarly
    <3>2. CASE y # Main(n) /\ pc'[y] = pc[y]
      BY <1>2, <1>5, <3>2 DEF EarlyAt
    <3>3. CASE y # Main(n) /\ pc'[y] = "loop"
      BY <1>1, <3>3 DEF EarlyAt, EarlyPlace, WorkerEarly
    <3> QED
      BY <1>1, <1>4, <3>1, <3>2, <3>3
  <2>2. Phase(n)'
    BY <1>2, <1>5, <2>1 DEF Phase
  <2>3. \A y \in Party(n) : Arrives(y, n)' <=> Arrives(y, n)
    BY <1>1, <1>2, <1>4, <1>6 DEF Arrives
  <2>4. Arrived(n)' = Arrived(n)
    BY <2>3 DEF Arrived
  <2>5. Counted(n)'
    BY <1>0, <1>2, <1>5, <2>4 DEF Counted
  <2>6. NotStarted(n)'
    BY <1>8 DEF NotStarted
  <2>7. Deleted(n)'
    BY <1>0, <1>2 DEF Deleted
  <2> QED
    BY <2>2, <2>5, <2>6, <2>7 DEF BarOf
<1>10. DataOf(n)'
  <2>1. gen'[n] \in Nat
    BY <1>7 DEF TypeTrain
  <2> QED
    BY <1>8, <1>9, <2>1, OutsideData DEF Outside
<1>11. IterOf(n)' /\ ParamOf(n)' /\ GivenOf(n)'
  <2>1. pc[Main(n)] \in Plain /\ pc'[Main(n)] \in Plain
    BY <1>2, <1>8 DEF Plain, Place, MainEarly
  <2> QED
    BY <1>0, <1>2, <2>1, ResultKeeps
<1>12. SlaveInv(n)'
  BY <1>9, <1>10, <1>11 DEF SlaveInv
<1>13. \A y \in Procs \ Party(n) : pc'[y] = pc[y]
  BY <1>1, <1>4
<1>14. ASSUME NEW m \in Slave \ {n} PROVE Untouched(m)
  <2>1. \A y \in Party(m) : y \in Procs \ Party(n)
    BY DEF Party, Procs
  <2> QED
    BY <1>2, <1>13, <2>1 DEF Untouched
<1>15. n_iter'[0] = n_iter[0] /\ key' = key /\ saved' = saved
  BY <1>2
<1>16. pc[Main(n)] # "none" /\ (pc[Main(n)] \in {"none", "load", "enter"} <=> pc'[Main(n)] \in {"none", "load", "enter"})
  BY <1>2, <1>8
<1> QED
  BY <1>7, <1>12, <1>13, <1>14, <1>15, <1>16, SlaveStep
-----------------------------------------------------------------------------
(* The accumulation.                                                       *)

\* A sum is told from nothing.
LEMMA SumIsSomething == \A n \in Slave : SumOf(n) # Nothing /\ SumOf(n).kind = "sum"
  BY DEF SumOf, Sum, Nothing

\* The sum of all slaves makes the parameters of the next iteration.
LEMMA NextVersionOf ==
  ASSUME Rounds, AllGiven, NEW p \in Part, p \notin written, NEW n \in Slave
  PROVE  NextVersion = n_iter[n] + 2
<1>1. \A m \in Slave : pc[Main(m)] = "given" /\ given[m] = SumOf(m) /\ param[p] = n_iter[m] + 1 /\ n_iter[m] \in Iter
  <2> TAKE m \in Slave
  <2>1. TypeTrain /\ ParamOf(m) /\ GivenOf(m)
    BY RoundsOf
  <2>2. pc[Main(m)] = "given" /\ given[m] = SumOf(m)
    BY <2>1 DEF AllGiven, GivenOf
  <2>3. param[p] = n_iter[m] + 1
    BY <2>1, <2>2 DEF ParamOf, Added
  <2> QED
    BY <2>1, <2>2, <2>3, Threads DEF TypeTrain
<1>2. PICK c \in Iter : c = n_iter[n]
  BY <1>1
<1>3. \A m \in Slave : n_iter[m] = c
  BY <1>1, <1>2 DEF Iter
<1>4. \A m \in Slave : given[m] = Sum([i \in 1 .. THREAD_NUM[m] |-> c + 1]) /\ THREAD_NUM[m] \in Nat \ {0}
  <2> TAKE m \in Slave
  <2>1. THREAD_NUM[m] \in Nat \ {0}
    BY TrainAssumption DEF Slave
  <2>2. given[m] = Sum([i \in 1 .. THREAD_NUM[m] |-> n_iter[m] + 1]) /\ n_iter[m] = c
    BY <1>1, <1>3 DEF SumOf
  <2> QED
    BY <2>1, <2>2
<1>5. ASSUME NEW m \in Slave
      PROVE  given[m].kind = "sum" /\ {given[m].of[i] : i \in DOMAIN given[m].of} = {c + 1}
  <2>1. given[m].of = [i \in 1 .. THREAD_NUM[m] |-> c + 1] /\ given[m].kind = "sum"
    <3>1. given[m] = Sum([i \in 1 .. THREAD_NUM[m] |-> c + 1])
      BY <1>4
    <3> QED
      BY <3>1 DEF Sum
  <2>2. 1 \in 1 .. THREAD_NUM[m]
    <3>1. THREAD_NUM[m] \in Nat \ {0}
      BY <1>4
    <3> QED
      BY <3>1
  <2>3. PICK f : f = given[m].of
    OBVIOUS
  <2>4. DOMAIN f = 1 .. THREAD_NUM[m] /\ \A i \in 1 .. THREAD_NUM[m] : f[i] = c + 1
    BY <2>1, <2>3
  <2>5. {f[i] : i \in DOMAIN f} = {c + 1}
    BY <2>2, <2>4
  <2> QED
    BY <2>1, <2>3, <2>5
<1>6. PICK from : from = UNION {{given[m].of[i] : i \in DOMAIN given[m].of} : m \in Slave}
  OBVIOUS
<1>7. from = {c + 1}
  <2>1. {{given[m].of[i] : i \in DOMAIN given[m].of} : m \in Slave} = {{c + 1}}
    BY <1>5
  <2> QED
    BY <1>6, <2>1
<1>8. Cardinality(from) = 1
  BY <1>7, FS_Singleton
<1>9. from # {Garbage}
  <2>1. c + 1 # Garbage
    BY DEF Garbage, Iter
  <2> QED
    BY <1>7, <2>1
<1>10. (CHOOSE k \in from : TRUE) = c + 1
  BY <1>7
<1>11. NextVersion = IF Cardinality(from) = 1 /\ from # {Garbage} /\ \A m \in Slave : given[m].kind = "sum"
                     THEN (CHOOSE k \in from : TRUE) + 1 ELSE Garbage
  BY <1>6 DEF NextVersion
<1>12. NextVersion = (c + 1) + 1
  BY <1>5, <1>8, <1>9, <1>10, <1>11
<1> QED
  BY <1>2, <1>12 DEF Iter

\* A part of the sum is stored: all slaves have given theirs, and learn of it when
\* it is the last part.
LEMMA StorePartKeeps ==
  ASSUME Rounds, NEW p \in Part, StorePart(p)
  PROVE  Rounds'
<1>0. TypeTrain /\ SavedInv /\ MasterInv /\ IterOf(0) /\ Main(0) = Master /\ Master \in Procs /\ Master \notin LThread
  BY MasterApart DEF Rounds
<1>1. /\ AllGiven /\ p \notin written
      /\ UNCHANGED <<n_iter, means, freed, saved, saw, centers, count, gen, mygen>>
  BY DEF StorePart, workVars, barVars
<1>2. key' = key /\ param' = [param EXCEPT ![p] = NextVersion]
  <2>1. key.accu
    BY <1>0 DEF SavedInv, Known
  <2> QED
    BY <2>1 DEF StorePart
<1>3. \A n \in Slave : /\ pc[Main(n)] = "given" /\ NextVersion = n_iter[n] + 2 /\ n_iter[n] \in Iter
                       /\ given[n] = SumOf(n)
                       /\ \A q \in Part : param[q] = n_iter[n] + (IF q \in written THEN 2 ELSE 1)
  <2> TAKE n \in Slave
  <2>1. ParamOf(n) /\ GivenOf(n)
    BY RoundsOf
  <2>2. pc[Main(n)] = "given" /\ given[n] = SumOf(n)
    BY <1>1, <2>1 DEF AllGiven, GivenOf
  <2>3. NextVersion = n_iter[n] + 2
    BY <1>1, NextVersionOf
  <2>4. \A q \in Part : param[q] = n_iter[n] + (IF q \in written THEN 2 ELSE 1)
    BY <2>1, <2>2 DEF ParamOf, Added
  <2>5. n_iter[n] \in Iter
    BY <1>0, Threads DEF TypeTrain
  <2> QED
    BY <2>2, <2>3, <2>4, <2>5
<1>4. \A q \in Part : param'[q] = IF q = p THEN NextVersion ELSE param[q]
  BY <1>0, <1>2 DEF TypeTrain
<1>5. param' \in [Part -> Int]
  <2>1. PICK n : n \in Slave
    BY TrainAssumption DEF Slave
  <2>2. NextVersion \in Int
    BY <1>3, <2>1 DEF Iter
  <2> QED
    BY <1>0, <1>2, <2>2 DEF TypeTrain
<1>6. SavedInv'
  BY <1>0, <1>1, <1>2 DEF SavedInv
<1>7. \A n \in Slave : Main(n) \in Procs /\ Main(n) \in Party(n) /\ Main(n) \in LThread
  BY Threads
<1>8. \A n \in Slave, y \in LThread : y \in Party(n) /\ y # Main(n) => y \in Worker(n) /\ pc[y] # "given"
  <2> TAKE n \in Slave, y \in LThread
  <2>1. HAVE y \in Party(n) /\ y # Main(n)
  <2>2. y \in Worker(n) /\ y[2] # 0
    BY <2>1, Threads
  <2>3. BarOf(n)
    BY RoundsOf
  <2>4. EarlyAt(y, n)
    BY <1>3, <2>1, <2>3, OutsideEven DEF Outside
  <2>5. pc[y] # "given"
    BY <2>2, <2>4 DEF EarlyAt, EarlyPlace, WorkerEarly
  <2> QED
    BY <2>2, <2>5
<1>9. CASE written \cup {p} = Part
  <2>1. /\ written' = {} /\ given' = [n \in Slave |-> Nothing]
        /\ pc' = [x \in DOMAIN pc |-> IF pc[x] = "given" THEN "summed" ELSE pc[x]]
    BY <1>9 DEF StorePart
  <2>2. \A x \in Procs : pc'[x] = IF pc[x] = "given" THEN "summed" ELSE pc[x]
    BY <1>0, <2>1 DEF TypeTrain
  <2>3. TypeTrain'
    <3>1. pc' \in [Procs -> Place]
      <4>1. \A y \in Procs : pc'[y] \in Place
        BY <1>0, <2>2 DEF TypeTrain, Place, MainEarly
      <4>2. pc' = [y \in Procs |-> pc'[y]]
        BY <1>0, <2>1 DEF TypeTrain
      <4> QED
        BY <4>1, <4>2
    <3>2. written' \in SUBSET Part /\ written' # Part
      BY <2>1
    <3>3. given' = [n \in Slave |-> given'[n]]
      BY <2>1
    <3> QED
      BY <1>0, <1>1, <1>5, <3>1, <3>2, <3>3 DEF TypeTrain
  <2>4. pc'[Master] = pc[Master]
    BY <1>0, <2>2 DEF MasterInv
  <2>5. \A n \in Slave : pc'[Main(n)] = "summed"
    BY <1>3, <1>7, <2>2
  <2>6. MasterInv'
    <3>1. PICK n : n \in Slave
      BY TrainAssumption DEF Slave
    <3>2. pc[Main(n)] = "given" /\ Main(n) \in LThread
      BY <1>3, <1>7, <3>1
    <3>3. pc[Master] # "begin" /\ pc[Master] # "enter"
      BY <1>0, <3>1, <3>2 DEF MasterInv
    <3> QED
      BY <1>0, <2>4, <2>5, <3>3 DEF MasterInv
  <2>7. IterOf(0)'
    BY <1>0, <1>1, <2>4 DEF IterOf
  <2>8. ASSUME NEW n \in Slave PROVE SlaveInv(n)'
    <3>0. IterOf(n) /\ BarOf(n) /\ Deleted(n)
      BY RoundsOf
    <3>1. IterOf(n)'
      BY <1>1, <1>3, <2>5, <3>0 DEF IterOf
    <3>2. ParamOf(n)'
      <4>1. \A q \in Part : param'[q] = n_iter[n] + 2
        BY <1>3, <1>4, <1>9
      <4> QED
        BY <1>1, <2>5, <4>1 DEF ParamOf, Added
    <3>3. GivenOf(n)'
      BY <2>1, <2>5 DEF GivenOf
    <3>4. NotStarted(n)' /\ Deleted(n)'
      BY <1>1, <1>3, <2>5, <3>0 DEF NotStarted, Deleted
    <3>5. \A y \in Party(n) : y # Main(n) => pc'[y] = pc[y] /\ mygen'[y] = mygen[y]
      BY <1>1, <1>8, <2>2 DEF Party, Procs
    <3>6. Made(n) /\ Even(gen[n]) /\ ~Arrives(Main(n), n)
      BY <1>3, <3>0, OutsideEven DEF Outside
    <3>7. "summed" \in EarlyPlace(Main(n))
      BY Threads DEF EarlyPlace, MainEarly
    <3>8. count'[n] = count[n] /\ gen'[n] = gen[n]
      BY <1>1
    <3>9. BarOf(n)'
      BY <1>7, <2>5, <3>0, <3>4, <3>5, <3>6, <3>7, <3>8, BarMovesAt
    <3>10. gen'[n] \in Nat
      BY <2>3 DEF TypeTrain
    <3>11. DataOf(n)'
      BY <2>5, <3>9, <3>10, OutsideData DEF Outside
    <3> QED
      BY <3>1, <3>2, <3>3, <3>9, <3>11 DEF SlaveInv
  <2> QED
    BY <1>6, <2>3, <2>6, <2>7, <2>8 DEF Rounds
<1>10. CASE written \cup {p} # Part
  <2>1. written' = written \cup {p} /\ UNCHANGED <<given, pc>>
    BY <1>10 DEF StorePart
  <2>2. TypeTrain'
    <3>1. written' \in SUBSET Part /\ written' # Part
      BY <1>0, <1>10, <2>1 DEF TypeTrain
    <3> QED
      BY <1>0, <1>1, <1>5, <2>1, <3>1 DEF TypeTrain
  <2>3. MasterInv' /\ IterOf(0)'
    BY <1>0, <1>1, <2>1 DEF MasterInv, IterOf
  <2>4. ASSUME NEW n \in Slave PROVE SlaveInv(n)'
    <3>0. IterOf(n) /\ BarOf(n) /\ DataOf(n)
      BY RoundsOf
    <3>1. IterOf(n)'
      BY <1>1, <2>1, <3>0 DEF IterOf
    <3>2. ParamOf(n)'
      BY <1>1, <1>3, <1>4, <2>1 DEF ParamOf, Added
    <3>3. GivenOf(n)'
      BY <1>1, <1>3, <2>1 DEF GivenOf, SumOf
    <3>4. BarOf(n)'
      BY <1>1, <2>1, <3>0 DEF BarOf, Phase, Counted, NotStarted, Deleted, Made, Arrived, Arrives, EarlyAt, LateAt
    <3>5. DataOf(n)'
      BY <1>1, <2>1, <3>0 DEF DataOf, FilledOf, Filled, SawOf, CentersOf
    <3> QED
      BY <3>1, <3>2, <3>3, <3>4, <3>5 DEF SlaveInv
  <2> QED
    BY <1>6, <2>2, <2>3, <2>4 DEF Rounds
<1> QED
  BY <1>9, <1>10
-----------------------------------------------------------------------------
(* The master, and failures.                                               *)

\* Before a slave has begun there is nothing to read and nothing to wait for.
LEMMA NotBegun ==
  ASSUME NEW n \in Slave, pc'[Main(n)] \in {"none", "load"}, \A y \in Worker(n) : pc'[y] = "none", n \notin freed'
  PROVE  BarOf(n)' /\ DataOf(n)'
<1>1. BarOf(n)'
  BY DEF BarOf, Phase, Counted, NotStarted, Deleted, Made
<1>2. DataOf(n)'
  BY DEF DataOf, FilledOf, SawOf, CentersOf
<1> QED
  BY <1>1, <1>2

\* Writing TRUE into fields of the key that are TRUE leaves the key as it is.
LEMMA KeyRewritten ==
  ASSUME NEW k \in [master : BOOLEAN, slaves : BOOLEAN, word : BOOLEAN, accu : BOOLEAN, g_accu : BOOLEAN],
         k.accu = TRUE, k.g_accu = TRUE, k.slaves = TRUE
  PROVE  [k EXCEPT !.accu = TRUE, !.g_accu = TRUE, !.slaves = TRUE] = k
  OBVIOUS

\* A master that knows the key makes it known to the accumulator and the slaves.
LEMMA KnownKept ==
  ASSUME NEW k, k = Known
  PROVE  [k EXCEPT !.accu = k.master, !.g_accu = TRUE, !.slaves = k.word] = Known
<1>1. k \in [master : BOOLEAN, slaves : BOOLEAN, word : BOOLEAN, accu : BOOLEAN, g_accu : BOOLEAN]
  BY DEF Known
<1>2. k.accu = TRUE /\ k.g_accu = TRUE /\ k.slaves = TRUE
  BY DEF Known
<1>3. k.master = TRUE /\ k.word = TRUE
  BY DEF Known
<1>4. [k EXCEPT !.accu = TRUE, !.g_accu = TRUE, !.slaves = TRUE] = k
  BY <1>1, <1>2, KeyRewritten
<1> QED
  BY <1>3, <1>4

\* main_process starts the slaves.
LEMMA StartSlavesKeeps ==
  ASSUME Rounds, StartSlaves
  PROVE  Rounds'
<1>0. /\ TypeTrain /\ SavedInv /\ MasterInv /\ IterOf(0) /\ Main(0) = Master /\ Master \in Procs /\ Master \notin LThread
      /\ \A x \in LThread : x \in Procs
  BY MasterApart DEF Rounds, Procs
<1>1. /\ pc[Master] = "begin"
      /\ pc' = [x \in DOMAIN pc |-> IF x = Master THEN "enter" ELSE IF x \in Mains THEN "load" ELSE pc[x]]
      /\ UNCHANGED <<n_iter, means, freed, saved, param, given, written, saw, centers, count, gen, mygen>>
  BY DEF StartSlaves, accVars, workVars, barVars
<1>2. key' = key
  <2>1. key = Known
    BY <1>0 DEF SavedInv
  <2>2. key' = [key EXCEPT !.accu = key.master, !.g_accu = TRUE, !.slaves = key.word]
    BY DEF StartSlaves
  <2> QED
    BY <2>1, <2>2, KnownKept
<1>3. \A x \in Procs : pc'[x] = IF x = Master THEN "enter" ELSE IF x \in Mains THEN "load" ELSE pc[x]
  BY <1>0, <1>1 DEF TypeTrain
<1>4. \A x \in LThread : pc[x] = "none"
  BY <1>0, <1>1 DEF MasterInv
<1>5. \A n \in Slave : /\ Main(n) \in LThread /\ Main(n) # Master /\ Main(n) \in Mains
                       /\ \A y \in Worker(n) : y \in LThread /\ y \notin Mains /\ y # Master
  <2> TAKE n \in Slave
  <2>1. Main(n) \in LThread /\ Main(n) # Master /\ Main(n) \in Mains
    BY Threads, MasterApart
  <2>2. ASSUME NEW y \in Worker(n) PROVE y \in LThread /\ y \notin Mains /\ y # Master
    <3>1. y \in LThread /\ y[2] # 0 /\ y # Master
      BY <1>0, WorkerOf
    <3> QED
      BY <3>1 DEF Mains, Main
  <2> QED
    BY <2>1, <2>2
<1>6. pc'[Master] = "enter" /\ \A n \in Slave : pc'[Main(n)] = "load" /\ pc[Main(n)] = "none"
  BY <1>0, <1>3, <1>4, <1>5
<1>7. TypeTrain'
  <2>1. \A y \in Procs : pc'[y] \in Place
    BY <1>0, <1>3 DEF TypeTrain, Place, MainEarly
  <2>2. pc' = [y \in Procs |-> pc'[y]]
    BY <1>0, <1>1 DEF TypeTrain
  <2>3. pc' \in [Procs -> Place]
    BY <2>1, <2>2
  <2> QED
    BY <1>0, <1>1, <2>3 DEF TypeTrain
<1>8. SavedInv'
  BY <1>0, <1>1, <1>2 DEF SavedInv
<1>9. MasterInv' /\ IterOf(0)'
  BY <1>0, <1>1, <1>6 DEF MasterInv, IterOf
<1>10. ASSUME NEW n \in Slave PROVE SlaveInv(n)'
  <2>0. IterOf(n) /\ ParamOf(n) /\ GivenOf(n) /\ Deleted(n)
    BY RoundsOf
  <2>1. \A y \in Worker(n) : pc'[y] = "none"
    BY <1>0, <1>3, <1>4, <1>5
  <2>2. n \notin freed'
    BY <1>1, <1>6, <2>0 DEF Deleted
  <2>3. BarOf(n)' /\ DataOf(n)'
    BY <1>6, <2>1, <2>2, NotBegun
  <2>4. pc[Main(n)] \in Plain /\ pc'[Main(n)] \in Plain
    BY <1>6 DEF Plain, Place, WorkerEarly
  <2>5. IterOf(n)' /\ ParamOf(n)' /\ GivenOf(n)'
    BY <1>1, <2>0, <2>4, ResultKeeps
  <2> QED
    BY <2>3, <2>5 DEF SlaveInv
<1> QED
  BY <1>7, <1>8, <1>9, <1>10 DEF Rounds

\* main_process goes on to the next checkpoint or ends.
LEMMA MasterLoopKeeps ==
  ASSUME Rounds, MasterLoop
  PROVE  Rounds'
<1>0. /\ TypeTrain /\ SavedInv /\ MasterInv /\ IterOf(0) /\ Main(0) = Master /\ Master \in Procs /\ Master \notin LThread
      /\ 0 \in Nodes
  BY MasterApart DEF Rounds
<1>1. /\ pc[Master] \in {"started", "left"}
      /\ UNCHANGED <<means, freed, saved, key, param, given, written, saw, centers, count, gen, mygen>>
  BY DEF MasterLoop, keyVars, accVars, workVars, barVars
<1>2. \/ pc' = [pc EXCEPT ![Master] = "enteragain"] /\ n_iter' = [n_iter EXCEPT ![0] = n_iter[0] + 1]
      \/ pc' = [pc EXCEPT ![Master] = "exit"] /\ n_iter' = n_iter
  BY DEF MasterLoop, Goto
<1>3. n_iter[0] \in Iter /\ n_iter[0] + 1 \in Iter
  BY <1>0 DEF TypeTrain, Iter
<1>4. \A x \in Procs : x # Master => pc'[x] = pc[x]
  BY <1>0, <1>2 DEF TypeTrain
<1>5. \/ pc'[Master] = "enteragain" /\ n_iter'[0] = n_iter[0] + 1
      \/ pc'[Master] = "exit" /\ n_iter'[0] = n_iter[0]
  BY <1>0, <1>2 DEF TypeTrain
<1>6. \A n \in Slave : n_iter'[n] = n_iter[n]
  BY <1>0, <1>2, Threads DEF TypeTrain
<1>7. TypeTrain'
  <2>1. pc' \in [Procs -> Place]
    BY <1>0, <1>2 DEF TypeTrain, Place, MainEarly
  <2>2. n_iter' \in [Nodes -> Iter]
    <3>1. n_iter \in [Nodes -> Iter]
      BY <1>0 DEF TypeTrain
    <3>2. [n_iter EXCEPT ![0] = n_iter[0] + 1] \in [Nodes -> Iter]
      BY <1>3, <3>1, FunChanged
    <3> QED
      BY <1>2, <3>1, <3>2
  <2> QED
    BY <1>0, <1>1, <2>1, <2>2 DEF TypeTrain
<1>8. SavedInv'
  BY <1>0, <1>1 DEF SavedInv
<1>9. IterOf(0)'
  BY <1>0, <1>1, <1>5 DEF IterOf
<1>10. \A n \in Slave : pc'[Main(n)] = pc[Main(n)]
  BY <1>4, Threads
<1>11. MasterInv'
  BY <1>0, <1>1, <1>5, <1>10 DEF MasterInv
<1>12. ASSUME NEW n \in Slave PROVE SlaveInv(n)'
  <2>1. \A y \in Party(n) : pc'[y] = pc[y]
    BY <1>0, <1>4 DEF Party, Procs
  <2>2. Untouched(n)
    BY <1>1, <1>6, <2>1 DEF Untouched
  <2> QED
    BY <2>2, UntouchedKeeps DEF Rounds
<1> QED
  BY <1>7, <1>8, <1>9, <1>11, <1>12 DEF Rounds

\* All meet, and the checkpoint is made: of one iteration, on all nodes.
LEMMA MeetAndSaveKeeps ==
  ASSUME Rounds, MeetAndSave
  PROVE  Rounds'
<1>0. /\ TypeTrain /\ SavedInv /\ MasterInv /\ IterOf(0) /\ Main(0) = Master /\ Master \in Procs /\ Master \notin LThread
      /\ 0 \in Nodes /\ 0 \notin Slave /\ Nodes = Slave \cup {0} /\ 0 \in Part /\ Master \in Mains
  BY MasterApart DEF Rounds
<1>1. /\ saved' = [param |-> param, n_iter |-> n_iter, word |-> key.word]
      /\ pc' = [x \in DOMAIN pc |-> IF x \notin Mains THEN pc[x]
                                    ELSE IF pc[x] = "enter" THEN "started" ELSE "left"]
      /\ UNCHANGED <<n_iter, means, freed, key, param, given, written, saw, centers, count, gen, mygen>>
  BY DEF MeetAndSave, keyVars, accVars, workVars, barVars
<1>2. saved'.param = param /\ saved'.n_iter = n_iter /\ saved'.word = TRUE
  <2>1. key.word = TRUE
    BY <1>0 DEF SavedInv, Known
  <2> QED
    BY <1>1, <2>1
<1>3. \A x \in Procs : pc'[x] = IF x \notin Mains THEN pc[x] ELSE IF pc[x] = "enter" THEN "started" ELSE "left"
  BY <1>0, <1>1 DEF TypeTrain
<1>4. \A n \in Slave : Main(n) \in Mains /\ Main(n) \in Procs /\ Main(n) \in LThread /\ Main(n) \in Party(n)
  BY Threads, MasterApart
<1>5. \/ pc[Master] = "enter" /\ \A n \in Slave : pc[Main(n)] = "enter"
      \/ pc[Master] = "enteragain" /\ \A n \in Slave : pc[Main(n)] = "enteragain"
  <2>1. pc[Master] \in {"enter", "enteragain"} /\ \A n \in Slave : pc[Main(n)] \in {"enter", "enteragain"}
    BY <1>0, <1>4 DEF MeetAndSave
  <2> QED
    BY <1>0, <2>1 DEF MasterInv
<1>6. pc'[Master] \in {"started", "left"} /\ \A n \in Slave : pc'[Main(n)] \in {"started", "left"}
  BY <1>0, <1>3, <1>4
<1>7. TypeTrain'
  <2>1. \A y \in Procs : pc'[y] \in Place
    BY <1>0, <1>3 DEF TypeTrain, Place, MainEarly
  <2>2. pc' = [y \in Procs |-> pc'[y]]
    BY <1>0, <1>1 DEF TypeTrain
  <2>3. pc' \in [Procs -> Place]
    BY <2>1, <2>2
  <2> QED
    BY <1>0, <1>1, <1>2, <2>3 DEF TypeTrain
<1>8. \A n \in Slave, p \in Part : param[p] = n_iter[n] + 1
  <2> TAKE n \in Slave, p \in Part
  <2>1. ParamOf(n)
    BY RoundsOf
  <2> QED
    BY <1>5, <2>1 DEF ParamOf, Added
<1>9. \A p \in Part : param[p] = n_iter[0] + 1
  <2>1. PICK n : n \in Slave
    BY TrainAssumption DEF Slave
  <2>2. IterOf(n) /\ n \in Nodes
    BY <1>0, <2>1, RoundsOf
  <2>3. /\ saved.param[0] = saved.n_iter[0] + 1 /\ saved.param[0] = saved.n_iter[n] + 1
        /\ saved.n_iter[0] \in Iter /\ saved.n_iter[n] \in Iter
    BY <1>0, <2>2 DEF SavedInv, TypeTrain
  <2>4. saved.n_iter[0] = saved.n_iter[n]
    BY <2>3 DEF Iter
  <2>5. n_iter[0] = n_iter[n]
    BY <1>0, <1>5, <2>1, <2>2, <2>4 DEF IterOf
  <2> QED
    BY <1>8, <2>1, <2>5
<1>10. SavedInv'
  <2>1. \A p \in Part, n \in Nodes : saved'.param[p] = saved'.n_iter[n] + 1
    BY <1>0, <1>2, <1>8, <1>9
  <2> QED
    BY <1>0, <1>1, <1>2, <2>1 DEF SavedInv
<1>11. MasterInv' /\ IterOf(0)'
  BY <1>0, <1>1, <1>2, <1>6 DEF MasterInv, IterOf
<1>12. ASSUME NEW n \in Slave PROVE SlaveInv(n)'
  <2>0. GivenOf(n) /\ BarOf(n) /\ NotStarted(n) /\ Deleted(n)
    BY RoundsOf
  <2>1. ASSUME NEW y \in Worker(n) PROVE pc'[y] = pc[y] /\ y \in Party(n)
    <3>1. y \in Procs /\ y[2] # 0 /\ y \in Party(n)
      BY WorkerOf
    <3>2. y \notin Mains
      BY <3>1 DEF Mains, Main
    <3> QED
      BY <1>3, <3>1, <3>2
  <2>2. IterOf(n)'
    BY <1>1, <1>2, <1>6 DEF IterOf
  <2>3. ParamOf(n)'
    BY <1>1, <1>6, <1>8 DEF ParamOf, Added
  <2>4. GivenOf(n)'
    BY <1>1, <1>5, <1>6, <2>0 DEF GivenOf
  <2>5. NotStarted(n)'
    <3>1. pc'[Main(n)] = "started" => pc[Main(n)] = "enter"
      BY <1>3, <1>4, <1>5
    <3> QED
      BY <1>6, <2>0, <2>1, <3>1 DEF NotStarted
  <2>6. Deleted(n)'
    BY <1>1, <1>5, <2>0 DEF Deleted
  <2>7. Made(n) /\ Even(gen[n]) /\ ~Arrives(Main(n), n)
    BY <1>5, <2>0, OutsideEven DEF Outside
  <2>8. PICK l \in {"started", "left"} : pc'[Main(n)] = l
    BY <1>6
  <2>9. l \in EarlyPlace(Main(n))
    BY Threads DEF EarlyPlace, MainEarly
  <2>10. \A y \in Party(n) : y # Main(n) => pc'[y] = pc[y] /\ mygen'[y] = mygen[y]
    BY <1>1, <2>1, Threads
  <2>11. count'[n] = count[n] /\ gen'[n] = gen[n]
    BY <1>1
  <2>12. BarOf(n)'
    BY <1>4, <2>0, <2>5, <2>6, <2>7, <2>8, <2>9, <2>10, <2>11, BarMovesAt
  <2>13. gen'[n] \in Nat
    BY <1>7 DEF TypeTrain
  <2>14. DataOf(n)'
    BY <1>6, <2>12, <2>13, OutsideData DEF Outside
  <2> QED
    BY <2>2, <2>3, <2>4, <2>12, <2>14 DEF SlaveInv
<1> QED
  BY <1>7, <1>10, <1>11, <1>12 DEF Rounds

\* All start again from the checkpoint.
LEMMA RestartKeeps ==
  ASSUME TrainInv, Restart, KeyKept'
  PROVE  Rounds'
<1>1. keep = "global" /\ Rounds
  <2>1. crashes \in Nat /\ crashes' = crashes + 1 /\ keep' = keep
    BY DEF TrainInv, Restart
  <2>2. keep # "const"
    BY <2>1 DEF KeyKept
  <2>3. keep = "global"
    BY <2>2, TrainAssumption DEF TrainInv
  <2>4. Rounds
    BY <2>2 DEF TrainInv, KeyKept
  <2> QED
    BY <2>3, <2>4
<1>2. /\ TypeTrain /\ SavedInv /\ Main(0) = Master /\ Master \in Procs /\ Master \notin LThread /\ 0 \in Nodes
      /\ 0 \in Part /\ Nodes = Slave \cup {0} /\ LThread \subseteq Procs
  BY <1>1, MasterApart DEF Rounds, Procs
<1>3. /\ pc' = [x \in DOMAIN pc |-> IF x = Master THEN "begin" ELSE "none"]
      /\ n_iter' = saved.n_iter /\ param' = saved.param /\ saved' = saved
      /\ freed' = {} /\ written' = {} /\ given' = [n \in Slave |-> Nothing]
  BY DEF Restart, Deserialized
<1>4. \A x \in Procs : pc'[x] = IF x = Master THEN "begin" ELSE "none"
  BY <1>2, <1>3 DEF TypeTrain
<1>5. key' = Known
  <2>1. saved.word = TRUE
    BY <1>2 DEF SavedInv
  <2>2. RestartedKey(saved) = TRUE
    BY <1>1, <2>1 DEF RestartedKey
  <2>3. key' = [Known EXCEPT !.word = TRUE, !.master = TRUE]
    BY <2>1, <2>2 DEF Restart
  <2> QED
    BY <2>3 DEF Known
<1>6. TypeTrain'
  <2>1. pc' \in [Procs -> Place]
    <3>1. \A x \in Procs : pc'[x] \in Place
      BY <1>4 DEF Place, WorkerEarly
    <3>2. pc' = [x \in Procs |-> pc'[x]]
      BY <1>2, <1>3 DEF TypeTrain
    <3> QED
      BY <3>1, <3>2
  <2>2. /\ n_iter' \in [Nodes -> Iter] /\ param' \in [Part -> Int]
        /\ saved'.param \in [Part -> Int] /\ saved'.n_iter \in [Nodes -> Iter]
    BY <1>2, <1>3 DEF TypeTrain
  <2>3. /\ means' = [n \in Slave |-> means'[n]] /\ given' = [n \in Slave |-> given'[n]]
        /\ saw' = [x \in Workers |-> saw'[x]] /\ centers' = [x \in Workers |-> centers'[x]]
    BY DEF Restart
  <2>4. count' \in [Slave -> Int] /\ gen' \in [Slave -> Nat] /\ mygen' \in [LThread -> Int]
    BY DEF Restart
  <2>5. written' \in SUBSET Part /\ written' # Part
    BY <1>2, <1>3
  <2> QED
    BY <2>1, <2>2, <2>3, <2>4, <2>5 DEF TypeTrain
<1>7. SavedInv'
  BY <1>2, <1>3, <1>5 DEF SavedInv
<1>8. pc'[Master] = "begin" /\ \A x \in LThread : pc'[x] = "none"
  BY <1>2, <1>4
<1>9. \A n \in Slave : Main(n) \in LThread
  BY Threads
<1>10. MasterInv' /\ IterOf(0)'
  BY <1>2, <1>3, <1>8, <1>9 DEF MasterInv, IterOf
<1>11. ASSUME NEW n \in Slave PROVE SlaveInv(n)'
  <2>1. pc'[Main(n)] = "none" /\ \A y \in Worker(n) : pc'[y] = "none"
    BY <1>8, <1>9, WorkerOf
  <2>2. BarOf(n)' /\ DataOf(n)'
    BY <1>3, <2>1, NotBegun
  <2>3. IterOf(n)'
    BY <1>3, <2>1 DEF IterOf
  <2>4. ParamOf(n)'
    <3>1. n \in Nodes
      BY Threads
    <3>2. \A p \in Part : param'[p] = n_iter'[n] + 1
      BY <1>2, <1>3, <3>1 DEF SavedInv
    <3> QED
      BY <2>1, <3>2 DEF ParamOf, Added
  <2>5. GivenOf(n)'
    BY <1>3, <2>1 DEF GivenOf
  <2> QED
    BY <2>2, <2>3, <2>4, <2>5 DEF SlaveInv
<1> QED
  BY <1>6, <1>7, <1>10, <1>11 DEF Rounds
-----------------------------------------------------------------------------
(* The invariant.                                                          *)

\* It holds when the program begins.
LEMMA TrainInvInit == Init => TrainInv
<1> SUFFICES ASSUME Init PROVE TrainInv
  OBVIOUS
<1>1. Master \in Procs /\ Master \notin LThread /\ Main(0) = Master /\ 0 \in Nodes /\ 0 \in Part /\ Nodes = Slave \cup {0}
  BY MasterApart DEF Procs
<1>2. pc = [x \in Procs |-> IF x = Master THEN "begin" ELSE "none"]
  BY DEF Init, Procs
<1>3. /\ n_iter = [n \in Nodes |-> -1] /\ param = [p \in Part |-> 0] /\ saved.param = param
      /\ saved.n_iter = n_iter /\ saved.word = TRUE /\ key = Known /\ freed = {} /\ written = {}
      /\ given = [n \in Slave |-> Nothing]
  BY DEF Init, Nodes
<1>4. TypeTrain
  <2>1. pc \in [Procs -> Place]
    BY <1>2 DEF Place, WorkerEarly
  <2>2. n_iter \in [Nodes -> Iter] /\ param \in [Part -> Int]
    BY <1>3 DEF Iter
  <2>3. /\ means = [n \in Slave |-> means[n]] /\ given = [n \in Slave |-> given[n]]
        /\ saw = [x \in Workers |-> saw[x]] /\ centers = [x \in Workers |-> centers[x]]
    BY DEF Init
  <2>4. count \in [Slave -> Int] /\ gen \in [Slave -> Nat] /\ mygen \in [LThread -> Int]
    BY DEF Init
  <2>5. written \in SUBSET Part /\ written # Part
    BY <1>1, <1>3
  <2> QED
    BY <1>3, <2>1, <2>2, <2>3, <2>4, <2>5 DEF TypeTrain
<1>5. SavedInv
  BY <1>3 DEF SavedInv
<1>6. pc[Master] = "begin" /\ \A x \in LThread : pc[x] = "none"
  BY <1>1, <1>2 DEF Procs
<1>7. \A n \in Slave : Main(n) \in LThread
  BY Threads
<1>8. MasterInv /\ IterOf(0)
  BY <1>1, <1>3, <1>6, <1>7 DEF MasterInv, IterOf
<1>9. ASSUME NEW n \in Slave PROVE SlaveInv(n)
  <2>1. pc[Main(n)] = "none" /\ \A y \in Worker(n) : pc[y] = "none"
    BY <1>6, <1>7, WorkerOf
  <2>2. BarOf(n)
    BY <1>3, <2>1 DEF BarOf, Phase, Counted, NotStarted, Deleted, Made
  <2>3. DataOf(n)
    BY <2>1 DEF DataOf, FilledOf, SawOf, CentersOf
  <2>4. IterOf(n)
    BY <1>3, <2>1 DEF IterOf
  <2>5. ParamOf(n)
    <3>1. \A p \in Part : param[p] = n_iter[n] + 1
      BY <1>3, Threads
    <3> QED
      BY <2>1, <3>1 DEF ParamOf, Added
  <2>6. GivenOf(n)
    BY <1>3, <2>1 DEF GivenOf
  <2> QED
    BY <2>2, <2>3, <2>4, <2>5, <2>6 DEF SlaveInv
<1>10. crashes \in Nat /\ keep \in Keeps
  BY DEF Init
<1> QED
  BY <1>4, <1>5, <1>8, <1>9, <1>10 DEF TrainInv, Rounds

\* A step of a thread at the local barrier keeps the rounds.
LEMMA MeetKeeps ==
  ASSUME Rounds, NEW x \in LThread, Meet(x)
  PROVE  Rounds'
<1>1. x[1] \in Slave /\ x \in Party(x[1])
  BY OneParty
<1>2. PICK n \in Slave : n = x[1] /\ x \in Party(n)
  BY <1>1
<1>3. CASE Call(x)
  BY <1>2, <1>3, CallKeeps
<1>4. CASE CountDown(x)
  <2>1. CASE LastIn(count[n] - 1)
    BY <1>2, <1>4, <2>1, LastComesKeeps
  <2>2. CASE ~LastIn(count[n] - 1)
    BY <1>2, <1>4, <2>2, ComesKeeps
  <2> QED
    BY <2>1, <2>2
<1>5. CASE WakeUp(x)
  BY <1>2, <1>5, WakeUpKeeps
<1>6. CASE WakeUpDeleted(x)
  BY <1>2, <1>6, WakeUpDeletedKeeps
<1> QED
  BY <1>3, <1>4, <1>5, <1>6 DEF Meet

\* A step of a worker keeps them.
LEMMA WorkerStepKeeps ==
  ASSUME Rounds, NEW x \in Workers, WorkerStep(x)
  PROVE  Rounds'
<1>1. PICK n \in Slave : x \in Worker(n)
  BY DEF Workers
<1> QED
  BY <1>1, WorkerLoopKeeps, ComputeKeeps, ComputedKeeps DEF WorkerStep

\* A step of a slave's main thread keeps them.
LEMMA MainStepKeeps ==
  ASSUME Rounds, NEW n \in Slave, MainStep(n)
  PROVE  Rounds'
  BY LoadKeeps, EnteredKeeps, FetchKeeps, AddUpKeeps, AccumulateKeeps, EnterNextKeeps, FreeKeeps DEF MainStep

\* Only a restart counts as a failure.
LEMMA CrashesKept ==
  ASSUME TrainInv, Next
  PROVE  /\ Restart \/ crashes' = crashes
         /\ crashes' \in Nat /\ keep' = keep /\ (KeyKept' => KeyKept)
<1>1. /\ Restart \/ crashes' = crashes
      /\ keep' = keep
  <2>1. CASE \E x \in LThread : Meet(x)
    BY <2>1 DEF Meet, Call, CountDown, WakeUp, WakeUpDeleted, keyVars
  <2>2. CASE \E x \in Workers : WorkerStep(x)
    BY <2>2 DEF WorkerStep, WorkerLoop, Compute, Computed, keyVars
  <2>3. CASE \E n \in Slave : MainStep(n)
    BY <2>3 DEF MainStep, Load, Entered, Fetch, AddUp, Accumulate, EnterNext, Free, keyVars
  <2>4. CASE \E p \in Part : StorePart(p)
    BY <2>4 DEF StorePart
  <2>5. CASE MasterStep
    BY <2>5 DEF MasterStep, StartSlaves, MasterLoop, MeetAndSave, keyVars
  <2>6. CASE Restart
    BY <2>6 DEF Restart
  <2> QED
    BY <2>1, <2>2, <2>3, <2>4, <2>5, <2>6 DEF Next
<1>2. Restart => crashes' = crashes + 1
  BY DEF Restart
<1>3. crashes \in Nat
  BY DEF TrainInv
<1> QED
  BY <1>1, <1>2, <1>3 DEF KeyKept

\* Whatever fails when: a node that is about to enter the barrier after iteration
\* i has parameters with i + 1 iterations in them, and so has every checkpoint;
\* for any number of slaves and workers, and as long as the key of g_param is not
\* lost by a restart.
THEOREM IterationsOnceHolds == Spec => []IterationsOnce
<1>1. TrainInv /\ [Next]_vars => TrainInv'
  <2> SUFFICES ASSUME TrainInv, [Next]_vars PROVE TrainInv'
    OBVIOUS
  <2>1. CASE Next
    <3>1. /\ Restart \/ crashes' = crashes
          /\ crashes' \in Nat /\ keep' = keep /\ (KeyKept' => KeyKept)
      BY <2>1, CrashesKept
    <3>2. ASSUME KeyKept' PROVE Rounds'
      <4>0. Rounds
        BY <3>1, <3>2 DEF TrainInv
      <4>1. CASE \E x \in LThread : Meet(x)
        BY <4>0, <4>1, MeetKeeps
      <4>2. CASE \E x \in Workers : WorkerStep(x)
        BY <4>0, <4>2, WorkerStepKeeps
      <4>3. CASE \E n \in Slave : MainStep(n)
        BY <4>0, <4>3, MainStepKeeps
      <4>4. CASE \E p \in Part : StorePart(p)
        BY <4>0, <4>4, StorePartKeeps
      <4>5. CASE MasterStep
        BY <4>0, <4>5, StartSlavesKeeps, MasterLoopKeeps, MeetAndSaveKeeps DEF MasterStep
      <4>6. CASE Restart
        BY <3>2, <4>6, RestartKeeps
      <4> QED
        BY <2>1, <4>1, <4>2, <4>3, <4>4, <4>5, <4>6 DEF Next
    <3> QED
      BY <3>1, <3>2 DEF TrainInv
  <2>2. CASE UNCHANGED vars
    <3>1. /\ UNCHANGED <<keep, key, pc, n_iter, param, means, saw, centers, count, gen, mygen>>
          /\ UNCHANGED <<freed, given, written, saved, crashes>>
      BY <2>2 DEF vars
    <3>2. ASSUME Rounds PROVE Rounds'
      <4>1. TypeTrain'
        BY <3>1, <3>2 DEF Rounds, TypeTrain
      <4>2. SavedInv'
        BY <3>1, <3>2 DEF Rounds, SavedInv
      <4>3. MasterInv'
        BY <3>1, <3>2 DEF Rounds, MasterInv
      <4>4. IterOf(0)'
        BY <3>1, <3>2 DEF Rounds, IterOf
      <4>5. \A n \in Slave : Untouched(n)
        BY <3>1 DEF Untouched
      <4>6. \A n \in Slave : SlaveInv(n)'
        BY <3>2, <4>5, UntouchedKeeps DEF Rounds
      <4> QED
        BY <4>1, <4>2, <4>3, <4>4, <4>6 DEF Rounds
    <3> QED
      BY <3>1, <3>2 DEF TrainInv, KeyKept
  <2> QED
    BY <2>1, <2>2
<1>2. TrainInv => IterationsOnce
  <2> SUFFICES ASSUME TrainInv, KeyKept
               PROVE  /\ \A p \in Part, n \in 0 .. N - 1 : saved.param[p] = saved.n_iter[n] + 1
                      /\ \A p \in Part, n \in Slave : pc[Main(n)] = "enteragain" => param[p] = n_iter[n] + 1
    BY DEF IterationsOnce
  <2>1. Rounds
    BY DEF TrainInv
  <2>2. \A p \in Part, n \in 0 .. N - 1 : saved.param[p] = saved.n_iter[n] + 1
    BY <2>1 DEF Rounds, SavedInv, Nodes
  <2>3. \A p \in Part, n \in Slave : pc[Main(n)] = "enteragain" => param[p] = n_iter[n] + 1
    <3> TAKE p \in Part, n \in Slave
    <3>1. ParamOf(n)
      BY <2>1, RoundsOf
    <3> QED
      BY <3>1 DEF ParamOf, Added
  <2> QED
    BY <2>2, <2>3
<1> QED
  BY <1>1, <1>2, TrainInvInit, PTL DEF Spec
=============================================================================
