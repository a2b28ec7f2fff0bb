------------------------------- MODULE Train --------------------------------
(***************************************************************************)
(* A training program on top of Dogee: K-means with checkpoints.  On every *)
(* slave a main thread and THREAD_NUM workers compute in step, by the      *)
(* local barrier LBarrier; the mains add their sums up with an accumulator *)
(* into the shared parameters and meet the master at a DCheckpointBarrier. *)
(* A failure at any moment starts the cluster again from the last          *)
(* checkpoint.                                                             *)
(*                                                                         *)
(* Parameters are told apart by the number of iterations that made them.   *)
(* A sum is the contribution of each worker, a contribution the parameters *)
(* it was computed from.  The accumulator and the checkpoint barrier are   *)
(* taken by what they promise (Accumulator, Checkpoint); the checkpoint    *)
(* file is whole when the cluster starts again.                            *)
(*                                                                         *)
(* The program keeps the key of g_param in a shared constant.  RcMaster    *)
(* drops the initialisers of the constants before it calls DoRestart, so   *)
(* that on a restarted master the key is 0, that of the global variables,  *)
(* and main_process makes an accumulator that adds into them.  A program   *)
(* that keeps the key in a global variable reads it back from the restored *)
(* shared memory.  Both are modelled.                                      *)
(***************************************************************************)
EXTENDS Integers, Sequences, FiniteSetsExt

CONSTANTS
  N,            \* num_nodes; node 0 is the master
  THREAD_NUM,   \* per slave; the program has one number for all of them
  ITER_NUM,
  Keeps,        \* where programs keep the key of g_param: "const", "global"
  MaxCrashes    \* bound on failures

ASSUME TrainAssumption ==
  /\ N \in Nat \ {0, 1} /\ THREAD_NUM \in [1 .. N - 1 -> Nat \ {0}]
  /\ ITER_NUM \in Nat /\ Keeps \subseteq {"const", "global"} /\ MaxCrashes \in Nat

Slave == 1 .. N - 1
Master == <<0, 0>>
Main(n) == <<n, 0>>
Worker(n) == {n} \X (1 .. THREAD_NUM[n])
Workers == UNION {Worker(n) : n \in Slave}
LThread == Workers \cup {Main(n) : n \in Slave}  \* the threads at the local barriers
Mains == {Main(n) : n \in 0 .. N - 1}       \* the threads at the checkpoint barrier
Part == 0 .. N - 1                          \* the parts of the vector, one per node
Garbage == -1

VARIABLES
  keep,      \* where this program keeps the key
  key,       \* key.master and key.slaves: the key each has is that of the array;
             \* key.word: the one in the shared memory is; key.accu: the one of
             \* g_accu's output; key.g_accu: g_accu refers to the accumulator
  pc,        \* where each thread is
  n_iter,    \* per node, the last iteration done
  itr,       \* per worker, its iteration
  param,     \* g_param in the shared memory, per part
  means,     \* per slave, the buffer of that name
  saw,       \* per worker, what it read of means so far
  centers,   \* per worker, what it has computed
  count,     \* per slave, m_count of local_barrier
  gen,       \* per slave, m_generation
  mygen,     \* per thread, its "gen" in count_down_and_wait
  freed,     \* the slaves that have deleted their buffers and barrier
  given,     \* per slave, what it gave to the accumulation under way
  written,   \* the parts of the sum already stored
  saved,     \* the last checkpoint
  crashes,
  began,     \* per thread, calls of count_down_and_wait begun
  ended      \* per thread, calls that returned

vars == <<keep, key, pc, n_iter, itr, param, means, saw, centers, count, gen, mygen, freed,
          given, written, saved, crashes, began, ended>>
barVars == <<count, gen, mygen, began, ended>>
accVars == <<param, given, written>>
workVars == <<itr, saw, centers>>
keyVars == <<keep, key>>

Params(f) == [kind |-> "param", of |-> f]
Known == [master |-> TRUE, slaves |-> TRUE, word |-> TRUE, accu |-> TRUE, g_accu |-> TRUE]
Sum(f) == [kind |-> "sum", of |-> f]
Nothing == [kind |-> "none"]
g_param == IF key.slaves THEN Params(param) ELSE Nothing   \* as a slave reads it
Goto(x, l) == pc' = [pc EXCEPT ![x] = l]
-----------------------------------------------------------------------------
(* LBarrier::count_down_and_wait, called twice in an iteration.            *)

Bump(f, x) == [f EXCEPT ![x] = @ + 1]
Past(x, second) == IF x[2] = 0 THEN (IF second THEN "sum" ELSE "meet2")
                   ELSE (IF second THEN "loop" ELSE "compute")

\* A thread calls by going to lock1 or lock2; slave_main comes to its second
\* call from the first one.
Call(x) ==
  /\ pc[x] = "meet2"
  /\ began' = Bump(began, x)
  /\ Goto(x, "lock2")
  /\ UNCHANGED <<n_iter, means, freed, saved, crashes, keyVars, accVars, workVars, count, gen, mygen, ended>>

LastInEarly(c) == c <= 1     \* mutant: one thread too few
LastIn(c) == c = 0

RenewedNot(n) == 0           \* mutant: m_count is not reset
Renewed(n) == THREAD_NUM[n] + 1

\* Under m_mutex: the last one starts the next generation and returns.
CountDown(x) ==
  LET n == x[1] IN
  /\ pc[x] \in {"lock1", "lock2"}
  /\ \/ /\ LastIn(count[n] - 1)
        /\ gen' = [gen EXCEPT ![n] = @ + 1]
        /\ count' = [count EXCEPT ![n] = Renewed(n)]
        /\ ended' = Bump(ended, x)
        /\ Goto(x, Past(x, pc[x] = "lock2"))
        /\ UNCHANGED mygen
     \/ /\ ~LastIn(count[n] - 1)
        /\ count' = [count EXCEPT ![n] = @ - 1]
        /\ mygen' = [mygen EXCEPT ![x] = gen[n]]
        /\ Goto(x, IF pc[x] = "lock1" THEN "wait1" ELSE "wait2")
        /\ UNCHANGED <<gen, ended>>
  /\ UNCHANGED <<n_iter, means, freed, saved, crashes, keyVars, accVars, workVars, began>>

\* m_cond wakes a waiter that finds the generation changed.
WakeUp(x) ==
  /\ pc[x] \in {"wait1", "wait2"} /\ x[1] \notin freed
  /\ gen[x[1]] # mygen[x]
  /\ ended' = Bump(ended, x)
  /\ mygen' = [mygen EXCEPT ![x] = 0]
  /\ Goto(x, Past(x, pc[x] = "wait2"))
  /\ UNCHANGED <<n_iter, means, freed, saved, crashes, keyVars, accVars, workVars, count, gen, began>>

\* slave_main deletes the barrier without waiting for its detached workers: one
\* that has not yet left the last meeting locks the mutex of a deleted object.
\* It goes on, or never returns.
WakeUpDeleted(x) ==
  /\ pc[x] = "wait2" /\ x[1] \in freed
  /\ \E l \in {"exit", "undefined"} : Goto(x, l)
  /\ UNCHANGED <<n_iter, means, freed, saved, crashes, keyVars, accVars, workVars, barVars>>
-----------------------------------------------------------------------------
(* slave_worker.                                                           *)

\* The top of the loop.
WorkerLoop(x) ==
  /\ x \in Workers /\ pc[x] = "loop"
  /\ itr' = [itr EXCEPT ![x] = @ + 1]
  /\ \/ itr[x] + 1 < ITER_NUM /\ Goto(x, "lock1") /\ began' = Bump(began, x)
     \/ itr[x] + 1 >= ITER_NUM /\ Goto(x, "exit") /\ UNCHANGED began
  /\ UNCHANGED <<n_iter, means, freed, saved, crashes, keyVars, accVars, saw, centers, count, gen, mygen, ended>>

\* It reads means as long as it computes: here at the beginning and at the end.
Compute(x) ==
  /\ pc[x] = "compute"
  /\ saw' = [saw EXCEPT ![x] = means[x[1]]]
  /\ Goto(x, "computed")
  /\ UNCHANGED <<n_iter, itr, means, centers, freed, saved, crashes, keyVars, accVars, barVars>>

Version(m) == IF m.kind = "param" /\ \A p \in Part : m.of[p] = m.of[0] THEN m.of[0] ELSE Garbage

Computed(x) ==
  /\ pc[x] = "computed"
  /\ centers' = [centers EXCEPT ![x] = IF means[x[1]] = saw[x] THEN Version(saw[x]) ELSE Garbage]
  /\ saw' = [saw EXCEPT ![x] = Nothing]
  /\ Goto(x, "lock2")
  /\ began' = Bump(began, x)
  /\ UNCHANGED <<n_iter, itr, means, freed, saved, crashes, keyVars, accVars, count, gen, mygen, ended>>
-----------------------------------------------------------------------------
(* slave_main.                                                             *)

\* Up to the first Enter: the buffers, the data set and a new LBarrier.
Load(n) ==
  /\ pc[Main(n)] = "load"
  /\ count' = [count EXCEPT ![n] = THREAD_NUM[n] + 1]
  /\ gen' = [gen EXCEPT ![n] = 0]
  /\ means' = [means EXCEPT ![n] = g_param]
  /\ Goto(Main(n), "enter")
  /\ UNCHANGED <<n_iter, freed, saved, crashes, keyVars, mygen, began, ended, accVars, workVars>>

\* After the first Enter the workers are started; later the loop goes on.
Entered(n) ==
  /\ pc[Main(n)] \in {"started", "left"}
  /\ LET first == pc[Main(n)] = "started"
         more == n_iter[n] + 1 < ITER_NUM IN
     /\ itr' = IF first THEN [x \in Workers |-> IF x[1] = n THEN n_iter[n] ELSE itr[x]] ELSE itr
     /\ pc' = [x \in DOMAIN pc |->
                 IF x = Main(n) THEN (IF more THEN "fetch" ELSE "free")
                 ELSE IF first /\ x \in Worker(n) THEN "loop" ELSE pc[x]]
  /\ UNCHANGED <<n_iter, means, freed, saved, crashes, keyVars, accVars, saw, centers, barVars>>

\* fetch_global_param(true), up to the local barrier.
Fetch(n) ==
  /\ pc[Main(n)] = "fetch"
  /\ means' = [means EXCEPT ![n] = g_param]
  /\ Goto(Main(n), "lock1")
  /\ began' = Bump(began, Main(n))
  /\ UNCHANGED <<n_iter, freed, saved, crashes, keyVars, accVars, workVars, count, gen, mygen, ended>>

AddUp(n) ==
  /\ pc[Main(n)] = "sum"
  /\ means' = [means EXCEPT ![n] = Sum([i \in 1 .. THREAD_NUM[n] |-> centers[<<n, i>>]])]
  /\ Goto(Main(n), "give")
  /\ UNCHANGED <<n_iter, freed, saved, crashes, keyVars, accVars, workVars, barVars>>

\* AccumulateAndWait: the parts of the sum are stored once all slaves have given
\* theirs, and only then the callers return.  When g_accu was overwritten there
\* is no such object, and what follows is undefined.
Accumulate(n) ==
  /\ pc[Main(n)] = "give"
  /\ given' = IF key.g_accu THEN [given EXCEPT ![n] = means[n]] ELSE given
  /\ Goto(Main(n), IF key.g_accu THEN "given" ELSE "undefined")
  /\ UNCHANGED <<n_iter, means, freed, saved, crashes, keyVars, param, written, workVars, barVars>>

AllGiven == \A n \in Slave : given[n] # Nothing
NextVersion ==
  LET from == UNION {{given[n].of[i] : i \in DOMAIN given[n].of} : n \in Slave}
  IN IF Cardinality(from) = 1 /\ from # {Garbage} /\ \A n \in Slave : given[n].kind = "sum"
     THEN (CHOOSE k \in from : TRUE) + 1
     ELSE Garbage

\* A part goes to the array; with key 0, to the global variables, which lie in
\* the part of node 0.
StorePart(p) ==
  /\ AllGiven /\ p \notin written
  /\ \/ key.accu /\ param' = [param EXCEPT ![p] = NextVersion] /\ UNCHANGED key
     \/ /\ ~key.accu
        /\ key' = IF p = 0 THEN [key EXCEPT !.word = FALSE, !.g_accu = FALSE] ELSE key
        /\ UNCHANGED param
  /\ IF written \cup {p} = Part
     THEN /\ written' = {}
          /\ given' = [n \in Slave |-> Nothing]
          /\ pc' = [x \in DOMAIN pc |-> IF pc[x] = "given" THEN "summed" ELSE pc[x]]
     ELSE written' = written \cup {p} /\ UNCHANGED <<given, pc>>
  /\ UNCHANGED <<n_iter, means, freed, saved, crashes, keep, workVars, barVars>>

EnterNext(n) ==
  /\ pc[Main(n)] = "summed"
  /\ n_iter' = [n_iter EXCEPT ![n] = @ + 1]
  /\ Goto(Main(n), "enteragain")
  /\ UNCHANGED <<means, freed, saved, crashes, keyVars, accVars, workVars, barVars>>

Free(n) ==
  /\ pc[Main(n)] = "free"
  /\ freed' = freed \cup {n}
  /\ means' = [means EXCEPT ![n] = Nothing]
  /\ Goto(Main(n), "exit")
  /\ UNCHANGED <<n_iter, saved, crashes, keyVars, accVars, workVars, barVars>>
-----------------------------------------------------------------------------
(* main_process, and the checkpoint barrier.                               *)

\* A new accumulator for what the master has as g_param, and one DThread per
\* node; the one for node 0 is sent nowhere.  The slaves read the key.
StartSlaves ==
  /\ pc[Master] = "begin"
  /\ key' = [key EXCEPT !.accu = key.master, !.g_accu = TRUE, !.slaves = key.word]
  /\ pc' = [x \in DOMAIN pc |-> IF x = Master THEN "enter"
                                ELSE IF x \in Mains THEN "load" ELSE pc[x]]
  /\ UNCHANGED <<n_iter, means, freed, saved, crashes, keep, accVars, workVars, barVars>>

MasterLoop ==
  /\ pc[Master] \in {"started", "left"}
  /\ \/ /\ n_iter[0] + 1 < ITER_NUM
        /\ n_iter' = [n_iter EXCEPT ![0] = @ + 1]
        /\ Goto(Master, "enteragain")
     \/ /\ n_iter[0] + 1 >= ITER_NUM
        /\ Goto(Master, "exit")
        /\ UNCHANGED n_iter
  /\ UNCHANGED <<means, freed, saved, crashes, keyVars, accVars, workVars, barVars>>

\* DCheckpointBarrier::Enter of all: the checkpoint is made when the last one
\* has come and before the first one leaves.
MeetAndSave ==
  /\ \A x \in Mains : pc[x] \in {"enter", "enteragain"}
  /\ saved' = [param |-> param, n_iter |-> n_iter, word |-> key.word]
  /\ pc' = [x \in DOMAIN pc |-> IF x \notin Mains THEN pc[x]
                                ELSE IF pc[x] = "enter" THEN "started" ELSE "left"]
  /\ UNCHANGED <<n_iter, means, freed, crashes, keyVars, accVars, workVars, barVars>>

NoCalls == [x \in LThread |-> 0]

\* What MasterCheckPoint and SlaveCheckPoint bring back.
DeserializedNot(c) ==        \* mutant: n_iter is not in the checkpoint
  [n \in 0 .. N - 1 |-> -1]
Deserialized(c) == c.n_iter

\* The key of g_param on a restarted master.
RestartedKey(c) == keep = "global" /\ c.word

\* All processes end and start again from the checkpoint; DoRestart calls
\* main_process.
Restart ==
  /\ pc[Master] # "exit" /\ crashes < MaxCrashes
  /\ crashes' = crashes + 1
  /\ pc' = [x \in DOMAIN pc |-> IF x = Master THEN "begin" ELSE "none"]
  /\ key' = [Known EXCEPT !.word = saved.word, !.master = RestartedKey(saved)]
  /\ n_iter' = Deserialized(saved)
  /\ param' = saved.param
  /\ itr' = [x \in Workers |-> 0]
  /\ means' = [n \in Slave |-> Nothing]
  /\ saw' = [x \in Workers |-> Nothing]
  /\ centers' = [x \in Workers |-> Garbage]
  /\ count' = [n \in Slave |-> 0]
  /\ gen' = [n \in Slave |-> 0]
  /\ mygen' = [x \in LThread |-> 0]
  /\ freed' = {}
  /\ given' = [n \in Slave |-> Nothing]
  /\ written' = {}
  /\ began' = NoCalls
  /\ ended' = NoCalls
  /\ UNCHANGED <<keep, saved>>
-----------------------------------------------------------------------------
Init ==
  /\ keep \in Keeps
  /\ key = Known
  /\ pc = [x \in LThread \cup {Master} |-> IF x = Master THEN "begin" ELSE "none"]
  /\ n_iter = [n \in 0 .. N - 1 |-> -1]
  /\ itr = [x \in Workers |-> 0]
  /\ param = [p \in Part |-> 0]
  /\ means = [n \in Slave |-> Nothing]
  /\ saw = [x \in Workers |-> Nothing]
  /\ centers = [x \in Workers |-> Garbage]
  /\ count = [n \in Slave |-> 0]
  /\ gen = [n \in Slave |-> 0]
  /\ mygen = [x \in LThread |-> 0]
  /\ freed = {}
  /\ given = [n \in Slave |-> Nothing]
  /\ written = {}
  /\ saved = [param |-> param, n_iter |-> n_iter, word |-> TRUE]
  /\ crashes = 0
  /\ began = NoCalls
  /\ ended = NoCalls

Meet(x) == Call(x) \/ CountDown(x) \/ WakeUp(x) \/ WakeUpDeleted(x)
WorkerStep(x) == WorkerLoop(x) \/ Compute(x) \/ Computed(x)
MainStep(n) == \/ Load(n) \/ Entered(n) \/ Fetch(n) \/ AddUp(n)
               \/ Accumulate(n) \/ EnterNext(n) \/ Free(n)
MasterStep == StartSlaves \/ MasterLoop \/ MeetAndSave

Next ==
  \/ \E x \in LThread : Meet(x)
  \/ \E x \in Workers : WorkerStep(x)
  \/ \E n \in Slave : MainStep(n)
  \/ \E p \in Part : StorePart(p)
  \/ MasterStep
  \/ Restart

Spec == Init /\ [][Next]_vars

\* Threads run and the accumulator and the barrier do what they promise; no
\* failure is forced.
FairSpec ==
  /\ Spec
  /\ \A x \in LThread : WF_vars(Meet(x))
  /\ \A x \in Workers : WF_vars(WorkerStep(x))
  /\ \A n \in Slave : WF_vars(MainStep(n))
  /\ \A p \in Part : WF_vars(StorePart(p))
  /\ WF_vars(MasterStep)
-----------------------------------------------------------------------------
(* Properties.                                                             *)

\* Whatever fails when: every node that is about to enter the barrier after
\* iteration i has parameters with i + 1 iterations in them, and so has every
\* checkpoint.  An iteration is neither repeated on its own result nor left out,
\* and what the slaves add up in it is one contribution of each worker, computed
\* from that iteration's parameters: none reads means while slave_main fills or
\* clears it, none is an iteration behind.  (With the key in a constant, only
\* until the first restart.)
KeyKept == keep = "const" => crashes = 0
IterationsOnce == KeyKept =>
  /\ \A p \in Part, n \in 0 .. N - 1 : saved.param[p] = saved.n_iter[n] + 1
  /\ \A p \in Part, n \in Slave : pc[Main(n)] = "enteragain" => param[p] = n_iter[n] + 1

\* The training ends with ITER_NUM iterations done, unless a restart has lost the
\* key.
Trained == <>((pc[Master] = "exit" /\ \A p \in Part : param[p] = ITER_NUM) \/ ~KeyKept)

\* The local barrier of slave n is barrier n of SyncSpec.
PerBarrier(f) == [x \in LThread |-> [n \in Slave |-> IF x[1] = n THEN f[x] ELSE 0]]
Returns(n) == MapThenSumSet(LAMBDA x : IF x[1] = n THEN ended[x] ELSE 0, LThread)
LB == INSTANCE SyncSpec WITH
        Thread <- LThread, Barrier <- Slave, Semaphore <- {}, Event <- {},
        Count <- <<>>, AutoReset <- <<>>, IsSignal <- <<>>,
        Parties <- LAMBDA n : {x \in LThread : x[1] = n},
        began <- PerBarrier(began), ended <- PerBarrier(ended),
        freed <- [n \in Slave |-> 0], taken <- [n \in Slave |-> Returns(n)]
\* LBarrier promises within a process what DBarrier promises in the cluster: as
\* long as the process lives, a call returns when all threads have come as often
\* as the caller, though the barrier is used again before all have left it.
LBarrierImplements == LB!Init /\ [][LB!Next \/ crashes' # crashes]_<<began, ended, crashes>>
=============================================================================
