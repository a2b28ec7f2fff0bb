----------------------------- MODULE Checkpoint -----------------------------
(***************************************************************************)
(* Fault tolerance in Dogee: DCheckpointBarrier, the checkpoint files and  *)
(* the restart of a cluster from them.                                     *)
(*                                                                         *)
(* The program computes in rounds.  In a round a thread writes the round   *)
(* number to its cells of the shared memory, counts the round in a local   *)
(* variable its checkpoint class saves, and calls                          *)
(* DCheckpointBarrier::Enter.  The master dumps the global variables and   *)
(* the objects it allocated, a slave the objects it allocated; each adds   *)
(* the local variables of its threads.  Processes die at any moment; what  *)
(* was not written to a closed file is then lost.                          *)
(***************************************************************************)
EXTENDS Integers, Sequences, FiniteSets

CONSTANTS
  Thread,      \* the threads of the program
  Teams,       \* the sets of threads that may meet at the barrier
  NodeOf,      \* the node of each thread; node 0 is the master
  Global,      \* the global variables, in the order they are registered
  Object,      \* the objects in the shared memory
  Owner,       \* the node that allocated each object
  Writes,      \* the cells each thread writes in a round
  AutoRestart, \* the master restarts the cluster when a slave is lost
  MaxRounds,   \* bound on the rounds of the program
  MaxCrashes   \* bound on crashes

Node == {NodeOf[t] : t \in Thread}
Globals == {Global[i] : i \in DOMAIN Global}
Cell == Globals \cup Object
MaxCnt == MaxRounds * Cardinality(Thread)   \* most checkpoints one node can write

ASSUME ProgramAssumption ==
  /\ IsFiniteSet(Thread) /\ NodeOf \in [Thread -> Nat] /\ 0 \in Node
  /\ \A T \in Teams : T \subseteq Thread /\ \E t \in T : NodeOf[t] = 0
  /\ Globals \cap Object = {} /\ Owner \in [Object -> Node]
  /\ Writes \in [Thread -> SUBSET Cell]
  /\ AutoRestart \in BOOLEAN /\ MaxRounds \in Nat /\ MaxCrashes \in Nat

VARIABLES
  team,    \* the threads that meet at the barrier
  up,      \* the cluster runs; FALSE once a restart has failed
  pc,      \* where each thread is in its round
  local,   \* per thread, the local variable: rounds counted
  mem,     \* the shared memory
  cnt,     \* per node, checkpoint_cnt
  lock,    \* per node, checkpointlock
  mine,    \* per thread, needrelease
  buf,     \* per node, what has been written to the open file
  disk,    \* disk[n][c]: the checkpoint file c of node n
  master,  \* the number in the .master file, -1 without one
  entries, \* per thread, DBarrier::Enter calls begun
  acked,   \* per thread, the round of its last Enter that returned; 0 after a
           \* restart by the master, which gives the checkpoints up
  crashes

vars == <<team, up, pc, local, mem, cnt, lock, mine, buf, disk, master, entries, acked, crashes>>

NoFile == [state |-> "none"]
Open == [state |-> "open"]
Used == {NodeOf[t] : t \in team}   \* the nodes of the cluster
-----------------------------------------------------------------------------
(* What a checkpoint file of node n holds.                                 *)

\* A global has two words from its field id on; ids start at 2.  gloabl_fid
\* words are dumped, from word 0 on.
FieldId(i) == 2 * i
GloablFid == 2 * Len(Global)
DumpedObjects(n) ==          \* mutant: globals forgotten
  {o \in Object : Owner[o] = n}
Dumped(n) ==
  {o \in Object : Owner[o] = n}
  \cup (IF n = 0 THEN {Global[i] : i \in {j \in DOMAIN Global : FieldId(j) < GloablFid}} ELSE {})
Here(n) == {t \in team : NodeOf[t] = n}

DumpSharedMemory(n) ==
  [state |-> "closed",
   cells |-> [c \in Cell |-> IF c \in Dumped(n) THEN mem[c] ELSE 0],
   locals |-> [t \in Thread |-> IF t \in Here(n) THEN local[t] ELSE 0]]

\* The shared memory and the local variables after checkpoint c is read back.
\* The master's storage is flushed first, so a cell nobody dumped is 0.
RestoreSharedMemory(c) ==
  [x \in Cell |-> IF \E n \in Used : x \in Dumped(n)
                  THEN disk[CHOOSE n \in Used : x \in Dumped(n)][c].cells[x] ELSE 0]
Deserialize(c) == [t \in Thread |-> IF t \in team THEN disk[NodeOf[t]][c].locals[t] ELSE 0]

Complete(c) == \A n \in Used : disk[n][c].state = "closed"
-----------------------------------------------------------------------------
(* A round and DCheckpointBarrier::Enter.                                  *)

Goto(t, l) == pc' = [pc EXCEPT ![t] = l]
IsMaster(t) == NodeOf[t] = 0

\* The application's part of a round.
Work(t) ==
  /\ up /\ pc[t] = "work" /\ local[t] < MaxRounds
  /\ mem' = [c \in Cell |-> IF c \in Writes[t] THEN local[t] + 1 ELSE mem[c]]
  /\ local' = [local EXCEPT ![t] = @ + 1]
  /\ Goto(t, IF IsMaster(t) THEN "enter1" ELSE "check")
  /\ UNCHANGED <<up, cnt, lock, mine, buf, disk, master, entries, acked, crashes>>

\* DBarrier::Enter(-1), by what it promises: it returns once all threads have
\* entered as often as the caller.
EnterBarrier(t) ==
  /\ up
  /\ \/ pc[t] = "enter1" /\ Goto(t, "wait1")
     \/ pc[t] = "enter2" /\ Goto(t, "wait2")
  /\ entries' = [entries EXCEPT ![t] = @ + 1]
  /\ UNCHANGED <<up, local, mem, cnt, lock, mine, buf, disk, master, acked, crashes>>

AllEnteredMore(t) ==         \* mutant: waits for one entry too many
  \A u \in team : entries[u] > entries[t]
AllEntered(t) == \A u \in team : entries[u] >= entries[t]

\* After the first barrier the master makes its checkpoint; a slave resets
\* its checkpointlock and goes to the second barrier.
LeaveFirst(t) ==
  /\ up /\ pc[t] = "wait1" /\ AllEntered(t)
  /\ \/ IsMaster(t) /\ Goto(t, "check") /\ UNCHANGED lock
     \/ /\ ~IsMaster(t)
        /\ Goto(t, "enter2")
        /\ lock' = IF mine[t] THEN [lock EXCEPT ![NodeOf[t]] = 0] ELSE lock
  /\ UNCHANGED <<up, local, mem, cnt, mine, buf, disk, master, entries, acked, crashes>>

LeaveSecond(t) ==
  /\ up /\ pc[t] = "wait2" /\ AllEntered(t)
  /\ Goto(t, "work")
  /\ acked' = [acked EXCEPT ![t] = local[t]]
  /\ UNCHANGED <<up, local, mem, cnt, lock, mine, buf, disk, master, entries, crashes>>

\* Where DoCheckPoint returns to.
After(t) == IF IsMaster(t) THEN "enter2" ELSE "enter1"

\* DoCheckPoint: only the thread that takes checkpointlock goes on; it opens
\* (and empties) the file.
LockTaken(n) == lock[n] = 1

StartCheckPoint(t) ==
  LET n == NodeOf[t] IN
  /\ up /\ pc[t] = "check"
  /\ \/ /\ LockTaken(n)
        /\ mine' = [mine EXCEPT ![t] = FALSE]
        /\ Goto(t, After(t))
        /\ UNCHANGED <<lock, disk>>
     \/ /\ ~LockTaken(n)
        /\ lock' = [lock EXCEPT ![n] = 1]
        /\ mine' = [mine EXCEPT ![t] = TRUE]
        /\ disk' = [disk EXCEPT ![n][cnt[n]] = Open]
        /\ Goto(t, "dump")
  /\ UNCHANGED <<up, local, mem, cnt, buf, master, entries, acked, crashes>>

Dump(t) ==
  /\ up /\ pc[t] = "dump"
  /\ buf' = [buf EXCEPT ![NodeOf[t]] = DumpSharedMemory(NodeOf[t])]
  /\ Goto(t, IF IsMaster(t) THEN "publish" ELSE "rotate")
  /\ UNCHANGED <<up, local, mem, cnt, lock, mine, disk, master, entries, acked, crashes>>

\* The master's .master file, closed before the checkpoint file is.
PublishedLast(c) == c - 1    \* mutant: the number of the checkpoint before
Published(c) == c
Publish(t) ==
  /\ up /\ pc[t] = "publish"
  /\ master' = Published(cnt[0])
  /\ Goto(t, "rotate")
  /\ UNCHANGED <<up, local, mem, cnt, lock, mine, buf, disk, entries, acked, crashes>>

\* The file of the checkpoint before the last is removed.
OldestLast(c) == c - 1       \* mutant: only one checkpoint is kept
Oldest(c) == c - 2

Rotate(t) ==
  LET n == NodeOf[t]
      old == Oldest(cnt[n]) IN
  /\ up /\ pc[t] = "rotate"
  /\ disk' = IF old \in DOMAIN disk[n] THEN [disk EXCEPT ![n][old] = NoFile] ELSE disk
  /\ cnt' = [cnt EXCEPT ![n] = @ + 1]
  /\ Goto(t, "close")
  /\ UNCHANGED <<up, local, mem, lock, mine, buf, master, entries, acked, crashes>>

\* DoCheckPoint returns: the file is closed.  The master then resets its
\* checkpointlock at once.
Close(t) ==
  LET n == NodeOf[t] IN
  /\ up /\ pc[t] = "close"
  /\ disk' = [disk EXCEPT ![n][cnt[n] - 1] = buf[n]]
  /\ lock' = IF IsMaster(t) THEN [lock EXCEPT ![n] = 0] ELSE lock
  /\ Goto(t, After(t))
  /\ UNCHANGED <<up, local, mem, cnt, mine, buf, master, entries, acked, crashes>>
-----------------------------------------------------------------------------
(* Crash and restart.                                                      *)

\* The state of freshly started processes.
Fresh ==
  /\ pc' = [t \in Thread |-> "work"]
  /\ lock' = [n \in Node |-> 0]
  /\ mine' = [t \in Thread |-> FALSE]
  /\ buf' = [n \in Node |-> Open]
  /\ entries' = [t \in Thread |-> 0]

\* DoRestart numbers the next checkpoint one higher than the one it read.
NextCheckpoint(c) == c + 1

\* All nodes are started again while the .master file says m.  Without the file
\* the program starts from the beginning; a missing or unfinished checkpoint
\* file leaves the cluster without a state to go on from.
StartCluster(m) ==
  \/ /\ m < 0
     /\ local' = [t \in Thread |-> 0]
     /\ mem' = [c \in Cell |-> 0]
     /\ cnt' = [n \in Node |-> 0]
     /\ UNCHANGED up
  \/ /\ m >= 0 /\ Complete(m)
     /\ local' = Deserialize(m)
     /\ mem' = RestoreSharedMemory(m)
     /\ cnt' = [n \in Node |-> NextCheckpoint(m)]
     /\ UNCHANGED up
  \/ /\ m >= 0 /\ ~Complete(m)
     /\ up' = FALSE
     /\ UNCHANGED <<local, mem, cnt>>

\* Every process dies; the operator starts the cluster again.
Crash ==
  /\ up /\ crashes < MaxCrashes
  /\ crashes' = crashes + 1
  /\ Fresh
  /\ StartCluster(master)
  /\ UNCHANGED <<disk, master, acked>>

\* A slave is lost: RestartCluster has the slaves restart themselves, closes
\* the cluster, which removes the master's checkpoint files, and restarts the
\* master.
Removed(n, c) == n = 0 /\ c \in {cnt[0] - 1, cnt[0] - 2}
RestartCluster ==
  /\ AutoRestart /\ up /\ crashes < MaxCrashes
  /\ crashes' = crashes + 1
  /\ Fresh
  /\ disk' = [n \in Node |-> [c \in DOMAIN disk[n] |-> IF Removed(n, c) THEN NoFile ELSE disk[n][c]]]
  /\ master' = -1
  /\ StartCluster(-1)
  /\ acked' = [t \in Thread |-> 0]
-----------------------------------------------------------------------------
Init ==
  /\ team \in Teams
  /\ up = TRUE
  /\ pc = [t \in Thread |-> "work"]
  /\ local = [t \in Thread |-> 0]
  /\ mem = [c \in Cell |-> 0]
  /\ cnt = [n \in Node |-> 0]
  /\ lock = [n \in Node |-> 0]
  /\ mine = [t \in Thread |-> FALSE]
  /\ buf = [n \in Node |-> Open]
  /\ disk = [n \in Node |-> [c \in 0 .. MaxCnt |-> NoFile]]
  /\ master = -1
  /\ entries = [t \in Thread |-> 0]
  /\ acked = [t \in Thread |-> 0]
  /\ crashes = 0

Round(t) ==
  \/ Work(t) \/ EnterBarrier(t) \/ LeaveFirst(t) \/ LeaveSecond(t)
  \/ StartCheckPoint(t) \/ Dump(t) \/ Publish(t) \/ Rotate(t) \/ Close(t)

Next == ((\E t \in team : Round(t)) \/ Crash \/ RestartCluster) /\ UNCHANGED team

Spec == Init /\ [][Next]_vars

\* Threads run; crashes are not forced.
FairSpec == Spec /\ \A t \in Thread : WF_vars(t \in team /\ Round(t) /\ UNCHANGED team)
-----------------------------------------------------------------------------
(* Properties.                                                             *)

\* The master is between the .master file and the end of its checkpoint file.
Unfinished == \E t \in team : IsMaster(t) /\ pc[t] \in {"rotate", "close"}

\* Outside that window the checkpoint the .master file names is there on every
\* node, whole, wherever the nodes are in the next one: DoCheckPoint keeps the
\* last but one file because a slave may be a checkpoint ahead of the master.
Recoverable == up /\ master >= 0 /\ ~Unfinished => Complete(master)

\* DoCheckPoint of a slave saves what the threads of the node have when the first
\* of them enters: only with one thread per node is that the end of a round.
OnePerNode == \A n \in Used : Cardinality(Here(n)) = 1

\* The files of one checkpoint fit together: what is read back from them is a
\* state of the program between two rounds, for every thread and every cell it
\* writes.
ConsistentCut ==
  OnePerNode /\ master >= 0 /\ Complete(master) =>
    \A t \in team : \A c \in Writes[t] : RestoreSharedMemory(master)[c] = Deserialize(master)[t]

\* Once Enter has returned, starting the cluster again after a crash does not go
\* back behind that round.
Durable == OnePerNode /\ up => \A t \in team : local[t] >= acked[t]

\* When no more crash comes, every thread finishes all its rounds, or a restart
\* has failed: nobody is left alone at a barrier.
Finishes == OnePerNode => <>[](~up \/ \A t \in team : pc[t] = "work" /\ local[t] = MaxRounds)
=============================================================================
