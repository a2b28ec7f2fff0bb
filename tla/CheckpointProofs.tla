-------------------------- MODULE CheckpointProofs --------------------------
(***************************************************************************)
(* Proofs about Checkpoint, for any threads, nodes, objects, rounds and    *)
(* crashes: a restart finds the checkpoint the .master file names whole on *)
(* every node, what it reads back is the end of one round for all threads, *)
(* and it does not go back behind an Enter that returned.                  *)
(***************************************************************************)
EXTENDS Checkpoint, FiniteSetTheorems, TLAPS

(***************************************************************************)
(* Types.                                                                  *)
(***************************************************************************)

Place == {"work", "enter1", "wait1", "check", "dump", "publish", "rotate", "close", "enter2", "wait2"}
Rounds == 0 .. MaxRounds
Whole == [state : {"closed"}, cells : [Cell -> Rounds], locals : [Thread -> Rounds]]
File == {NoFile, Open} \cup Whole

TypeInv ==
  /\ up \in BOOLEAN
  /\ pc \in [Thread -> Place]
  /\ local \in [Thread -> Rounds] /\ mem \in [Cell -> Rounds]
  /\ cnt \in [Node -> Nat] /\ lock \in [Node -> {0, 1}] /\ mine \in [Thread -> BOOLEAN]
  /\ buf \in [Node -> File] /\ disk \in [Node -> [0 .. MaxCnt -> File]]
  /\ master \in Int
  /\ entries \in [Thread -> Nat] /\ acked \in [Thread -> Nat]

\* The threads of a team and their nodes.
LEMMA Team ==
  ASSUME team \in Teams
  PROVE  /\ team \subseteq Thread /\ \A t \in team : NodeOf[t] \in Node /\ NodeOf[t] \in Used /\ NodeOf[t] \in Nat
         /\ Used \subseteq Node /\ 0 \in Used /\ 0 \in Node
         /\ \E t \in team : IsMaster(t)
<1>1. team \subseteq Thread /\ \E t \in team : NodeOf[t] = 0
  BY ProgramAssumption
<1> QED BY <1>1, ProgramAssumption DEF Node, Used, IsMaster

\* There is a file for every round.
LEMMA Bound == MaxRounds \in Nat /\ MaxCnt \in Nat /\ MaxRounds <= MaxCnt
<1>1. MaxRounds \in Nat /\ IsFiniteSet(Thread) /\ 0 \in Node
  BY ProgramAssumption
<1>2. Thread # {}
  BY <1>1 DEF Node
<1>3. PICK c : c = Cardinality(Thread)
  OBVIOUS
<1>4. c \in Nat /\ c # 0
  BY <1>1, <1>2, <1>3, FS_CardinalityType, FS_EmptySet
<1>5. c - 1 \in Nat /\ MaxRounds * c = MaxRounds * (c - 1) + MaxRounds
  BY <1>1, <1>4
<1>6. MaxRounds * (c - 1) \in Nat
  BY <1>1, <1>5
<1>7. MaxCnt = MaxRounds * c
  BY <1>3 DEF MaxCnt
<1> QED BY <1>1, <1>5, <1>6, <1>7

\* What a node dumps is a file.
LEMMA DumpType ==
  ASSUME TypeInv, NEW n
  PROVE  DumpSharedMemory(n) \in Whole
<1>1. 0 \in Rounds
  BY Bound DEF Rounds
<1>2. [c \in Cell |-> IF c \in Dumped(n) THEN mem[c] ELSE 0] \in [Cell -> Rounds]
  BY <1>1 DEF TypeInv
<1>3. [t \in Thread |-> IF t \in Here(n) THEN local[t] ELSE 0] \in [Thread -> Rounds]
  BY <1>1 DEF TypeInv
<1> QED BY <1>2, <1>3 DEF DumpSharedMemory, Whole

(***************************************************************************)
(* The steps of a thread.                                                  *)
(***************************************************************************)

\* Thread t goes to l, and other threads and nodes are as they were.
Step(t, l) ==
  /\ team' = team /\ up /\ up' = up
  /\ pc'[t] = l
  /\ \A u \in Thread : u # t => /\ pc'[u] = pc[u] /\ local'[u] = local[u] /\ entries'[u] = entries[u]
                                /\ mine'[u] = mine[u] /\ acked'[u] = acked[u]
  /\ \A n \in Node : n # NodeOf[t] => cnt'[n] = cnt[n] /\ lock'[n] = lock[n] /\ buf'[n] = buf[n] /\ disk'[n] = disk[n]
  /\ IsMaster(t) \/ master' = master

\* A round's work.
LEMMA WorkEffect ==
  ASSUME TypeInv, team \in Teams, NEW t \in team, Work(t), UNCHANGED team
  PROVE  /\ TypeInv' /\ pc[t] = "work" /\ Step(t, IF IsMaster(t) THEN "enter1" ELSE "check")
         /\ local'[t] = local[t] + 1
         /\ \A c \in Cell : mem'[c] = IF c \in Writes[t] THEN local[t] + 1 ELSE mem[c]
         /\ UNCHANGED <<cnt, lock, mine, buf, disk, master, entries, acked>>
<1>1. t \in Thread /\ MaxRounds \in Nat
  BY Team, Bound
<1>2. local[t] \in Nat /\ local[t] + 1 \in Rounds /\ local \in [Thread -> Rounds]
  BY <1>1 DEF Work, TypeInv, Rounds
<1>3. local' \in [Thread -> Rounds] /\ local'[t] = local[t] + 1 /\ \A u \in Thread : u # t => local'[u] = local[u]
  BY <1>1, <1>2 DEF Work
<1>4. mem' \in [Cell -> Rounds] /\ \A c \in Cell : mem'[c] = IF c \in Writes[t] THEN local[t] + 1 ELSE mem[c]
  BY <1>2 DEF Work, TypeInv
<1>5. pc' \in [Thread -> Place] /\ pc'[t] = (IF IsMaster(t) THEN "enter1" ELSE "check") /\ \A u \in Thread : u # t => pc'[u] = pc[u]
  BY <1>1 DEF Work, Goto, TypeInv, Place
<1>6. up /\ pc[t] = "work" /\ UNCHANGED <<up, cnt, lock, mine, buf, disk, master, entries, acked>>
  BY DEF Work
<1>7. TypeInv'
  BY <1>3, <1>4, <1>5, <1>6 DEF TypeInv
<1> QED BY <1>3, <1>4, <1>5, <1>6, <1>7 DEF Step

\* A call of the barrier begins.
LEMMA EnterEffect ==
  ASSUME TypeInv, team \in Teams, NEW t \in team, EnterBarrier(t), UNCHANGED team
  PROVE  /\ TypeInv'
         /\ \/ pc[t] = "enter1" /\ Step(t, "wait1")
            \/ pc[t] = "enter2" /\ Step(t, "wait2")
         /\ entries'[t] = entries[t] + 1
         /\ UNCHANGED <<local, mem, cnt, lock, mine, buf, disk, master, acked>>
<1>1. t \in Thread
  BY Team
<1>2. entries' \in [Thread -> Nat] /\ entries'[t] = entries[t] + 1 /\ \A u \in Thread : u # t => entries'[u] = entries[u]
  BY <1>1 DEF EnterBarrier, TypeInv
<1>3. pc' \in [Thread -> Place] /\ \A u \in Thread : u # t => pc'[u] = pc[u]
  BY <1>1 DEF EnterBarrier, Goto, TypeInv, Place
<1>4. (pc[t] = "enter1" /\ pc'[t] = "wait1") \/ (pc[t] = "enter2" /\ pc'[t] = "wait2")
  BY <1>1 DEF EnterBarrier, Goto, TypeInv
<1>5. up /\ UNCHANGED <<up, local, mem, cnt, lock, mine, buf, disk, master, acked>>
  BY DEF EnterBarrier
<1>6. TypeInv'
  BY <1>2, <1>3, <1>5 DEF TypeInv
<1> QED BY <1>2, <1>3, <1>4, <1>5, <1>6 DEF Step

\* The first barrier is passed.
LEMMA FirstEffect ==
  ASSUME TypeInv, team \in Teams, NEW t \in team, LeaveFirst(t), UNCHANGED team
  PROVE  /\ TypeInv' /\ pc[t] = "wait1" /\ (\A u \in team : entries[u] >= entries[t])
         /\ \/ IsMaster(t) /\ Step(t, "check") /\ lock'[NodeOf[t]] = lock[NodeOf[t]]
            \/ ~IsMaster(t) /\ Step(t, "enter2") /\ lock'[NodeOf[t]] = IF mine[t] THEN 0 ELSE lock[NodeOf[t]]
         /\ UNCHANGED <<local, mem, cnt, mine, buf, disk, master, entries, acked>>
<1>1. t \in Thread /\ NodeOf[t] \in Node
  BY Team
<1>2. lock' \in [Node -> {0, 1}] /\ \A n \in Node : n # NodeOf[t] => lock'[n] = lock[n]
  BY <1>1 DEF LeaveFirst, TypeInv
<1>3. pc' \in [Thread -> Place] /\ \A u \in Thread : u # t => pc'[u] = pc[u]
  BY <1>1 DEF LeaveFirst, Goto, TypeInv, Place
<1>4. \/ IsMaster(t) /\ pc'[t] = "check" /\ lock'[NodeOf[t]] = lock[NodeOf[t]]
      \/ ~IsMaster(t) /\ pc'[t] = "enter2" /\ lock'[NodeOf[t]] = IF mine[t] THEN 0 ELSE lock[NodeOf[t]]
  BY <1>1 DEF LeaveFirst, Goto, TypeInv
<1>5. up /\ pc[t] = "wait1" /\ UNCHANGED <<up, local, mem, cnt, mine, buf, disk, master, entries, acked>>
  BY DEF LeaveFirst
<1>6. \A u \in team : entries[u] >= entries[t]
  BY DEF LeaveFirst, AllEntered
<1>7. TypeInv'
  BY <1>2, <1>3, <1>5 DEF TypeInv
<1> QED BY <1>2, <1>3, <1>4, <1>5, <1>6, <1>7 DEF Step

\* The second barrier is passed.
LEMMA SecondEffect ==
  ASSUME TypeInv, team \in Teams, NEW t \in team, LeaveSecond(t), UNCHANGED team
  PROVE  /\ TypeInv' /\ pc[t] = "wait2" /\ (\A u \in team : entries[u] >= entries[t]) /\ Step(t, "work")
         /\ acked'[t] = local[t]
         /\ UNCHANGED <<local, mem, cnt, lock, mine, buf, disk, master, entries>>
<1>1. t \in Thread /\ local[t] \in Nat
  BY Team, Bound DEF TypeInv, Rounds
<1>2. acked' \in [Thread -> Nat] /\ acked'[t] = local[t] /\ \A u \in Thread : u # t => acked'[u] = acked[u]
  BY <1>1 DEF LeaveSecond, TypeInv
<1>3. pc' \in [Thread -> Place] /\ pc'[t] = "work" /\ \A u \in Thread : u # t => pc'[u] = pc[u]
  BY <1>1 DEF LeaveSecond, Goto, TypeInv, Place
<1>4. up /\ pc[t] = "wait2" /\ UNCHANGED <<up, local, mem, cnt, lock, mine, buf, disk, master, entries>>
  BY DEF LeaveSecond
<1>5. \A u \in team : entries[u] >= entries[t]
  BY DEF LeaveSecond, AllEntered
<1>6. TypeInv'
  BY <1>2, <1>3, <1>4 DEF TypeInv
<1> QED BY <1>2, <1>3, <1>4, <1>5, <1>6 DEF Step

\* File i of node n is set to f.
Stores(n, i, f) ==
  \A j \in 0 .. MaxCnt : disk'[n][j] = IF j = i THEN f ELSE disk[n][j]

\* An assignment to a file.
LEMMA DiskSet ==
  ASSUME TypeInv, NEW n \in Node, NEW i, NEW f \in File, disk' = [disk EXCEPT ![n][i] = f]
  PROVE  /\ disk' \in [Node -> [0 .. MaxCnt -> File]] /\ Stores(n, i, f)
         /\ \A m \in Node : m # n => disk'[m] = disk[m]
<1>1. disk \in [Node -> [0 .. MaxCnt -> File]]
  BY DEF TypeInv
<1>2. PICK D : D = [disk[n] EXCEPT ![i] = f]
  OBVIOUS
<1>3. D \in [0 .. MaxCnt -> File] /\ \A j \in 0 .. MaxCnt : D[j] = IF j = i THEN f ELSE disk[n][j]
  BY <1>1, <1>2
<1>4. disk' = [disk EXCEPT ![n] = D]
  BY <1>2
<1>5. disk'[n] = D /\ \A m \in Node : m # n => disk'[m] = disk[m]
  BY <1>1, <1>4
<1>6. disk' \in [Node -> [0 .. MaxCnt -> File]]
  BY <1>1, <1>3, <1>4
<1> QED BY <1>3, <1>5, <1>6 DEF Stores

\* A checkpoint begins, or another thread makes it.
LEMMA StartEffect ==
  ASSUME TypeInv, team \in Teams, NEW t \in team, StartCheckPoint(t), UNCHANGED team
  PROVE  /\ TypeInv' /\ pc[t] = "check"
         /\ \/ /\ lock[NodeOf[t]] = 1 /\ Step(t, After(t)) /\ mine'[t] = FALSE
               /\ UNCHANGED <<lock, disk>>
            \/ /\ lock[NodeOf[t]] = 0 /\ Step(t, "dump") /\ mine'[t] = TRUE /\ lock'[NodeOf[t]] = 1
               /\ Stores(NodeOf[t], cnt[NodeOf[t]], Open)
         /\ UNCHANGED <<local, mem, cnt, buf, master, entries, acked>>
<1>1. t \in Thread /\ NodeOf[t] \in Node
  BY Team
<1>2. up /\ pc[t] = "check" /\ UNCHANGED <<up, local, mem, cnt, buf, master, entries, acked>>
  BY DEF StartCheckPoint
<1>3. CASE /\ LockTaken(NodeOf[t]) /\ mine' = [mine EXCEPT ![t] = FALSE] /\ Goto(t, After(t))
           /\ UNCHANGED <<lock, disk>>
  <2>1. mine' \in [Thread -> BOOLEAN] /\ mine'[t] = FALSE /\ \A u \in Thread : u # t => mine'[u] = mine[u]
    BY <1>1, <1>3 DEF TypeInv
  <2>2. pc' \in [Thread -> Place] /\ pc'[t] = After(t) /\ \A u \in Thread : u # t => pc'[u] = pc[u]
    BY <1>1, <1>3 DEF Goto, TypeInv, Place, After
  <2>3. TypeInv'
    BY <1>2, <1>3, <2>1, <2>2 DEF TypeInv
  <2> QED BY <1>2, <1>3, <2>1, <2>2, <2>3 DEF Step, LockTaken
<1>4. CASE /\ ~LockTaken(NodeOf[t]) /\ lock' = [lock EXCEPT ![NodeOf[t]] = 1] /\ mine' = [mine EXCEPT ![t] = TRUE]
           /\ disk' = [disk EXCEPT ![NodeOf[t]][cnt[NodeOf[t]]] = Open] /\ Goto(t, "dump")
  <2>1. mine' \in [Thread -> BOOLEAN] /\ mine'[t] = TRUE /\ \A u \in Thread : u # t => mine'[u] = mine[u]
    BY <1>1, <1>4 DEF TypeInv
  <2>2. pc' \in [Thread -> Place] /\ pc'[t] = "dump" /\ \A u \in Thread : u # t => pc'[u] = pc[u]
    BY <1>1, <1>4 DEF Goto, TypeInv, Place
  <2>3. lock' \in [Node -> {0, 1}] /\ lock'[NodeOf[t]] = 1 /\ \A n \in Node : n # NodeOf[t] => lock'[n] = lock[n]
    BY <1>1, <1>4 DEF TypeInv
  <2>4. lock[NodeOf[t]] = 0
    BY <1>1, <1>4 DEF TypeInv, LockTaken
  <2>5. /\ disk' \in [Node -> [0 .. MaxCnt -> File]] /\ Stores(NodeOf[t], cnt[NodeOf[t]], Open)
        /\ \A m \in Node : m # NodeOf[t] => disk'[m] = disk[m]
    <3>1. Open \in File
      BY DEF File
    <3> QED BY <1>1, <1>4, <3>1, DiskSet
  <2>6. TypeInv'
    BY <1>2, <2>1, <2>2, <2>3, <2>5 DEF TypeInv
  <2> QED BY <1>2, <2>1, <2>2, <2>3, <2>4, <2>5, <2>6 DEF Step
<1> QED BY <1>3, <1>4 DEF StartCheckPoint

\* The memory and the local variables are dumped.
LEMMA DumpEffect ==
  ASSUME TypeInv, team \in Teams, NEW t \in team, Dump(t), UNCHANGED team
  PROVE  /\ TypeInv' /\ pc[t] = "dump" /\ Step(t, IF IsMaster(t) THEN "publish" ELSE "rotate")
         /\ buf'[NodeOf[t]] = DumpSharedMemory(NodeOf[t])
         /\ UNCHANGED <<local, mem, cnt, lock, mine, disk, master, entries, acked>>
<1>1. t \in Thread /\ NodeOf[t] \in Node
  BY Team
<1>2. PICK f : f = DumpSharedMemory(NodeOf[t])
  OBVIOUS
<1>3. f \in File
  BY <1>2, DumpType DEF File
<1>4. buf' = [buf EXCEPT ![NodeOf[t]] = f]
  BY <1>2 DEF Dump
<1>5. buf' \in [Node -> File] /\ buf'[NodeOf[t]] = f /\ \A n \in Node : n # NodeOf[t] => buf'[n] = buf[n]
  BY <1>1, <1>3, <1>4 DEF TypeInv
<1>6. pc' \in [Thread -> Place] /\ pc'[t] = (IF IsMaster(t) THEN "publish" ELSE "rotate") /\ \A u \in Thread : u # t => pc'[u] = pc[u]
  BY <1>1 DEF Dump, Goto, TypeInv, Place
<1>7. up /\ pc[t] = "dump" /\ UNCHANGED <<up, local, mem, cnt, lock, mine, disk, master, entries, acked>>
  BY DEF Dump
<1>8. TypeInv'
  BY <1>5, <1>6, <1>7 DEF TypeInv
<1> QED BY <1>2, <1>5, <1>6, <1>7, <1>8 DEF Step

\* The .master file is written.
LEMMA PublishEffect ==
  ASSUME TypeInv, team \in Teams, NEW t \in team, IsMaster(t), Publish(t), UNCHANGED team
  PROVE  /\ TypeInv' /\ pc[t] = "publish" /\ Step(t, "rotate") /\ master' = cnt[0]
         /\ UNCHANGED <<local, mem, cnt, lock, mine, buf, disk, entries, acked>>
<1>1. t \in Thread /\ 0 \in Node
  BY Team
<1>2. pc' \in [Thread -> Place] /\ pc'[t] = "rotate" /\ \A u \in Thread : u # t => pc'[u] = pc[u]
  BY <1>1 DEF Publish, Goto, TypeInv, Place
<1>3. up /\ pc[t] = "publish" /\ UNCHANGED <<up, local, mem, cnt, lock, mine, buf, disk, entries, acked>>
  BY DEF Publish
<1>4. master' = cnt[0]
  BY DEF Publish, Published
<1>5. master' \in Int
  BY <1>1, <1>4 DEF TypeInv
<1>6. TypeInv'
  BY <1>2, <1>3, <1>5 DEF TypeInv
<1> QED BY <1>2, <1>3, <1>4, <1>6 DEF Step

\* The oldest file is removed and the checkpoint counted.
LEMMA RotateEffect ==
  ASSUME TypeInv, team \in Teams, NEW t \in team, Rotate(t), UNCHANGED team
  PROVE  /\ TypeInv' /\ pc[t] = "rotate" /\ Step(t, "close")
         /\ cnt'[NodeOf[t]] = cnt[NodeOf[t]] + 1
         /\ Stores(NodeOf[t], cnt[NodeOf[t]] - 2, NoFile)
         /\ UNCHANGED <<local, mem, lock, mine, buf, master, entries, acked>>
<1>1. t \in Thread /\ NodeOf[t] \in Node
  BY Team
<1>2. pc' \in [Thread -> Place] /\ pc'[t] = "close" /\ \A u \in Thread : u # t => pc'[u] = pc[u]
  BY <1>1 DEF Rotate, Goto, TypeInv, Place
<1>3. up /\ pc[t] = "rotate" /\ UNCHANGED <<up, local, mem, lock, mine, buf, master, entries, acked>>
  BY DEF Rotate
<1>4. cnt' \in [Node -> Nat] /\ cnt'[NodeOf[t]] = cnt[NodeOf[t]] + 1 /\ \A n \in Node : n # NodeOf[t] => cnt'[n] = cnt[n]
  BY <1>1 DEF Rotate, TypeInv
<1>5. disk \in [Node -> [0 .. MaxCnt -> File]] /\ NoFile \in File
  BY DEF TypeInv, File
<1>6. /\ disk' \in [Node -> [0 .. MaxCnt -> File]] /\ Stores(NodeOf[t], cnt[NodeOf[t]] - 2, NoFile)
      /\ \A m \in Node : m # NodeOf[t] => disk'[m] = disk[m]
  <2>1. PICK old : old = cnt[NodeOf[t]] - 2
    OBVIOUS
  <2>2. disk' = IF old \in DOMAIN disk[NodeOf[t]] THEN [disk EXCEPT ![NodeOf[t]][old] = NoFile] ELSE disk
    BY <2>1 DEF Rotate, Oldest
  <2>3. CASE disk' = [disk EXCEPT ![NodeOf[t]][old] = NoFile]
    <3>1. /\ disk' \in [Node -> [0 .. MaxCnt -> File]] /\ Stores(NodeOf[t], old, NoFile)
          /\ \A m \in Node : m # NodeOf[t] => disk'[m] = disk[m]
      BY <1>1, <1>5, <2>3, DiskSet
    <3> QED BY <2>1, <3>1
  <2>4. CASE old \notin DOMAIN disk[NodeOf[t]] /\ disk' = disk
    <3>1. DOMAIN disk[NodeOf[t]] = 0 .. MaxCnt
      BY <1>1, <1>5
    <3>2. Stores(NodeOf[t], old, NoFile)
      BY <2>4, <3>1 DEF Stores
    <3> QED BY <1>5, <2>1, <2>4, <3>2
  <2> QED BY <2>2, <2>3, <2>4
<1>7. TypeInv'
  BY <1>2, <1>3, <1>4, <1>6 DEF TypeInv
<1> QED BY <1>2, <1>3, <1>4, <1>6, <1>7 DEF Step

\* The file is closed.
LEMMA CloseEffect ==
  ASSUME TypeInv, team \in Teams, NEW t \in team, Close(t), UNCHANGED team
  PROVE  /\ TypeInv' /\ pc[t] = "close" /\ Step(t, After(t))
         /\ lock'[NodeOf[t]] = (IF IsMaster(t) THEN 0 ELSE lock[NodeOf[t]])
         /\ Stores(NodeOf[t], cnt[NodeOf[t]] - 1, buf[NodeOf[t]])
         /\ UNCHANGED <<local, mem, cnt, mine, buf, master, entries, acked>>
<1>1. t \in Thread /\ NodeOf[t] \in Node
  BY Team
<1>2. pc' \in [Thread -> Place] /\ pc'[t] = After(t) /\ \A u \in Thread : u # t => pc'[u] = pc[u]
  BY <1>1 DEF Close, Goto, TypeInv, Place, After
<1>3. up /\ pc[t] = "close" /\ UNCHANGED <<up, local, mem, cnt, mine, buf, master, entries, acked>>
  BY DEF Close
<1>4. /\ lock' \in [Node -> {0, 1}] /\ lock'[NodeOf[t]] = (IF IsMaster(t) THEN 0 ELSE lock[NodeOf[t]])
      /\ \A n \in Node : n # NodeOf[t] => lock'[n] = lock[n]
  BY <1>1 DEF Close, TypeInv
<1>5. /\ disk' \in [Node -> [0 .. MaxCnt -> File]] /\ Stores(NodeOf[t], cnt[NodeOf[t]] - 1, buf[NodeOf[t]])
      /\ \A m \in Node : m # NodeOf[t] => disk'[m] = disk[m]
  <2>1. PICK i, f : i = cnt[NodeOf[t]] - 1 /\ f = buf[NodeOf[t]]
    OBVIOUS
  <2>2. f \in File
    BY <1>1, <2>1 DEF TypeInv
  <2>3. disk' = [disk EXCEPT ![NodeOf[t]][i] = f]
    BY <2>1 DEF Close
  <2>4. /\ disk' \in [Node -> [0 .. MaxCnt -> File]] /\ Stores(NodeOf[t], i, f)
        /\ \A m \in Node : m # NodeOf[t] => disk'[m] = disk[m]
    BY <1>1, <2>2, <2>3, DiskSet
  <2> QED BY <2>1, <2>4
<1>6. TypeInv'
  BY <1>2, <1>3, <1>4, <1>5 DEF TypeInv
<1> QED BY <1>2, <1>3, <1>4, <1>5, <1>6 DEF Step

(***************************************************************************)
(* Crash and restart.                                                      *)
(***************************************************************************)

\* A closed file has everything in it.
LEMMA ClosedWhole ==
  ASSUME NEW f \in File, f.state = "closed"
  PROVE  f \in Whole
BY DEF File, NoFile, Open

\* What is read back from checkpoint c.
LEMMA RestoreType ==
  ASSUME TypeInv, team \in Teams, NEW c \in 0 .. MaxCnt, Complete(c)
  PROVE  /\ Deserialize(c) \in [Thread -> Rounds] /\ RestoreSharedMemory(c) \in [Cell -> Rounds]
         /\ \A t \in team : Deserialize(c)[t] = disk[NodeOf[t]][c].locals[t]
         /\ \A x \in Cell : (\E n \in Used : x \in Dumped(n)) =>
              \E n \in Used : x \in Dumped(n) /\ RestoreSharedMemory(c)[x] = disk[n][c].cells[x]
<1>1. 0 \in Rounds /\ Used \subseteq Node /\ team \subseteq Thread
  BY Team, Bound DEF Rounds
<1>2. ASSUME NEW n \in Used PROVE disk[n][c] \in Whole
  <2>1. n \in Node /\ disk \in [Node -> [0 .. MaxCnt -> File]]
    BY <1>1 DEF TypeInv
  <2>2. disk[n][c] \in File
    BY <2>1
  <2>3. disk[n][c].state = "closed"
    BY DEF Complete
  <2> QED BY <2>2, <2>3, ClosedWhole
<1>3. ASSUME NEW t \in team PROVE disk[NodeOf[t]][c].locals[t] \in Rounds
  <2>1. NodeOf[t] \in Used /\ t \in Thread
    BY Team
  <2> QED BY <1>2, <2>1 DEF Whole
<1>4. Deserialize(c) \in [Thread -> Rounds] /\ \A t \in team : Deserialize(c)[t] = disk[NodeOf[t]][c].locals[t]
  BY <1>1, <1>3 DEF Deserialize
<1>5. ASSUME NEW x \in Cell, \E n \in Used : x \in Dumped(n)
      PROVE  \E n \in Used : /\ x \in Dumped(n) /\ RestoreSharedMemory(c)[x] = disk[n][c].cells[x]
                             /\ disk[n][c].cells[x] \in Rounds
  <2>1. PICK n : n = CHOOSE m \in Used : x \in Dumped(m)
    OBVIOUS
  <2>2. n \in Used /\ x \in Dumped(n)
    BY <1>5, <2>1
  <2>3. RestoreSharedMemory(c)[x] = disk[n][c].cells[x]
    BY <1>5, <2>1 DEF RestoreSharedMemory
  <2>4. disk[n][c].cells[x] \in Rounds
    BY <1>2, <2>2 DEF Whole
  <2> QED BY <2>2, <2>3, <2>4
<1>6. ASSUME NEW x \in Cell PROVE RestoreSharedMemory(c)[x] \in Rounds
  <2>1. CASE \E n \in Used : x \in Dumped(n)
    BY <1>5, <2>1
  <2>2. CASE ~(\E n \in Used : x \in Dumped(n))
    BY <1>1, <2>2 DEF RestoreSharedMemory
  <2> QED BY <2>1, <2>2
<1>7. RestoreSharedMemory(c) = [x \in Cell |-> RestoreSharedMemory(c)[x]]
  BY DEF RestoreSharedMemory
<1>8. RestoreSharedMemory(c) \in [Cell -> Rounds]
  BY <1>6, <1>7
<1> QED BY <1>4, <1>5, <1>8

\* The processes are new.
Started ==
  /\ team' = team
  /\ \A t \in Thread : pc'[t] = "work" /\ mine'[t] = FALSE /\ entries'[t] = 0
  /\ \A n \in Node : lock'[n] = 0

\* They begin at the beginning, or with the checkpoint c.
Anew ==
  /\ \A t \in Thread : local'[t] = 0
  /\ \A x \in Cell : mem'[x] = 0
  /\ \A n \in Node : cnt'[n] = 0
Resumed(c) ==
  /\ \A t \in team : local'[t] = disk[NodeOf[t]][c].locals[t]
  /\ \A x \in Cell : (\E n \in Used : x \in Dumped(n)) =>
       \E n \in Used : x \in Dumped(n) /\ mem'[x] = disk[n][c].cells[x]
  /\ \A n \in Node : cnt'[n] = c + 1

\* The variables of new processes.
LEMMA FreshEffect ==
  ASSUME Fresh, UNCHANGED team
  PROVE  /\ Started /\ pc' \in [Thread -> Place] /\ lock' \in [Node -> {0, 1}] /\ mine' \in [Thread -> BOOLEAN]
         /\ buf' \in [Node -> File] /\ entries' \in [Thread -> Nat]
<1>1. Open \in File
  BY DEF File
<1> QED BY <1>1 DEF Fresh, Started, Place

\* The program begins again.
LEMMA AnewEffect ==
  ASSUME local' = [t \in Thread |-> 0], mem' = [c \in Cell |-> 0], cnt' = [n \in Node |-> 0]
  PROVE  Anew /\ local' \in [Thread -> Rounds] /\ mem' \in [Cell -> Rounds] /\ cnt' \in [Node -> Nat]
<1>1. 0 \in Rounds
  BY Bound DEF Rounds
<1> QED BY <1>1 DEF Anew

\* All processes die and are started again.
LEMMA CrashEffect ==
  ASSUME TypeInv, team \in Teams, master \in -1 .. MaxCnt, Crash, UNCHANGED team
  PROVE  /\ TypeInv' /\ up /\ Started /\ UNCHANGED <<disk, master, acked>>
         /\ \/ master = -1 /\ Anew /\ up'
            \/ master >= 0 /\ Complete(master) /\ Resumed(master) /\ up'
            \/ ~up'
<1>1. up /\ Fresh /\ StartCluster(master) /\ UNCHANGED <<disk, master, acked>>
  BY DEF Crash
<1>2. /\ Started /\ pc' \in [Thread -> Place] /\ lock' \in [Node -> {0, 1}] /\ mine' \in [Thread -> BOOLEAN]
      /\ buf' \in [Node -> File] /\ entries' \in [Thread -> Nat]
  BY <1>1, FreshEffect
<1>3. PICK m \in -1 .. MaxCnt : m = master
  OBVIOUS
<1>4. MaxCnt \in Nat
  BY Bound
<1>5. CASE /\ m < 0 /\ local' = [t \in Thread |-> 0] /\ mem' = [c \in Cell |-> 0] /\ cnt' = [n \in Node |-> 0]
           /\ UNCHANGED up
  <2>1. Anew /\ local' \in [Thread -> Rounds] /\ mem' \in [Cell -> Rounds] /\ cnt' \in [Node -> Nat]
    BY <1>5, AnewEffect
  <2>2. m = -1
    BY <1>4, <1>5
  <2>3. TypeInv'
    BY <1>1, <1>2, <1>5, <2>1 DEF TypeInv
  <2> QED BY <1>1, <1>2, <1>3, <1>5, <2>1, <2>2, <2>3
<1>6. CASE /\ m >= 0 /\ Complete(m) /\ local' = Deserialize(m) /\ mem' = RestoreSharedMemory(m)
           /\ cnt' = [n \in Node |-> NextCheckpoint(m)] /\ UNCHANGED up
  <2>1. m \in 0 .. MaxCnt
    BY <1>4, <1>6
  <2>2. /\ local' \in [Thread -> Rounds] /\ mem' \in [Cell -> Rounds]
        /\ \A t \in team : local'[t] = disk[NodeOf[t]][m].locals[t]
        /\ \A x \in Cell : (\E n \in Used : x \in Dumped(n)) =>
             \E n \in Used : x \in Dumped(n) /\ mem'[x] = disk[n][m].cells[x]
    BY <1>6, <2>1, RestoreType
  <2>3. cnt' \in [Node -> Nat] /\ \A n \in Node : cnt'[n] = m + 1
    BY <1>6, <2>1 DEF NextCheckpoint
  <2>4. Resumed(m)
    BY <2>2, <2>3 DEF Resumed
  <2>5. TypeInv'
    BY <1>1, <1>2, <1>6, <2>2, <2>3 DEF TypeInv
  <2> QED BY <1>1, <1>2, <1>3, <1>6, <2>4, <2>5
<1>7. CASE up' = FALSE /\ UNCHANGED <<local, mem, cnt>>
  <2>1. TypeInv'
    BY <1>1, <1>2, <1>7 DEF TypeInv
  <2> QED BY <1>1, <1>2, <1>7, <2>1
<1> QED BY <1>1, <1>3, <1>5, <1>6, <1>7 DEF StartCluster

\* The master restarts the cluster: from the beginning.
LEMMA RestartEffect ==
  ASSUME TypeInv, team \in Teams, RestartCluster, UNCHANGED team
  PROVE  /\ TypeInv' /\ up /\ up' /\ Started /\ Anew /\ master' = -1
         /\ \A t \in Thread : acked'[t] = 0
         /\ \A n \in Node : \A i \in 0 .. MaxCnt : disk'[n][i] \in {NoFile, disk[n][i]}
<1>1. /\ up /\ Fresh /\ StartCluster(-1) /\ master' = -1 /\ acked' = [t \in Thread |-> 0]
      /\ disk' = [n \in Node |-> [c \in DOMAIN disk[n] |-> IF Removed(n, c) THEN NoFile ELSE disk[n][c]]]
  BY DEF RestartCluster
<1>2. /\ Started /\ pc' \in [Thread -> Place] /\ lock' \in [Node -> {0, 1}] /\ mine' \in [Thread -> BOOLEAN]
      /\ buf' \in [Node -> File] /\ entries' \in [Thread -> Nat]
  BY <1>1, FreshEffect
<1>3. local' = [t \in Thread |-> 0] /\ mem' = [c \in Cell |-> 0] /\ cnt' = [n \in Node |-> 0] /\ UNCHANGED up
  BY <1>1 DEF StartCluster
<1>4. Anew /\ local' \in [Thread -> Rounds] /\ mem' \in [Cell -> Rounds] /\ cnt' \in [Node -> Nat]
  BY <1>3, AnewEffect
<1>5. disk \in [Node -> [0 .. MaxCnt -> File]] /\ NoFile \in File
  BY DEF TypeInv, File
<1>6. \A n \in Node : \A i \in 0 .. MaxCnt : disk'[n][i] = IF Removed(n, i) THEN NoFile ELSE disk[n][i]
  BY <1>1, <1>5
<1>7. disk' = [n \in Node |-> [c \in 0 .. MaxCnt |-> IF Removed(n, c) THEN NoFile ELSE disk[n][c]]]
  BY <1>1, <1>5
<1>8. disk' \in [Node -> [0 .. MaxCnt -> File]]
  BY <1>5, <1>7
<1>9. TypeInv'
  BY <1>1, <1>2, <1>3, <1>4, <1>8 DEF TypeInv
<1> QED BY <1>1, <1>2, <1>3, <1>4, <1>6, <1>9

(***************************************************************************)
(* Rounds.  b is the number the nodes gave to their first checkpoint when  *)
(* the cluster was started.                                                *)
(***************************************************************************)

\* The barriers thread t has passed.
Passed(t) == IF pc[t] \in {"wait1", "wait2"} THEN entries[t] - 1 ELSE entries[t]

\* Nobody passes a barrier before everyone has entered it.
Pace == \A t, u \in team : Passed(t) <= entries[u]

\* The master enters, makes its checkpoint and enters again; its .master file
\* names the last checkpoint it has finished or is about to finish.
MasterAt(t, b) ==
  LET c == 2 * (cnt[0] - b) IN
  /\ \/ pc[t] \in {"work", "wait2"} /\ entries[t] = c /\ local[t] = cnt[0]
     \/ pc[t] = "enter1" /\ entries[t] = c /\ local[t] = cnt[0] + 1
     \/ pc[t] \in {"wait1", "check", "dump", "publish", "rotate"} /\ entries[t] = c + 1 /\ local[t] = cnt[0] + 1
     \/ pc[t] \in {"close", "enter2"} /\ entries[t] = c - 1 /\ local[t] = cnt[0]
  /\ lock[0] = IF pc[t] \in {"dump", "publish", "rotate", "close"} THEN 1 ELSE 0
  /\ master = IF pc[t] = "rotate" THEN cnt[0] ELSE cnt[0] - 1

\* A slave's thread makes the checkpoint of this round.
Owns(t) == pc[t] \in {"dump", "rotate", "close", "enter1", "wait1"} /\ mine[t]

\* A slave's thread begins a round after an even number of entries, and takes
\* the lock before it dumps.
Parity(t) ==
  /\ pc[t] # "publish"
  /\ pc[t] \in {"wait1", "enter2"} => \E k \in Nat : entries[t] = 2 * k + 1
  /\ pc[t] \notin {"wait1", "enter2"} => \E k \in Nat : entries[t] = 2 * k
  /\ pc[t] \in {"dump", "rotate", "close"} => mine[t]

\* Before a slave's checkpoint of a round, and after the thread that made it
\* has passed the first barrier, checkpointlock is free.
Unlocked(t, b) ==
  LET c == 2 * (cnt[NodeOf[t]] - b) IN
  \/ pc[t] \in {"work", "check", "wait2"} /\ entries[t] = c
  \/ pc[t] \in {"wait1", "enter2"} /\ entries[t] = c - 1

\* The thread that makes the checkpoint counts it when it rotates the files.
Locking(t, b) ==
  LET c == 2 * (cnt[NodeOf[t]] - b) IN
  \/ pc[t] \in {"dump", "rotate"} /\ entries[t] = c
  \/ pc[t] \in {"close", "enter1"} /\ entries[t] = c - 2
  \/ pc[t] = "wait1" /\ entries[t] = c - 1

\* At most one thread of a slave makes the checkpoint, and just then the lock
\* is taken.
SlaveAt(t, b) ==
  /\ Parity(t)
  /\ Owns(t) => Locking(t, b) /\ \A u \in Here(NodeOf[t]) : Owns(u) => u = t
  /\ lock[NodeOf[t]] = 0 => ~Owns(t) /\ Unlocked(t, b)
  /\ lock[NodeOf[t]] = 1 => \E o \in Here(NodeOf[t]) : Owns(o)

\* The last two checkpoint files of node n since the start are closed, but for
\* the one that is being closed.
Files(n, b) ==
  \A i \in 0 .. MaxCnt : cnt[n] - 2 <= i /\ i < cnt[n] /\ b - 1 <= i =>
    disk[n][i].state = "closed" \/ (i = cnt[n] - 1 /\ \E t \in Here(n) : pc[t] = "close")

\* What is about to be a file is complete.
Buffered == \A t \in team : pc[t] \in {"publish", "rotate", "close"} => buf[NodeOf[t]].state = "closed"

RoundInv(b) ==
  /\ Pace
  /\ \A t \in team : IsMaster(t) => MasterAt(t, b)
  /\ \A t \in team : ~IsMaster(t) => SlaveAt(t, b)
  /\ \A n \in Used : Files(n, b)
  /\ Buffered

\* The program has one thread on the master.
OneMaster == \A t, u \in team : IsMaster(t) /\ IsMaster(u) => t = u

\* A thread that passes only barriers that all have entered keeps the pace.
LEMMA PaceStep ==
  ASSUME TypeInv, TypeInv', team \in Teams, Pace, NEW t \in team, NEW l, Step(t, l), entries'[t] >= entries[t],
         \A u \in team : Passed(t)' <= entries'[u]
  PROVE  Pace'
<1>1. team \subseteq Thread /\ team' = team
  BY Team DEF Step
<1>2. ASSUME NEW v \in team PROVE entries[v] \in Nat /\ entries'[v] \in Nat /\ entries'[v] >= entries[v]
  <2>1. v \in Thread
    BY <1>1
  <2>2. entries[v] \in Nat /\ entries'[v] \in Nat
    BY <2>1 DEF TypeInv
  <2> QED BY <2>1, <2>2 DEF Step
<1>3. ASSUME NEW u \in team, NEW v \in team, u # t PROVE Passed(u)' <= entries'[v]
  <2>1. pc'[u] = pc[u] /\ entries'[u] = entries[u]
    BY <1>1, <1>3 DEF Step
  <2>2. Passed(u) <= entries[v]
    BY DEF Pace
  <2>3. Passed(u)' = Passed(u)
    BY <2>1 DEF Passed
  <2>4. Passed(u) \in Int
    BY <1>2 DEF Passed
  <2> QED BY <1>2, <2>2, <2>3, <2>4
<1>4. \A u, v \in team : Passed(u)' <= entries'[v]
  BY <1>3
<1> QED BY <1>1, <1>4 DEF Pace

\* A slave's step does not concern the master.
LEMMA MasterFrame ==
  ASSUME team \in Teams, NEW t \in team, ~IsMaster(t), NEW l, Step(t, l), NEW b, NEW m \in team, IsMaster(m), MasterAt(m, b)
  PROVE  MasterAt(m, b)'
<1>1. m # t /\ 0 # NodeOf[t] /\ 0 \in Node /\ m \in Thread
  BY Team DEF IsMaster
<1>2. pc'[m] = pc[m] /\ entries'[m] = entries[m] /\ local'[m] = local[m] /\ cnt'[0] = cnt[0] /\ lock'[0] = lock[0] /\ master' = master
  BY <1>1 DEF Step
<1> QED BY <1>2 DEF MasterAt

\* Nor another node.
LEMMA SlaveFrame ==
  ASSUME team \in Teams, NEW t \in team, NEW l, Step(t, l), NEW b, NEW u \in team, NodeOf[u] # NodeOf[t], SlaveAt(u, b)
  PROVE  SlaveAt(u, b)'
<1>1. u # t /\ NodeOf[u] \in Node /\ team \subseteq Thread /\ u \in Thread
  BY Team
<1>2. Here(NodeOf[u])' = Here(NodeOf[u])
  BY DEF Here, Step
<1>3. \A v \in Here(NodeOf[u]) : v \in Thread /\ v # t
  BY <1>1 DEF Here
<1>4. \A v \in Here(NodeOf[u]) : Owns(v)' <=> Owns(v)
  BY <1>3 DEF Step, Owns
<1>5. Owns(u)' <=> Owns(u)
  BY <1>1 DEF Step, Owns
<1>6. cnt'[NodeOf[u]] = cnt[NodeOf[u]] /\ lock'[NodeOf[u]] = lock[NodeOf[u]] /\ pc'[u] = pc[u] /\ entries'[u] = entries[u] /\ mine'[u] = mine[u]
  BY <1>1 DEF Step
<1>7. Parity(u)'
  BY <1>6 DEF SlaveAt, Parity
<1>8. (Locking(u, b)' <=> Locking(u, b)) /\ (Unlocked(u, b)' <=> Unlocked(u, b))
  BY <1>6 DEF Locking, Unlocked
<1> QED BY <1>2, <1>4, <1>5, <1>6, <1>7, <1>8 DEF SlaveAt

\* The thread that makes the checkpoint takes a step, or takes the lock.
LEMMA SlaveOwner ==
  ASSUME TypeInv', team \in Teams, NEW b, NEW t \in team, NEW l, Step(t, l), ~IsMaster(t),
         \A u \in team : ~IsMaster(u) => SlaveAt(u, b),
         \A u \in Here(NodeOf[t]) : Owns(u) => u = t,
         Parity(t)', Owns(t)', Locking(t, b)', lock'[NodeOf[t]] = 1
  PROVE  \A u \in team : ~IsMaster(u) => SlaveAt(u, b)'
<1>1. team \subseteq Thread /\ team' = team /\ Here(NodeOf[t])' = Here(NodeOf[t]) /\ t \in Here(NodeOf[t])
  BY Team DEF Step, Here
<1>2. SUFFICES ASSUME NEW u \in team, ~IsMaster(u) PROVE SlaveAt(u, b)'
  OBVIOUS
<1>3. CASE NodeOf[u] # NodeOf[t]
  BY <1>2, <1>3, SlaveFrame
<1>4. \A v \in Here(NodeOf[t]) : v # t => ~Owns(v)'
  <2>1. ASSUME NEW v \in Here(NodeOf[t]), v # t PROVE ~Owns(v)'
    <3>1. v \in Thread /\ ~Owns(v)
      BY <1>1, <2>1 DEF Here
    <3> QED BY <2>1, <3>1 DEF Step, Owns
  <2> QED BY <2>1
<1>5. CASE u = t
  BY <1>1, <1>4, <1>5 DEF SlaveAt
<1>6. CASE u # t /\ NodeOf[u] = NodeOf[t]
  <2>1. u \in Thread /\ u \in Here(NodeOf[t])
    BY <1>1, <1>6 DEF Here
  <2>2. ~Owns(u)'
    BY <1>4, <1>6, <2>1
  <2>3. pc'[u] = pc[u] /\ entries'[u] = entries[u] /\ mine'[u] = mine[u]
    BY <1>6, <2>1 DEF Step
  <2>4. Parity(u)'
    BY <1>2, <2>3 DEF SlaveAt, Parity
  <2>5. \E o \in Here(NodeOf[u])' : Owns(o)'
    BY <1>1, <1>6
  <2> QED BY <1>6, <2>2, <2>4, <2>5 DEF SlaveAt
<1> QED BY <1>3, <1>5, <1>6

\* A thread that does not make the checkpoint takes a step.
LEMMA SlaveOther ==
  ASSUME TypeInv, team \in Teams, NEW b, NEW t \in team, NEW l, Step(t, l), ~IsMaster(t),
         \A u \in team : ~IsMaster(u) => SlaveAt(u, b),
         ~Owns(t), ~Owns(t)', Parity(t)', lock'[NodeOf[t]] = lock[NodeOf[t]], cnt'[NodeOf[t]] = cnt[NodeOf[t]],
         lock[NodeOf[t]] = 0 => Unlocked(t, b)'
  PROVE  \A u \in team : ~IsMaster(u) => SlaveAt(u, b)'
<1>1. team \subseteq Thread /\ team' = team /\ Here(NodeOf[t])' = Here(NodeOf[t]) /\ t \in Here(NodeOf[t])
  BY Team DEF Step, Here
<1>2. SUFFICES ASSUME NEW u \in team, ~IsMaster(u) PROVE SlaveAt(u, b)'
  OBVIOUS
<1>3. CASE NodeOf[u] # NodeOf[t]
  BY <1>2, <1>3, SlaveFrame
<1>4. \A v \in Here(NodeOf[t]) : Owns(v)' <=> Owns(v)
  <2>1. ASSUME NEW v \in Here(NodeOf[t]) PROVE Owns(v)' <=> Owns(v)
    <3>1. v \in Thread
      BY <1>1 DEF Here
    <3>2. CASE v # t
      BY <3>1, <3>2 DEF Step, Owns
    <3> QED BY <3>2
  <2> QED BY <2>1
<1>5. CASE u = t
  <2>1. lock[NodeOf[t]] = 1 => \E o \in Here(NodeOf[t]) : Owns(o)
    BY DEF SlaveAt
  <2> QED BY <1>1, <1>4, <1>5, <2>1 DEF SlaveAt
<1>6. CASE u # t /\ NodeOf[u] = NodeOf[t]
  <2>1. u \in Thread /\ u \in Here(NodeOf[t])
    BY <1>1, <1>6 DEF Here
  <2>2. pc'[u] = pc[u] /\ entries'[u] = entries[u] /\ mine'[u] = mine[u]
    BY <1>6, <2>1 DEF Step
  <2>3. Parity(u)'
    BY <1>2, <2>2 DEF SlaveAt, Parity
  <2>4. (Locking(u, b)' <=> Locking(u, b)) /\ (Unlocked(u, b)' <=> Unlocked(u, b))
    BY <1>6, <2>2 DEF Locking, Unlocked
  <2>5. SlaveAt(u, b) /\ Here(NodeOf[u]) = Here(NodeOf[t]) /\ Here(NodeOf[u])' = Here(NodeOf[u]) /\ lock'[NodeOf[u]] = lock[NodeOf[u]]
    BY <1>1, <1>2, <1>6
  <2> QED BY <1>4, <2>1, <2>3, <2>4, <2>5 DEF SlaveAt
<1> QED BY <1>3, <1>5, <1>6

\* The thread that made the checkpoint passes the first barrier and frees the
\* lock: by then the other threads of its node have passed their checkpoint.
LEMMA SlaveRelease ==
  ASSUME TypeInv, TypeInv', team \in Teams, Pace, NEW b \in Nat, NEW t \in team, Step(t, "enter2"), ~IsMaster(t),
         \A u \in team : ~IsMaster(u) => SlaveAt(u, b),
         pc[t] = "wait1", mine[t], \A u \in team : entries[u] >= entries[t],
         lock'[NodeOf[t]] = 0, UNCHANGED <<cnt, entries, mine>>
  PROVE  \A u \in team : ~IsMaster(u) => SlaveAt(u, b)'
<1>1. team \subseteq Thread /\ team' = team /\ NodeOf[t] \in Node
  BY Team DEF Step
<1>2. SUFFICES ASSUME NEW u \in team, ~IsMaster(u) PROVE SlaveAt(u, b)'
  OBVIOUS
<1>3. CASE NodeOf[u] # NodeOf[t]
  BY <1>2, <1>3, SlaveFrame
<1>4. CASE NodeOf[u] = NodeOf[t]
  <2>1. PICK c \in Int : c = cnt[NodeOf[t]] - b
    BY <1>1 DEF TypeInv
  <2>2. Owns(t) /\ SlaveAt(t, b)
    BY DEF Owns
  <2>3. entries[t] = 2 * c - 1
    BY <2>1, <2>2 DEF SlaveAt, Locking
  <2>4. u \in Thread /\ entries[u] \in Nat /\ pc[u] \in Place /\ mine[u] \in BOOLEAN
    BY <1>1 DEF TypeInv
  <2>5. entries[u] >= 2 * c - 1 /\ Passed(u) <= 2 * c - 1 /\ Parity(u)
    BY <1>2, <2>3 DEF Pace, SlaveAt
  <2>6. entries'[u] = entries[u] /\ mine'[u] = mine[u] /\ cnt'[NodeOf[u]] - b = c
    BY <1>4, <2>1
  <2>7. CASE u = t
    <3>1. pc'[u] = "enter2"
      BY <2>7 DEF Step
    <3>2. Parity(u)'
      BY <2>5, <2>6, <2>7, <3>1 DEF Parity
    <3>3. ~Owns(u)'
      BY <3>1 DEF Owns
    <3>4. Unlocked(u, b)'
      BY <2>3, <2>6, <2>7, <3>1 DEF Unlocked
    <3> QED BY <1>4, <3>2, <3>3, <3>4 DEF SlaveAt
  <2>8. CASE u # t
    <3>1. pc'[u] = pc[u]
      BY <2>4, <2>8 DEF Step
    <3>2. Parity(u)'
      BY <2>5, <2>6, <3>1 DEF Parity
    <3>3. ~Owns(u)
      BY <1>4, <2>2, <2>8 DEF SlaveAt, Here
    <3>4. ~Owns(u)'
      BY <2>6, <3>1, <3>3 DEF Owns
    <3>5. CASE pc[u] \in {"wait1", "enter2"}
      <4>1. PICK k \in Nat : entries[u] = 2 * k + 1
        BY <2>5, <3>5 DEF Parity
      <4>2. entries[u] = 2 * c - 1
        BY <2>4, <2>5, <3>5, <4>1 DEF Passed
      <4> QED BY <1>4, <2>6, <3>1, <3>2, <3>4, <3>5, <4>2 DEF SlaveAt, Unlocked
    <3>6. CASE pc[u] \notin {"wait1", "enter2"}
      <4>1. PICK k \in Nat : entries[u] = 2 * k
        BY <2>5, <3>6 DEF Parity
      <4>2. pc[u] = "wait2" /\ entries[u] = 2 * c
        BY <2>4, <2>5, <3>6, <4>1 DEF Passed
      <4> QED BY <1>4, <2>6, <3>1, <3>2, <3>4, <4>2 DEF SlaveAt, Unlocked
    <3> QED BY <3>5, <3>6
  <2> QED BY <2>7, <2>8
<1> QED BY <1>3, <1>4

\* The files of other nodes stay as they are.
LEMMA FilesFrame ==
  ASSUME team \in Teams, NEW t \in team, NEW l, Step(t, l), NEW b, NEW n \in Used, n # NodeOf[t], Files(n, b)
  PROVE  Files(n, b)'
<1>1. n \in Node /\ team \subseteq Thread
  BY Team
<1>2. cnt'[n] = cnt[n] /\ disk'[n] = disk[n]
  BY <1>1 DEF Step
<1>3. Here(n)' = Here(n) /\ \A u \in Here(n) : u \in Thread /\ u # t
  BY <1>1 DEF Step, Here
<1>4. \A u \in Here(n) : pc'[u] = pc[u]
  BY <1>3 DEF Step
<1> QED BY <1>2, <1>3, <1>4 DEF Files

\* A step that counts no checkpoint, and changes no file but the next one.
LEMMA FilesQuiet ==
  ASSUME TypeInv, team \in Teams, NEW t \in team, NEW l, Step(t, l), NEW b,
         \A n \in Used : Files(n, b), pc[t] # "close", cnt' = cnt,
         \A i \in 0 .. MaxCnt : i # cnt[NodeOf[t]] => disk'[NodeOf[t]][i] = disk[NodeOf[t]][i]
  PROVE  \A n \in Used : Files(n, b)'
<1>1. SUFFICES ASSUME NEW n \in Used PROVE Files(n, b)'
  OBVIOUS
<1>2. CASE n # NodeOf[t]
  BY <1>2, FilesFrame
<1>3. CASE n = NodeOf[t]
  <2>1. Here(n)' = Here(n) /\ team \subseteq Thread
    BY Team DEF Step, Here
  <2>2. \A u \in Here(n) : pc[u] = "close" => pc'[u] = "close"
    BY <2>1 DEF Step, Here
  <2>3. PICK k \in Nat : k = cnt[n]
    BY <1>3, Team DEF TypeInv
  <2>4. MaxCnt \in Nat
    BY Bound
  <2>5. ASSUME NEW i \in 0 .. MaxCnt, k - 2 <= i, i < k, b - 1 <= i
        PROVE  disk'[n][i].state = "closed" \/ (i = k - 1 /\ \E u \in Here(n)' : pc'[u] = "close")
    <3>1. disk[n][i].state = "closed" \/ (i = k - 1 /\ \E u \in Here(n) : pc[u] = "close")
      BY <2>3, <2>5 DEF Files
    <3>2. i # k
      BY <2>3, <2>4, <2>5
    <3>3. disk'[n][i] = disk[n][i]
      BY <1>3, <2>3, <3>2
    <3> QED BY <2>1, <2>2, <3>1, <3>3
  <2>6. cnt'[n] = k
    BY <2>3
  <2> QED BY <2>5, <2>6 DEF Files
<1> QED BY <1>2, <1>3

\* The files are rotated: the last one is closed, as no other thread of the
\* node is closing it.
LEMMA FilesRotate ==
  ASSUME TypeInv, team \in Teams, NEW t \in team, Step(t, "close"), NEW b,
         \A n \in Used : Files(n, b), \A u \in Here(NodeOf[t]) : pc[u] # "close",
         cnt'[NodeOf[t]] = cnt[NodeOf[t]] + 1, Stores(NodeOf[t], cnt[NodeOf[t]] - 2, NoFile)
  PROVE  \A n \in Used : Files(n, b)'
<1>1. SUFFICES ASSUME NEW n \in Used PROVE Files(n, b)'
  OBVIOUS
<1>2. CASE n # NodeOf[t]
  BY <1>2, FilesFrame
<1>3. CASE n = NodeOf[t]
  <2>1. Here(n)' = Here(n) /\ t \in Here(n) /\ pc'[t] = "close"
    BY <1>3 DEF Step, Here
  <2>2. PICK k \in Nat : k = cnt[n]
    BY <1>3, Team DEF TypeInv
  <2>3. MaxCnt \in Nat
    BY Bound
  <2>4. ASSUME NEW i \in 0 .. MaxCnt, k + 1 - 2 <= i, i < k + 1, b - 1 <= i
        PROVE  disk'[n][i].state = "closed" \/ (i = k + 1 - 1 /\ \E u \in Here(n)' : pc'[u] = "close")
    <3>1. CASE i = k
      BY <2>1, <2>2, <3>1
    <3>2. CASE i = k - 1
      <4>1. k - 2 <= i /\ i < k /\ i # k - 2
        BY <2>2, <3>2
      <4>2. disk[n][i].state = "closed"
        BY <1>3, <2>2, <2>4, <4>1 DEF Files
      <4>3. disk'[n][i] = disk[n][i]
        BY <1>3, <2>2, <4>1 DEF Stores
      <4> QED BY <4>2, <4>3
    <3> QED BY <2>2, <2>3, <2>4, <3>1, <3>2
  <2>5. cnt'[n] = k + 1
    BY <1>3, <2>2
  <2> QED BY <2>4, <2>5 DEF Files
<1> QED BY <1>2, <1>3

\* The last file is closed.
LEMMA FilesClose ==
  ASSUME TypeInv, team \in Teams, NEW t \in team, NEW l, Step(t, l), NEW b,
         \A n \in Used : Files(n, b), buf[NodeOf[t]].state = "closed", cnt' = cnt,
         Stores(NodeOf[t], cnt[NodeOf[t]] - 1, buf[NodeOf[t]])
  PROVE  \A n \in Used : Files(n, b)'
<1>1. SUFFICES ASSUME NEW n \in Used PROVE Files(n, b)'
  OBVIOUS
<1>2. CASE n # NodeOf[t]
  BY <1>2, FilesFrame
<1>3. CASE n = NodeOf[t]
  <2>1. PICK k \in Nat : k = cnt[n]
    BY <1>3, Team DEF TypeInv
  <2>2. ASSUME NEW i \in 0 .. MaxCnt, k - 2 <= i, i < k, b - 1 <= i
        PROVE  disk'[n][i].state = "closed"
    <3>1. CASE i = k - 1
      BY <1>3, <2>1, <3>1 DEF Stores
    <3>2. CASE i # k - 1
      BY <1>3, <2>1, <2>2, <3>2 DEF Stores, Files
    <3> QED BY <3>1, <3>2
  <2>3. cnt'[n] = k
    BY <2>1
  <2> QED BY <2>2, <2>3 DEF Files
<1> QED BY <1>2, <1>3

\* A file is written after the dump.
LEMMA BufferedStep ==
  ASSUME team \in Teams, NEW t \in team, NEW l, Step(t, l), Buffered,
         buf'[NodeOf[t]] = buf[NodeOf[t]] \/ buf'[NodeOf[t]].state = "closed",
         l \in {"publish", "rotate", "close"} =>
           pc[t] \in {"publish", "rotate", "close"} \/ buf'[NodeOf[t]].state = "closed"
  PROVE  Buffered'
<1>1. team' = team /\ team \subseteq Thread
  BY Team DEF Step
<1>2. ASSUME NEW u \in team, pc'[u] \in {"publish", "rotate", "close"} PROVE buf'[NodeOf[u]].state = "closed"
  <2>1. CASE u = t
    BY <1>2, <2>1 DEF Step, Buffered
  <2>2. CASE u # t
    <3>1. u \in Thread /\ NodeOf[u] \in Node
      BY Team
    <3>2. buf[NodeOf[u]].state = "closed"
      BY <1>2, <2>2, <3>1 DEF Step, Buffered
    <3>3. CASE NodeOf[u] # NodeOf[t]
      BY <3>1, <3>2, <3>3 DEF Step
    <3>4. CASE NodeOf[u] = NodeOf[t]
      BY <3>2, <3>4
    <3> QED BY <3>3, <3>4
  <2> QED BY <2>1, <2>2
<1> QED BY <1>1, <1>2 DEF Buffered

\* A step away from the barriers.
LEMMA PaceQuiet ==
  ASSUME TypeInv, TypeInv', team \in Teams, Pace, NEW t \in team, NEW l, Step(t, l), entries' = entries,
         pc[t] \notin {"wait1", "wait2"}, l \notin {"wait1", "wait2"}
  PROVE  Pace'
<1>1. t \in Thread /\ pc'[t] = l /\ entries[t] \in Nat
  BY Team DEF Step, TypeInv
<1>2. Passed(t)' = entries[t] /\ Passed(t) = entries[t]
  BY <1>1 DEF Passed
<1>3. \A u \in team : Passed(t)' <= entries'[u]
  BY <1>2 DEF Pace
<1> QED BY <1>1, <1>3, PaceStep

\* A barrier is entered.
LEMMA PaceEnter ==
  ASSUME TypeInv, TypeInv', team \in Teams, Pace, NEW t \in team, NEW l, Step(t, l), entries'[t] = entries[t] + 1,
         pc[t] \notin {"wait1", "wait2"}, l \in {"wait1", "wait2"}
  PROVE  Pace'
<1>1. t \in Thread /\ pc'[t] = l /\ entries[t] \in Nat /\ team \subseteq Thread
  BY Team DEF Step, TypeInv
<1>2. Passed(t)' = entries[t] /\ Passed(t) = entries[t]
  BY <1>1 DEF Passed
<1>3. ASSUME NEW u \in team PROVE Passed(t)' <= entries'[u]
  <2>1. entries[t] <= entries[u]
    BY <1>2 DEF Pace
  <2>2. CASE u = t
    BY <1>1, <1>2, <2>2
  <2>3. CASE u # t
    BY <1>1, <1>2, <2>1, <2>3 DEF Step
  <2> QED BY <2>2, <2>3
<1> QED BY <1>1, <1>3, PaceStep

\* A barrier that all have entered is passed.
LEMMA PaceLeave ==
  ASSUME TypeInv, TypeInv', team \in Teams, Pace, NEW t \in team, NEW l, Step(t, l), entries' = entries,
         \A u \in team : entries[u] >= entries[t], l \notin {"wait1", "wait2"}
  PROVE  Pace'
<1>1. t \in Thread /\ pc'[t] = l /\ entries[t] \in Nat /\ \A u \in team : entries[u] \in Nat
  BY Team DEF Step, TypeInv
<1>2. Passed(t)' = entries[t]
  BY <1>1 DEF Passed
<1>3. \A u \in team : Passed(t)' <= entries'[u]
  BY <1>1, <1>2
<1> QED BY <1>1, <1>3, PaceStep

\* The invariant of the rounds, part by part, after a step of the master.
LEMMA AfterMaster ==
  ASSUME team \in Teams, OneMaster, NEW b, RoundInv(b), NEW t \in team, IsMaster(t), NEW l, Step(t, l),
         Pace', MasterAt(t, b)', \A n \in Used : Files(n, b)', Buffered'
  PROVE  RoundInv(b)'
<1>1. team' = team /\ Used' = Used
  BY DEF Step, Used
<1>2. \A u \in team : IsMaster(u) => MasterAt(u, b)'
  <2>1. ASSUME NEW u \in team, IsMaster(u) PROVE MasterAt(u, b)'
    <3>1. u = t
      BY <2>1 DEF OneMaster
    <3> QED BY <3>1
  <2> QED BY <2>1
<1>3. \A u \in team : ~IsMaster(u) => SlaveAt(u, b)'
  <2>1. ASSUME NEW u \in team, ~IsMaster(u) PROVE SlaveAt(u, b)'
    <3>1. NodeOf[u] # NodeOf[t] /\ SlaveAt(u, b)
      BY <2>1 DEF IsMaster, RoundInv
    <3> QED BY <3>1, SlaveFrame
  <2> QED BY <2>1
<1> QED BY <1>1, <1>2, <1>3 DEF RoundInv, IsMaster

\* And after a step of a slave.
LEMMA AfterSlave ==
  ASSUME team \in Teams, NEW b, RoundInv(b), NEW t \in team, ~IsMaster(t), NEW l, Step(t, l),
         Pace', \A u \in team : ~IsMaster(u) => SlaveAt(u, b)', \A n \in Used : Files(n, b)', Buffered'
  PROVE  RoundInv(b)'
<1>1. team' = team /\ Used' = Used
  BY DEF Step, Used
<1>2. \A u \in team : IsMaster(u) => MasterAt(u, b)'
  <2>1. ASSUME NEW u \in team, IsMaster(u) PROVE MasterAt(u, b)'
    BY <2>1, MasterFrame DEF RoundInv
  <2> QED BY <2>1
<1> QED BY <1>1, <1>2 DEF RoundInv, IsMaster

\* A step of the master.
LEMMA MasterStep ==
  ASSUME TypeInv, team \in Teams, OneMaster, NEW b \in Nat, RoundInv(b), NEW t \in team, IsMaster(t),
         Round(t), UNCHANGED team
  PROVE  TypeInv' /\ RoundInv(b)'
<1>1. /\ NodeOf[t] = 0 /\ t \in Thread /\ 0 \in Node /\ cnt[0] \in Nat /\ entries[t] \in Nat
      /\ Pace /\ MasterAt(t, b) /\ (\A n \in Used : Files(n, b)) /\ Buffered
  BY Team DEF IsMaster, RoundInv, TypeInv
<1>2. CASE Work(t)
  <2>1. /\ TypeInv' /\ pc[t] = "work" /\ Step(t, "enter1") /\ local'[t] = local[t] + 1
        /\ UNCHANGED <<cnt, lock, mine, buf, disk, master, entries, acked>>
    BY <1>2, WorkEffect
  <2>2. MasterAt(t, b)'
    BY <1>1, <2>1 DEF MasterAt, Step
  <2>3. Pace'
    BY <1>1, <2>1, PaceQuiet
  <2>4. \A n \in Used : Files(n, b)'
    BY <1>1, <2>1, FilesQuiet
  <2>5. Buffered'
    BY <1>1, <2>1, BufferedStep
  <2> QED BY <2>1, <2>2, <2>3, <2>4, <2>5, AfterMaster
<1>3. CASE EnterBarrier(t)
  <2>1. PICK l \in {"wait1", "wait2"} :
          /\ TypeInv' /\ Step(t, l) /\ entries'[t] = entries[t] + 1
          /\ (pc[t] = "enter1" /\ l = "wait1") \/ (pc[t] = "enter2" /\ l = "wait2")
          /\ UNCHANGED <<local, mem, cnt, lock, mine, buf, disk, master, acked>>
    BY <1>3, EnterEffect
  <2>2. MasterAt(t, b)'
    <3>1. CASE pc[t] = "enter1" /\ l = "wait1"
      BY <1>1, <2>1, <3>1 DEF MasterAt, Step
    <3>2. CASE pc[t] = "enter2" /\ l = "wait2"
      BY <1>1, <2>1, <3>2 DEF MasterAt, Step
    <3> QED BY <2>1, <3>1, <3>2
  <2>3. Pace'
    BY <1>1, <2>1, PaceEnter
  <2>4. \A n \in Used : Files(n, b)'
    BY <1>1, <2>1, FilesQuiet
  <2>5. Buffered'
    BY <1>1, <2>1, BufferedStep
  <2> QED BY <2>1, <2>2, <2>3, <2>4, <2>5, AfterMaster
<1>4. CASE LeaveFirst(t)
  <2>1. /\ TypeInv' /\ pc[t] = "wait1" /\ Step(t, "check") /\ lock'[NodeOf[t]] = lock[NodeOf[t]]
        /\ (\A u \in team : entries[u] >= entries[t])
        /\ UNCHANGED <<local, mem, cnt, mine, buf, disk, master, entries, acked>>
    BY <1>4, FirstEffect
  <2>2. MasterAt(t, b)'
    BY <1>1, <2>1 DEF MasterAt, Step
  <2>3. Pace'
    BY <1>1, <2>1, PaceLeave
  <2>4. \A n \in Used : Files(n, b)'
    BY <1>1, <2>1, FilesQuiet
  <2>5. Buffered'
    BY <1>1, <2>1, BufferedStep
  <2> QED BY <2>1, <2>2, <2>3, <2>4, <2>5, AfterMaster
<1>5. CASE LeaveSecond(t)
  <2>1. /\ TypeInv' /\ pc[t] = "wait2" /\ Step(t, "work")
        /\ (\A u \in team : entries[u] >= entries[t])
        /\ UNCHANGED <<local, mem, cnt, lock, mine, buf, disk, master, entries>>
    BY <1>5, SecondEffect
  <2>2. MasterAt(t, b)'
    BY <1>1, <2>1 DEF MasterAt, Step
  <2>3. Pace'
    BY <1>1, <2>1, PaceLeave
  <2>4. \A n \in Used : Files(n, b)'
    BY <1>1, <2>1, FilesQuiet
  <2>5. Buffered'
    BY <1>1, <2>1, BufferedStep
  <2> QED BY <2>1, <2>2, <2>3, <2>4, <2>5, AfterMaster
<1>6. CASE StartCheckPoint(t)
  <2>1. pc[t] = "check"
    BY <1>6 DEF StartCheckPoint
  <2>2. lock[NodeOf[t]] = 0
    BY <1>1, <2>1 DEF MasterAt
  <2>3. /\ TypeInv' /\ Step(t, "dump") /\ lock'[NodeOf[t]] = 1
        /\ Stores(NodeOf[t], cnt[NodeOf[t]], Open)
        /\ UNCHANGED <<local, mem, cnt, buf, master, entries, acked>>
    <3>1. lock[NodeOf[t]] # 1
      BY <2>2
    <3> QED BY <1>6, <3>1, StartEffect, Zenon
  <2>4. MasterAt(t, b)'
    BY <1>1, <2>1, <2>3 DEF MasterAt, Step
  <2>5. Pace'
    BY <1>1, <2>1, <2>3, PaceQuiet
  <2>6. \A i \in 0 .. MaxCnt : i # cnt[NodeOf[t]] => disk'[NodeOf[t]][i] = disk[NodeOf[t]][i]
    BY <2>3 DEF Stores
  <2>7. \A n \in Used : Files(n, b)'
    BY <1>1, <2>1, <2>3, <2>6, FilesQuiet
  <2>8. Buffered'
    BY <1>1, <2>3, BufferedStep
  <2> QED BY <2>3, <2>4, <2>5, <2>7, <2>8, AfterMaster
<1>7. CASE Dump(t)
  <2>1. /\ TypeInv' /\ pc[t] = "dump" /\ Step(t, "publish") /\ buf'[NodeOf[t]] = DumpSharedMemory(NodeOf[t])
        /\ UNCHANGED <<local, mem, cnt, lock, mine, disk, master, entries, acked>>
    BY <1>7, DumpEffect
  <2>2. MasterAt(t, b)'
    BY <1>1, <2>1 DEF MasterAt, Step
  <2>3. Pace'
    BY <1>1, <2>1, PaceQuiet
  <2>4. \A n \in Used : Files(n, b)'
    BY <1>1, <2>1, FilesQuiet
  <2>5. buf'[NodeOf[t]].state = "closed"
    BY <2>1 DEF DumpSharedMemory
  <2>6. Buffered'
    BY <1>1, <2>1, <2>5, BufferedStep
  <2> QED BY <2>1, <2>2, <2>3, <2>4, <2>6, AfterMaster
<1>8. CASE Publish(t)
  <2>1. /\ TypeInv' /\ pc[t] = "publish" /\ Step(t, "rotate") /\ master' = cnt[0]
        /\ UNCHANGED <<local, mem, cnt, lock, mine, buf, disk, entries, acked>>
    BY <1>8, PublishEffect
  <2>2. MasterAt(t, b)'
    BY <1>1, <2>1 DEF MasterAt, Step
  <2>3. Pace'
    BY <1>1, <2>1, PaceQuiet
  <2>4. \A n \in Used : Files(n, b)'
    BY <1>1, <2>1, FilesQuiet
  <2>5. Buffered'
    BY <1>1, <2>1, BufferedStep
  <2> QED BY <2>1, <2>2, <2>3, <2>4, <2>5, AfterMaster
<1>9. CASE Rotate(t)
  <2>1. /\ TypeInv' /\ pc[t] = "rotate" /\ Step(t, "close") /\ cnt'[NodeOf[t]] = cnt[NodeOf[t]] + 1
        /\ Stores(NodeOf[t], cnt[NodeOf[t]] - 2, NoFile)
        /\ UNCHANGED <<local, mem, lock, mine, buf, master, entries, acked>>
    BY <1>9, RotateEffect
  <2>2. MasterAt(t, b)'
    BY <1>1, <2>1 DEF MasterAt, Step
  <2>3. Pace'
    BY <1>1, <2>1, PaceQuiet
  <2>4. \A u \in Here(NodeOf[t]) : pc[u] # "close"
    BY <1>1, <2>1 DEF Here, OneMaster, IsMaster
  <2>5. \A n \in Used : Files(n, b)'
    BY <1>1, <2>1, <2>4, FilesRotate
  <2>6. Buffered'
    BY <1>1, <2>1, BufferedStep
  <2> QED BY <2>1, <2>2, <2>3, <2>5, <2>6, AfterMaster
<1>10. CASE Close(t)
  <2>1. /\ TypeInv' /\ pc[t] = "close" /\ Step(t, "enter2") /\ lock'[NodeOf[t]] = 0
        /\ Stores(NodeOf[t], cnt[NodeOf[t]] - 1, buf[NodeOf[t]])
        /\ UNCHANGED <<local, mem, cnt, mine, buf, master, entries, acked>>
    BY <1>10, CloseEffect DEF After
  <2>2. MasterAt(t, b)'
    BY <1>1, <2>1 DEF MasterAt, Step
  <2>3. Pace'
    BY <1>1, <2>1, PaceQuiet
  <2>4. buf[NodeOf[t]].state = "closed"
    BY <1>1, <2>1 DEF Buffered
  <2>5. \A n \in Used : Files(n, b)'
    BY <1>1, <2>1, <2>4, FilesClose
  <2>6. Buffered'
    BY <1>1, <2>1, BufferedStep
  <2> QED BY <2>1, <2>2, <2>3, <2>5, <2>6, AfterMaster
<1> QED BY <1>2, <1>3, <1>4, <1>5, <1>6, <1>7, <1>8, <1>9, <1>10 DEF Round

\* A step of a slave.
LEMMA SlaveStep ==
  ASSUME TypeInv, team \in Teams, NEW b \in Nat, RoundInv(b), NEW t \in team, ~IsMaster(t),
         Round(t), UNCHANGED team
  PROVE  TypeInv' /\ RoundInv(b)'
<1>1. /\ t \in Thread /\ NodeOf[t] \in Node /\ cnt[NodeOf[t]] \in Nat /\ entries[t] \in Nat /\ mine[t] \in BOOLEAN
      /\ Pace /\ SlaveAt(t, b) /\ (\A n \in Used : Files(n, b)) /\ Buffered
      /\ \A u \in team : ~IsMaster(u) => SlaveAt(u, b)
  BY Team DEF RoundInv, TypeInv
<1>2. /\ Parity(t) /\ (lock[NodeOf[t]] = 0 => ~Owns(t) /\ Unlocked(t, b))
      /\ (Owns(t) => Locking(t, b) /\ \A u \in Here(NodeOf[t]) : Owns(u) => u = t)
  BY <1>1 DEF SlaveAt
<1>3. lock[NodeOf[t]] \in {0, 1}
  BY <1>1 DEF TypeInv
<1>4. CASE Work(t)
  <2>1. /\ TypeInv' /\ pc[t] = "work" /\ Step(t, "check")
        /\ UNCHANGED <<cnt, lock, mine, buf, disk, master, entries, acked>>
    BY <1>4, WorkEffect
  <2>2. pc'[t] = "check"
    BY <2>1 DEF Step
  <2>3. ~Owns(t) /\ ~Owns(t)'
    BY <2>1, <2>2 DEF Owns
  <2>4. Parity(t)'
    BY <1>2, <2>1, <2>2 DEF Parity
  <2>5. lock[NodeOf[t]] = 0 => Unlocked(t, b)'
    BY <1>2, <2>1, <2>2 DEF Unlocked
  <2>6. \A u \in team : ~IsMaster(u) => SlaveAt(u, b)'
    BY <1>1, <2>1, <2>3, <2>4, <2>5, SlaveOther
  <2>7. Pace'
    BY <1>1, <2>1, PaceQuiet
  <2>8. \A n \in Used : Files(n, b)'
    BY <1>1, <2>1, FilesQuiet
  <2>9. Buffered'
    BY <1>1, <2>1, BufferedStep
  <2> QED BY <2>1, <2>6, <2>7, <2>8, <2>9, AfterSlave
<1>5. CASE EnterBarrier(t)
  <2>1. PICK l \in {"wait1", "wait2"} :
          /\ TypeInv' /\ Step(t, l) /\ entries'[t] = entries[t] + 1
          /\ (pc[t] = "enter1" /\ l = "wait1") \/ (pc[t] = "enter2" /\ l = "wait2")
          /\ UNCHANGED <<local, mem, cnt, lock, mine, buf, disk, master, acked>>
    BY <1>5, EnterEffect
  <2>2. pc'[t] = l
    BY <2>1 DEF Step
  <2>3. Parity(t)'
    <3>1. CASE pc[t] = "enter1" /\ l = "wait1"
      BY <1>2, <2>1, <2>2, <3>1 DEF Parity
    <3>2. CASE pc[t] = "enter2" /\ l = "wait2"
      <4>1. PICK k \in Nat : entries[t] = 2 * k + 1
        BY <1>2, <3>2 DEF Parity
      <4>2. entries'[t] = 2 * (k + 1) /\ k + 1 \in Nat
        BY <2>1, <4>1
      <4> QED BY <2>2, <3>2, <4>2 DEF Parity
    <3> QED BY <2>1, <3>1, <3>2
  <2>4. \A u \in team : ~IsMaster(u) => SlaveAt(u, b)'
    <3>1. CASE pc[t] = "enter1" /\ l = "wait1" /\ mine[t]
      <4>1. Owns(t) /\ Owns(t)'
        BY <2>1, <2>2, <3>1 DEF Owns
      <4>2. Locking(t, b)'
        BY <1>1, <1>2, <2>1, <2>2, <3>1, <4>1 DEF Locking
      <4>3. lock'[NodeOf[t]] = 1
        BY <1>2, <1>3, <2>1, <4>1
      <4> QED BY <1>1, <1>2, <2>1, <2>3, <4>1, <4>2, <4>3, SlaveOwner
    <3>2. CASE pc[t] = "enter1" /\ l = "wait1" /\ ~mine[t]
      <4>1. ~Owns(t) /\ ~Owns(t)'
        BY <2>1, <2>2, <3>2 DEF Owns
      <4>2. lock[NodeOf[t]] # 0
        BY <1>2, <3>2 DEF Unlocked
      <4> QED BY <1>1, <2>1, <2>3, <4>1, <4>2, SlaveOther
    <3>3. CASE pc[t] = "enter2" /\ l = "wait2"
      <4>1. ~Owns(t) /\ ~Owns(t)'
        BY <2>1, <2>2, <3>3 DEF Owns
      <4>2. lock[NodeOf[t]] = 0 => Unlocked(t, b)'
        BY <1>1, <1>2, <2>1, <2>2, <3>3 DEF Unlocked
      <4> QED BY <1>1, <2>1, <2>3, <4>1, <4>2, SlaveOther
    <3> QED BY <2>1, <3>1, <3>2, <3>3
  <2>5. Pace'
    BY <1>1, <2>1, PaceEnter
  <2>6. \A n \in Used : Files(n, b)'
    BY <1>1, <2>1, FilesQuiet
  <2>7. Buffered'
    BY <1>1, <2>1, BufferedStep
  <2> QED BY <2>1, <2>4, <2>5, <2>6, <2>7, AfterSlave
<1>6. CASE LeaveFirst(t)
  <2>1. /\ TypeInv' /\ pc[t] = "wait1" /\ Step(t, "enter2")
        /\ lock'[NodeOf[t]] = (IF mine[t] THEN 0 ELSE lock[NodeOf[t]])
        /\ (\A u \in team : entries[u] >= entries[t])
        /\ UNCHANGED <<local, mem, cnt, mine, buf, disk, master, entries, acked>>
    BY <1>6, FirstEffect
  <2>2. pc'[t] = "enter2"
    BY <2>1 DEF Step
  <2>3. \A u \in team : ~IsMaster(u) => SlaveAt(u, b)'
    <3>1. CASE mine[t]
      BY <1>1, <2>1, <3>1, SlaveRelease
    <3>2. CASE ~mine[t]
      <4>1. ~Owns(t) /\ ~Owns(t)'
        BY <2>1, <2>2, <3>2 DEF Owns
      <4>2. Parity(t)'
        BY <1>2, <2>1, <2>2 DEF Parity
      <4>3. lock[NodeOf[t]] = 0 => Unlocked(t, b)'
        BY <1>2, <2>1, <2>2 DEF Unlocked
      <4>4. lock'[NodeOf[t]] = lock[NodeOf[t]]
        BY <2>1, <3>2
      <4> QED BY <1>1, <2>1, <4>1, <4>2, <4>3, <4>4, SlaveOther
    <3> QED BY <3>1, <3>2
  <2>4. Pace'
    BY <1>1, <2>1, PaceLeave
  <2>5. \A n \in Used : Files(n, b)'
    BY <1>1, <2>1, FilesQuiet
  <2>6. Buffered'
    BY <1>1, <2>1, BufferedStep
  <2> QED BY <2>1, <2>3, <2>4, <2>5, <2>6, AfterSlave
<1>7. CASE LeaveSecond(t)
  <2>1. /\ TypeInv' /\ pc[t] = "wait2" /\ Step(t, "work")
        /\ (\A u \in team : entries[u] >= entries[t])
        /\ UNCHANGED <<local, mem, cnt, lock, mine, buf, disk, master, entries>>
    BY <1>7, SecondEffect
  <2>2. pc'[t] = "work"
    BY <2>1 DEF Step
  <2>3. ~Owns(t) /\ ~Owns(t)'
    BY <2>1, <2>2 DEF Owns
  <2>4. Parity(t)'
    BY <1>2, <2>1, <2>2 DEF Parity
  <2>5. lock[NodeOf[t]] = 0 => Unlocked(t, b)'
    BY <1>2, <2>1, <2>2 DEF Unlocked
  <2>6. \A u \in team : ~IsMaster(u) => SlaveAt(u, b)'
    BY <1>1, <2>1, <2>3, <2>4, <2>5, SlaveOther
  <2>7. Pace'
    BY <1>1, <2>1, PaceLeave
  <2>8. \A n \in Used : Files(n, b)'
    BY <1>1, <2>1, FilesQuiet
  <2>9. Buffered'
    BY <1>1, <2>1, BufferedStep
  <2> QED BY <2>1, <2>6, <2>7, <2>8, <2>9, AfterSlave
<1>8. CASE StartCheckPoint(t)
  <2>1. TypeInv' /\ pc[t] = "check" /\ UNCHANGED <<local, mem, cnt, buf, master, entries, acked>>
    BY <1>8, StartEffect
  <2>2. CASE lock[NodeOf[t]] = 1 /\ Step(t, "enter1") /\ mine'[t] = FALSE /\ UNCHANGED <<lock, disk>>
    <3>1. pc'[t] = "enter1"
      BY <2>2 DEF Step
    <3>2. ~Owns(t) /\ ~Owns(t)'
      BY <2>1, <2>2, <3>1 DEF Owns
    <3>3. Parity(t)'
      BY <1>2, <2>1, <3>1 DEF Parity
    <3>4. \A u \in team : ~IsMaster(u) => SlaveAt(u, b)'
      <4>1. lock[NodeOf[t]] # 0
        BY <2>2
      <4> QED BY <1>1, <2>1, <2>2, <3>2, <3>3, <4>1, SlaveOther
    <3>5. Pace'
      BY <1>1, <2>1, <2>2, PaceQuiet
    <3>6. \A n \in Used : Files(n, b)'
      BY <1>1, <2>1, <2>2, FilesQuiet
    <3>7. Buffered'
      BY <1>1, <2>1, <2>2, BufferedStep
    <3> QED BY <2>1, <2>2, <3>4, <3>5, <3>6, <3>7, AfterSlave
  <2>3. CASE /\ lock[NodeOf[t]] = 0 /\ Step(t, "dump") /\ mine'[t] = TRUE /\ lock'[NodeOf[t]] = 1
             /\ Stores(NodeOf[t], cnt[NodeOf[t]], Open)
    <3>1. pc'[t] = "dump"
      BY <2>3 DEF Step
    <3>2. Owns(t)'
      BY <2>3, <3>1 DEF Owns
    <3>3. Parity(t)'
      BY <1>2, <2>1, <2>3, <3>1 DEF Parity
    <3>4. Locking(t, b)'
      BY <1>2, <2>1, <2>3, <3>1 DEF Locking, Unlocked
    <3>5. ASSUME NEW u \in Here(NodeOf[t]) PROVE ~Owns(u)
      <4>1. u \in team /\ ~IsMaster(u) /\ NodeOf[u] = NodeOf[t]
        BY DEF Here, IsMaster
      <4> QED BY <1>1, <2>3, <4>1 DEF SlaveAt
    <3>6. \A u \in team : ~IsMaster(u) => SlaveAt(u, b)'
      BY <1>1, <2>1, <2>3, <3>2, <3>3, <3>4, <3>5, SlaveOwner
    <3>7. Pace'
      BY <1>1, <2>1, <2>3, PaceQuiet
    <3>8. \A i \in 0 .. MaxCnt : i # cnt[NodeOf[t]] => disk'[NodeOf[t]][i] = disk[NodeOf[t]][i]
      BY <2>3 DEF Stores
    <3>9. \A n \in Used : Files(n, b)'
      BY <1>1, <2>1, <2>3, <3>8, FilesQuiet
    <3>10. Buffered'
      BY <1>1, <2>1, <2>3, BufferedStep
    <3> QED BY <2>1, <2>3, <3>6, <3>7, <3>9, <3>10, AfterSlave
  <2>4. After(t) = "enter1"
    BY DEF After
  <2> QED BY <1>8, <2>2, <2>3, <2>4, StartEffect, Zenon
<1>9. CASE Dump(t)
  <2>1. /\ TypeInv' /\ pc[t] = "dump" /\ Step(t, "rotate") /\ buf'[NodeOf[t]] = DumpSharedMemory(NodeOf[t])
        /\ UNCHANGED <<local, mem, cnt, lock, mine, disk, master, entries, acked>>
    BY <1>9, DumpEffect
  <2>2. pc'[t] = "rotate" /\ mine[t]
    BY <1>2, <2>1 DEF Step, Parity
  <2>3. Owns(t) /\ Owns(t)'
    BY <2>1, <2>2 DEF Owns
  <2>4. Parity(t)'
    BY <1>2, <2>1, <2>2 DEF Parity
  <2>5. Locking(t, b)'
    BY <1>2, <2>1, <2>2, <2>3 DEF Locking
  <2>6. lock'[NodeOf[t]] = 1
    BY <1>2, <1>3, <2>1, <2>3
  <2>7. \A u \in team : ~IsMaster(u) => SlaveAt(u, b)'
    BY <1>1, <1>2, <2>1, <2>3, <2>4, <2>5, <2>6, SlaveOwner
  <2>8. Pace'
    BY <1>1, <2>1, PaceQuiet
  <2>9. \A n \in Used : Files(n, b)'
    BY <1>1, <2>1, FilesQuiet
  <2>10. buf'[NodeOf[t]].state = "closed"
    BY <2>1 DEF DumpSharedMemory
  <2>11. Buffered'
    BY <1>1, <2>1, <2>10, BufferedStep
  <2> QED BY <2>1, <2>7, <2>8, <2>9, <2>11, AfterSlave
<1>10. CASE Rotate(t)
  <2>1. /\ TypeInv' /\ pc[t] = "rotate" /\ Step(t, "close") /\ cnt'[NodeOf[t]] = cnt[NodeOf[t]] + 1
        /\ Stores(NodeOf[t], cnt[NodeOf[t]] - 2, NoFile)
        /\ UNCHANGED <<local, mem, lock, mine, buf, master, entries, acked>>
    BY <1>10, RotateEffect
  <2>2. pc'[t] = "close" /\ mine[t]
    BY <1>2, <2>1 DEF Step, Parity
  <2>3. Owns(t) /\ Owns(t)'
    BY <2>1, <2>2 DEF Owns
  <2>4. Parity(t)'
    BY <1>2, <2>1, <2>2 DEF Parity
  <2>5. Locking(t, b)'
    BY <1>1, <1>2, <2>1, <2>2, <2>3 DEF Locking
  <2>6. lock'[NodeOf[t]] = 1
    BY <1>2, <1>3, <2>1, <2>3
  <2>7. \A u \in team : ~IsMaster(u) => SlaveAt(u, b)'
    BY <1>1, <1>2, <2>1, <2>3, <2>4, <2>5, <2>6, SlaveOwner
  <2>8. Pace'
    BY <1>1, <2>1, PaceQuiet
  <2>9. ASSUME NEW u \in Here(NodeOf[t]) PROVE pc[u] # "close"
    <3>1. u \in team /\ ~IsMaster(u)
      BY DEF Here, IsMaster
    <3>2. Parity(u)
      BY <1>1, <3>1 DEF SlaveAt
    <3>3. pc[u] = "close" => Owns(u)
      BY <3>2 DEF Parity, Owns
    <3> QED BY <1>2, <2>1, <2>3, <3>3
  <2>10. \A n \in Used : Files(n, b)'
    BY <1>1, <2>1, <2>9, FilesRotate
  <2>11. Buffered'
    BY <1>1, <2>1, BufferedStep
  <2> QED BY <2>1, <2>7, <2>8, <2>10, <2>11, AfterSlave
<1>11. CASE Close(t)
  <2>1. /\ TypeInv' /\ pc[t] = "close" /\ Step(t, "enter1") /\ lock'[NodeOf[t]] = lock[NodeOf[t]]
        /\ Stores(NodeOf[t], cnt[NodeOf[t]] - 1, buf[NodeOf[t]])
        /\ UNCHANGED <<local, mem, cnt, mine, buf, master, entries, acked>>
    BY <1>11, CloseEffect DEF After
  <2>2. pc'[t] = "enter1" /\ mine[t]
    BY <1>2, <2>1 DEF Step, Parity
  <2>3. Owns(t) /\ Owns(t)'
    BY <2>1, <2>2 DEF Owns
  <2>4. Parity(t)'
    BY <1>2, <2>1, <2>2 DEF Parity
  <2>5. Locking(t, b)'
    BY <1>1, <1>2, <2>1, <2>2, <2>3 DEF Locking
  <2>6. lock'[NodeOf[t]] = 1
    BY <1>2, <1>3, <2>1, <2>3
  <2>7. \A u \in team : ~IsMaster(u) => SlaveAt(u, b)'
    BY <1>1, <1>2, <2>1, <2>3, <2>4, <2>5, <2>6, SlaveOwner
  <2>8. Pace'
    BY <1>1, <2>1, PaceQuiet
  <2>9. buf[NodeOf[t]].state = "closed"
    BY <1>1, <2>1 DEF Buffered
  <2>10. \A n \in Used : Files(n, b)'
    BY <1>1, <2>1, <2>9, FilesClose
  <2>11. Buffered'
    BY <1>1, <2>1, BufferedStep
  <2> QED BY <2>1, <2>7, <2>8, <2>10, <2>11, AfterSlave
<1>12. ~Publish(t)
  BY <1>2 DEF Publish, Parity
<1> QED BY <1>4, <1>5, <1>6, <1>7, <1>8, <1>9, <1>10, <1>11, <1>12 DEF Round

\* New processes begin a round.
LEMMA NewRounds ==
  ASSUME TypeInv', team \in Teams, Started, NEW k \in Nat, \A n \in Node : cnt'[n] = k, master' = k - 1,
         \A t \in team : IsMaster(t) => local'[t] = k,
         \A n \in Used : \A i \in 0 .. MaxCnt : i = k - 1 => disk'[n][i].state = "closed"
  PROVE  RoundInv(k)'
<1>1. team' = team /\ Used' = Used /\ team \subseteq Thread /\ Used \subseteq Node /\ 0 \in Node
  BY Team DEF Started, Used
<1>2. \A t \in team : pc'[t] = "work" /\ mine'[t] = FALSE /\ entries'[t] = 0 /\ lock'[NodeOf[t]] = 0 /\ cnt'[NodeOf[t]] = k
  BY <1>1, Team DEF Started
<1>3. Pace'
  BY <1>1, <1>2 DEF Pace, Passed
<1>4. \A t \in team : IsMaster(t) => MasterAt(t, k)'
  BY <1>1, <1>2 DEF MasterAt, Started
<1>5. ASSUME NEW t \in team PROVE SlaveAt(t, k)'
  <2>1. ~Owns(t)' /\ Unlocked(t, k)'
    BY <1>2 DEF Owns, Unlocked
  <2>2. entries'[t] = 2 * 0
    BY <1>2
  <2>3. Parity(t)'
    BY <1>2, <2>2 DEF Parity
  <2> QED BY <1>2, <2>1, <2>3 DEF SlaveAt
<1>6. ASSUME NEW n \in Used PROVE Files(n, k)'
  <2>1. cnt'[n] = k
    BY <1>1
  <2>2. ASSUME NEW i \in 0 .. MaxCnt, i < k, k - 1 <= i PROVE disk'[n][i].state = "closed"
    <3>1. i \in Int
      BY Bound
    <3> QED BY <2>2, <3>1
  <2> QED BY <2>1, <2>2 DEF Files
<1>7. Buffered'
  BY <1>1, <1>2 DEF Buffered
<1> QED BY <1>1, <1>3, <1>4, <1>5, <1>6, <1>7 DEF RoundInv, IsMaster

\* The number in the .master file.
LEMMA MasterBound ==
  ASSUME TypeInv, team \in Teams, NEW b \in Nat, RoundInv(b)
  PROVE  master \in -1 .. MaxRounds
<1>1. PICK m \in team : IsMaster(m)
  BY Team
<1>2. MasterAt(m, b)
  BY <1>1 DEF RoundInv
<1>3. m \in Thread /\ 0 \in Node /\ MaxRounds \in Nat
  BY Team, Bound
<1>4. cnt[0] \in Nat /\ local[m] \in 0 .. MaxRounds
  BY <1>3 DEF TypeInv, Rounds
<1>5. cnt[0] <= MaxRounds
  BY <1>2, <1>3, <1>4 DEF MasterAt
<1>6. master = cnt[0] \/ master = cnt[0] - 1
  BY <1>2 DEF MasterAt
<1> QED BY <1>3, <1>4, <1>5, <1>6

\* A thread that shows how far the checkpoints of a slave are.
LEMMA Shows ==
  ASSUME TypeInv, team \in Teams, NEW b, RoundInv(b), NEW n \in Used, n # 0
  PROVE  \E s \in Here(n) : /\ Unlocked(s, b) \/ Locking(s, b)
                            /\ \A u \in Here(n) : pc[u] = "close" => pc[s] = "close"
<1>1. \A u \in Here(n) : SlaveAt(u, b) /\ NodeOf[u] = n
  BY DEF Here, IsMaster, RoundInv
<1>2. \A u \in Here(n) : pc[u] = "close" => Owns(u)
  BY <1>1 DEF SlaveAt, Parity, Owns
<1>3. PICK t \in Here(n) : TRUE
  BY DEF Used, Here
<1>4. lock[n] \in {0, 1}
  BY Team DEF TypeInv
<1>5. CASE lock[n] = 0
  <2>1. \A u \in Here(n) : ~Owns(u) /\ Unlocked(u, b)
    BY <1>1, <1>5 DEF SlaveAt
  <2> QED BY <1>2, <1>3, <2>1
<1>6. CASE lock[n] = 1
  <2>1. PICK s \in Here(n) : Owns(s)
    BY <1>1, <1>3, <1>6 DEF SlaveAt
  <2>2. Locking(s, b) /\ \A u \in Here(n) : Owns(u) => u = s
    BY <1>1, <2>1 DEF SlaveAt
  <2> QED BY <1>2, <2>2
<1> QED BY <1>4, <1>5, <1>6

\* The checkpoint the .master file names is whole while the master does not
\* write it: a slave is at most one checkpoint ahead.
LEMMA MasterWhole ==
  ASSUME TypeInv, team \in Teams, OneMaster, NEW b \in Nat, RoundInv(b), NEW m \in team, IsMaster(m),
         pc[m] \notin {"rotate", "close"}, master >= 0
  PROVE  Complete(master)
<1>1. m \in Thread /\ 0 \in Node /\ MasterAt(m, b) /\ NodeOf[m] = 0 /\ MaxRounds \in Nat /\ MaxCnt \in Nat /\ MaxRounds <= MaxCnt
  BY Team, Bound DEF RoundInv, IsMaster
<1>2. PICK k \in Nat : k = cnt[0]
  BY <1>1 DEF TypeInv
<1>3. entries[m] \in Nat /\ pc[m] \in Place
  BY <1>1 DEF TypeInv
<1>4. PICK i \in 0 .. MaxCnt : i = master
  BY <1>1, MasterBound
<1>5. i = k - 1
  BY <1>1, <1>2, <1>4 DEF MasterAt
<1>6. /\ b <= k /\ Passed(m) >= 2 * (k - b) - 1 /\ Passed(m) \in Int /\ entries[m] <= 2 * (k - b) + 1
  BY <1>1, <1>2, <1>3 DEF MasterAt, Passed
<1>7. SUFFICES ASSUME NEW n \in Used PROVE disk[n][i].state = "closed"
  BY <1>4 DEF Complete
<1>8. Files(n, b)
  BY DEF RoundInv
<1>9. CASE n = 0
  <2>1. \A t \in Here(0) : pc[t] # "close"
    BY <1>1 DEF Here, OneMaster, IsMaster
  <2>2. cnt[0] - 2 <= i /\ i < cnt[0] /\ b - 1 <= i
    BY <1>2, <1>5, <1>6
  <2> QED BY <1>8, <1>9, <2>1, <2>2 DEF Files
<1>10. CASE n # 0
  <2>1. PICK s \in Here(n) : /\ Unlocked(s, b) \/ Locking(s, b)
                             /\ \A u \in Here(n) : pc[u] = "close" => pc[s] = "close"
    BY <1>10, Shows
  <2>2. s \in team /\ s \in Thread /\ NodeOf[s] = n /\ n \in Node
    BY Team DEF Here
  <2>3. PICK j \in Nat : j = cnt[n]
    BY <2>2 DEF TypeInv
  <2>4. entries[s] \in Nat /\ Passed(m) <= entries[s] /\ Passed(s) <= entries[m]
    <3>1. entries[s] \in Nat
      BY <2>2 DEF TypeInv
    <3>2. Pace
      BY DEF RoundInv
    <3> QED BY <2>2, <3>1, <3>2 DEF Pace
  <2>5. /\ entries[s] <= 2 * (j - b) /\ Passed(s) >= 2 * (j - b) - 2 /\ Passed(s) \in Int
        /\ (pc[s] = "close" => entries[s] = 2 * (j - b) - 2)
    BY <2>1, <2>2, <2>3, <2>4 DEF Unlocked, Locking, Passed
  <2>6. j = k \/ j = k + 1
    <3>1. 2 * (k - b) - 1 <= 2 * (j - b)
      BY <1>6, <2>4, <2>5
    <3>2. 2 * (j - b) - 2 <= 2 * (k - b) + 1
      BY <1>3, <1>6, <2>4, <2>5
    <3>3. k <= j /\ j <= k + 1
      BY <3>1, <3>2
    <3> QED BY <3>3
  <2>7. pc[s] = "close" => j = k + 1
    <3>1. pc[s] = "close" => 2 * (k - b) - 1 <= 2 * (j - b) - 2
      BY <1>6, <2>4, <2>5
    <3> QED BY <2>6, <3>1
  <2>8. i = cnt[n] - 1 => \A u \in Here(n) : pc[u] # "close"
    BY <1>2, <1>5, <2>1, <2>3, <2>7
  <2>9. cnt[n] - 2 <= i /\ i < cnt[n] /\ b - 1 <= i
    BY <1>2, <1>5, <1>6, <2>3, <2>6
  <2> QED BY <1>8, <2>8, <2>9 DEF Files
<1> QED BY <1>9, <1>10

(***************************************************************************)
(* What the files hold.                                                    *)
(***************************************************************************)

\* A thread that is alone on its node.
Alone(t) == \A u \in team : NodeOf[u] = NodeOf[t] => u = t

\* A slave's thread counts a round before the node's checkpoint of it.
Counted(t) ==
  local[t] = cnt[NodeOf[t]] + (IF pc[t] \in {"check", "dump", "rotate"} THEN 1 ELSE 0)

\* Checkpoint i has the local variable of its thread at the end of round i + 1.
LocalsOf(t) ==
  /\ \A i \in 0 .. MaxCnt : disk[NodeOf[t]][i].state = "closed" => disk[NodeOf[t]][i].locals[t] = i + 1
  /\ pc[t] \in {"publish", "rotate", "close"} => buf[NodeOf[t]].locals[t] = local[t]

\* The cells of the program are dumped by the master, after all have written,
\* or by the node of the one thread that writes them.
Saved(T) ==
  \A t \in T : \A c \in Writes[t] :
    \/ c \in Dumped(0)
    \/ c \in Dumped(NodeOf[t]) /\ \A u \in T : c \in Writes[u] => u = t

\* A cell has the round of a thread that writes it.
Written == \A c \in Cell : (\E t \in team : c \in Writes[t]) => \E u \in team : c \in Writes[u] /\ mem[c] = local[u]

\* Checkpoint i has every cell as it was at the end of round i + 1.
CellsOf(t) ==
  \A c \in Dumped(NodeOf[t]) : (\E u \in team : c \in Writes[u]) =>
  /\ \A i \in 0 .. MaxCnt : disk[NodeOf[t]][i].state = "closed" => disk[NodeOf[t]][i].cells[c] = i + 1
  /\ pc[t] \in {"publish", "rotate", "close"} => buf[NodeOf[t]].cells[c] = local[t]

\* An Enter returns when the master has published the checkpoint of its round.
Acked(t) == acked[t] <= master + 1 /\ (up => acked[t] <= local[t])

\* What a thread's step does to the files of its node.
LEMMA FileChange ==
  ASSUME TypeInv, team \in Teams, NEW b \in Nat, RoundInv(b), NEW t \in team, Round(t), UNCHANGED team
  PROVE  /\ \E l : Step(t, l)
         /\ \A i \in 0 .. MaxCnt : disk'[NodeOf[t]][i].state = "closed" =>
              \/ disk'[NodeOf[t]][i] = disk[NodeOf[t]][i]
              \/ pc[t] = "close" /\ i = cnt[NodeOf[t]] - 1 /\ disk'[NodeOf[t]][i] = buf[NodeOf[t]]
         /\ pc'[t] \in {"publish", "rotate", "close"} =>
              /\ local'[t] = local[t]
              /\ \/ pc[t] = "dump" /\ buf'[NodeOf[t]] = DumpSharedMemory(NodeOf[t])
                 \/ pc[t] \in {"publish", "rotate"} /\ buf'[NodeOf[t]] = buf[NodeOf[t]]
<1>1. CASE Work(t)
  <2>1. PICK l \in {"enter1", "check"} : Step(t, l) /\ UNCHANGED <<buf, disk>>
    BY <1>1, WorkEffect
  <2> QED BY <2>1 DEF Step
<1>2. CASE EnterBarrier(t)
  <2>1. PICK l \in {"wait1", "wait2"} : Step(t, l) /\ UNCHANGED <<buf, disk>>
    BY <1>2, EnterEffect
  <2> QED BY <2>1 DEF Step
<1>3. CASE LeaveFirst(t)
  <2>1. PICK l \in {"check", "enter2"} : Step(t, l) /\ UNCHANGED <<buf, disk>>
    BY <1>3, FirstEffect
  <2> QED BY <2>1 DEF Step
<1>4. CASE LeaveSecond(t)
  <2>1. Step(t, "work") /\ UNCHANGED <<buf, disk>>
    BY <1>4, SecondEffect
  <2> QED BY <2>1 DEF Step
<1>5. CASE StartCheckPoint(t)
  <2>1. CASE Step(t, After(t)) /\ UNCHANGED disk
    <3>1. pc'[t] = After(t) /\ After(t) \notin {"publish", "rotate", "close"}
      BY <2>1 DEF Step, After
    <3> QED BY <2>1, <3>1
  <2>2. CASE Step(t, "dump") /\ Stores(NodeOf[t], cnt[NodeOf[t]], Open)
    <3>1. pc'[t] = "dump"
      BY <2>2 DEF Step
    <3>2. \A i \in 0 .. MaxCnt : disk'[NodeOf[t]][i].state = "closed" => disk'[NodeOf[t]][i] = disk[NodeOf[t]][i]
      BY <2>2 DEF Stores, Open
    <3> QED BY <2>2, <3>1, <3>2
  <2> QED BY <1>5, <2>1, <2>2, StartEffect, Zenon
<1>6. CASE Dump(t)
  <2>1. PICK l \in {"publish", "rotate"} :
          Step(t, l) /\ pc[t] = "dump" /\ buf'[NodeOf[t]] = DumpSharedMemory(NodeOf[t]) /\ UNCHANGED <<local, disk>>
    BY <1>6, DumpEffect
  <2> QED BY <2>1
<1>7. CASE Publish(t)
  <2>1. IsMaster(t)
    BY <1>7 DEF RoundInv, SlaveAt, Parity, Publish
  <2>2. Step(t, "rotate") /\ pc[t] = "publish" /\ UNCHANGED <<local, buf, disk>>
    BY <1>7, <2>1, PublishEffect
  <2> QED BY <2>2
<1>8. CASE Rotate(t)
  <2>1. /\ Step(t, "close") /\ pc[t] = "rotate" /\ Stores(NodeOf[t], cnt[NodeOf[t]] - 2, NoFile)
        /\ UNCHANGED <<local, buf>>
    BY <1>8, RotateEffect
  <2>2. \A i \in 0 .. MaxCnt : disk'[NodeOf[t]][i].state = "closed" => disk'[NodeOf[t]][i] = disk[NodeOf[t]][i]
    BY <2>1 DEF Stores, NoFile
  <2> QED BY <2>1, <2>2
<1>9. CASE Close(t)
  <2>1. Step(t, After(t)) /\ pc[t] = "close" /\ Stores(NodeOf[t], cnt[NodeOf[t]] - 1, buf[NodeOf[t]])
    BY <1>9, CloseEffect
  <2>2. pc'[t] = After(t) /\ After(t) \notin {"publish", "rotate", "close"}
    BY <2>1 DEF Step, After
  <2>3. \A i \in 0 .. MaxCnt : disk'[NodeOf[t]][i] = disk[NodeOf[t]][i] \/ (i = cnt[NodeOf[t]] - 1 /\ disk'[NodeOf[t]][i] = buf[NodeOf[t]])
    BY <2>1 DEF Stores
  <2> QED BY <2>1, <2>2, <2>3
<1> QED BY <1>1, <1>2, <1>3, <1>4, <1>5, <1>6, <1>7, <1>8, <1>9 DEF Round

\* At the end of its checkpoint a thread that is alone has counted as many
\* rounds as its node has checkpoints.
LEMMA ClosingRound ==
  ASSUME TypeInv, team \in Teams, NEW b, RoundInv(b), NEW t \in team, ~IsMaster(t) => Counted(t), pc[t] = "close"
  PROVE  local[t] = cnt[NodeOf[t]]
<1>1. CASE IsMaster(t)
  <2>1. MasterAt(t, b) /\ NodeOf[t] = 0
    BY <1>1 DEF RoundInv, IsMaster
  <2> QED BY <2>1 DEF MasterAt
<1>2. CASE ~IsMaster(t)
  <2>1. cnt[NodeOf[t]] \in Nat
    BY Team DEF TypeInv
  <2>2. local[t] = cnt[NodeOf[t]] + 0
    BY <1>2 DEF Counted
  <2> QED BY <2>1, <2>2
<1> QED BY <1>1, <1>2

\* A step of another node.
LEMMA OtherNode ==
  ASSUME team \in Teams, NEW t \in team, NEW u \in team, NodeOf[u] # NodeOf[t], NEW l, Step(u, l)
  PROVE  /\ pc'[t] = pc[t] /\ local'[t] = local[t] /\ entries'[t] = entries[t] /\ acked'[t] = acked[t]
         /\ cnt'[NodeOf[t]] = cnt[NodeOf[t]] /\ buf'[NodeOf[t]] = buf[NodeOf[t]] /\ disk'[NodeOf[t]] = disk[NodeOf[t]]
<1>1. t \in Thread /\ NodeOf[t] \in Node /\ u # t
  BY Team
<1> QED BY <1>1 DEF Step

\* A step keeps what the files say of the thread's rounds.
LEMMA LocalsStep ==
  ASSUME TypeInv, team \in Teams, NEW b \in Nat, RoundInv(b), NEW t \in team, Alone(t),
         ~IsMaster(t) => Counted(t), LocalsOf(t), NEW u \in team, Round(u), UNCHANGED team
  PROVE  LocalsOf(t)'
<1>1. t \in Thread /\ NodeOf[t] \in Node /\ MaxCnt \in Nat
  BY Team, Bound
<1>2. PICK l : Step(u, l)
  BY FileChange
<1>3. CASE NodeOf[u] # NodeOf[t]
  <2>1. /\ pc'[t] = pc[t] /\ local'[t] = local[t]
        /\ buf'[NodeOf[t]] = buf[NodeOf[t]] /\ disk'[NodeOf[t]] = disk[NodeOf[t]]
    BY <1>2, <1>3, OtherNode
  <2> QED BY <2>1 DEF LocalsOf
<1>4. CASE u = t
  <2>1. /\ \A i \in 0 .. MaxCnt : disk'[NodeOf[t]][i].state = "closed" =>
             \/ disk'[NodeOf[t]][i] = disk[NodeOf[t]][i]
             \/ pc[t] = "close" /\ i = cnt[NodeOf[t]] - 1 /\ disk'[NodeOf[t]][i] = buf[NodeOf[t]]
        /\ pc'[t] \in {"publish", "rotate", "close"} =>
             /\ local'[t] = local[t]
             /\ \/ pc[t] = "dump" /\ buf'[NodeOf[t]] = DumpSharedMemory(NodeOf[t])
                \/ pc[t] \in {"publish", "rotate"} /\ buf'[NodeOf[t]] = buf[NodeOf[t]]
    BY <1>4, FileChange
  <2>2. DumpSharedMemory(NodeOf[t]).locals[t] = local[t]
    BY <1>1 DEF DumpSharedMemory, Here
  <2>3. pc'[t] \in {"publish", "rotate", "close"} => buf'[NodeOf[t]].locals[t] = local'[t]
    BY <2>1, <2>2 DEF LocalsOf
  <2>4. ASSUME NEW i \in 0 .. MaxCnt, disk'[NodeOf[t]][i].state = "closed" PROVE disk'[NodeOf[t]][i].locals[t] = i + 1
    <3>1. CASE disk'[NodeOf[t]][i] = disk[NodeOf[t]][i]
      BY <2>4, <3>1 DEF LocalsOf
    <3>2. CASE pc[t] = "close" /\ i = cnt[NodeOf[t]] - 1 /\ disk'[NodeOf[t]][i] = buf[NodeOf[t]]
      <4>1. local[t] = cnt[NodeOf[t]] /\ cnt[NodeOf[t]] \in Nat
        BY <1>1, <3>2, ClosingRound DEF TypeInv
      <4>2. buf[NodeOf[t]].locals[t] = local[t]
        BY <3>2 DEF LocalsOf
      <4> QED BY <3>2, <4>1, <4>2
    <3> QED BY <2>1, <2>4, <3>1, <3>2
  <2> QED BY <2>3, <2>4 DEF LocalsOf
<1> QED BY <1>3, <1>4 DEF Alone

\* A step keeps the count of a slave's thread that is alone: nobody else takes
\* its checkpointlock.
LEMMA CountedStep ==
  ASSUME TypeInv, team \in Teams, NEW b \in Nat, RoundInv(b), NEW t \in team, Alone(t), ~IsMaster(t), Counted(t),
         NEW u \in team, Round(u), UNCHANGED team
  PROVE  Counted(t)'
<1>1. t \in Thread /\ NodeOf[t] \in Node /\ cnt[NodeOf[t]] \in Nat /\ local[t] \in Int
  BY Team, Bound DEF TypeInv, Rounds
<1>2. CASE NodeOf[u] # NodeOf[t]
  <2>1. PICK l : Step(u, l)
    BY FileChange
  <2>2. pc'[t] = pc[t] /\ local'[t] = local[t] /\ cnt'[NodeOf[t]] = cnt[NodeOf[t]]
    BY <1>2, <2>1, OtherNode
  <2> QED BY <2>2 DEF Counted
<1>3. CASE u = t
  <2>1. CASE Work(t)
    <3>1. pc[t] = "work" /\ Step(t, "check") /\ local'[t] = local[t] + 1 /\ UNCHANGED cnt
      BY <2>1, WorkEffect
    <3> QED BY <1>1, <3>1 DEF Step, Counted
  <2>2. CASE EnterBarrier(t)
    <3>1. PICK l \in {"wait1", "wait2"} : pc[t] \in {"enter1", "enter2"} /\ Step(t, l) /\ UNCHANGED <<local, cnt>>
      BY <2>2, EnterEffect
    <3> QED BY <1>1, <3>1 DEF Step, Counted
  <2>3. CASE LeaveFirst(t)
    <3>1. pc[t] = "wait1" /\ Step(t, "enter2") /\ UNCHANGED <<local, cnt>>
      BY <2>3, FirstEffect
    <3> QED BY <1>1, <3>1 DEF Step, Counted
  <2>4. CASE LeaveSecond(t)
    <3>1. pc[t] = "wait2" /\ Step(t, "work") /\ UNCHANGED <<local, cnt>>
      BY <2>4, SecondEffect
    <3> QED BY <1>1, <3>1 DEF Step, Counted
  <2>5. CASE StartCheckPoint(t)
    <3>1. pc[t] = "check" /\ UNCHANGED <<local, cnt>>
      BY <2>5, StartEffect
    <3>2. lock[NodeOf[t]] # 1
      <4>1. lock[NodeOf[t]] = 1 => \E o \in Here(NodeOf[t]) : Owns(o)
        BY DEF RoundInv, SlaveAt
      <4>2. \A o \in Here(NodeOf[t]) : o = t
        BY DEF Here, Alone
      <4>3. ~Owns(t)
        BY <3>1 DEF Owns
      <4> QED BY <4>1, <4>2, <4>3
    <3>3. Step(t, "dump")
      BY <2>5, <3>2, StartEffect, Zenon
    <3> QED BY <1>1, <3>1, <3>3 DEF Step, Counted
  <2>6. CASE Dump(t)
    <3>1. pc[t] = "dump" /\ Step(t, "rotate") /\ UNCHANGED <<local, cnt>>
      BY <2>6, DumpEffect
    <3> QED BY <1>1, <3>1 DEF Step, Counted
  <2>7. ~Publish(t)
    BY DEF RoundInv, SlaveAt, Parity, Publish
  <2>8. CASE Rotate(t)
    <3>1. pc[t] = "rotate" /\ Step(t, "close") /\ cnt'[NodeOf[t]] = cnt[NodeOf[t]] + 1 /\ UNCHANGED local
      BY <2>8, RotateEffect
    <3> QED BY <1>1, <3>1 DEF Step, Counted
  <2>9. CASE Close(t)
    <3>1. pc[t] = "close" /\ Step(t, "enter1") /\ UNCHANGED <<local, cnt>>
      BY <2>9, CloseEffect DEF After
    <3> QED BY <1>1, <3>1 DEF Step, Counted
  <2> QED BY <1>3, <2>1, <2>2, <2>3, <2>4, <2>5, <2>6, <2>7, <2>8, <2>9 DEF Round
<1> QED BY <1>2, <1>3 DEF Alone

(***************************************************************************)
(* The checkpoint named by the .master file.                               *)
(***************************************************************************)

CheckInv ==
  /\ TypeInv /\ master \in -1 .. MaxRounds
  /\ up => \E b \in Nat : RoundInv(b)
  /\ up => \A t \in team : Alone(t) /\ ~IsMaster(t) => Counted(t)
  /\ \A t \in team : Alone(t) => LocalsOf(t)

\* The state after all processes were started again.
LEMMA CheckStarted ==
  ASSUME TypeInv', team \in Teams, Started, master' \in -1 .. MaxRounds, NEW k \in Nat,
         up' => /\ \A n \in Node : cnt'[n] = k
                /\ master' = k - 1
                /\ \A t \in team : Alone(t) => local'[t] = k
                /\ \A n \in Used : \A i \in 0 .. MaxCnt : i = k - 1 => disk'[n][i].state = "closed",
         OneMaster,
         \A t \in team : Alone(t) => \A i \in 0 .. MaxCnt :
           disk'[NodeOf[t]][i].state = "closed" => disk'[NodeOf[t]][i].locals[t] = i + 1
  PROVE  CheckInv'
<1>1. team' = team /\ \A t \in team : pc'[t] = "work" /\ NodeOf[t] \in Node
  BY Team DEF Started
<1>2. \A t \in team : Alone(t)' <=> Alone(t)
  BY <1>1 DEF Alone
<1>3. \A t \in team : IsMaster(t) => Alone(t)
  BY DEF OneMaster, IsMaster, Alone
<1>4. up' => \E b \in Nat : RoundInv(b)'
  <2>1. ASSUME up' PROVE RoundInv(k)'
    BY <1>3, <2>1, NewRounds
  <2> QED BY <2>1
<1>5. ASSUME up', NEW t \in team, Alone(t) PROVE Counted(t)'
  <2>1. cnt'[NodeOf[t]] = k /\ local'[t] = k
    BY <1>1, <1>5
  <2> QED BY <1>1, <2>1 DEF Counted
<1>6. ASSUME NEW t \in team, Alone(t) PROVE LocalsOf(t)'
  BY <1>1, <1>6 DEF LocalsOf
<1> QED BY <1>1, <1>2, <1>4, <1>5, <1>6 DEF CheckInv, IsMaster

\* A crash and the restart from the checkpoint, or without one.
LEMMA CheckCrash ==
  ASSUME team \in Teams, OneMaster, CheckInv, Crash, UNCHANGED team
  PROVE  CheckInv'
<1>1. TypeInv /\ master \in -1 .. MaxCnt /\ master \in -1 .. MaxRounds /\ MaxRounds \in Nat /\ MaxCnt \in Nat /\ MaxRounds <= MaxCnt
  BY Bound DEF CheckInv
<1>2. PICK c \in -1 .. MaxCnt : c = master
  BY <1>1
<1>3. /\ TypeInv' /\ Started /\ UNCHANGED <<disk, master, acked>>
      /\ \/ c = -1 /\ Anew
         \/ c >= 0 /\ Complete(c) /\ Resumed(c)
         \/ ~up'
  BY <1>1, <1>2, CrashEffect
<1>4. \A t \in team : Alone(t) => \A i \in 0 .. MaxCnt :
        disk'[NodeOf[t]][i].state = "closed" => disk'[NodeOf[t]][i].locals[t] = i + 1
  BY <1>3 DEF CheckInv, LocalsOf
<1>5. PICK k \in Nat : k = c + 1
  BY <1>1, <1>2
<1>6. CASE c = -1 /\ Anew
  <2>1. k = 0 /\ (\A n \in Node : cnt'[n] = k) /\ master' = k - 1 /\ \A t \in team : local'[t] = k
    BY <1>2, <1>3, <1>5, <1>6, Team DEF Anew
  <2>2. \A i \in 0 .. MaxCnt : i # k - 1
    BY <1>1, <2>1
  <2> QED BY <1>1, <1>3, <1>4, <2>1, <2>2, CheckStarted
<1>7. CASE c >= 0 /\ Complete(c) /\ Resumed(c)
  <2>1. c \in 0 .. MaxCnt /\ k - 1 = c
    BY <1>1, <1>2, <1>5, <1>7
  <2>2. (\A n \in Node : cnt'[n] = k) /\ master' = k - 1
    BY <1>2, <1>3, <1>5, <1>7, <2>1 DEF Resumed
  <2>3. \A n \in Used : disk'[n][c].state = "closed"
    BY <1>3, <1>7 DEF Complete
  <2>4. ASSUME NEW t \in team, Alone(t) PROVE local'[t] = k
    <3>1. NodeOf[t] \in Used /\ disk'[NodeOf[t]][c].state = "closed"
      BY <2>3, Team
    <3>2. disk'[NodeOf[t]][c].locals[t] = c + 1
      BY <1>4, <2>1, <2>4, <3>1
    <3>3. local'[t] = disk'[NodeOf[t]][c].locals[t]
      BY <1>3, <1>7 DEF Resumed
    <3> QED BY <1>5, <3>2, <3>3
  <2> QED BY <1>1, <1>3, <1>4, <2>1, <2>2, <2>3, <2>4, CheckStarted
<1>8. CASE ~up'
  BY <1>1, <1>3, <1>4, <1>8, CheckStarted
<1> QED BY <1>3, <1>6, <1>7, <1>8

\* A restart by the master.
LEMMA CheckRestart ==
  ASSUME team \in Teams, OneMaster, CheckInv, RestartCluster, UNCHANGED team
  PROVE  CheckInv'
<1>1. TypeInv /\ MaxCnt \in Nat /\ MaxRounds \in Nat
  BY Bound DEF CheckInv
<1>2. /\ TypeInv' /\ Started /\ Anew /\ master' = -1
      /\ \A n \in Node : \A i \in 0 .. MaxCnt : disk'[n][i] \in {NoFile, disk[n][i]}
  BY <1>1, RestartEffect
<1>3. ASSUME NEW t \in team, Alone(t), NEW i \in 0 .. MaxCnt, disk'[NodeOf[t]][i].state = "closed"
      PROVE  disk'[NodeOf[t]][i].locals[t] = i + 1
  <2>1. disk'[NodeOf[t]][i] = disk[NodeOf[t]][i]
    BY <1>2, <1>3, Team DEF NoFile
  <2> QED BY <1>3, <2>1 DEF CheckInv, LocalsOf
<1>4. (\A n \in Node : cnt'[n] = 0) /\ master' = 0 - 1 /\ \A t \in team : local'[t] = 0
  BY <1>2, Team DEF Anew
<1>5. \A i \in 0 .. MaxCnt : i # 0 - 1
  BY <1>1
<1>6. master' \in -1 .. MaxRounds
  BY <1>1, <1>2
<1> QED BY <1>2, <1>3, <1>4, <1>5, <1>6, CheckStarted

\* The initial state.
LEMMA CheckInit == Init => CheckInv
<1> SUFFICES ASSUME Init PROVE CheckInv
  OBVIOUS
<1>1. 0 \in Rounds /\ MaxRounds \in Nat /\ MaxCnt \in Nat /\ NoFile \in File /\ Open \in File
  BY Bound DEF Rounds, File
<1>2. TypeInv
  <2>1. up \in BOOLEAN /\ pc \in [Thread -> Place] /\ mine \in [Thread -> BOOLEAN]
    BY DEF Init, Place
  <2>2. local \in [Thread -> Rounds] /\ mem \in [Cell -> Rounds] /\ buf \in [Node -> File]
    BY <1>1 DEF Init
  <2>3. disk \in [Node -> [0 .. MaxCnt -> File]]
    BY <1>1 DEF Init
  <2>4. cnt \in [Node -> Nat] /\ lock \in [Node -> {0, 1}] /\ master \in Int /\ entries \in [Thread -> Nat] /\ acked \in [Thread -> Nat]
    BY DEF Init
  <2> QED BY <2>1, <2>2, <2>3, <2>4 DEF TypeInv
<1>3. team \in Teams /\ team \subseteq Thread /\ 0 \in Node /\ \A t \in team : NodeOf[t] \in Node
  BY Team DEF Init
<1>4. \A t \in team : pc[t] = "work" /\ local[t] = 0 /\ mine[t] = FALSE /\ entries[t] = 0 /\ cnt[NodeOf[t]] = 0 /\ lock[NodeOf[t]] = 0
  BY <1>3 DEF Init
<1>5. \A n \in Node : cnt[n] = 0 /\ \A i \in 0 .. MaxCnt : disk[n][i] = NoFile
  BY DEF Init
<1>6. RoundInv(0)
  <2>1. Pace
    BY <1>4 DEF Pace, Passed
  <2>2. \A t \in team : IsMaster(t) => MasterAt(t, 0)
    BY <1>3, <1>4 DEF MasterAt, Init
  <2>3. ASSUME NEW t \in team PROVE SlaveAt(t, 0)
    <3>1. ~Owns(t) /\ Unlocked(t, 0)
      BY <1>4 DEF Owns, Unlocked
    <3>2. entries[t] = 2 * 0
      BY <1>4
    <3>3. Parity(t)
      BY <1>4, <3>2 DEF Parity
    <3> QED BY <1>4, <3>1, <3>3 DEF SlaveAt
  <2>4. ASSUME NEW n \in Used PROVE Files(n, 0)
    <3>1. cnt[n] = 0
      BY <1>3, <1>5, Team
    <3>2. \A i \in 0 .. MaxCnt : ~(i < 0)
      BY <1>1
    <3> QED BY <3>1, <3>2 DEF Files
  <2>5. Buffered
    BY <1>4 DEF Buffered
  <2> QED BY <2>1, <2>2, <2>3, <2>4, <2>5 DEF RoundInv
<1>7. ASSUME NEW t \in team PROVE Counted(t) /\ LocalsOf(t)
  <2>1. Counted(t)
    BY <1>4 DEF Counted
  <2>2. \A i \in 0 .. MaxCnt : disk[NodeOf[t]][i].state # "closed"
    BY <1>3, <1>5 DEF NoFile
  <2> QED BY <1>4, <2>1, <2>2 DEF LocalsOf
<1>8. master \in -1 .. MaxRounds
  BY <1>1 DEF Init
<1> QED BY <1>2, <1>6, <1>7, <1>8 DEF CheckInv

\* A step of a thread.
LEMMA CheckRound ==
  ASSUME team \in Teams, OneMaster, CheckInv, NEW u \in team, Round(u), UNCHANGED team
  PROVE  CheckInv'
<1>1. up
  BY DEF Round, Work, EnterBarrier, LeaveFirst, LeaveSecond, StartCheckPoint, Dump, Publish, Rotate, Close
<1>2. TypeInv /\ \E b \in Nat : RoundInv(b)
  BY <1>1 DEF CheckInv
<1>3. PICK b \in Nat : RoundInv(b)
  BY <1>2
<1>4. TypeInv' /\ RoundInv(b)'
  <2>1. CASE IsMaster(u)
    BY <1>2, <1>3, <2>1, MasterStep
  <2>2. CASE ~IsMaster(u)
    BY <1>2, <1>3, <2>2, SlaveStep
  <2> QED BY <2>1, <2>2
<1>5. team' \in Teams
  OBVIOUS
<1>6. master' \in -1 .. MaxRounds
  <2>1. PICK m \in team : IsMaster(m)
    BY Team
  <2>2. MasterAt(m, b)'
    BY <1>4, <2>1 DEF RoundInv, IsMaster
  <2>3. m \in Thread /\ 0 \in Node /\ MaxRounds \in Nat
    BY Team, Bound
  <2>4. cnt'[0] \in Nat /\ local'[m] \in 0 .. MaxRounds
    BY <1>4, <2>3 DEF TypeInv, Rounds
  <2>5. cnt'[0] <= MaxRounds
    BY <2>2, <2>3, <2>4 DEF MasterAt
  <2>6. master' = cnt'[0] \/ master' = cnt'[0] - 1
    BY <2>2 DEF MasterAt
  <2> QED BY <2>3, <2>4, <2>5, <2>6
<1>7. ASSUME NEW t \in team, Alone(t) PROVE (~IsMaster(t) => Counted(t)') /\ LocalsOf(t)'
  <2>1. (~IsMaster(t) => Counted(t)) /\ LocalsOf(t)
    BY <1>1, <1>7 DEF CheckInv
  <2>2. LocalsOf(t)'
    BY <1>2, <1>3, <1>7, <2>1, LocalsStep
  <2>3. ~IsMaster(t) => Counted(t)'
    BY <1>2, <1>3, <1>7, <2>1, CountedStep
  <2> QED BY <2>2, <2>3
<1>8. \A t \in team : Alone(t)' <=> Alone(t)
  BY DEF Alone
<1> QED BY <1>4, <1>6, <1>7, <1>8 DEF CheckInv, IsMaster

\* Teams do not change.
Safe == team \in Teams /\ (OneMaster => CheckInv)

\* Every step.
LEMMA CheckStep ==
  ASSUME Safe, [Next]_vars
  PROVE  Safe'
<1>1. team' = team
  BY DEF Next, vars
<1>2. OneMaster' <=> OneMaster
  BY <1>1 DEF OneMaster, IsMaster
<1>3. ASSUME OneMaster, CheckInv PROVE CheckInv'
  <2> team \in Teams
    BY DEF Safe
  <2>1. CASE \E u \in team : Round(u)
    BY <1>1, <1>3, <2>1, CheckRound
  <2>2. CASE Crash
    BY <1>1, <1>3, <2>2, CheckCrash
  <2>3. CASE RestartCluster
    BY <1>1, <1>3, <2>3, CheckRestart
  <2>4. CASE UNCHANGED vars
    <3>1. UNCHANGED <<team, up, pc, local, mem, cnt, lock, mine, buf, disk, master, entries, acked>>
      BY <2>4 DEF vars
    <3>2. TypeInv' /\ master' \in -1 .. MaxRounds
      BY <1>3, <3>1 DEF CheckInv, TypeInv
    <3>3. \A b : RoundInv(b)' <=> RoundInv(b)
      BY <3>1 DEF RoundInv, Pace, Passed, MasterAt, SlaveAt, Parity, Owns, Locking, Unlocked, Here, Files, Buffered, Used, IsMaster
    <3>4. \A t \in team : (Alone(t)' <=> Alone(t)) /\ (Counted(t)' <=> Counted(t)) /\ (LocalsOf(t)' <=> LocalsOf(t))
      BY <3>1 DEF Alone, Counted, LocalsOf
    <3> QED BY <1>3, <3>1, <3>2, <3>3, <3>4 DEF CheckInv, IsMaster
  <2> QED BY <2>1, <2>2, <2>3, <2>4 DEF Next
<1> QED BY <1>1, <1>2, <1>3 DEF Safe

\* The checkpoint the .master file names is whole on every node whenever the
\* master is not just writing it, for every number of slaves, threads on a
\* slave, rounds and crashes, when the program has one thread on the master.
THEOREM RecoverableHolds ==
  ASSUME \A T \in Teams : \A t, u \in T : IsMaster(t) /\ IsMaster(u) => t = u
  PROVE  Spec => []Recoverable
<1>1. Init => Safe
  BY CheckInit DEF Init, Safe
<1>2. Safe /\ [Next]_vars => Safe'
  BY CheckStep
<1>3. Safe => Recoverable
  <2> SUFFICES ASSUME team \in Teams, OneMaster => CheckInv, up, master >= 0, ~Unfinished PROVE Complete(master)
    BY DEF Recoverable, Safe
  <2>1. OneMaster
    BY DEF OneMaster
  <2>2. PICK b \in Nat : RoundInv(b)
    BY <2>1 DEF CheckInv
  <2>3. PICK m \in team : IsMaster(m)
    BY Team
  <2>4. pc[m] \notin {"rotate", "close"} /\ TypeInv
    BY <2>1, <2>3 DEF Unfinished, CheckInv
  <2> QED BY <2>1, <2>2, <2>3, <2>4, MasterWhole
<1> QED BY <1>1, <1>2, <1>3, PTL DEF Spec

(***************************************************************************)
(* What an Enter that returned is worth.                                   *)
(***************************************************************************)

\* A thread alone on its node that passes the second barrier: the master has
\* published the checkpoint of its round.
LEMMA ReturnPublished ==
  ASSUME TypeInv, team \in Teams, NEW b \in Nat, RoundInv(b), NEW t \in team, Alone(t), ~IsMaster(t) => Counted(t),
         pc[t] = "wait2", \A u \in team : entries[u] >= entries[t]
  PROVE  local[t] <= master + 1
<1>1. PICK m \in team : IsMaster(m)
  BY Team
<1>2. MasterAt(m, b) /\ m \in Thread /\ t \in Thread /\ 0 \in Node /\ NodeOf[t] \in Node
  BY <1>1, Team DEF RoundInv
<1>3. PICK k \in Nat : k = cnt[0]
  BY <1>2 DEF TypeInv
<1>4. master = k \/ master = k - 1
  BY <1>2, <1>3 DEF MasterAt
<1>5. CASE IsMaster(t)
  <2>1. MasterAt(t, b)
    BY <1>5 DEF RoundInv
  <2>2. local[t] = k
    BY <1>3, <2>1 DEF MasterAt
  <2> QED BY <1>4, <2>2
<1>6. CASE ~IsMaster(t)
  <2>1. SlaveAt(t, b)
    BY <1>6 DEF RoundInv
  <2>2. ~Owns(t) /\ \A o \in Here(NodeOf[t]) : o = t
    BY DEF Owns, Here, Alone
  <2>3. lock[NodeOf[t]] = 0
    BY <1>2, <2>1, <2>2 DEF SlaveAt, TypeInv
  <2>4. PICK j \in Nat : j = cnt[NodeOf[t]]
    BY <1>2 DEF TypeInv
  <2>5. entries[t] = 2 * (j - b)
    BY <2>1, <2>3, <2>4 DEF SlaveAt, Unlocked
  <2>6. local[t] = j
    BY <1>6, <2>4 DEF Counted
  <2>7. entries[m] \in Nat /\ entries[m] <= 2 * (k - b) + 1
    <3>1. entries[m] \in Nat
      BY <1>2 DEF TypeInv
    <3>2. entries[m] = 2 * (k - b) \/ entries[m] = 2 * (k - b) + 1 \/ entries[m] = 2 * (k - b) - 1
      BY <1>2, <1>3 DEF MasterAt
    <3> QED BY <3>1, <3>2
  <2>8. entries[m] >= 2 * (j - b)
    BY <1>1, <2>5
  <2>9. j <= k
    <3>1. PICK e \in Nat : e = entries[m]
      BY <2>7
    <3>2. e <= 2 * (k - b) + 1 /\ e >= 2 * (j - b)
      BY <2>7, <2>8, <3>1
    <3> QED BY <3>2
  <2> QED BY <1>4, <2>6, <2>9
<1> QED BY <1>5, <1>6

\* Nothing that was counted or published is taken back while the cluster runs.
LEMMA Grows ==
  ASSUME TypeInv, team \in Teams, NEW b \in Nat, RoundInv(b), NEW u \in team, Round(u), UNCHANGED team, NEW t \in team
  PROVE  /\ local'[t] >= local[t] /\ master' >= master
         /\ \/ acked'[t] = acked[t]
            \/ /\ t = u /\ pc[t] = "wait2" /\ (\A v \in team : entries[v] >= entries[t])
               /\ acked'[t] = local[t] /\ local'[t] = local[t] /\ master' = master
<1>1. t \in Thread /\ u \in Thread /\ local[t] \in Int /\ local[u] \in Int /\ master \in Int /\ 0 \in Node /\ cnt[0] \in Int
  BY Team, Bound DEF TypeInv, Rounds
<1>2. CASE Work(u)
  <2>1. local'[u] = local[u] + 1 /\ UNCHANGED <<master, acked>> /\ \A v \in Thread : v # u => local'[v] = local[v]
    BY <1>2, WorkEffect DEF Step
  <2>2. local'[t] >= local[t]
    BY <1>1, <2>1
  <2> QED BY <1>1, <2>1, <2>2
<1>3. CASE LeaveSecond(u)
  <2>1. /\ pc[u] = "wait2" /\ (\A v \in team : entries[v] >= entries[u]) /\ Step(u, "work") /\ acked'[u] = local[u]
        /\ UNCHANGED <<local, master>>
    BY <1>3, SecondEffect
  <2>2. t # u => acked'[t] = acked[t]
    BY <1>1, <2>1 DEF Step
  <2> QED BY <1>1, <2>1, <2>2
<1>4. CASE Publish(u)
  <2>1. IsMaster(u) /\ pc[u] = "publish"
    BY <1>4 DEF RoundInv, SlaveAt, Parity, Publish
  <2>2. master' = cnt[0] /\ UNCHANGED <<local, acked>>
    BY <1>4, <2>1, PublishEffect
  <2>3. MasterAt(u, b)
    BY <2>1 DEF RoundInv
  <2>4. master = cnt[0] - 1
    BY <2>1, <2>3 DEF MasterAt
  <2> QED BY <1>1, <2>2, <2>4
<1>5. CASE EnterBarrier(u) \/ LeaveFirst(u) \/ StartCheckPoint(u) \/ Dump(u) \/ Rotate(u) \/ Close(u)
  <2>1. UNCHANGED <<local, master, acked>>
    BY <1>5 DEF EnterBarrier, LeaveFirst, StartCheckPoint, Dump, Rotate, Close
  <2> QED BY <1>1, <2>1
<1> QED BY <1>2, <1>3, <1>4, <1>5 DEF Round

AckInv == (\A t \in team : Alone(t)) => \A t \in team : Acked(t)

\* A restart from a checkpoint gives a thread that is alone the rounds of it.
LEMMA CrashLocals ==
  ASSUME team \in Teams, CheckInv, Crash, UNCHANGED team, up', NEW t \in team, Alone(t)
  PROVE  local'[t] = master + 1
<1>1. TypeInv /\ master \in -1 .. MaxCnt /\ MaxCnt \in Nat /\ t \in Thread /\ NodeOf[t] \in Used
  BY Bound, Team DEF CheckInv
<1>2. PICK c \in -1 .. MaxCnt : c = master
  BY <1>1
<1>3. (c = -1 /\ Anew) \/ (c >= 0 /\ Complete(c) /\ Resumed(c))
  BY <1>1, <1>2, CrashEffect
<1>4. CASE c = -1 /\ Anew
  BY <1>1, <1>2, <1>4 DEF Anew
<1>5. CASE c >= 0 /\ Complete(c) /\ Resumed(c)
  <2>1. c \in 0 .. MaxCnt
    BY <1>1, <1>2, <1>5
  <2>2. disk[NodeOf[t]][c].locals[t] = c + 1
    BY <1>1, <1>5, <2>1 DEF CheckInv, LocalsOf, Complete
  <2> QED BY <1>2, <1>5, <2>2 DEF Resumed
<1> QED BY <1>3, <1>4, <1>5

\* Every step.
LEMMA AckStep ==
  ASSUME Safe, Safe', AckInv, [Next]_vars
  PROVE  AckInv'
<1>1. team' = team /\ team \in Teams
  BY DEF Next, vars, Safe
<1>2. SUFFICES ASSUME \A t \in team : Alone(t), NEW t \in team PROVE Acked(t)'
  BY <1>1 DEF AckInv, Alone
<1>3. OneMaster
  BY <1>2 DEF OneMaster, IsMaster, Alone
<1>4. CheckInv /\ TypeInv /\ master \in Int
  BY <1>3 DEF Safe, CheckInv, TypeInv
<1>5. TypeInv'
  BY <1>1, <1>3 DEF Safe, CheckInv, OneMaster, IsMaster
<1>6. /\ t \in Thread /\ local[t] \in Int /\ local'[t] \in Int /\ master' \in Int /\ acked[t] \in Nat /\ acked'[t] \in Nat
  BY <1>1, <1>4, <1>5, Team, Bound DEF TypeInv, Rounds
<1>7. acked[t] <= master + 1 /\ (up => acked[t] <= local[t])
  BY <1>2 DEF AckInv, Acked
<1>8. ASSUME NEW u \in team, Round(u) PROVE Acked(t)'
  <2>1. up
    BY <1>8 DEF Round, Work, EnterBarrier, LeaveFirst, LeaveSecond, StartCheckPoint, Dump, Publish, Rotate, Close
  <2>2. PICK b \in Nat : RoundInv(b)
    BY <1>4, <2>1 DEF CheckInv
  <2>3. /\ local'[t] >= local[t] /\ master' >= master
        /\ \/ acked'[t] = acked[t]
           \/ /\ t = u /\ pc[t] = "wait2" /\ (\A v \in team : entries[v] >= entries[t])
              /\ acked'[t] = local[t] /\ local'[t] = local[t] /\ master' = master
    BY <1>1, <1>4, <1>8, <2>2, Grows
  <2>4. CASE acked'[t] = acked[t]
    BY <1>4, <1>6, <1>7, <2>1, <2>3, <2>4 DEF Acked
  <2>5. CASE /\ pc[t] = "wait2" /\ (\A v \in team : entries[v] >= entries[t])
             /\ acked'[t] = local[t] /\ local'[t] = local[t] /\ master' = master
    <3>1. local[t] <= master + 1
      BY <1>1, <1>2, <1>4, <2>1, <2>2, <2>5, ReturnPublished DEF CheckInv
    <3> QED BY <1>6, <2>5, <3>1 DEF Acked
  <2> QED BY <2>3, <2>4, <2>5
<1>9. CASE Crash
  <2>1. UNCHANGED <<master, acked>>
    BY <1>9 DEF Crash
  <2>2. up' => local'[t] = master + 1
    BY <1>1, <1>2, <1>4, <1>9, CrashLocals
  <2> QED BY <1>7, <2>1, <2>2 DEF Acked
<1>10. CASE RestartCluster
  <2>1. Anew /\ master' = -1 /\ acked'[t] = 0
    BY <1>1, <1>4, <1>6, <1>10, RestartEffect
  <2>2. local'[t] = 0
    BY <1>6, <2>1 DEF Anew
  <2> QED BY <2>1, <2>2 DEF Acked
<1>11. CASE UNCHANGED vars
  BY <1>7, <1>11 DEF vars, Acked
<1> QED BY <1>8, <1>9, <1>10, <1>11 DEF Next

\* With one thread on each node every thread is alone on its node.
LEMMA OneEach ==
  ASSUME team \in Teams, OnePerNode
  PROVE  \A t \in team : Alone(t)
<1>1. SUFFICES ASSUME NEW t \in team, NEW u \in team, NodeOf[u] = NodeOf[t] PROVE u = t
  BY DEF Alone
<1>2. PICK H : H = Here(NodeOf[t])
  OBVIOUS
<1>3. t \in H /\ u \in H /\ H \subseteq Thread
  BY <1>1, <1>2, Team DEF Here
<1>4. IsFiniteSet(H)
  BY <1>3, ProgramAssumption, FS_Subset
<1>5. Cardinality(H) = 1
  BY <1>2, Team DEF OnePerNode
<1>6. PICK x : H = {x}
  BY <1>4, <1>5, FS_Singleton
<1> QED BY <1>3, <1>6

\* With one thread on each node, a crash at any moment does not take the program
\* back behind a round whose Enter has returned.
THEOREM DurableHolds == Spec => []Durable
<1>1. Init => Safe /\ AckInv
  <2>1. Init => Safe
    BY CheckInit DEF Init, Safe
  <2>2. Init => AckInv
    <3> SUFFICES ASSUME Init, NEW t \in team PROVE Acked(t)
      BY DEF AckInv
    <3>1. t \in Thread
      BY Team DEF Init
    <3> QED BY <3>1 DEF Init, Acked
  <2> QED BY <2>1, <2>2
<1>2. Safe /\ AckInv /\ [Next]_vars => (Safe /\ AckInv)'
  BY CheckStep, AckStep
<1>3. Safe /\ AckInv => Durable
  <2> SUFFICES ASSUME Safe, AckInv, OnePerNode, up, NEW t \in team PROVE local[t] >= acked[t]
    BY DEF Durable
  <2>1. (\A u \in team : Alone(u)) /\ team \in Teams
    BY OneEach DEF Safe
  <2>2. OneMaster
    BY <2>1 DEF OneMaster, IsMaster, Alone
  <2>3. local[t] \in Int /\ acked[t] \in Int
    BY <2>1, <2>2, Team, Bound DEF Safe, CheckInv, TypeInv, Rounds
  <2> QED BY <2>1, <2>3 DEF AckInv, Acked
<1> QED BY <1>1, <1>2, <1>3, PTL DEF Spec

(***************************************************************************)
(* What is read back.                                                      *)
(***************************************************************************)

\* When the master dumps, every thread is at the end of the master's round.
LEMMA SameRound ==
  ASSUME TypeInv, team \in Teams, NEW b \in Nat, RoundInv(b), NEW m \in team, IsMaster(m), pc[m] = "dump",
         NEW t \in team, Alone(t), ~IsMaster(t), Counted(t)
  PROVE  local[t] = local[m]
<1>1. MasterAt(m, b) /\ SlaveAt(t, b) /\ Pace
  BY DEF RoundInv
<1>2. t \in Thread /\ NodeOf[t] \in Node /\ 0 \in Node
  BY Team
<1>3. PICK k \in Nat, j \in Nat : k = cnt[0] /\ j = cnt[NodeOf[t]]
  BY <1>2 DEF TypeInv
<1>4. entries[m] = 2 * (k - b) + 1 /\ local[m] = k + 1
  BY <1>1, <1>3 DEF MasterAt
<1>5. Passed(m) = entries[m]
  BY DEF Passed
<1>6. entries[t] \in Nat /\ 2 * (k - b) + 1 <= entries[t] /\ Passed(t) <= 2 * (k - b) + 1
  <2>1. Passed(m) <= entries[t] /\ Passed(t) <= entries[m]
    BY <1>1 DEF Pace
  <2> QED BY <1>2, <1>4, <1>5, <2>1 DEF TypeInv
<1>7. Unlocked(t, b) \/ Locking(t, b)
  <2>1. \A o \in Here(NodeOf[t]) : o = t
    BY DEF Here, Alone
  <2> QED BY <1>1, <1>2, <2>1 DEF SlaveAt, TypeInv
<1>8. CASE pc[t] \in {"work", "check", "dump", "rotate"} /\ entries[t] = 2 * (j - b)
  <2>1. Passed(t) = entries[t]
    BY <1>8 DEF Passed
  <2> QED BY <1>6, <1>8, <2>1
<1>9. CASE pc[t] \in {"close", "enter1"} /\ entries[t] = 2 * (j - b) - 2
  <2>1. Passed(t) = entries[t]
    BY <1>9 DEF Passed
  <2> QED BY <1>6, <1>9, <2>1
<1>10. CASE pc[t] = "wait2" /\ entries[t] = 2 * (j - b)
  <2>1. Passed(t) = entries[t] - 1
    BY <1>10 DEF Passed
  <2>2. j = k + 1
    BY <1>6, <1>10, <2>1
  <2> QED BY <1>3, <1>4, <1>10, <2>2 DEF Counted
<1>11. CASE pc[t] \in {"wait1", "enter2"} /\ entries[t] = 2 * (j - b) - 1
  <2>1. Passed(t) = entries[t] \/ Passed(t) = entries[t] - 1
    BY <1>11 DEF Passed
  <2>2. j = k + 1
    BY <1>6, <1>11, <2>1
  <2> QED BY <1>3, <1>4, <1>11, <2>2 DEF Counted
<1> QED BY <1>3, <1>7, <1>8, <1>9, <1>10, <1>11 DEF Unlocked, Locking

\* A cell is dumped by one node.
LEMMA OneDumper ==
  ASSUME NEW c, NEW n, NEW o, c \in Dumped(n), c \in Dumped(o)
  PROVE  n = o /\ c \in Cell
<1>1. Globals \cap Object = {}
  BY ProgramAssumption
<1>2. \A p : c \in Dumped(p) => (c \in Object /\ Owner[c] = p) \/ (p = 0 /\ c \in Globals)
  BY DEF Dumped, Globals
<1> QED BY <1>1, <1>2 DEF Cell

\* The cells a node dumps are at the end of the round its thread has counted.
LEMMA DumpedRound ==
  ASSUME TypeInv, team \in Teams, NEW b \in Nat, RoundInv(b), \A u \in team : Alone(u),
         \A u \in team : ~IsMaster(u) => Counted(u), Saved(team), Written,
         NEW t \in team, pc[t] = "dump", NEW c \in Dumped(NodeOf[t]), \E u \in team : c \in Writes[u]
  PROVE  mem[c] = local[t]
<1>1. c \in Cell
  BY OneDumper
<1>2. PICK u \in team : c \in Writes[u] /\ mem[c] = local[u]
  BY <1>1 DEF Written
<1>3. CASE IsMaster(t)
  <2>1. CASE IsMaster(u)
    BY <1>2, <1>3, <2>1 DEF Alone, IsMaster
  <2>2. CASE ~IsMaster(u)
    BY <1>2, <1>3, <2>2, SameRound
  <2> QED BY <2>1, <2>2
<1>4. CASE ~IsMaster(t)
  <2>1. c \notin Dumped(0)
    BY <1>4, OneDumper DEF IsMaster
  <2>2. c \in Dumped(NodeOf[u])
    BY <1>2, <2>1 DEF Saved
  <2>3. NodeOf[u] = NodeOf[t]
    BY <2>2, OneDumper
  <2> QED BY <1>2, <2>3 DEF Alone
<1> QED BY <1>3, <1>4

\* A step keeps what the files say of the cells.
LEMMA CellsStep ==
  ASSUME TypeInv, team \in Teams, NEW b \in Nat, RoundInv(b), \A v \in team : Alone(v),
         \A v \in team : ~IsMaster(v) => Counted(v), Saved(team), Written,
         NEW t \in team, CellsOf(t), NEW u \in team, Round(u), UNCHANGED team
  PROVE  CellsOf(t)'
<1>1. t \in Thread /\ NodeOf[t] \in Node /\ MaxCnt \in Nat /\ team' = team
  BY Team, Bound
<1>2. PICK l : Step(u, l)
  BY FileChange
<1>3. CASE NodeOf[u] # NodeOf[t]
  <2>1. /\ pc'[t] = pc[t] /\ local'[t] = local[t]
        /\ buf'[NodeOf[t]] = buf[NodeOf[t]] /\ disk'[NodeOf[t]] = disk[NodeOf[t]]
    BY <1>2, <1>3, OtherNode
  <2> QED BY <1>1, <2>1 DEF CellsOf
<1>4. CASE u = t
  <2>1. /\ \A i \in 0 .. MaxCnt : disk'[NodeOf[t]][i].state = "closed" =>
             \/ disk'[NodeOf[t]][i] = disk[NodeOf[t]][i]
             \/ pc[t] = "close" /\ i = cnt[NodeOf[t]] - 1 /\ disk'[NodeOf[t]][i] = buf[NodeOf[t]]
        /\ pc'[t] \in {"publish", "rotate", "close"} =>
             /\ local'[t] = local[t]
             /\ \/ pc[t] = "dump" /\ buf'[NodeOf[t]] = DumpSharedMemory(NodeOf[t])
                \/ pc[t] \in {"publish", "rotate"} /\ buf'[NodeOf[t]] = buf[NodeOf[t]]
    BY <1>4, FileChange
  <2>2. ASSUME NEW c \in Dumped(NodeOf[t]), \E v \in team : c \in Writes[v]
        PROVE  /\ \A i \in 0 .. MaxCnt : disk'[NodeOf[t]][i].state = "closed" => disk'[NodeOf[t]][i].cells[c] = i + 1
               /\ pc'[t] \in {"publish", "rotate", "close"} => buf'[NodeOf[t]].cells[c] = local'[t]
    <3>1. /\ \A i \in 0 .. MaxCnt : disk[NodeOf[t]][i].state = "closed" => disk[NodeOf[t]][i].cells[c] = i + 1
          /\ pc[t] \in {"publish", "rotate", "close"} => buf[NodeOf[t]].cells[c] = local[t]
      BY <2>2 DEF CellsOf
    <3>2. c \in Cell
      BY OneDumper
    <3>3. pc[t] = "dump" => DumpSharedMemory(NodeOf[t]).cells[c] = local[t]
      <4>1. DumpSharedMemory(NodeOf[t]).cells[c] = mem[c]
        BY <3>2 DEF DumpSharedMemory
      <4>2. pc[t] = "dump" => mem[c] = local[t]
        BY <2>2, DumpedRound
      <4> QED BY <4>1, <4>2
    <3>4. pc'[t] \in {"publish", "rotate", "close"} => buf'[NodeOf[t]].cells[c] = local'[t]
      BY <2>1, <3>1, <3>3
    <3>5. ASSUME NEW i \in 0 .. MaxCnt, disk'[NodeOf[t]][i].state = "closed" PROVE disk'[NodeOf[t]][i].cells[c] = i + 1
      <4>1. CASE disk'[NodeOf[t]][i] = disk[NodeOf[t]][i]
        BY <3>1, <3>5, <4>1
      <4>2. CASE pc[t] = "close" /\ i = cnt[NodeOf[t]] - 1 /\ disk'[NodeOf[t]][i] = buf[NodeOf[t]]
        <5>1. local[t] = cnt[NodeOf[t]] /\ cnt[NodeOf[t]] \in Nat
          BY <1>1, <4>2, ClosingRound DEF TypeInv
        <5> QED BY <3>1, <4>2, <5>1
      <4> QED BY <2>1, <3>5, <4>1, <4>2
    <3> QED BY <3>4, <3>5
  <2> QED BY <1>1, <2>2 DEF CellsOf
<1> QED BY <1>3, <1>4 DEF Alone

\* A step keeps the cells at a round of a thread that writes them.
LEMMA WrittenStep ==
  ASSUME TypeInv, team \in Teams, Written, NEW u \in team, Round(u), UNCHANGED team
  PROVE  Written'
<1>1. CASE Work(u)
  <2>1. /\ local'[u] = local[u] + 1 /\ (\A v \in Thread : v # u => local'[v] = local[v])
        /\ \A c \in Cell : mem'[c] = IF c \in Writes[u] THEN local[u] + 1 ELSE mem[c]
    BY <1>1, WorkEffect DEF Step
  <2>2. ASSUME NEW c \in Cell, \E t \in team : c \in Writes[t] PROVE \E v \in team : c \in Writes[v] /\ mem'[c] = local'[v]
    <3>1. CASE c \in Writes[u]
      BY <2>1, <3>1
    <3>2. CASE c \notin Writes[u]
      <4>1. PICK v \in team : c \in Writes[v] /\ mem[c] = local[v]
        BY <2>2 DEF Written
      <4>2. v \in Thread /\ v # u
        BY <3>2, <4>1, Team
      <4> QED BY <2>1, <3>2, <4>1, <4>2
    <3> QED BY <3>1, <3>2
  <2> QED BY <2>2 DEF Written
<1>2. CASE ~Work(u)
  <2>1. UNCHANGED <<local, mem>>
    BY <1>2 DEF Round, EnterBarrier, LeaveFirst, LeaveSecond, StartCheckPoint, Dump, Publish, Rotate, Close
  <2> QED BY <2>1 DEF Written
<1> QED BY <1>1, <1>2

\* What a checkpoint has of the cells.
LEMMA ReadBack ==
  ASSUME TypeInv, team \in Teams, Saved(team), \A t \in team : CellsOf(t), NEW c \in 0 .. MaxCnt, Complete(c),
         NEW x \in Cell, \E t \in team : x \in Writes[t]
  PROVE  /\ \E n \in Used : x \in Dumped(n)
         /\ \A n \in Used : x \in Dumped(n) => disk[n][c].cells[x] = c + 1
<1>1. PICK t \in team : x \in Writes[t]
  OBVIOUS
<1>2. \E n \in Used : x \in Dumped(n)
  BY <1>1, Team DEF Saved
<1>3. ASSUME NEW n \in Used, x \in Dumped(n) PROVE disk[n][c].cells[x] = c + 1
  <2>1. PICK u \in team : NodeOf[u] = n
    BY DEF Used
  <2> QED BY <1>1, <1>3, <2>1 DEF CellsOf, Complete
<1> QED BY <1>2, <1>3

CellInv == (\A t \in team : Alone(t)) /\ Saved(team) => (up => Written) /\ \A t \in team : CellsOf(t)

\* Every step.
LEMMA CellStep ==
  ASSUME Safe, Safe', CellInv, [Next]_vars
  PROVE  CellInv'
<1>1. team' = team /\ team \in Teams
  BY DEF Next, vars, Safe
<1>2. SUFFICES ASSUME \A t \in team : Alone(t), Saved(team) PROVE (up => Written)' /\ \A t \in team : CellsOf(t)'
  BY <1>1 DEF CellInv, Alone, Saved
<1>3. OneMaster
  BY <1>2 DEF OneMaster, IsMaster, Alone
<1>4. CheckInv /\ TypeInv
  BY <1>3 DEF Safe, CheckInv
<1>5. (up => Written) /\ \A t \in team : CellsOf(t)
  BY <1>2 DEF CellInv
<1>6. ASSUME NEW u \in team, Round(u) PROVE Written' /\ \A t \in team : CellsOf(t)'
  <2>1. up
    BY <1>6 DEF Round, Work, EnterBarrier, LeaveFirst, LeaveSecond, StartCheckPoint, Dump, Publish, Rotate, Close
  <2>2. PICK b \in Nat : RoundInv(b)
    BY <1>4, <2>1 DEF CheckInv
  <2>3. \A t \in team : ~IsMaster(t) => Counted(t)
    BY <1>2, <1>4, <2>1 DEF CheckInv
  <2>4. Written'
    BY <1>1, <1>4, <1>5, <1>6, <2>1, WrittenStep
  <2>5. \A t \in team : CellsOf(t)'
    BY <1>1, <1>2, <1>4, <1>5, <1>6, <2>1, <2>2, <2>3, CellsStep
  <2> QED BY <2>4, <2>5
<1>7. CASE Crash
  <2>1. TypeInv /\ master \in -1 .. MaxCnt /\ MaxCnt \in Nat
    BY <1>4, Bound DEF CheckInv
  <2>2. PICK c \in -1 .. MaxCnt : c = master
    BY <2>1
  <2>3. /\ Started /\ UNCHANGED disk
        /\ (c = -1 /\ Anew) \/ (c >= 0 /\ Complete(c) /\ Resumed(c)) \/ ~up'
    BY <1>1, <1>7, <2>1, <2>2, CrashEffect
  <2>4. \A t \in team : CellsOf(t)'
    <3>1. \A t \in team : pc'[t] = "work"
      BY <1>1, <2>3, Team DEF Started
    <3> QED BY <1>1, <1>5, <2>3, <3>1 DEF CellsOf
  <2>5. ASSUME up', NEW x \in Cell, NEW t \in team, x \in Writes[t] PROVE mem'[x] = local'[t]
    <3>1. local'[t] = c + 1
      BY <1>1, <1>2, <1>4, <1>7, <2>2, <2>5, CrashLocals
    <3>2. CASE c = -1 /\ Anew
      BY <3>1, <3>2 DEF Anew
    <3>3. CASE c >= 0 /\ Complete(c) /\ Resumed(c)
      <4>1. c \in 0 .. MaxCnt
        BY <2>1, <2>2, <3>3
      <4>2. /\ \E n \in Used : x \in Dumped(n)
            /\ \A n \in Used : x \in Dumped(n) => disk[n][c].cells[x] = c + 1
        BY <1>1, <1>2, <1>5, <2>1, <2>5, <3>3, <4>1, ReadBack
      <4>3. \E n \in Used : x \in Dumped(n) /\ mem'[x] = disk[n][c].cells[x]
        BY <3>3, <4>2 DEF Resumed
      <4> QED BY <3>1, <4>2, <4>3
    <3> QED BY <2>3, <2>5, <3>2, <3>3
  <2>6. (up => Written)'
    BY <1>1, <2>5 DEF Written
  <2> QED BY <2>4, <2>6
<1>8. CASE RestartCluster
  <2>1. /\ Started /\ Anew /\ \A n \in Node : \A i \in 0 .. MaxCnt : disk'[n][i] \in {NoFile, disk[n][i]}
    BY <1>1, <1>4, <1>8, RestartEffect
  <2>2. Written'
    BY <1>1, <2>1, Team DEF Written, Anew
  <2>3. ASSUME NEW t \in team PROVE CellsOf(t)'
    <3>1. pc'[t] = "work" /\ NodeOf[t] \in Node
      BY <1>1, <2>1, Team DEF Started
    <3>2. \A i \in 0 .. MaxCnt : disk'[NodeOf[t]][i].state = "closed" => disk'[NodeOf[t]][i] = disk[NodeOf[t]][i]
      BY <2>1, <3>1 DEF NoFile
    <3>3. CellsOf(t)
      BY <1>5
    <3>4. ASSUME NEW c \in Dumped(NodeOf[t]), \E u \in team : c \in Writes[u], NEW i \in 0 .. MaxCnt,
                 disk'[NodeOf[t]][i].state = "closed"
          PROVE  disk'[NodeOf[t]][i].cells[c] = i + 1
      <4>1. disk'[NodeOf[t]][i] = disk[NodeOf[t]][i]
        BY <3>2, <3>4
      <4>2. disk[NodeOf[t]][i].state = "closed"
        BY <3>4, <4>1
      <4>3. disk[NodeOf[t]][i].cells[c] = i + 1
        BY <3>3, <3>4, <4>2 DEF CellsOf
      <4> QED BY <4>1, <4>3
    <3> QED BY <1>1, <3>1, <3>4 DEF CellsOf
  <2> QED BY <2>2, <2>3
<1>9. CASE UNCHANGED vars
  <2>1. UNCHANGED <<team, up, pc, local, mem, buf, disk>>
    BY <1>9 DEF vars
  <2> QED BY <1>5, <2>1 DEF Written, CellsOf
<1> QED BY <1>6, <1>7, <1>8, <1>9 DEF Next

\* With one thread on each node, and every cell dumped by the master or by the
\* node of its only writer, the files of the checkpoint the .master file names
\* give back the end of one round for all threads and cells.
THEOREM ConsistentCutHolds ==
  ASSUME \A T \in Teams : Saved(T)
  PROVE  Spec => []ConsistentCut
<1>1. Init => Safe /\ CellInv
  <2>1. Init => Safe
    BY CheckInit DEF Init, Safe
  <2>2. Init => CellInv
    <3> SUFFICES ASSUME Init PROVE Written /\ \A t \in team : CellsOf(t)
      BY DEF CellInv
    <3>1. team \subseteq Thread /\ \A t \in team : NodeOf[t] \in Node
      BY Team DEF Init
    <3>2. Written
      BY <3>1 DEF Init, Written
    <3>3. ASSUME NEW t \in team PROVE CellsOf(t)
      <4>1. pc[t] = "work" /\ \A i \in 0 .. MaxCnt : disk[NodeOf[t]][i].state # "closed"
        BY <3>1 DEF Init, NoFile
      <4> QED BY <4>1 DEF CellsOf
    <3> QED BY <3>2, <3>3
  <2> QED BY <2>1, <2>2
<1>2. Safe /\ CellInv /\ [Next]_vars => (Safe /\ CellInv)'
  BY CheckStep, CellStep
<1>3. Safe /\ CellInv => ConsistentCut
  <2> SUFFICES ASSUME Safe, CellInv, OnePerNode, master >= 0, Complete(master), NEW t \in team, NEW x \in Writes[t]
               PROVE  RestoreSharedMemory(master)[x] = Deserialize(master)[t]
    BY DEF ConsistentCut
  <2>1. (\A u \in team : Alone(u)) /\ team \in Teams /\ Saved(team)
    BY OneEach DEF Safe
  <2>2. OneMaster
    BY <2>1 DEF OneMaster, IsMaster, Alone
  <2>3. CheckInv /\ TypeInv /\ \A u \in team : CellsOf(u)
    BY <2>1, <2>2 DEF Safe, CheckInv, CellInv
  <2>4. PICK c \in 0 .. MaxCnt : c = master
    BY <2>3, Bound DEF CheckInv
  <2>5. Complete(c)
    BY <2>4
  <2>6. t \in Thread /\ NodeOf[t] \in Used /\ x \in Cell
    BY <2>1, Team, ProgramAssumption
  <2>7. Deserialize(c)[t] = disk[NodeOf[t]][c].locals[t]
    BY <2>1, <2>3, <2>5, RestoreType
  <2>8. disk[NodeOf[t]][c].locals[t] = c + 1
    BY <2>1, <2>3, <2>5, <2>6 DEF CheckInv, LocalsOf, Complete
  <2>9. /\ \E n \in Used : x \in Dumped(n)
        /\ \A n \in Used : x \in Dumped(n) => disk[n][c].cells[x] = c + 1
    BY <2>1, <2>3, <2>5, <2>6, ReadBack
  <2>10. \E n \in Used : x \in Dumped(n) /\ RestoreSharedMemory(c)[x] = disk[n][c].cells[x]
    BY <2>1, <2>3, <2>5, <2>6, <2>9, RestoreType
  <2> QED BY <2>4, <2>7, <2>8, <2>9, <2>10
<1> QED BY <1>1, <1>2, <1>3, PTL DEF Spec
=============================================================================
