---------------------------- MODULE Accumulator ----------------------------
(***************************************************************************)
(* Vector accumulation in Dogee: DAddAccumulator::AccumulateAndWait.       *)
(*                                                                         *)
(* The vector is split into one part per node.  A call sends every part to *)
(* the node responsible for it, in packets; a node that has the last       *)
(* packet of all users writes the sum of its part to the output array and  *)
(* reports to the master, which wakes the callers once all nodes have      *)
(* reported.                                                               *)
(*                                                                         *)
(* All elements of the vector a user sends in a round are equal and not    *)
(* zero.  How many elements a packet takes depends on its data (dense or   *)
(* sparse); here it is any number.  Calls have no timeout.                 *)
(***************************************************************************)
EXTENDS Integers, Sequences, FiniteSetsExt

CONSTANTS
  N,          \* num_nodes; node 0 is the master
  User,       \* the threads that call AccumulateAndWait
  NodeOf,     \* the node each user runs on
  VecLen,     \* length of the vector, in words
  BlockSize,  \* DSM_CACHE_BLOCK_SIZE
  In,         \* In[u][r]: the elements user u sends in its r-th call
  MaxRounds   \* bound on the calls of a user

Node == 0 .. N - 1
Word == 0 .. VecLen - 1

ASSUME AccumulatorAssumption ==
  /\ N \in Nat \ {0} /\ VecLen \in Nat /\ BlockSize \in Nat \ {0} /\ MaxRounds \in Nat
  /\ IsFiniteSet(User) /\ NodeOf \in [User -> Node]
  /\ In \in [User -> [1 .. MaxRounds -> Nat \ {0}]]

VARIABLES
  pc,       \* where each user is: new, idle, local, send or wait
  round,    \* per user, calls begun
  next,     \* next[u][i]: send_idx, the next word of i's part to send
  done,     \* per user, "done": the parts that need no more packets
  ready,    \* per user, its local Event
  wakes,    \* per user, WakeSync commands on their way
  data,     \* data[a][b]: the data socket from node a to node b
  val,      \* per node, users whose last packet has come
  buf,      \* per node, the sum of what has come
  doneCnt,  \* master: done_node_cnt
  waits,    \* master: waitlist
  out       \* the output array in the shared memory

vars == <<pc, round, next, done, ready, wakes, data, val, buf, doneCnt, waits, out>>
-----------------------------------------------------------------------------
(* The split of the vector.                                                *)

CeilDiv(a, b) == IF a % b = 0 THEN a \div b ELSE a \div b + 1
Blocks == CeilDiv(CeilDiv(VecLen, BlockSize), N)

\* The part of node i as the sender cuts it.
Lo(i) == i * Blocks * BlockSize
HiUnclipped(i) == Lo(i) + Blocks * BlockSize   \* mutant: tail not clipped
Hi(i) == IF Blocks * BlockSize + Lo(i) > VecLen THEN VecLen ELSE Lo(i) + Blocks * BlockSize
EmptyPart(i) == Hi(i) <= Lo(i)

\* The part of node i as it allocates its buffer.
Base(i) == Blocks * i * BlockSize
Size(i) == IF Blocks * BlockSize * (i + 1) <= VecLen THEN Blocks * BlockSize
           ELSE IF VecLen < Blocks * i * BlockSize THEN 0 ELSE VecLen - Blocks * i * BlockSize
-----------------------------------------------------------------------------
(* A node's side.                                                          *)

Zero == [w \in Word |-> 0]
Packet(u, lo, hi, last) ==
  [kind |-> "Accumulate", thread |-> u, lo |-> lo, hi |-> hi, last |-> last,
   add |-> In[u][round[u]]]
EmptyPacket(u, i) ==
  [kind |-> "Accumulate", thread |-> u, lo |-> Lo(i), hi |-> Lo(i), last |-> TRUE, add |-> 0]
PartialDone == [kind |-> "PartialDone"]

\* DoAccumulateDense, DoAccumulateSparse
Added(b, m) == [w \in Word |-> IF m.lo <= w /\ w < m.hi THEN b[w] + m.add ELSE b[w]]
\* putchunk of the node's buffer to the output array
Stored(n, b) ==
  [w \in Word |-> IF Base(n) <= w /\ w < Base(n) + Size(n) THEN b[w] ELSE out[w]]

\* RcWakeRemoteThread for the entries of ws.
Wake(ws) ==
  LET T == {ws[i] : i \in DOMAIN ws} IN
  /\ ready' = [u \in User |-> ready[u] \/ (u \in T /\ NodeOf[u] = 0)]
  /\ wakes' = [u \in User |-> wakes[u] + Cardinality({i \in DOMAIN ws : ws[i] = u /\ NodeOf[u] # 0})]

AllDoneButOne(c) == c >= N - 1     \* mutant: the own node is not counted
AllDone(c) == c >= N

\* AcAccumulatePartialDoneMsg, with wait list ws.
AccumulatePartialDone(ws) ==
  \/ /\ AllDone(doneCnt + 1)
     /\ Wake(ws)
     /\ doneCnt' = 0
     /\ waits' = <<>>
  \/ /\ ~AllDone(doneCnt + 1)
     /\ doneCnt' = doneCnt + 1
     /\ waits' = ws
     /\ UNCHANGED <<ready, wakes>>

LastUserLate(v) == v > Cardinality(User)   \* mutant: > for >=
LastUser(v) == v >= Cardinality(User)

\* AcAccumulateMsg at node n under the manager's lock; ch are the sockets after
\* the packet was taken.
AccumulateMsg(n, m, ch) ==
  LET b == Added(buf[n], m)
      ws == IF n = 0 THEN Append(waits, m.thread) ELSE waits IN
  \/ /\ ~m.last
     /\ buf' = [buf EXCEPT ![n] = b]
     /\ data' = ch
     /\ UNCHANGED <<val, doneCnt, waits, out, ready, wakes>>
  \/ /\ m.last /\ ~LastUser(val[n] + 1)
     /\ buf' = [buf EXCEPT ![n] = b]
     /\ val' = [val EXCEPT ![n] = @ + 1]
     /\ waits' = ws
     /\ data' = ch
     /\ UNCHANGED <<doneCnt, out, ready, wakes>>
  \/ /\ m.last /\ LastUser(val[n] + 1)
     /\ out' = Stored(n, b)
     /\ buf' = [buf EXCEPT ![n] = Zero]
     /\ val' = [val EXCEPT ![n] = 0]
     /\ \/ n = 0 /\ AccumulatePartialDone(ws) /\ data' = ch
        \/ /\ n # 0
           /\ data' = [ch EXCEPT ![n][0] = Append(@, PartialDone)]
           /\ UNCHANGED <<doneCnt, waits, ready, wakes>>

\* AcListenData of node b takes the next packet of the socket from a.
ListenData(a, b) ==
  LET m == Head(data[a][b])
      ch == [data EXCEPT ![a][b] = Tail(@)] IN
  /\ data[a][b] # <<>>
  /\ \/ /\ m.kind = "Accumulate"
        /\ AccumulateMsg(b, m, ch)
     \/ /\ m.kind = "PartialDone"
        /\ AccumulatePartialDone(waits)
        /\ data' = ch
        /\ UNCHANGED <<val, buf, out>>
  /\ UNCHANGED <<pc, round, next, done>>

\* RcSlaveMainLoop takes a WakeSync command.
SlaveWake(u) ==
  /\ wakes[u] > 0
  /\ wakes' = [wakes EXCEPT ![u] = @ - 1]
  /\ ready' = [ready EXCEPT ![u] = TRUE]
  /\ UNCHANGED <<pc, round, next, done, data, val, buf, doneCnt, waits, out>>
-----------------------------------------------------------------------------
(* A user's side.                                                          *)

\* RcPrepareNewThread takes thread_lock for writing; RcWaitForRemoteEvent holds
\* it for reading as long as it waits.
PrepareNewThread(u) ==
  /\ pc[u] = "new"
  /\ \A v \in User : NodeOf[v] = NodeOf[u] => pc[v] # "wait"
  /\ pc' = [pc EXCEPT ![u] = "idle"]
  /\ UNCHANGED <<round, next, done, ready, wakes, data, val, buf, doneCnt, waits, out>>

\* _DoAccumulateAndWait: the Event is reset, and nodes with an empty part are
\* sent an empty last packet.
Start(u) ==
  LET me == NodeOf[u] IN
  /\ pc[u] = "idle" /\ round[u] < MaxRounds
  /\ round' = [round EXCEPT ![u] = @ + 1]
  /\ ready' = [ready EXCEPT ![u] = FALSE]
  /\ next' = [next EXCEPT ![u] = [i \in Node |-> Lo(i)]]
  /\ done' = [done EXCEPT ![u] = 1 + Cardinality({i \in Node : EmptyPart(i)})]
  /\ data' = [data EXCEPT ![me] = [i \in Node |->
                IF i # me /\ EmptyPart(i)
                THEN Append(data[me][i], EmptyPacket(u, i))
                ELSE data[me][i]]]
  /\ pc' = [pc EXCEPT ![u] = "local"]
  /\ UNCHANGED <<wakes, val, buf, doneCnt, waits, out>>

\* The own part is accumulated by a call.
Local(u) ==
  LET me == NodeOf[u] IN
  /\ pc[u] = "local"
  /\ AccumulateMsg(me, Packet(u, Lo(me), Hi(me), TRUE), data)
  /\ next' = [next EXCEPT ![u][me] = Hi(me)]
  /\ pc' = [pc EXCEPT ![u] = "send"]
  /\ UNCHANGED <<round, done>>

\* One turn of the sending loop: a packet to each writable socket whose part
\* has words left.  The loop's condition is tested once per turn.
Unsent(u) == {i \in Node \ {NodeOf[u]} : next[u][i] < Hi(i)}

SendParts(u) ==
  LET me == NodeOf[u] IN
  /\ pc[u] = "send" /\ done[u] < N
  /\ \E W \in SUBSET Unsent(u) \ {{}} :
     \E end \in [W -> UNION {next[u][i] + 1 .. Hi(i) : i \in W}] :
       /\ \A i \in W : next[u][i] < end[i] /\ end[i] <= Hi(i)
       /\ data' = [data EXCEPT ![me] = [i \in Node |->
                     IF i \in W
                     THEN Append(data[me][i], Packet(u, next[u][i], end[i], end[i] = Hi(i)))
                     ELSE data[me][i]]]
       /\ next' = [next EXCEPT ![u] = [i \in Node |-> IF i \in W THEN end[i] ELSE @[i]]]
       /\ done' = [done EXCEPT ![u] = @ + Cardinality({i \in W : end[i] = Hi(i)})]
  /\ UNCHANGED <<pc, round, ready, wakes, val, buf, doneCnt, waits, out>>

WaitForRemoteEvent(u) ==
  /\ pc[u] = "send" /\ done[u] >= N
  /\ pc' = [pc EXCEPT ![u] = "wait"]
  /\ UNCHANGED <<round, next, done, ready, wakes, data, val, buf, doneCnt, waits, out>>

Return(u) ==
  /\ pc[u] = "wait" /\ ready[u]
  /\ pc' = [pc EXCEPT ![u] = "idle"]
  /\ UNCHANGED <<round, next, done, ready, wakes, data, val, buf, doneCnt, waits, out>>
-----------------------------------------------------------------------------
Init ==
  /\ pc = [u \in User |-> "new"]
  /\ round = [u \in User |-> 0]
  /\ next = [u \in User |-> [i \in Node |-> 0]]
  /\ done = [u \in User |-> 0]
  /\ ready = [u \in User |-> FALSE]
  /\ wakes = [u \in User |-> 0]
  /\ data = [a \in Node |-> [b \in Node |-> <<>>]]
  /\ val = [n \in Node |-> 0]
  /\ buf = [n \in Node |-> Zero]
  /\ doneCnt = 0
  /\ waits = <<>>
  /\ out = Zero

UserStep(u) == \/ PrepareNewThread(u) \/ Start(u) \/ Local(u) \/ SendParts(u)
               \/ WaitForRemoteEvent(u) \/ Return(u)

Next ==
  \/ \E u \in User : UserStep(u) \/ SlaveWake(u)
  \/ \E a, b \in Node : ListenData(a, b)

Spec == Init /\ [][Next]_vars

\* Threads run, select finds the sockets writable again and again, packets are
\* delivered.
FairSpec ==
  /\ Spec
  /\ \A u \in User : WF_vars(UserStep(u)) /\ WF_vars(SlaveWake(u))
  /\ \A a, b \in Node : WF_vars(ListenData(a, b))
-----------------------------------------------------------------------------
(* Properties.                                                             *)

\* When AccumulateAndWait has returned for the r-th time, the output array
\* holds the sum of what all users sent in their r-th call, in every word:
\* nothing of another round, nothing missing, nothing twice.
ResultReady ==
  \A u \in User : pc[u] = "idle" /\ round[u] > 0 =>
    \A w \in Word : out[w] = MapThenSumSet(LAMBDA v : In[v][round[u]], User)

\* What DoAccumulateDense and DoAccumulateSparse assert: a packet lies within
\* the buffer of the node it is sent to, though sender and receiver compute the
\* split by different formulas.
PacketsFit ==
  \A a, b \in Node : \A i \in DOMAIN data[a][b] :
    LET m == data[a][b][i] IN
    m.kind = "Accumulate" /\ m.lo < m.hi => Base(b) <= m.lo /\ m.hi <= Base(b) + Size(b)
=============================================================================
