--------------------------- MODULE DirectoryCache ---------------------------
(***************************************************************************)
(* The write-through directory cache of Dogee (DSMDirectoryCache).         *)
(*                                                                         *)
(* Every node caches blocks of the shared memory.  A block has a home node *)
(* whose directory records which nodes hold a copy.  A put goes through to *)
(* the backend storage at the home, which then sends the new words to the  *)
(* other holders (Renew); nobody acknowledges a Renew.  Requests, Renews   *)
(* and write-backs share one control socket per pair of nodes, replies     *)
(* have a data socket of their own, guarded by a lock on the asking side.  *)
(*                                                                         *)
(* Words hold version numbers: the n-th put to a word writes n.  The order *)
(* of the LRU clock is left out: any victim that is not being filled may   *)
(* be chosen.  The chunk messages MsgWriteChunkMiss and MsgRenewChunk are  *)
(* never sent.                                                             *)
(***************************************************************************)
EXTENDS Integers, Sequences, FiniteSets

CONSTANTS
  Node,       \* the caches, by cache_id
  Thread,     \* application threads
  NodeOf,     \* the node a thread runs on
  Block,      \* block addresses
  Home,       \* (addr >> DSM_CACHE_BITS) % caches
  Word,       \* words of a block, 0 .. DSM_CACHE_BLOCK_SIZE - 1
  Slot,       \* the CacheBlocks of a node
  Puts,       \* the sets of words <<block, words>> each thread's program puts
  Gets,       \* the blocks each thread's program gets
  MaxOps      \* bound on the puts and on the gets of a thread

None == "none"   \* DSM_CACHE_BAD_KEY, and "no slot", "no message", "no thread"

ASSUME CacheAssumption ==
  /\ Node \subseteq Nat /\ IsFiniteSet(Node)
  /\ NodeOf \in [Thread -> Node]
  /\ Home \in [Block -> Node]
  /\ Word \subseteq Nat /\ Word # {}
  /\ Puts \in [Thread -> SUBSET (Block \X SUBSET Word)]
  /\ Gets \in [Thread -> SUBSET Block]
  /\ None \notin Block \cup Slot \cup Thread
  /\ MaxOps \in Nat
\* getblock asserts that some slot is not being filled: DSM_CACHE_SIZE is 1024.
ASSUME SlotAssumption ==
  IsFiniteSet(Slot) /\ \A n \in Node :
    Cardinality({t \in Thread : NodeOf[t] = n}) <= Cardinality(Slot)
\* A word has one writer, so that no put races with another put to it.
ASSUME OneWriter ==
  \A t, u \in Thread : \A p \in Puts[t], q \in Puts[u] :
    t # u /\ p[1] = q[1] => p[2] \cap q[2] = {}

VARIABLES
  backend,  \* the storage: the words of each block
  dir,      \* directory at the home: the nodes registered for each block
  slot,     \* per node, the CacheBlocks
  hash,     \* per node, "cache": the slot a block is mapped to
  unused,   \* per node, block_queue
  ctl,      \* ctl[a][b]: control messages from a to b
  reply,    \* reply[a][b]: replies from home a to b on the data socket
  dlock,    \* dlock[n][h]: the thread of n that holds the data socket to h
  srv,      \* srv[n][p]: what each CacheProtocalProc of n for peer p handles
  pc,       \* where each thread is in doget / doput
  op,       \* the operation each thread is in
  latest,   \* the version last put to each word
  ops       \* per thread, the puts and gets begun

vars == <<backend, dir, slot, hash, unused, ctl, reply, dlock, srv, pc, op, latest, ops>>
net  == <<ctl, reply, dlock, srv>>
local == <<slot, hash, unused>>

\* Threads that receive on node n's control socket from peer p.  For a lower
\* peer both ListenSocketProc and the constructor start one.
Servers(n, p) == IF p < n THEN {1, 2} ELSE {1}

NoOp == [kind |-> None, blk |-> None, words |-> {}, val |-> 0, slot |-> None, old |-> None]
Idle == [kind |-> None]

Overwrite(old, words, val) == [w \in Word |-> IF w \in words THEN val ELSE old[w]]
-----------------------------------------------------------------------------
(* The home: directory and backend.                                        *)

\* What ServerRenew makes of node n's slots: the words are dropped when the
\* block is not cached, when its slot is being filled (the try-lock fails) or
\* when the slot has been given to another block.
RenewFresh(n, k, words, val) ==
  LET s == hash[n][k] IN
  IF s # None /\ ~slot[n][s].wlock /\ slot[n][s].key = k
  THEN [slot[n] EXCEPT ![s].words = Overwrite(@, words, val)] ELSE slot[n]

\* MsgRenew to every registered holder but the writer; the home's own copy is
\* renewed by a call.
RenewMsg(m) == [kind |-> "Renew", blk |-> m.blk, words |-> m.words, val |-> m.val]
SendRenewToWriter(h, src, m) ==   \* mutant: the writer is not spared
  ctl' = [ctl EXCEPT ![h] = [i \in Node |->
            IF i \in dir[m.blk] \ {h} THEN Append(ctl[h][i], RenewMsg(m)) ELSE ctl[h][i]]]
SendRenew(h, src, m) ==
  ctl' = [ctl EXCEPT ![h] = [i \in Node |->
            IF i \in dir[m.blk] \ {src, h} THEN Append(ctl[h][i], RenewMsg(m)) ELSE ctl[h][i]]]
RenewHome(h, src, m) ==
  IF h \in dir[m.blk] \ {src}
  THEN [slot EXCEPT ![h] = RenewFresh(h, m.blk, m.words, m.val)] ELSE slot

\* The bit of node p in a block's directory entry.
Registered(d, p) == d \cup {p}
DroppedAll(d, p) == {}                   \* mutant: the whole entry is erased
Dropped(d, p) == d \ {p}

PutBackend(k, words, val) == backend' = [backend EXCEPT ![k] = Overwrite(@, words, val)]

\* A CacheProtocalProc thread takes the next message of its socket.
Receive(n, p, i) ==
  /\ srv[n][p][i] = Idle
  /\ ctl[p][n] # <<>>
  /\ srv' = [srv EXCEPT ![n][p][i] = Head(ctl[p][n])]
  /\ ctl' = [ctl EXCEPT ![p][n] = Tail(@)]
  /\ UNCHANGED <<backend, dir, local, reply, dlock, pc, op, latest, ops>>

ServerReadMiss(n, p, i) ==
  LET m == srv[n][p][i] IN
  /\ m.kind = "ReadMiss"
  /\ dir' = [dir EXCEPT ![m.blk] = Registered(@, p)]
  /\ reply' = [reply EXCEPT ![n][p] = Append(@, [blk |-> m.blk, words |-> backend[m.blk]])]
  /\ srv' = [srv EXCEPT ![n][p][i] = Idle]
  /\ UNCHANGED <<backend, local, ctl, dlock, pc, op, latest, ops>>

ServerWriteback(n, p, i) ==
  LET m == srv[n][p][i] IN
  /\ m.kind = "Writeback"
  /\ dir' = [dir EXCEPT ![m.blk] = Dropped(@, p)]
  /\ srv' = [srv EXCEPT ![n][p][i] = Idle]
  /\ UNCHANGED <<backend, local, ctl, reply, dlock, pc, op, latest, ops>>

ServerRenew(n, p, i) ==
  LET m == srv[n][p][i] IN
  /\ m.kind = "Renew"
  /\ slot' = [slot EXCEPT ![n] = RenewFresh(n, m.blk, m.words, m.val)]
  /\ srv' = [srv EXCEPT ![n][p][i] = Idle]
  /\ UNCHANGED <<backend, dir, hash, unused, ctl, reply, dlock, pc, op, latest, ops>>

\* ServerWrite and ServerWriteMiss put to the backend before they take the
\* directory lock ...
ServerPut(n, p, i) ==
  LET m == srv[n][p][i] IN
  /\ m.kind \in {"Write", "WriteMiss"}
  /\ PutBackend(m.blk, m.words, m.val)
  /\ srv' = [srv EXCEPT ![n][p][i].kind = IF @ = "Write" THEN "WriteRenew" ELSE "MissRenew"]
  /\ UNCHANGED <<dir, local, ctl, reply, dlock, pc, op, latest, ops>>

\* ... and renew the holders and answer under it.
ServerAnswer(n, p, i) ==
  LET m == srv[n][p][i] IN
  /\ m.kind \in {"WriteRenew", "MissRenew"}
  /\ SendRenew(n, p, m)
  /\ slot' = RenewHome(n, p, m)
  /\ dir' = IF m.kind = "MissRenew" THEN [dir EXCEPT ![m.blk] = Registered(@, p)] ELSE dir
  /\ reply' = [reply EXCEPT ![n][p] = Append(@, [blk |-> m.blk, words |-> backend[m.blk]])]
  /\ srv' = [srv EXCEPT ![n][p][i] = Idle]
  /\ UNCHANGED <<backend, hash, unused, dlock, pc, op, latest, ops>>

Protocol(n, p, i) ==
  \/ Receive(n, p, i) \/ ServerReadMiss(n, p, i) \/ ServerWriteback(n, p, i)
  \/ ServerRenew(n, p, i) \/ ServerPut(n, p, i) \/ ServerAnswer(n, p, i)
-----------------------------------------------------------------------------
(* The application threads: doget and doput.                               *)

Me(t) == NodeOf[t]
Mine(t) == slot[Me(t)][op[t].slot]
Goto(t, l) == pc' = [pc EXCEPT ![t] = l]

Start(t) ==
  /\ pc[t] = "idle"
  /\ \/ /\ ops[t].put < MaxOps
        /\ \E p \in Puts[t] :
             LET v == 1 + CHOOSE v \in {latest[p[1]][w] : w \in Word} :
                            \A w \in Word : latest[p[1]][w] <= v
             IN  /\ op' = [op EXCEPT ![t] = [NoOp EXCEPT !.kind = "put", !.blk = p[1],
                                                         !.words = p[2], !.val = v]]
                 /\ latest' = [latest EXCEPT ![p[1]] = Overwrite(@, p[2], v)]
        /\ ops' = [ops EXCEPT ![t].put = @ + 1]
     \/ /\ ops[t].get < MaxOps
        /\ \E k \in Gets[t] : op' = [op EXCEPT ![t] = [NoOp EXCEPT !.kind = "get", !.blk = k]]
        /\ ops' = [ops EXCEPT ![t].get = @ + 1]
        /\ UNCHANGED latest
  /\ Goto(t, "lookup")
  /\ UNCHANGED <<backend, dir, local, net>>

\* The first look into the hash table, under hash_lock.
Lookup(t) ==
  LET s == hash[Me(t)][op[t].blk] IN
  /\ pc[t] = "lookup"
  /\ op' = [op EXCEPT ![t].slot = s]
  /\ Goto(t, IF s # None THEN "hit" ELSE "miss")
  /\ UNCHANGED <<backend, dir, local, net, latest, ops>>

\* With the slot's read lock: the slot may have been given to another block
\* since the hash table was read.
StillMineUnchecked(t) == TRUE              \* mutant: reused slot not noticed
StillMine(t) == Mine(t).key = op[t].blk

Hit(t) ==
  LET n == Me(t) IN
  /\ pc[t] = "hit"
  /\ ~Mine(t).wlock
  /\ \/ ~StillMine(t) /\ Goto(t, "miss") /\ UNCHANGED slot
     \/ StillMine(t) /\ op[t].kind = "get" /\ Goto(t, "idle") /\ UNCHANGED slot
     \/ /\ StillMine(t) /\ op[t].kind = "put"
        /\ slot' = [slot EXCEPT ![n][op[t].slot].words = Overwrite(@, op[t].words, op[t].val),
                                ![n][op[t].slot].readers = @ \cup {t}]
        /\ Goto(t, "write")
  /\ UNCHANGED <<backend, dir, hash, unused, net, op, latest, ops>>

\* getblock: somebody else may be filling the block already; otherwise take an
\* unused slot, or a victim once its readers have left.  The slot stays
\* write-locked until it is filled.
PendingUnchecked(n, k) == FALSE   \* mutant: the hash table is not read again
Pending(n, k) == hash[n][k] # None

GetBlock(t) ==
  LET n == Me(t)
      k == op[t].blk IN
  /\ pc[t] = "miss"
  /\ \/ /\ Pending(n, k)
        /\ op' = [op EXCEPT ![t].slot = hash[n][k]]
        /\ Goto(t, "hit")
        /\ UNCHANGED local
     \/ \E s \in unused[n] :
        /\ ~Pending(n, k)
        /\ unused' = [unused EXCEPT ![n] = @ \ {s}]
        /\ hash' = [hash EXCEPT ![n][k] = s]
        /\ slot' = [slot EXCEPT ![n][s].wlock = TRUE]
        /\ op' = [op EXCEPT ![t].slot = s]
        /\ Goto(t, "fill")
     \/ \E s \in Slot :
        /\ ~Pending(n, k) /\ unused[n] = {}
        /\ slot[n][s].key # None /\ ~slot[n][s].wlock /\ slot[n][s].readers = {}
        /\ hash' = [hash EXCEPT ![n][slot[n][s].key] = None, ![n][k] = s]
        /\ slot' = [slot EXCEPT ![n][s].key = None, ![n][s].wlock = TRUE]
        /\ op' = [op EXCEPT ![t].slot = s, ![t].old = slot[n][s].key]
        /\ Goto(t, "writeback")
        /\ UNCHANGED unused
  /\ UNCHANGED <<backend, dir, net, latest, ops>>

\* protocal->Writeback, after the queue lock is released.
Writeback(t) ==
  LET n == Me(t)
      k == op[t].old IN
  /\ pc[t] = "writeback"
  /\ \/ /\ Home[k] = n
        /\ dir' = [dir EXCEPT ![k] = Dropped(@, n)]
        /\ UNCHANGED ctl
     \/ /\ Home[k] # n
        /\ ctl' = [ctl EXCEPT ![n][Home[k]] = Append(@, [kind |-> "Writeback", blk |-> k])]
        /\ UNCHANGED dir
  /\ Goto(t, "fill")
  /\ UNCHANGED <<backend, local, reply, dlock, srv, op, latest, ops>>

FieldsOne(t, kind) ==   \* mutant: a chunk is sent as one word
  [kind |-> kind, blk |-> op[t].blk, val |-> op[t].val,
   words |-> {w \in op[t].words : \A x \in op[t].words : w <= x}]
Fields(t, kind) == [kind |-> kind, blk |-> op[t].blk, words |-> op[t].words, val |-> op[t].val]

\* The lock on the data socket: one request at a time is outstanding.
SocketFreeAlways(n, h) == TRUE    \* mutant: the lock is not taken
SocketFree(n, h) == dlock[n][h] = None
SocketKept(n, h) == UNCHANGED dlock   \* mutant: a return path keeps the lock
LeaveSocket(n, h) == dlock' = [dlock EXCEPT ![n][h] = None]

\* Take the data socket's lock and send a request to a remote home.
Ask(t, kind) ==
  LET h == Home[op[t].blk] IN
  /\ h # Me(t)
  /\ SocketFree(Me(t), h)
  /\ dlock' = [dlock EXCEPT ![Me(t)][h] = t]
  /\ ctl' = [ctl EXCEPT ![Me(t)][h] = Append(@, Fields(t, kind))]
  /\ Goto(t, "wait")

\* ReadMiss and WriteMiss.  At the home itself the miss is served by a call;
\* a local write miss passes on one word of the chunk, whatever its length.
FirstWord(words) == {w \in words : \A x \in words : w <= x}

Fill(t) ==
  LET n == Me(t)
      k == op[t].blk IN
  /\ pc[t] = "fill"
  /\ \/ /\ op[t].kind = "get"
        /\ Ask(t, "ReadMiss")
        /\ UNCHANGED <<backend, dir, slot>>
     \/ /\ op[t].kind = "put"
        /\ Ask(t, "WriteMiss")
        /\ UNCHANGED <<backend, dir, slot>>
     \/ /\ op[t].kind = "get" /\ Home[k] = n
        /\ dir' = [dir EXCEPT ![k] = Registered(@, n)]
        /\ slot' = [slot EXCEPT ![n][op[t].slot].words = backend[k]]
        /\ Goto(t, "filled")
        /\ UNCHANGED <<backend, ctl, dlock>>
     \/ /\ op[t].kind = "put" /\ Home[k] = n
        /\ PutBackend(k, FirstWord(op[t].words), op[t].val)
        /\ Goto(t, "missrenew")
        /\ UNCHANGED <<dir, slot, ctl, dlock>>
  /\ UNCHANGED <<hash, unused, reply, srv, op, latest, ops>>

\* The second half of a local ServerWriteMiss.
MissRenew(t) ==
  LET n == Me(t)
      k == op[t].blk IN
  /\ pc[t] = "missrenew"
  /\ SendRenew(n, n, [Fields(t, "Write") EXCEPT !.words = FirstWord(@)])
  /\ dir' = [dir EXCEPT ![k] = Registered(@, n)]
  /\ slot' = [slot EXCEPT ![n][op[t].slot].words = backend[k]]
  /\ Goto(t, "filled")
  /\ UNCHANGED <<backend, hash, unused, reply, dlock, srv, op, latest, ops>>

\* The reply has come: release the data socket; keep the block, or finish the
\* write.
Answered(t) ==
  LET n == Me(t)
      h == Home[op[t].blk] IN
  /\ pc[t] = "wait" /\ reply[h][n] # <<>>
  /\ LeaveSocket(n, h)
  /\ reply' = [reply EXCEPT ![h][n] = Tail(@)]
  /\ \/ /\ t \in Mine(t).readers
        /\ slot' = [slot EXCEPT ![n][op[t].slot].readers = @ \ {t}]
        /\ Goto(t, "idle")
     \/ /\ t \notin Mine(t).readers
        /\ slot' = [slot EXCEPT ![n][op[t].slot].words = Head(reply[h][n]).words]
        /\ Goto(t, "filled")
  /\ UNCHANGED <<backend, dir, hash, unused, ctl, srv, op, latest, ops>>

\* The filled slot gets its key and its write lock is released.
Filled(t) ==
  /\ pc[t] = "filled"
  /\ slot' = [slot EXCEPT ![Me(t)][op[t].slot].key = op[t].blk,
                          ![Me(t)][op[t].slot].wlock = FALSE]
  /\ Goto(t, "idle")
  /\ UNCHANGED <<backend, dir, hash, unused, net, op, latest, ops>>

\* protocal->Write after a hit, at a remote home or by calls at the own one.
Write(t) ==
  /\ pc[t] = "write"
  /\ \/ /\ Ask(t, "Write")
        /\ UNCHANGED backend
     \/ /\ Home[op[t].blk] = Me(t)
        /\ PutBackend(op[t].blk, op[t].words, op[t].val)
        /\ Goto(t, "renew")
        /\ UNCHANGED <<ctl, dlock>>
  /\ UNCHANGED <<dir, local, reply, srv, op, latest, ops>>

WriteRenew(t) ==
  LET n == Me(t) IN
  /\ pc[t] = "renew"
  /\ SendRenew(n, n, Fields(t, "Write"))
  /\ slot' = [slot EXCEPT ![n][op[t].slot].readers = @ \ {t}]
  /\ Goto(t, "idle")
  /\ UNCHANGED <<backend, dir, hash, unused, reply, dlock, srv, op, latest, ops>>

Work(t) ==
  \/ Lookup(t) \/ Hit(t) \/ GetBlock(t) \/ Writeback(t) \/ Fill(t) \/ MissRenew(t)
  \/ Answered(t) \/ Filled(t) \/ Write(t) \/ WriteRenew(t)
-----------------------------------------------------------------------------
Init ==
  /\ backend = [k \in Block |-> [w \in Word |-> 0]]
  /\ dir = [k \in Block |-> {}]
  /\ slot = [n \in Node |-> [s \in Slot |->
               [key |-> None, words |-> [w \in Word |-> 0], wlock |-> FALSE, readers |-> {}]]]
  /\ hash = [n \in Node |-> [k \in Block |-> None]]
  /\ unused = [n \in Node |-> Slot]
  /\ ctl = [n \in Node |-> [p \in Node |-> <<>>]]
  /\ reply = [n \in Node |-> [p \in Node |-> <<>>]]
  /\ dlock = [n \in Node |-> [h \in Node |-> None]]
  /\ srv = [n \in Node |-> [p \in Node |-> [i \in Servers(n, p) |-> Idle]]]
  /\ pc = [t \in Thread |-> "idle"]
  /\ op = [t \in Thread |-> NoOp]
  /\ latest = [k \in Block |-> [w \in Word |-> 0]]
  /\ ops = [t \in Thread |-> [put |-> 0, get |-> 0]]

Next ==
  \/ \E t \in Thread : Start(t) \/ Work(t)
  \/ \E n, p \in Node : \E i \in Servers(n, p) : Protocol(n, p, i)

Spec == Init /\ [][Next]_vars

\* Threads in an operation and the protocol threads keep running.
Fairness ==
  /\ \A t \in Thread : WF_vars(Work(t))
  /\ \A n, p \in Node : \A i \in {1, 2} : WF_vars(i \in Servers(n, p) /\ Protocol(n, p, i))

FairSpec == Spec /\ Fairness
-----------------------------------------------------------------------------
(* Properties.                                                             *)

Messages == [kind : {"ReadMiss", "WriteMiss", "Write", "Renew", "WriteRenew", "MissRenew"},
             blk : Block, words : SUBSET Word, val : Nat]
            \cup [kind : {"Writeback"}, blk : Block]

\* The state has its type: slots, directory entries and messages name nodes,
\* blocks and words that exist.
TypeOK ==
  /\ backend \in [Block -> [Word -> Nat]] /\ latest \in [Block -> [Word -> Nat]]
  /\ dir \in [Block -> SUBSET Node]
  /\ slot \in [Node -> [Slot -> [key : Block \cup {None}, words : [Word -> Nat],
                                wlock : BOOLEAN, readers : SUBSET Thread]]]
  /\ hash \in [Node -> [Block -> Slot \cup {None}]]
  /\ unused \in [Node -> SUBSET Slot]
  /\ \A a, b \in Node :
       /\ \A i \in DOMAIN ctl[a][b] : ctl[a][b][i] \in Messages
       /\ \A i \in DOMAIN reply[a][b] :
            reply[a][b][i] \in [blk : Block, words : [Word -> Nat]]
       /\ \A i \in Servers(a, b) : srv[a][b][i] \in Messages \cup {Idle}
  /\ dlock \in [Node -> [Node -> Thread \cup {None}]]
  /\ pc \in [Thread -> {"idle", "lookup", "hit", "miss", "writeback", "fill", "missrenew",
                        "wait", "filled", "write", "renew"}]
  /\ ops \in [Thread -> [put : 0 .. MaxOps, get : 0 .. MaxOps]]

\* The words of block k that thread t writes.
Writes(t, k) == UNION {p[2] : p \in {q \in Puts[t] : q[1] = k}}
Putting(t) == pc[t] # "idle" /\ op[t].kind = "put"
\* Node n has a copy of block k that doget would return.
HasCopy(n, k, s) == slot[n][s].key = k /\ ~slot[n][s].wlock /\ hash[n][k] = s

\* The cache is write-through: when doput has returned, the backend holds what
\* was put, every word of it, whatever was hit, missed or evicted meanwhile.
WriteThrough ==
  \A t \in Thread, k \in Block : ~Putting(t) =>
    \A w \in Writes(t, k) : backend[k][w] = latest[k][w]

\* A node reads its own writes: once doput has returned, the copy its node
\* keeps has the words put last; no Renew or refill on its way brings an older
\* one back.
OwnCopyCurrent ==
  \A t \in Thread, k \in Block, s \in Slot : ~Putting(t) /\ HasCopy(Me(t), k, s) =>
    \A w \in Writes(t, k) : slot[Me(t)][s].words[w] = latest[k][w]

\* A node with a copy of a block is registered in the block's directory entry,
\* so that the next write is sent to it; eviction and refill do not get ahead
\* of one another.
DirectoryCovers ==
  \A n \in Node, k \in Block, s \in Slot : HasCopy(n, k, s) => n \in dir[k]

\* A node keeps a block in one slot, though two of its threads miss it together
\* or one evicts it while the other looks it up.
OneSlotPerBlock ==
  \A n \in Node : \A s, r \in Slot :
    slot[n][s].key # None /\ slot[n][s].key = slot[n][r].key => s = r

\* The answer a thread is about to read from the data socket is for the block
\* it asked for, though its node's threads share the socket.
RepliesMatch ==
  \A t \in Thread : LET r == reply[Home[op[t].blk]][Me(t)] IN
    pc[t] = "wait" /\ r # <<>> => Head(r).blk = op[t].blk

\* Nothing is read that was not written: a copy never holds a version its word
\* was not put, as it would if a put hit a slot reused for another block.
NoStrayWrite ==
  \A n \in Node, k \in Block, s \in Slot : HasCopy(n, k, s) =>
    \A w \in Word : slot[n][s].words[w] <= latest[k][w]

\* With no operation and no message under way, every copy agrees with the
\* backend.
Quiet ==
  /\ \A t \in Thread : pc[t] = "idle"
  /\ \A n, p \in Node : ctl[n][p] = <<>> /\ \A i \in Servers(n, p) : srv[n][p][i] = Idle
CoherentAtRest ==
  Quiet => \A n \in Node, k \in Block, s \in Slot :
             HasCopy(n, k, s) => slot[n][s].words = backend[k]

\* Every get and put returns: no thread waits for ever for a slot, a socket or
\* an answer.
OpsReturn == \A t \in Thread : pc[t] # "idle" ~> pc[t] = "idle"
=============================================================================
