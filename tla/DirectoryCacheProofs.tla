------------------------ MODULE DirectoryCacheProofs ------------------------
(***************************************************************************)
(* Proofs about DirectoryCache, for every number of nodes, threads, blocks *)
(* and slots: a node keeps a block in one slot, the reply a thread reads   *)
(* from the shared data socket is its own, a copy holds only what was      *)
(* written to its block, and the backend holds what was put once doput has *)
(* returned.  On these rest the two last parts, on what the copies hold    *)
(* and who knows of them: a node reads its own writes, and a node with a   *)
(* copy is registered at the block's home.                                 *)
(***************************************************************************)
EXTENDS DirectoryCache, WellFoundedInduction, TLAPS

SlotType == [key : Block \cup {None}, words : [Word -> Nat], wlock : BOOLEAN, readers : SUBSET Thread]
Reply == [blk : Block, words : [Word -> Nat]]
OpType == [kind : {None, "put", "get"}, blk : Block \cup {None}, words : SUBSET Word, val : Nat,
           slot : Slot \cup {None}, old : Block \cup {None}]
Place == {"idle", "lookup", "hit", "miss", "writeback", "fill", "missrenew", "wait", "filled", "write", "renew"}

\* The slot and the block of an operation are there when they are used.
Working(t) ==
  /\ pc[t] # "idle" => op[t].kind \in {"put", "get"} /\ op[t].blk \in Block
  /\ pc[t] \notin {"idle", "lookup", "miss"} => op[t].slot \in Slot
  /\ pc[t] = "writeback" => op[t].old \in Block

\* What the protocol threads of all nodes handle.
SrvType(f) ==
  /\ DOMAIN f = Node /\ \A n \in Node : DOMAIN f[n] = Node
  /\ \A n, p \in Node : DOMAIN f[n][p] = Servers(n, p)
  /\ \A n, p \in Node : \A i \in Servers(n, p) : f[n][p][i] \in Messages \cup {Idle}

\* The versions of a block have a largest one.
Bounded(words) == \E b \in Nat : \A w \in Word : words[w] <= b

TypeInv ==
  /\ backend \in [Block -> [Word -> Nat]] /\ latest \in [Block -> [Word -> Nat]]
  /\ dir \in [Block -> SUBSET Node]
  /\ slot \in [Node -> [Slot -> SlotType]]
  /\ hash \in [Node -> [Block -> Slot \cup {None}]]
  /\ unused \in [Node -> SUBSET Slot]
  /\ ctl \in [Node -> [Node -> Seq(Messages)]]
  /\ reply \in [Node -> [Node -> Seq(Reply)]]
  /\ SrvType(srv)
  /\ dlock \in [Node -> [Node -> Thread \cup {None}]]
  /\ pc \in [Thread -> Place]
  /\ op \in [Thread -> OpType]
  /\ \A t \in Thread : Working(t)
  /\ \A k \in Block : Bounded(latest[k])

\* A matrix after an assignment to one of its elements.
LEMMA Update ==
  ASSUME NEW A, NEW B, NEW C, NEW f \in [A -> [B -> C]], NEW a \in A, NEW b \in B, NEW v \in C
  PROVE  /\ [f EXCEPT ![a][b] = v] \in [A -> [B -> C]]
         /\ [f EXCEPT ![a][b] = v][a][b] = v
         /\ \A x \in A, y \in B : x # a \/ y # b => [f EXCEPT ![a][b] = v][x][y] = f[x][y]
OBVIOUS

\* A slot after an assignment to its fields.
LEMMA SlotFields ==
  ASSUME NEW q \in SlotType
  PROVE  /\ \A k \in Block \cup {None} : [q EXCEPT !.key = k] \in SlotType
         /\ \A ws \in [Word -> Nat] : [q EXCEPT !.words = ws] \in SlotType
         /\ \A l \in BOOLEAN : [q EXCEPT !.wlock = l] \in SlotType
         /\ \A R \in SUBSET Thread : [q EXCEPT !.readers = R] \in SlotType
BY DEF SlotType

\* Overwriting words of a block gives a block.
LEMMA OverwriteType ==
  ASSUME NEW old \in [Word -> Nat], NEW ws \in SUBSET Word, NEW v \in Nat
  PROVE  Overwrite(old, ws, v) \in [Word -> Nat]
BY DEF Overwrite

\* The slots of all nodes.
Slots == [Node -> [Slot -> SlotType]]

\* Slot s of node n, and no other, changes from f to g.
SlotSet(g, f, n, s, k, ws, l, R) ==
  /\ g \in Slots
  /\ \A a \in Node, r \in Slot : a # n \/ r # s => g[a][r] = f[a][r]
  /\ g[n][s].key = k /\ g[n][s].words = ws /\ g[n][s].wlock = l /\ g[n][s].readers = R

\* A slot is assigned.
LEMMA SetSlot ==
  ASSUME NEW f \in Slots, NEW n \in Node, NEW s \in Slot, NEW q \in SlotType, NEW g, g = [f EXCEPT ![n][s] = q]
  PROVE  SlotSet(g, f, n, s, q.key, q.words, q.wlock, q.readers)
BY DEF SlotSet, Slots

\* The words of a slot are assigned.
LEMMA SetWords ==
  ASSUME NEW f \in Slots, NEW n \in Node, NEW s \in Slot, NEW ws \in [Word -> Nat], NEW g,
         g = [f EXCEPT ![n][s].words = ws]
  PROVE  SlotSet(g, f, n, s, f[n][s].key, ws, f[n][s].wlock, f[n][s].readers)
<1>1. f[n][s] \in SlotType
  BY DEF Slots
<1>2. PICK q : q = [f[n][s] EXCEPT !.words = ws]
  OBVIOUS
<1>3. q \in SlotType
  BY <1>1, <1>2 DEF SlotType
<1>4. q.key = f[n][s].key /\ q.words = ws /\ q.wlock = f[n][s].wlock /\ q.readers = f[n][s].readers
  BY <1>1, <1>2 DEF SlotType
<1>5. g = [f EXCEPT ![n][s] = q]
  BY <1>2 DEF Slots
<1>6. SlotSet(g, f, n, s, q.key, q.words, q.wlock, q.readers)
  BY <1>3, <1>5, SetSlot
<1> QED BY <1>4, <1>6

\* The readers of a slot are assigned.
LEMMA SetReaders ==
  ASSUME NEW f \in Slots, NEW n \in Node, NEW s \in Slot, NEW R \in SUBSET Thread, NEW g,
         g = [f EXCEPT ![n][s].readers = R]
  PROVE  SlotSet(g, f, n, s, f[n][s].key, f[n][s].words, f[n][s].wlock, R)
<1>1. f[n][s] \in SlotType
  BY DEF Slots
<1>2. PICK q : q = [f[n][s] EXCEPT !.readers = R]
  OBVIOUS
<1>3. q \in SlotType
  BY <1>1, <1>2 DEF SlotType
<1>4. q.key = f[n][s].key /\ q.words = f[n][s].words /\ q.wlock = f[n][s].wlock /\ q.readers = R
  BY <1>1, <1>2 DEF SlotType
<1>5. g = [f EXCEPT ![n][s] = q]
  BY <1>2 DEF Slots
<1>6. SlotSet(g, f, n, s, q.key, q.words, q.wlock, q.readers)
  BY <1>3, <1>5, SetSlot
<1> QED BY <1>4, <1>6

\* The write lock of a slot is assigned.
LEMMA SetLock ==
  ASSUME NEW f \in Slots, NEW n \in Node, NEW s \in Slot, NEW l \in BOOLEAN, NEW g,
         g = [f EXCEPT ![n][s].wlock = l]
  PROVE  SlotSet(g, f, n, s, f[n][s].key, f[n][s].words, l, f[n][s].readers)
<1>1. f[n][s] \in SlotType
  BY DEF Slots
<1>2. PICK q : q = [f[n][s] EXCEPT !.wlock = l]
  OBVIOUS
<1>3. q \in SlotType
  BY <1>1, <1>2 DEF SlotType
<1>4. q.key = f[n][s].key /\ q.words = f[n][s].words /\ q.wlock = l /\ q.readers = f[n][s].readers
  BY <1>1, <1>2 DEF SlotType
<1>5. g = [f EXCEPT ![n][s] = q]
  BY <1>2 DEF Slots
<1>6. SlotSet(g, f, n, s, q.key, q.words, q.wlock, q.readers)
  BY <1>3, <1>5, SetSlot
<1> QED BY <1>4, <1>6

\* The key and the write lock of a slot are assigned.
LEMMA SetKey ==
  ASSUME NEW f \in Slots, NEW n \in Node, NEW s \in Slot, NEW k \in Block \cup {None}, NEW l \in BOOLEAN, NEW g,
         g = [f EXCEPT ![n][s].key = k, ![n][s].wlock = l]
  PROVE  SlotSet(g, f, n, s, k, f[n][s].words, l, f[n][s].readers)
<1>1. f[n][s] \in SlotType
  BY DEF Slots
<1>2. PICK q : q = [f[n][s] EXCEPT !.key = k, !.wlock = l]
  OBVIOUS
<1>3. q \in SlotType
  BY <1>1, <1>2 DEF SlotType
<1>4. q.key = k /\ q.words = f[n][s].words /\ q.wlock = l /\ q.readers = f[n][s].readers
  BY <1>1, <1>2 DEF SlotType
<1>5. g = [f EXCEPT ![n][s] = q]
  BY <1>2 DEF Slots
<1>6. SlotSet(g, f, n, s, q.key, q.words, q.wlock, q.readers)
  BY <1>3, <1>5, SetSlot
<1> QED BY <1>4, <1>6

\* The words and the readers of a slot are assigned.
LEMMA SetWritten ==
  ASSUME NEW f \in Slots, NEW n \in Node, NEW s \in Slot, NEW ws \in [Word -> Nat], NEW R \in SUBSET Thread, NEW g,
         g = [f EXCEPT ![n][s].words = ws, ![n][s].readers = R]
  PROVE  SlotSet(g, f, n, s, f[n][s].key, ws, f[n][s].wlock, R)
<1>1. f[n][s] \in SlotType
  BY DEF Slots
<1>2. PICK q : q = [f[n][s] EXCEPT !.words = ws, !.readers = R]
  OBVIOUS
<1>3. q \in SlotType
  BY <1>1, <1>2 DEF SlotType
<1>4. q.key = f[n][s].key /\ q.words = ws /\ q.wlock = f[n][s].wlock /\ q.readers = R
  BY <1>1, <1>2 DEF SlotType
<1>5. g = [f EXCEPT ![n][s] = q]
  BY <1>2 DEF Slots
<1>6. SlotSet(g, f, n, s, q.key, q.words, q.wlock, q.readers)
  BY <1>3, <1>5, SetSlot
<1> QED BY <1>4, <1>6

\* A bounded family of naturals has a largest member.
LEMMA Largest ==
  ASSUME NEW f \in [Word -> Nat], NEW b \in Nat, \A w \in Word : f[w] <= b
  PROVE  \E w \in Word : \A x \in Word : f[x] <= f[w]
<1> DEFINE B == {u \in Nat : \A x \in Word : f[x] <= u}
<1>1. b \in B /\ B \subseteq Nat
  OBVIOUS
<1>2. PICK m \in B : \A y \in B : ~(<<y, m>> \in OpToRel(<, Nat))
  <2>1. B # {}
    BY <1>1
  <2> HIDE DEF B
  <2> QED BY <1>1, <2>1, WFMin, NatLessThanWellFounded
<1>3. \A y \in B : ~(y < m)
  <2>1. OpToRel(<, Nat) = {ss \in Nat \X Nat : ss[1] < ss[2]}
    BY Zenon DEF OpToRel
  <2>2. PICK R : R = OpToRel(<, Nat)
    OBVIOUS
  <2>3. R = {ss \in Nat \X Nat : ss[1] < ss[2]} /\ \A y \in B : ~(<<y, m>> \in R)
    BY <1>2, <2>1, <2>2, Zenon
  <2>4. m \in Nat
    OBVIOUS
  <2> QED BY <1>1, <2>3, <2>4
<1>4. CASE m = 0
  <2>1. PICK w \in Word : TRUE
    BY CacheAssumption
  <2>2. \A x \in Word : f[x] <= 0 /\ f[x] \in Nat
    BY <1>4
  <2>3. f[w] = 0
    BY <2>2
  <2> QED BY <2>2, <2>3
<1>5. CASE m # 0
  <2>1. m - 1 \in Nat /\ m - 1 < m
    BY <1>5
  <2>2. m - 1 \notin B
    BY <1>3, <2>1
  <2>3. PICK w \in Word : ~(f[w] <= m - 1)
    BY <2>1, <2>2
  <2> QED BY <2>1, <2>3
<1> QED BY <1>4, <1>5

-----------------------------------------------------------------------------
(* Steps of the application threads.                                       *)

\* Thread t goes to l, and no other thread moves.
PcTo(t, l) == pc' \in [Thread -> Place] /\ pc'[t] = l /\ \A u \in Thread : u # t => pc'[u] = pc[u]
\* The operation of thread t gets slot s and victim o, and no other changes.
OpTo(t, s, o) ==
  /\ op' \in [Thread -> OpType] /\ \A u \in Thread : u # t => op'[u] = op[u]
  /\ op'[t].kind = op[t].kind /\ op'[t].blk = op[t].blk
  /\ op'[t].words = op[t].words /\ op'[t].val = op[t].val
  /\ op'[t].slot = s /\ op'[t].old = o

\* Goto moves one thread.
LEMMA GotoPc ==
  ASSUME TypeInv, NEW t \in Thread, NEW l \in Place, Goto(t, l)
  PROVE  PcTo(t, l)
BY DEF TypeInv, Goto, PcTo

\* An operation gets its slot, and its victim.
LEMMA OpSlot ==
  ASSUME TypeInv, NEW t \in Thread, NEW s \in Slot \cup {None}
  PROVE  /\ op' = [op EXCEPT ![t].slot = s] => OpTo(t, s, op[t].old)
         /\ \A o \in Block \cup {None} : op' = [op EXCEPT ![t].slot = s, ![t].old = o] => OpTo(t, s, o)
<1>1. op \in [Thread -> OpType] /\ op[t] \in OpType
  BY DEF TypeInv
<1>2. ASSUME NEW o \in Block \cup {None}, NEW q, q = [op[t] EXCEPT !.slot = s, !.old = o]
      PROVE  /\ q \in OpType
             /\ q.kind = op[t].kind /\ q.blk = op[t].blk /\ q.words = op[t].words /\ q.val = op[t].val
             /\ q.slot = s /\ q.old = o
  BY <1>1, <1>2 DEF OpType
<1>3. ASSUME NEW q, q = [op[t] EXCEPT !.slot = s]
      PROVE  /\ q \in OpType
             /\ q.kind = op[t].kind /\ q.blk = op[t].blk /\ q.words = op[t].words /\ q.val = op[t].val
             /\ q.slot = s /\ q.old = op[t].old
  BY <1>1, <1>3 DEF OpType
<1>4. ASSUME NEW q \in OpType, op' = [op EXCEPT ![t] = q]
      PROVE  op' \in [Thread -> OpType] /\ (\A u \in Thread : u # t => op'[u] = op[u]) /\ op'[t] = q
  BY <1>1, <1>4
<1>5. ASSUME op' = [op EXCEPT ![t].slot = s]
      PROVE  OpTo(t, s, op[t].old)
  <2>1. PICK q : q = [op[t] EXCEPT !.slot = s]
    OBVIOUS
  <2>2. op' = [op EXCEPT ![t] = q]
    BY <1>5, <2>1, Zenon
  <2> QED BY <1>3, <1>4, <2>1, <2>2 DEF OpTo
<1>6. ASSUME NEW o \in Block \cup {None}, op' = [op EXCEPT ![t].slot = s, ![t].old = o]
      PROVE  OpTo(t, s, o)
  <2>1. PICK q : q = [op[t] EXCEPT !.slot = s, !.old = o]
    OBVIOUS
  <2>2. op' = [op EXCEPT ![t] = q]
    BY <1>1, <1>6, <2>1
  <2>3. /\ q \in OpType
        /\ q.kind = op[t].kind /\ q.blk = op[t].blk /\ q.words = op[t].words /\ q.val = op[t].val
        /\ q.slot = s /\ q.old = o
    BY <1>2, <2>1, Zenon
  <2> QED BY <1>4, <2>2, <2>3 DEF OpTo
<1> QED BY <1>5, <1>6

\* The other threads' operations are as well formed as before.
LEMMA WorkingFrame ==
  ASSUME TypeInv, NEW t \in Thread, NEW l, PcTo(t, l),
         \A u \in Thread : u # t => op'[u] = op[u], Working(t)'
  PROVE  \A u \in Thread : Working(u)'
BY DEF TypeInv, PcTo, Working

\* What a put leaves of the versions of its block.
LEMMA OverwriteEffect ==
  ASSUME NEW old \in [Word -> Nat], Bounded(old), NEW ws \in SUBSET Word, NEW v \in Nat,
         \A w \in Word : old[w] < v
  PROVE  /\ Overwrite(old, ws, v) \in [Word -> Nat] /\ Bounded(Overwrite(old, ws, v))
         /\ \A w \in Word : old[w] <= Overwrite(old, ws, v)[w]
         /\ \A w \in ws : Overwrite(old, ws, v)[w] = v
<1>1. \A w \in Word : Overwrite(old, ws, v)[w] \in Nat /\ Overwrite(old, ws, v)[w] <= v /\ old[w] <= Overwrite(old, ws, v)[w]
  BY DEF Overwrite
<1>2. Bounded(Overwrite(old, ws, v))
  BY <1>1 DEF Bounded
<1> QED BY <1>1, <1>2, OverwriteType DEF Overwrite

\* A block's version grows over what it was.
Grows(k) == \A w \in Word : latest[k][w] <= latest'[k][w]

\* A put or a get begins; a put makes a version above all others of its block.
LEMMA StartEffect ==
  ASSUME TypeInv, NEW t \in Thread, Start(t)
  PROVE  /\ TypeInv'
         /\ pc[t] = "idle" /\ PcTo(t, "lookup")
         /\ op' \in [Thread -> OpType] /\ \A u \in Thread : u # t => op'[u] = op[u]
         /\ op'[t].blk \in Block
         /\ \A k \in Block : Grows(k)
         /\ \A w \in op'[t].words : op'[t].val <= latest'[op'[t].blk][w]
         /\ UNCHANGED <<backend, dir, local, net>>
<1>1. pc[t] = "idle" /\ Goto(t, "lookup") /\ UNCHANGED <<backend, dir, local, net>>
  BY DEF Start
<1>2. PcTo(t, "lookup")
  BY <1>1, GotoPc DEF Place
<1>3. /\ op \in [Thread -> OpType] /\ latest \in [Block -> [Word -> Nat]] /\ \A k \in Block : Bounded(latest[k])
      /\ Puts[t] \subseteq Block \X SUBSET Word /\ Gets[t] \subseteq Block
  BY CacheAssumption DEF TypeInv
<1>4. ASSUME NEW q \in OpType, op' = [op EXCEPT ![t] = q]
      PROVE  op' \in [Thread -> OpType] /\ (\A u \in Thread : u # t => op'[u] = op[u]) /\ op'[t] = q
  BY <1>3, <1>4
<1>5. ASSUME op' \in [Thread -> OpType], \A u \in Thread : u # t => op'[u] = op[u],
             op'[t].kind \in {"put", "get"}, op'[t].blk \in Block, op'[t].words \in SUBSET Word, op'[t].val \in Nat,
             latest' \in [Block -> [Word -> Nat]], \A k \in Block : Bounded(latest'[k])
      PROVE  TypeInv'
  <2>1. Working(t)'
    BY <1>2, <1>5 DEF Working, PcTo
  <2>2. \A u \in Thread : Working(u)'
    BY <1>2, <1>5, <2>1, WorkingFrame
  <2> QED BY <1>1, <1>2, <1>5, <2>2 DEF TypeInv, net, local, PcTo
<1>6. ASSUME NEW p \in Puts[t], NEW v, v = 1 + CHOOSE x \in {latest[p[1]][w] : w \in Word} : \A w \in Word : latest[p[1]][w] <= x,
             op' = [op EXCEPT ![t] = [NoOp EXCEPT !.kind = "put", !.blk = p[1], !.words = p[2], !.val = v]],
             latest' = [latest EXCEPT ![p[1]] = Overwrite(@, p[2], v)]
      PROVE  /\ TypeInv'
             /\ op' \in [Thread -> OpType] /\ \A u \in Thread : u # t => op'[u] = op[u]
             /\ op'[t].blk \in Block
             /\ \A k \in Block : Grows(k)
             /\ \A w \in op'[t].words : op'[t].val <= latest'[op'[t].blk][w]
  <2>1. PICK k \in Block, ws \in SUBSET Word : p[1] = k /\ p[2] = ws
    BY <1>3
  <2>2. latest[k] \in [Word -> Nat] /\ Bounded(latest[k])
    BY <1>3
  <2>3. \E w \in Word : \A x \in Word : latest[k][x] <= latest[k][w]
    BY <2>2, Largest DEF Bounded
  <2>4. \E x \in {latest[k][w] : w \in Word} : \A w \in Word : latest[k][w] <= x
    BY <2>3
  <2>5. PICK x : x = CHOOSE y \in {latest[k][w] : w \in Word} : \A w \in Word : latest[k][w] <= y
    OBVIOUS
  <2>6. x \in {latest[k][w] : w \in Word} /\ \A w \in Word : latest[k][w] <= x
    BY <2>4, <2>5, Zenon
  <2>7. x \in Nat /\ v = 1 + x
    BY <1>6, <2>1, <2>2, <2>5, <2>6
  <2>8. v \in Nat /\ \A w \in Word : latest[k][w] < v
    BY <2>2, <2>6, <2>7
  <2>9. PICK o : o = Overwrite(latest[k], ws, v)
    OBVIOUS
  <2>10. o \in [Word -> Nat] /\ Bounded(o) /\ (\A w \in Word : latest[k][w] <= o[w]) /\ \A w \in ws : o[w] = v
    <3>1. PICK f : f = latest[k]
      OBVIOUS
    <3>2. f \in [Word -> Nat] /\ Bounded(f) /\ (\A w \in Word : f[w] < v) /\ o = Overwrite(f, ws, v)
      BY <2>2, <2>8, <2>9, <3>1
    <3>3. o \in [Word -> Nat] /\ Bounded(o) /\ (\A w \in Word : f[w] <= o[w]) /\ \A w \in ws : o[w] = v
      BY <2>8, <3>2, OverwriteEffect
    <3> QED BY <3>1, <3>3
  <2>11. latest' = [latest EXCEPT ![k] = o]
    BY <1>6, <2>1, <2>9
  <2>12. latest' \in [Block -> [Word -> Nat]] /\ latest'[k] = o /\ \A j \in Block : j # k => latest'[j] = latest[j]
    BY <1>3, <2>10, <2>11
  <2>13. PICK q : q = [NoOp EXCEPT !.kind = "put", !.blk = k, !.words = ws, !.val = v]
    OBVIOUS
  <2>14. q \in OpType /\ q.kind = "put" /\ q.blk = k /\ q.words = ws /\ q.val = v
    BY <2>8, <2>13 DEF OpType, NoOp
  <2>15. op' = [op EXCEPT ![t] = q]
    BY <1>6, <2>1, <2>13
  <2>16. op' \in [Thread -> OpType] /\ (\A u \in Thread : u # t => op'[u] = op[u]) /\ op'[t] = q
    BY <1>4, <2>14, <2>15
  <2>17. \A j \in Block : Bounded(latest'[j])
    BY <1>3, <2>10, <2>12
  <2>18. \A j \in Block : Grows(j)
    BY <1>3, <2>10, <2>12 DEF Grows
  <2>19. TypeInv'
    BY <1>5, <2>12, <2>14, <2>16, <2>17, <2>8
  <2>20. \A w \in op'[t].words : op'[t].val <= latest'[op'[t].blk][w]
    BY <2>8, <2>10, <2>12, <2>14, <2>16
  <2> QED BY <2>14, <2>16, <2>18, <2>19, <2>20
<1>7. ASSUME NEW k \in Gets[t], op' = [op EXCEPT ![t] = [NoOp EXCEPT !.kind = "get", !.blk = k]], UNCHANGED latest
      PROVE  /\ TypeInv'
             /\ op' \in [Thread -> OpType] /\ \A u \in Thread : u # t => op'[u] = op[u]
             /\ op'[t].blk \in Block
             /\ \A j \in Block : Grows(j)
             /\ \A w \in op'[t].words : op'[t].val <= latest'[op'[t].blk][w]
  <2>1. k \in Block
    BY <1>3
  <2>2. PICK q : q = [NoOp EXCEPT !.kind = "get", !.blk = k]
    OBVIOUS
  <2>3. q \in OpType /\ q.kind = "get" /\ q.blk = k /\ q.words = {} /\ q.val = 0
    BY <2>1, <2>2 DEF OpType, NoOp
  <2>4. op' \in [Thread -> OpType] /\ (\A u \in Thread : u # t => op'[u] = op[u]) /\ op'[t] = q
    BY <1>4, <1>7, <2>2, <2>3
  <2>5. \A j \in Block : Grows(j)
    BY <1>3, <1>7 DEF Grows
  <2>6. TypeInv'
    <3>1. latest' \in [Block -> [Word -> Nat]] /\ \A j \in Block : Bounded(latest'[j])
      BY <1>3, <1>7
    <3>2. /\ op'[t].kind \in {"put", "get"} /\ op'[t].blk \in Block
          /\ op'[t].words \in SUBSET Word /\ op'[t].val \in Nat
      BY <2>1, <2>3, <2>4
    <3> QED BY <1>5, <2>4, <3>1, <3>2
  <2> QED BY <2>1, <2>3, <2>4, <2>5, <2>6
<1> QED BY <1>1, <1>2, <1>6, <1>7 DEF Start

\* The thread's node, block and slot.
LEMMA Here ==
  ASSUME TypeInv, NEW t \in Thread
  PROVE  /\ Me(t) \in Node /\ op[t] \in OpType
         /\ op[t].kind \in {None, "put", "get"} /\ op[t].blk \in Block \cup {None} /\ op[t].words \in SUBSET Word
         /\ op[t].val \in Nat /\ op[t].slot \in Slot \cup {None} /\ op[t].old \in Block \cup {None}
         /\ None \notin Block /\ None \notin Slot /\ None \notin Thread
         /\ pc[t] # "idle" => op[t].kind \in {"put", "get"} /\ op[t].blk \in Block /\ Home[op[t].blk] \in Node
         /\ pc[t] \notin {"idle", "lookup", "miss"} => op[t].slot \in Slot
         /\ pc[t] = "writeback" => op[t].old \in Block /\ Home[op[t].old] \in Node
<1>1. op[t] \in OpType /\ NodeOf[t] \in Node /\ Working(t)
  BY CacheAssumption DEF TypeInv
<1> QED BY <1>1, CacheAssumption DEF OpType, Me, Working

\* A thread looks its block up.
LEMMA LookupEffect ==
  ASSUME TypeInv, NEW t \in Thread, Lookup(t)
  PROVE  /\ TypeInv'
         /\ pc[t] = "lookup" /\ OpTo(t, hash[Me(t)][op[t].blk], op[t].old)
         /\ \/ PcTo(t, "miss")
            \/ PcTo(t, "hit") /\ hash[Me(t)][op[t].blk] # None
         /\ UNCHANGED <<backend, dir, local, net, latest, ops>>
<1>1. /\ pc[t] = "lookup" /\ op' = [op EXCEPT ![t].slot = hash[Me(t)][op[t].blk]]
      /\ Goto(t, IF hash[Me(t)][op[t].blk] # None THEN "hit" ELSE "miss")
      /\ UNCHANGED <<backend, dir, local, net, latest, ops>>
  BY DEF Lookup
<1>2. PICK s : s = hash[Me(t)][op[t].blk]
  OBVIOUS
<1>3. s \in Slot \cup {None}
  BY <1>1, <1>2, Here DEF TypeInv
<1>4. OpTo(t, s, op[t].old)
  BY <1>1, <1>2, <1>3, OpSlot
<1>5. (s = None /\ PcTo(t, "miss")) \/ (s # None /\ PcTo(t, "hit"))
  BY <1>1, <1>2, GotoPc DEF Place
<1>6. Working(t)'
  BY <1>1, <1>3, <1>4, <1>5, Here DEF Working, PcTo, OpTo
<1>7. \A u \in Thread : Working(u)'
  BY <1>4, <1>5, <1>6, WorkingFrame DEF OpTo
<1>8. TypeInv'
  BY <1>1, <1>4, <1>5, <1>7 DEF TypeInv, PcTo, OpTo, local, net
<1> QED BY <1>1, <1>2, <1>4, <1>5, <1>8

\* The type invariant after a step of thread t that leaves its operation and
\* the messages alone.
LEMMA QuietStep ==
  ASSUME TypeInv, NEW t \in Thread, NEW l, PcTo(t, l), UNCHANGED <<op, latest, hash, unused, srv>>,
         pc[t] \in {"hit", "miss", "writeback", "fill", "missrenew", "wait", "filled", "write", "renew"},
         l # "writeback", pc[t] = "miss" => l = "miss",
         slot' \in Slots, backend' \in [Block -> [Word -> Nat]], dir' \in [Block -> SUBSET Node],
         ctl' \in [Node -> [Node -> Seq(Messages)]], reply' \in [Node -> [Node -> Seq(Reply)]],
         dlock' \in [Node -> [Node -> Thread \cup {None}]]
  PROVE  TypeInv'
<1>1. Working(t)'
  BY Here DEF Working, PcTo
<1>2. \A u \in Thread : Working(u)'
  BY <1>1, WorkingFrame
<1> QED BY <1>2 DEF TypeInv, PcTo, Slots

\* A thread with the read lock of the slot it found.
LEMMA HitEffect ==
  ASSUME TypeInv, NEW t \in Thread, Hit(t)
  PROVE  /\ TypeInv'
         /\ pc[t] = "hit" /\ op[t].slot \in Slot /\ ~Mine(t).wlock
         /\ \/ ~StillMine(t) /\ PcTo(t, "miss") /\ UNCHANGED slot
            \/ StillMine(t) /\ PcTo(t, "idle") /\ UNCHANGED slot
            \/ /\ StillMine(t) /\ op[t].kind = "put" /\ PcTo(t, "write")
               /\ SlotSet(slot', slot, Me(t), op[t].slot, op[t].blk, Overwrite(Mine(t).words, op[t].words, op[t].val),
                          Mine(t).wlock, Mine(t).readers \cup {t})
         /\ UNCHANGED <<backend, dir, hash, unused, net, op, latest, ops>>
<1>1. pc[t] = "hit" /\ ~Mine(t).wlock /\ UNCHANGED <<backend, dir, hash, unused, net, op, latest, ops>>
  BY DEF Hit
<1>2. PICK n \in Node, s \in Slot : n = Me(t) /\ s = op[t].slot
  BY <1>1, Here
<1>3. slot \in Slots /\ slot[n][s] = Mine(t)
  BY <1>2 DEF Mine, TypeInv, Slots
<1>4. Mine(t).words \in [Word -> Nat] /\ Mine(t).readers \in SUBSET Thread
  BY <1>3 DEF Slots, SlotType
<1>5. ASSUME NEW l, PcTo(t, l), l # "writeback", slot' \in Slots
      PROVE  TypeInv'
  BY <1>1, <1>5, QuietStep DEF TypeInv, net
<1>6. CASE ~StillMine(t) /\ Goto(t, "miss") /\ UNCHANGED slot
  <2>1. PcTo(t, "miss")
    BY <1>6, GotoPc DEF Place
  <2> QED BY <1>1, <1>2, <1>3, <1>5, <1>6, <2>1
<1>7. CASE StillMine(t) /\ Goto(t, "idle") /\ UNCHANGED slot
  <2>1. PcTo(t, "idle")
    BY <1>7, GotoPc DEF Place
  <2> QED BY <1>1, <1>2, <1>3, <1>5, <1>7, <2>1
<1>8. CASE /\ StillMine(t) /\ op[t].kind = "put" /\ Goto(t, "write")
           /\ slot' = [slot EXCEPT ![Me(t)][op[t].slot].words = Overwrite(@, op[t].words, op[t].val),
                                   ![Me(t)][op[t].slot].readers = @ \cup {t}]
  <2>1. PcTo(t, "write")
    BY <1>8, GotoPc DEF Place
  <2>2. PICK ws, R : ws = Overwrite(slot[n][s].words, op[t].words, op[t].val) /\ R = slot[n][s].readers \cup {t}
    OBVIOUS
  <2>3. ws \in [Word -> Nat] /\ R \in SUBSET Thread
    BY <1>3, <1>4, <2>2, Here, OverwriteType
  <2>4. slot' = [slot EXCEPT ![n][s].words = ws, ![n][s].readers = R]
    <3>1. slot' = [slot EXCEPT ![n][s].words = Overwrite(slot[n][s].words, op[t].words, op[t].val),
                               ![n][s].readers = slot[n][s].readers \cup {t}]
      BY <1>2, <1>3, <1>8 DEF Slots, SlotType
    <3> QED BY <2>2, <3>1
  <2>5. SlotSet(slot', slot, n, s, slot[n][s].key, ws, slot[n][s].wlock, R)
    BY <1>3, <2>3, <2>4, SetWritten
  <2>6. slot' \in Slots
    BY <2>5 DEF SlotSet
  <2>7. TypeInv'
    BY <1>5, <2>1, <2>6
  <2>8. slot[n][s].key = op[t].blk
    BY <1>3, <1>8 DEF StillMine
  <2> QED BY <1>1, <1>2, <1>3, <1>8, <2>1, <2>2, <2>5, <2>7, <2>8
<1> QED BY <1>6, <1>7, <1>8 DEF Hit

\* A thread that missed joins the slot being filled, or takes one.
LEMMA GetBlockEffect ==
  ASSUME TypeInv, NEW t \in Thread, GetBlock(t)
  PROVE  /\ TypeInv' /\ pc[t] = "miss"
         /\ \/ /\ Pending(Me(t), op[t].blk) /\ OpTo(t, hash[Me(t)][op[t].blk], op[t].old) /\ PcTo(t, "hit")
               /\ UNCHANGED local
            \/ \E s \in unused[Me(t)] :
               /\ ~Pending(Me(t), op[t].blk)
               /\ unused' = [unused EXCEPT ![Me(t)] = @ \ {s}]
               /\ hash' = [hash EXCEPT ![Me(t)][op[t].blk] = s]
               /\ SlotSet(slot', slot, Me(t), s, slot[Me(t)][s].key, slot[Me(t)][s].words, TRUE, slot[Me(t)][s].readers)
               /\ OpTo(t, s, op[t].old) /\ PcTo(t, "fill")
            \/ \E s \in Slot :
               /\ ~Pending(Me(t), op[t].blk)
               /\ slot[Me(t)][s].key \in Block /\ ~slot[Me(t)][s].wlock /\ slot[Me(t)][s].readers = {}
               /\ hash' = [hash EXCEPT ![Me(t)][slot[Me(t)][s].key] = None, ![Me(t)][op[t].blk] = s]
               /\ SlotSet(slot', slot, Me(t), s, None, slot[Me(t)][s].words, TRUE, slot[Me(t)][s].readers)
               /\ OpTo(t, s, slot[Me(t)][s].key) /\ PcTo(t, "writeback")
               /\ UNCHANGED unused
         /\ UNCHANGED <<backend, dir, net, latest, ops>>
<1>1. pc[t] = "miss" /\ UNCHANGED <<backend, dir, net, latest, ops>>
  BY DEF GetBlock
<1>2. PICK n \in Node, k \in Block : n = Me(t) /\ k = op[t].blk
  BY <1>1, Here
<1>3. /\ slot \in Slots /\ hash \in [Node -> [Block -> Slot \cup {None}]] /\ unused \in [Node -> SUBSET Slot]
      /\ \A s \in Slot : slot[n][s].key \in Block \cup {None}
  BY DEF TypeInv, Slots, SlotType
<1>4. ASSUME NEW s, NEW o, NEW l, OpTo(t, s, o), PcTo(t, l), s \in Slot, l \in {"hit", "fill", "writeback"},
             l = "writeback" => o \in Block,
             slot' \in Slots, hash' \in [Node -> [Block -> Slot \cup {None}]], unused' \in [Node -> SUBSET Slot]
      PROVE  TypeInv'
  <2>1. Working(t)'
    BY <1>1, <1>4, Here DEF Working, PcTo, OpTo
  <2>2. \A u \in Thread : Working(u)'
    BY <1>4, <2>1, WorkingFrame DEF OpTo
  <2> QED BY <1>1, <1>4, <2>2 DEF TypeInv, PcTo, OpTo, net, Slots
<1>5. CASE /\ Pending(n, k) /\ op' = [op EXCEPT ![t].slot = hash[n][k]] /\ Goto(t, "hit") /\ UNCHANGED local
  <2>1. PICK s \in Slot : s = hash[n][k]
    BY <1>3, <1>5 DEF Pending
  <2>2. OpTo(t, s, op[t].old) /\ PcTo(t, "hit")
    BY <1>5, <2>1, OpSlot, GotoPc DEF Place
  <2>3. TypeInv'
    BY <1>3, <1>4, <1>5, <2>2 DEF local
  <2> QED BY <1>1, <1>2, <1>5, <2>1, <2>2, <2>3
<1>6. ASSUME NEW s \in unused[n], ~Pending(n, k), unused' = [unused EXCEPT ![n] = @ \ {s}],
             hash' = [hash EXCEPT ![n][k] = s], slot' = [slot EXCEPT ![n][s].wlock = TRUE],
             op' = [op EXCEPT ![t].slot = s], Goto(t, "fill")
      PROVE  /\ TypeInv' /\ OpTo(t, s, op[t].old) /\ PcTo(t, "fill")
             /\ SlotSet(slot', slot, n, s, slot[n][s].key, slot[n][s].words, TRUE, slot[n][s].readers)
  <2>1. s \in Slot
    BY <1>3, <1>6
  <2>2. OpTo(t, s, op[t].old) /\ PcTo(t, "fill")
    BY <1>6, <2>1, OpSlot, GotoPc DEF Place
  <2>3. SlotSet(slot', slot, n, s, slot[n][s].key, slot[n][s].words, TRUE, slot[n][s].readers)
    BY <1>3, <1>6, <2>1, SetLock
  <2>4. unused' \in [Node -> SUBSET Slot] /\ hash' \in [Node -> [Block -> Slot \cup {None}]]
    BY <1>3, <1>6, <2>1
  <2>5. TypeInv'
    BY <1>4, <2>1, <2>2, <2>3, <2>4 DEF SlotSet
  <2> QED BY <2>2, <2>3, <2>5
<1>7. ASSUME NEW s \in Slot, ~Pending(n, k), slot[n][s].key # None, UNCHANGED unused,
             hash' = [hash EXCEPT ![n][slot[n][s].key] = None, ![n][k] = s],
             slot' = [slot EXCEPT ![n][s].key = None, ![n][s].wlock = TRUE],
             op' = [op EXCEPT ![t].slot = s, ![t].old = slot[n][s].key], Goto(t, "writeback")
      PROVE  /\ TypeInv' /\ slot[n][s].key \in Block /\ OpTo(t, s, slot[n][s].key) /\ PcTo(t, "writeback")
             /\ SlotSet(slot', slot, n, s, None, slot[n][s].words, TRUE, slot[n][s].readers)
  <2>1. PICK o \in Block : o = slot[n][s].key
    BY <1>3, <1>7
  <2>2. op' = [op EXCEPT ![t].slot = s, ![t].old = o]
    BY <1>7, <2>1
  <2>3. OpTo(t, s, o)
    BY <2>2, OpSlot
  <2>4. PcTo(t, "writeback")
    BY <1>7, GotoPc DEF Place
  <2>5. SlotSet(slot', slot, n, s, None, slot[n][s].words, TRUE, slot[n][s].readers)
    BY <1>3, <1>7, SetKey
  <2>6. hash' \in [Node -> [Block -> Slot \cup {None}]]
    BY <1>3, <1>7, <2>1
  <2>7. TypeInv'
    BY <1>3, <1>4, <1>7, <2>3, <2>4, <2>5, <2>6 DEF SlotSet
  <2> QED BY <2>1, <2>3, <2>4, <2>5, <2>7
<1>8. \/ Pending(n, k) /\ op' = [op EXCEPT ![t].slot = hash[n][k]] /\ Goto(t, "hit") /\ UNCHANGED local
      \/ \E s \in unused[n] : /\ ~Pending(n, k) /\ unused' = [unused EXCEPT ![n] = @ \ {s}]
                              /\ hash' = [hash EXCEPT ![n][k] = s] /\ slot' = [slot EXCEPT ![n][s].wlock = TRUE]
                              /\ op' = [op EXCEPT ![t].slot = s] /\ Goto(t, "fill")
      \/ \E s \in Slot : /\ ~Pending(n, k) /\ unused[n] = {}
                         /\ slot[n][s].key # None /\ ~slot[n][s].wlock /\ slot[n][s].readers = {}
                         /\ hash' = [hash EXCEPT ![n][slot[n][s].key] = None, ![n][k] = s]
                         /\ slot' = [slot EXCEPT ![n][s].key = None, ![n][s].wlock = TRUE]
                         /\ op' = [op EXCEPT ![t].slot = s, ![t].old = slot[n][s].key]
                         /\ Goto(t, "writeback") /\ UNCHANGED unused
  BY <1>2, Zenon DEF GetBlock
<1>9. CASE \E s \in unused[n] : /\ ~Pending(n, k) /\ unused' = [unused EXCEPT ![n] = @ \ {s}]
                              /\ hash' = [hash EXCEPT ![n][k] = s] /\ slot' = [slot EXCEPT ![n][s].wlock = TRUE]
                              /\ op' = [op EXCEPT ![t].slot = s] /\ Goto(t, "fill")
  <2>1. PICK s \in unused[n] : /\ ~Pending(n, k) /\ unused' = [unused EXCEPT ![n] = @ \ {s}]
                              /\ hash' = [hash EXCEPT ![n][k] = s] /\ slot' = [slot EXCEPT ![n][s].wlock = TRUE]
                              /\ op' = [op EXCEPT ![t].slot = s] /\ Goto(t, "fill")
    BY <1>9, Zenon
  <2>2. /\ TypeInv' /\ OpTo(t, s, op[t].old) /\ PcTo(t, "fill")
        /\ SlotSet(slot', slot, n, s, slot[n][s].key, slot[n][s].words, TRUE, slot[n][s].readers)
    BY <1>6, <2>1, Zenon
  <2> QED BY <1>1, <1>2, <2>1, <2>2, Zenon
<1>10. CASE \E s \in Slot : /\ ~Pending(n, k) /\ unused[n] = {}
                         /\ slot[n][s].key # None /\ ~slot[n][s].wlock /\ slot[n][s].readers = {}
                         /\ hash' = [hash EXCEPT ![n][slot[n][s].key] = None, ![n][k] = s]
                         /\ slot' = [slot EXCEPT ![n][s].key = None, ![n][s].wlock = TRUE]
                         /\ op' = [op EXCEPT ![t].slot = s, ![t].old = slot[n][s].key]
                         /\ Goto(t, "writeback") /\ UNCHANGED unused
  <2>1. PICK s \in Slot : /\ ~Pending(n, k) /\ unused[n] = {}
                         /\ slot[n][s].key # None /\ ~slot[n][s].wlock /\ slot[n][s].readers = {}
                         /\ hash' = [hash EXCEPT ![n][slot[n][s].key] = None, ![n][k] = s]
                         /\ slot' = [slot EXCEPT ![n][s].key = None, ![n][s].wlock = TRUE]
                         /\ op' = [op EXCEPT ![t].slot = s, ![t].old = slot[n][s].key]
                         /\ Goto(t, "writeback") /\ UNCHANGED unused
    BY <1>10, Zenon
  <2>2. /\ TypeInv' /\ slot[n][s].key \in Block /\ OpTo(t, s, slot[n][s].key) /\ PcTo(t, "writeback")
        /\ SlotSet(slot', slot, n, s, None, slot[n][s].words, TRUE, slot[n][s].readers)
    BY <1>7, <2>1, Zenon
  <2> QED BY <1>1, <1>2, <2>1, <2>2, Zenon
<1> QED BY <1>5, <1>8, <1>9, <1>10, Zenon

\* One queue of messages after an Append.
LEMMA MatrixAppend ==
  ASSUME NEW M, NEW f \in [Node -> [Node -> Seq(M)]], NEW a \in Node, NEW b \in Node, NEW m \in M, NEW g,
         g = [f EXCEPT ![a][b] = Append(@, m)]
  PROVE  /\ g \in [Node -> [Node -> Seq(M)]] /\ g[a][b] = Append(f[a][b], m)
         /\ \A x, y \in Node : x # a \/ y # b => g[x][y] = f[x][y]
<1>1. PICK q : q = Append(f[a][b], m)
  OBVIOUS
<1>2. q \in Seq(M)
  BY <1>1
<1>3. g = [f EXCEPT ![a][b] = q]
  BY <1>1
<1> QED BY <1>1, <1>2, <1>3, Update

\* One queue of messages after a Tail.
LEMMA MatrixTail ==
  ASSUME NEW M, NEW f \in [Node -> [Node -> Seq(M)]], NEW a \in Node, NEW b \in Node, f[a][b] # <<>>, NEW g,
         g = [f EXCEPT ![a][b] = Tail(@)]
  PROVE  /\ g \in [Node -> [Node -> Seq(M)]] /\ g[a][b] = Tail(f[a][b])
         /\ \A x, y \in Node : x # a \/ y # b => g[x][y] = f[x][y]
<1>1. PICK q : q = Tail(f[a][b])
  OBVIOUS
<1>2. q \in Seq(M)
  BY <1>1
<1>3. g = [f EXCEPT ![a][b] = q]
  BY <1>1
<1> QED BY <1>1, <1>2, <1>3, Update

\* One queue from node a to node b gets message m.
CtlAdd(a, b, m) ==
  /\ ctl' \in [Node -> [Node -> Seq(Messages)]] /\ ctl'[a][b] = Append(ctl[a][b], m)
  /\ \A x, y \in Node : x # a \/ y # b => ctl'[x][y] = ctl[x][y]

\* An evicted block is written back.
LEMMA WritebackEffect ==
  ASSUME TypeInv, NEW t \in Thread, Writeback(t)
  PROVE  /\ TypeInv' /\ pc[t] = "writeback" /\ PcTo(t, "fill") /\ op[t].old \in Block
         /\ \/ UNCHANGED ctl
            \/ CtlAdd(Me(t), Home[op[t].old], [kind |-> "Writeback", blk |-> op[t].old])
         /\ UNCHANGED <<backend, local, reply, dlock, srv, op, latest, ops>>
<1>1. pc[t] = "writeback" /\ Goto(t, "fill") /\ UNCHANGED <<backend, local, reply, dlock, srv, op, latest, ops>>
  BY DEF Writeback
<1>2. PICK n \in Node, k \in Block, h \in Node : n = Me(t) /\ k = op[t].old /\ h = Home[k]
  BY <1>1, Here
<1>3. PcTo(t, "fill")
  BY <1>1, GotoPc DEF Place
<1>4. ASSUME ctl' \in [Node -> [Node -> Seq(Messages)]], dir' \in [Block -> SUBSET Node]
      PROVE  TypeInv'
  BY <1>1, <1>3, <1>4, QuietStep DEF TypeInv, local, Slots
<1>5. CASE dir' = [dir EXCEPT ![k] = Dropped(@, n)] /\ UNCHANGED ctl
  <2>1. dir' \in [Block -> SUBSET Node]
    BY <1>5 DEF TypeInv, Dropped
  <2> QED BY <1>1, <1>2, <1>3, <1>4, <1>5, <2>1 DEF TypeInv
<1>6. CASE ctl' = [ctl EXCEPT ![n][h] = Append(@, [kind |-> "Writeback", blk |-> k])] /\ UNCHANGED dir
  <2>1. PICK m : m = [kind |-> "Writeback", blk |-> k]
    OBVIOUS
  <2>2. m \in Messages
    BY <2>1 DEF Messages
  <2>3. CtlAdd(n, h, m)
    BY <1>6, <2>1, <2>2, MatrixAppend DEF CtlAdd, TypeInv
  <2>4. TypeInv'
    BY <1>4, <1>6, <2>3 DEF CtlAdd, TypeInv
  <2> QED BY <1>1, <1>2, <1>3, <2>1, <2>3, <2>4
<1> QED BY <1>2, <1>5, <1>6 DEF Writeback

\* Some queues get message m.
Sent(m) ==
  /\ m \in Messages /\ ctl' \in [Node -> [Node -> Seq(Messages)]]
  /\ \A x, y \in Node : ctl'[x][y] = ctl[x][y] \/ ctl'[x][y] = Append(ctl[x][y], m)

\* The data socket between nodes n and h is given to t.
LockTo(n, h, t) ==
  /\ dlock' \in [Node -> [Node -> Thread \cup {None}]] /\ dlock'[n][h] = t
  /\ \A x, y \in Node : x # n \/ y # h => dlock'[x][y] = dlock[x][y]

\* SendRenew sends one message to some of the nodes.
LEMMA RenewSent ==
  ASSUME TypeInv, NEW h \in Node, NEW src, NEW m, m.blk \in Block, m.words \in SUBSET Word, m.val \in Nat,
         SendRenew(h, src, m)
  PROVE  /\ Sent(RenewMsg(m)) /\ RenewMsg(m).kind = "Renew" /\ RenewMsg(m).blk = m.blk
         /\ RenewMsg(m).words = m.words /\ RenewMsg(m).val = m.val
<1>1. PICK r : r = RenewMsg(m)
  OBVIOUS
<1>2. r \in Messages /\ r.kind = "Renew" /\ r.blk = m.blk /\ r.words = m.words /\ r.val = m.val
  BY <1>1 DEF RenewMsg, Messages
<1>3. PICK row : row = [i \in Node |-> IF i \in dir[m.blk] \ {src, h} THEN Append(ctl[h][i], r) ELSE ctl[h][i]]
  OBVIOUS
<1>4. ctl \in [Node -> [Node -> Seq(Messages)]] /\ ctl[h] \in [Node -> Seq(Messages)]
  BY DEF TypeInv
<1>5. row \in [Node -> Seq(Messages)]
  BY <1>2, <1>3, <1>4
<1>6. ctl' = [ctl EXCEPT ![h] = row]
  BY <1>1, <1>3, Zenon DEF SendRenew
<1>7. ctl' \in [Node -> [Node -> Seq(Messages)]] /\ ctl'[h] = row /\ \A x \in Node : x # h => ctl'[x] = ctl[x]
  BY <1>4, <1>5, <1>6
<1>8. \A y \in Node : row[y] = ctl[h][y] \/ row[y] = Append(ctl[h][y], r)
  BY <1>3
<1>9. \A x, y \in Node : ctl'[x][y] = ctl[x][y] \/ ctl'[x][y] = Append(ctl[x][y], r)
  BY <1>7, <1>8, Zenon
<1> QED BY <1>1, <1>2, <1>7, <1>9 DEF Sent

\* A request to a remote home takes the data socket.
AskTo(t, kind) ==
  /\ Fields(t, kind) \in Messages /\ Me(t) # Home[op[t].blk]
  /\ dlock[Me(t)][Home[op[t].blk]] = None
  /\ LockTo(Me(t), Home[op[t].blk], t)
  /\ CtlAdd(Me(t), Home[op[t].blk], Fields(t, kind))
  /\ PcTo(t, "wait")

\* Ask sends a request and waits.
LEMMA AskEffect ==
  ASSUME TypeInv, NEW t \in Thread, pc[t] # "idle", NEW kind \in {"ReadMiss", "WriteMiss", "Write"}, Ask(t, kind)
  PROVE  AskTo(t, kind)
<1>1. PICK n \in Node, h \in Node : n = Me(t) /\ h = Home[op[t].blk]
  BY Here
<1>2. PICK m : m = Fields(t, kind)
  OBVIOUS
<1>3. m \in Messages
  BY <1>2, Here DEF Fields, Messages
<1>4. /\ h # n /\ dlock[n][h] = None /\ dlock' = [dlock EXCEPT ![n][h] = t]
      /\ ctl' = [ctl EXCEPT ![n][h] = Append(@, m)] /\ Goto(t, "wait")
  BY <1>1, <1>2, Zenon DEF Ask, SocketFree
<1>5. CtlAdd(n, h, m)
  BY <1>3, <1>4, MatrixAppend DEF CtlAdd, TypeInv
<1>6. LockTo(n, h, t)
  BY <1>4 DEF LockTo, TypeInv
<1>7. PcTo(t, "wait")
  BY <1>4, GotoPc DEF Place
<1> QED BY <1>1, <1>2, <1>3, <1>4, <1>5, <1>6, <1>7 DEF AskTo

\* Words ws of block k get the version v in the backend.
Stored(k, ws, v) ==
  /\ backend' \in [Block -> [Word -> Nat]] /\ backend'[k] = Overwrite(backend[k], ws, v)
  /\ \A j \in Block : j # k => backend'[j] = backend[j]

\* A put to the backend.
LEMMA PutEffect ==
  ASSUME TypeInv, NEW k \in Block, NEW ws \in SUBSET Word, NEW v \in Nat, PutBackend(k, ws, v)
  PROVE  Stored(k, ws, v)
<1>1. PICK o : o = Overwrite(backend[k], ws, v)
  OBVIOUS
<1>2. o \in [Word -> Nat]
  BY <1>1, OverwriteType DEF TypeInv
<1>3. backend' = [backend EXCEPT ![k] = o]
  BY <1>1 DEF PutBackend
<1> QED BY <1>1, <1>2, <1>3 DEF Stored, TypeInv

\* A slot of the thread's node gets the words of a block.
Loads(t, ws) == SlotSet(slot', slot, Me(t), op[t].slot, Mine(t).key, ws, Mine(t).wlock, Mine(t).readers)

\* A thread asks for its block, or serves it at the home.
LEMMA FillEffect ==
  ASSUME TypeInv, NEW t \in Thread, Fill(t)
  PROVE  /\ TypeInv' /\ pc[t] = "fill"
         /\ \/ \E kind \in {"ReadMiss", "WriteMiss"} : AskTo(t, kind) /\ UNCHANGED <<backend, dir, slot>>
            \/ /\ Loads(t, backend[op[t].blk]) /\ PcTo(t, "filled")
               /\ UNCHANGED <<backend, ctl, dlock>>
            \/ /\ Stored(op[t].blk, FirstWord(op[t].words), op[t].val)
               /\ PcTo(t, "missrenew")
               /\ UNCHANGED <<dir, slot, ctl, dlock>>
         /\ UNCHANGED <<hash, unused, reply, srv, op, latest, ops>>
<1>1. pc[t] = "fill" /\ UNCHANGED <<hash, unused, reply, srv, op, latest, ops>>
  BY DEF Fill
<1>2. PICK n \in Node, k \in Block, s \in Slot : n = Me(t) /\ k = op[t].blk /\ s = op[t].slot
  BY <1>1, Here
<1>3. slot \in Slots /\ slot[n][s] = Mine(t) /\ backend \in [Block -> [Word -> Nat]] /\ backend[k] \in [Word -> Nat]
  BY <1>2 DEF Mine, TypeInv, Slots
<1>4. ASSUME NEW kind \in {"ReadMiss", "WriteMiss"}, Ask(t, kind), UNCHANGED <<backend, dir, slot>>
      PROVE  TypeInv' /\ AskTo(t, kind)
  <2>1. AskTo(t, kind)
    BY <1>1, <1>4, AskEffect
  <2>2. TypeInv'
    BY <1>1, <1>3, <1>4, <2>1, QuietStep DEF AskTo, CtlAdd, LockTo, TypeInv
  <2> QED BY <2>1, <2>2
<1>5. CASE \E kind \in {"ReadMiss", "WriteMiss"} : Ask(t, kind) /\ UNCHANGED <<backend, dir, slot>>
  BY <1>1, <1>4, <1>5, Zenon
<1>6. CASE /\ dir' = [dir EXCEPT ![k] = Registered(@, n)] /\ slot' = [slot EXCEPT ![n][s].words = backend[k]]
           /\ Goto(t, "filled") /\ UNCHANGED <<backend, ctl, dlock>>
  <2>1. SlotSet(slot', slot, n, s, slot[n][s].key, backend[k], slot[n][s].wlock, slot[n][s].readers)
    BY <1>3, <1>6, SetWords
  <2>2. PcTo(t, "filled")
    BY <1>6, GotoPc DEF Place
  <2>3. dir' \in [Block -> SUBSET Node]
    BY <1>6 DEF TypeInv, Registered
  <2>4. Loads(t, backend[op[t].blk])
    BY <1>2, <1>3, <2>1 DEF Loads
  <2>5. TypeInv'
    BY <1>1, <1>6, <2>1, <2>2, <2>3, QuietStep DEF SlotSet, TypeInv
  <2> QED BY <1>1, <1>6, <2>2, <2>4, <2>5
<1>7. CASE /\ PutBackend(k, FirstWord(op[t].words), op[t].val) /\ Goto(t, "missrenew")
           /\ UNCHANGED <<dir, slot, ctl, dlock>>
  <2>1. FirstWord(op[t].words) \in SUBSET Word
    BY Here DEF FirstWord
  <2>2. Stored(k, FirstWord(op[t].words), op[t].val)
    BY <1>7, <2>1, Here, PutEffect
  <2>3. PcTo(t, "missrenew")
    BY <1>7, GotoPc DEF Place
  <2>4. TypeInv'
    BY <1>1, <1>3, <1>7, <2>2, <2>3, QuietStep DEF Stored, TypeInv
  <2> QED BY <1>1, <1>2, <1>7, <2>2, <2>3, <2>4
<1>8. \/ \E kind \in {"ReadMiss", "WriteMiss"} : Ask(t, kind) /\ UNCHANGED <<backend, dir, slot>>
      \/ /\ dir' = [dir EXCEPT ![k] = Registered(@, n)] /\ slot' = [slot EXCEPT ![n][s].words = backend[k]]
         /\ Goto(t, "filled") /\ UNCHANGED <<backend, ctl, dlock>>
      \/ /\ PutBackend(k, FirstWord(op[t].words), op[t].val) /\ Goto(t, "missrenew")
         /\ UNCHANGED <<dir, slot, ctl, dlock>>
  BY <1>2, Zenon DEF Fill
<1> QED BY <1>5, <1>6, <1>7, <1>8, Zenon

\* The second half of a write miss at the home.
LEMMA MissRenewEffect ==
  ASSUME TypeInv, NEW t \in Thread, MissRenew(t)
  PROVE  /\ TypeInv' /\ pc[t] = "missrenew" /\ PcTo(t, "filled")
         /\ Loads(t, backend[op[t].blk])
         /\ \E m : /\ Sent(m) /\ m.kind = "Renew" /\ m.blk = op[t].blk /\ m.words \subseteq op[t].words /\ m.val = op[t].val
         /\ UNCHANGED <<backend, hash, unused, reply, dlock, srv, op, latest, ops>>
<1>1. pc[t] = "missrenew" /\ Goto(t, "filled") /\ UNCHANGED <<backend, hash, unused, reply, dlock, srv, op, latest, ops>>
  BY DEF MissRenew
<1>2. PICK n \in Node, k \in Block, s \in Slot : n = Me(t) /\ k = op[t].blk /\ s = op[t].slot
  BY <1>1, Here
<1>3. slot \in Slots /\ slot[n][s] = Mine(t) /\ backend \in [Block -> [Word -> Nat]] /\ backend[k] \in [Word -> Nat]
  BY <1>2 DEF Mine, TypeInv, Slots
<1>4. PICK q : q = [Fields(t, "Write") EXCEPT !.words = FirstWord(@)]
  OBVIOUS
<1>5. q.blk = k /\ q.words = FirstWord(op[t].words) /\ q.val = op[t].val
  BY <1>2, <1>4 DEF Fields
<1>6. FirstWord(op[t].words) \in SUBSET op[t].words
  BY DEF FirstWord
<1>7. /\ SendRenew(n, n, q) /\ dir' = [dir EXCEPT ![k] = Registered(@, n)]
      /\ slot' = [slot EXCEPT ![n][s].words = backend[k]]
  BY <1>2, <1>4, Zenon DEF MissRenew
<1>8. /\ Sent(RenewMsg(q)) /\ RenewMsg(q).kind = "Renew" /\ RenewMsg(q).blk = k
      /\ RenewMsg(q).words \subseteq op[t].words /\ RenewMsg(q).val = op[t].val
  BY <1>5, <1>6, <1>7, Here, RenewSent
<1>9. SlotSet(slot', slot, n, s, slot[n][s].key, backend[k], slot[n][s].wlock, slot[n][s].readers)
  BY <1>3, <1>7, SetWords
<1>10. PcTo(t, "filled")
  BY <1>1, GotoPc DEF Place
<1>11. dir' \in [Block -> SUBSET Node]
  BY <1>7 DEF TypeInv, Registered
<1>12. TypeInv'
  BY <1>1, <1>8, <1>9, <1>10, <1>11, QuietStep DEF SlotSet, Sent, TypeInv
<1>13. Loads(t, backend[op[t].blk])
  BY <1>2, <1>3, <1>9 DEF Loads
<1> QED BY <1>1, <1>2, <1>8, <1>10, <1>12, <1>13, Zenon

\* A thread reads the reply it waited for.
LEMMA AnsweredEffect ==
  ASSUME TypeInv, NEW t \in Thread, Answered(t)
  PROVE  LET n == Me(t)
             h == Home[op[t].blk] IN
         /\ TypeInv' /\ pc[t] = "wait" /\ reply[h][n] # <<>>
         /\ LockTo(n, h, None)
         /\ reply' \in [Node -> [Node -> Seq(Reply)]] /\ reply'[h][n] = Tail(reply[h][n])
         /\ \A x, y \in Node : x # h \/ y # n => reply'[x][y] = reply[x][y]
         /\ \/ /\ t \in Mine(t).readers /\ PcTo(t, "idle")
               /\ SlotSet(slot', slot, n, op[t].slot, Mine(t).key, Mine(t).words, Mine(t).wlock, Mine(t).readers \ {t})
            \/ t \notin Mine(t).readers /\ Loads(t, Head(reply[h][n]).words) /\ PcTo(t, "filled")
         /\ UNCHANGED <<backend, dir, hash, unused, ctl, srv, op, latest, ops>>
<1>1. pc[t] = "wait" /\ UNCHANGED <<backend, dir, hash, unused, ctl, srv, op, latest, ops>>
  BY DEF Answered
<1>2. PICK n \in Node, h \in Node, s \in Slot : n = Me(t) /\ h = Home[op[t].blk] /\ s = op[t].slot
  BY <1>1, Here
<1>3. slot \in Slots /\ slot[n][s] = Mine(t) /\ Mine(t) \in SlotType
  BY <1>2 DEF Mine, TypeInv, Slots
<1>4. /\ reply[h][n] # <<>> /\ dlock' = [dlock EXCEPT ![n][h] = None] /\ reply' = [reply EXCEPT ![h][n] = Tail(@)]
      /\ \/ t \in Mine(t).readers /\ slot' = [slot EXCEPT ![n][s].readers = @ \ {t}] /\ Goto(t, "idle")
         \/ t \notin Mine(t).readers /\ slot' = [slot EXCEPT ![n][s].words = Head(reply[h][n]).words] /\ Goto(t, "filled")
  BY <1>2, Zenon DEF Answered, LeaveSocket
<1>5. LockTo(n, h, None)
  BY <1>4 DEF LockTo, TypeInv
<1>6. /\ reply' \in [Node -> [Node -> Seq(Reply)]] /\ reply'[h][n] = Tail(reply[h][n])
      /\ \A x, y \in Node : x # h \/ y # n => reply'[x][y] = reply[x][y]
  BY <1>4, MatrixTail DEF TypeInv
<1>7. ASSUME NEW l \in {"idle", "filled"}, PcTo(t, l), slot' \in Slots
      PROVE  TypeInv'
  BY <1>1, <1>5, <1>6, <1>7, QuietStep DEF TypeInv, LockTo
<1>8. CASE t \in Mine(t).readers /\ slot' = [slot EXCEPT ![n][s].readers = @ \ {t}] /\ Goto(t, "idle")
  <2>1. PICK R \in SUBSET Thread : R = slot[n][s].readers \ {t}
    BY <1>3 DEF SlotType
  <2>2. slot' = [slot EXCEPT ![n][s].readers = R]
    BY <1>8, <2>1
  <2>3. SlotSet(slot', slot, n, s, slot[n][s].key, slot[n][s].words, slot[n][s].wlock, R)
    BY <1>3, <2>2, SetReaders
  <2>4. PcTo(t, "idle")
    BY <1>8, GotoPc DEF Place
  <2>5. TypeInv'
    BY <1>7, <2>3, <2>4 DEF SlotSet
  <2>6. SlotSet(slot', slot, n, op[t].slot, Mine(t).key, Mine(t).words, Mine(t).wlock, Mine(t).readers \ {t})
    BY <1>2, <1>3, <2>1, <2>3
  <2> QED BY <1>1, <1>2, <1>4, <1>5, <1>6, <1>8, <2>4, <2>5, <2>6
<1>9. CASE t \notin Mine(t).readers /\ slot' = [slot EXCEPT ![n][s].words = Head(reply[h][n]).words] /\ Goto(t, "filled")
  <2>1. Head(reply[h][n]) \in Reply
    BY <1>4 DEF TypeInv
  <2>2. PICK ws \in [Word -> Nat] : ws = Head(reply[h][n]).words
    BY <2>1 DEF Reply
  <2>3. SlotSet(slot', slot, n, s, slot[n][s].key, ws, slot[n][s].wlock, slot[n][s].readers)
    BY <1>3, <1>9, <2>2, SetWords
  <2>4. PcTo(t, "filled")
    BY <1>9, GotoPc DEF Place
  <2>5. TypeInv'
    BY <1>7, <2>3, <2>4 DEF SlotSet
  <2>6. Loads(t, Head(reply[h][n]).words)
    BY <1>2, <1>3, <2>2, <2>3 DEF Loads
  <2> QED BY <1>1, <1>2, <1>4, <1>5, <1>6, <1>9, <2>4, <2>5, <2>6
<1> QED BY <1>4, <1>8, <1>9

\* A filled slot gets its key.
LEMMA FilledEffect ==
  ASSUME TypeInv, NEW t \in Thread, Filled(t)
  PROVE  /\ TypeInv' /\ pc[t] = "filled" /\ PcTo(t, "idle")
         /\ SlotSet(slot', slot, Me(t), op[t].slot, op[t].blk, Mine(t).words, FALSE, Mine(t).readers)
         /\ UNCHANGED <<backend, dir, hash, unused, net, op, latest, ops>>
<1>1. pc[t] = "filled" /\ Goto(t, "idle") /\ UNCHANGED <<backend, dir, hash, unused, net, op, latest, ops>>
  BY DEF Filled
<1>2. PICK n \in Node, s \in Slot, k \in Block : n = Me(t) /\ s = op[t].slot /\ k = op[t].blk
  BY <1>1, Here
<1>3. slot \in Slots /\ slot[n][s] = Mine(t)
  BY <1>2 DEF Mine, TypeInv, Slots
<1>4. slot' = [slot EXCEPT ![n][s].key = k, ![n][s].wlock = FALSE]
  BY <1>2, Zenon DEF Filled
<1>5. SlotSet(slot', slot, n, s, k, slot[n][s].words, FALSE, slot[n][s].readers)
  BY <1>3, <1>4, SetKey
<1>6. PcTo(t, "idle")
  BY <1>1, GotoPc DEF Place
<1>7. TypeInv'
  BY <1>1, <1>5, <1>6, QuietStep DEF TypeInv, SlotSet, net
<1> QED BY <1>1, <1>2, <1>3, <1>5, <1>6, <1>7

\* A put that hit is written through.
LEMMA WriteEffect ==
  ASSUME TypeInv, NEW t \in Thread, Write(t)
  PROVE  /\ TypeInv' /\ pc[t] = "write"
         /\ \/ AskTo(t, "Write") /\ UNCHANGED backend
            \/ /\ Stored(op[t].blk, op[t].words, op[t].val) /\ PcTo(t, "renew")
               /\ UNCHANGED <<ctl, dlock>>
         /\ UNCHANGED <<dir, local, reply, srv, op, latest, ops>>
<1>1. pc[t] = "write" /\ UNCHANGED <<dir, local, reply, srv, op, latest, ops>>
  BY DEF Write
<1>2. CASE Ask(t, "Write") /\ UNCHANGED backend
  <2>1. AskTo(t, "Write")
    BY <1>1, <1>2, AskEffect
  <2>2. TypeInv'
    BY <1>1, <1>2, <2>1, QuietStep DEF AskTo, CtlAdd, LockTo, TypeInv, local, Slots
  <2> QED BY <1>1, <1>2, <2>1, <2>2
<1>3. CASE PutBackend(op[t].blk, op[t].words, op[t].val) /\ Goto(t, "renew") /\ UNCHANGED <<ctl, dlock>>
  <2>1. Stored(op[t].blk, op[t].words, op[t].val)
    BY <1>1, <1>3, Here, PutEffect
  <2>2. PcTo(t, "renew")
    BY <1>3, GotoPc DEF Place
  <2>3. TypeInv'
    BY <1>1, <1>3, <2>1, <2>2, QuietStep DEF Stored, TypeInv, local, Slots
  <2> QED BY <1>1, <1>3, <2>1, <2>2, <2>3
<1> QED BY <1>2, <1>3 DEF Write

\* A put at the home renews the other copies.
LEMMA WriteRenewEffect ==
  ASSUME TypeInv, NEW t \in Thread, WriteRenew(t)
  PROVE  /\ TypeInv' /\ pc[t] = "renew" /\ PcTo(t, "idle")
         /\ SlotSet(slot', slot, Me(t), op[t].slot, Mine(t).key, Mine(t).words, Mine(t).wlock, Mine(t).readers \ {t})
         /\ \E m : /\ Sent(m) /\ m.kind = "Renew" /\ m.blk = op[t].blk /\ m.words \subseteq op[t].words /\ m.val = op[t].val
         /\ UNCHANGED <<backend, dir, hash, unused, reply, dlock, srv, op, latest, ops>>
<1>1. pc[t] = "renew" /\ Goto(t, "idle") /\ UNCHANGED <<backend, dir, hash, unused, reply, dlock, srv, op, latest, ops>>
  BY DEF WriteRenew
<1>2. PICK n \in Node, k \in Block, s \in Slot : n = Me(t) /\ k = op[t].blk /\ s = op[t].slot
  BY <1>1, Here
<1>3. slot \in Slots /\ slot[n][s] = Mine(t) /\ Mine(t) \in SlotType
  BY <1>2 DEF Mine, TypeInv, Slots
<1>4. PICK q : q = Fields(t, "Write")
  OBVIOUS
<1>5. q.blk = k /\ q.words = op[t].words /\ q.val = op[t].val
  BY <1>2, <1>4 DEF Fields
<1>6. SendRenew(n, n, q) /\ slot' = [slot EXCEPT ![n][s].readers = @ \ {t}]
  BY <1>2, <1>4, Zenon DEF WriteRenew
<1>7. /\ Sent(RenewMsg(q)) /\ RenewMsg(q).kind = "Renew" /\ RenewMsg(q).blk = k
      /\ RenewMsg(q).words \subseteq op[t].words /\ RenewMsg(q).val = op[t].val
  BY <1>5, <1>6, Here, RenewSent
<1>8. PICK R \in SUBSET Thread : R = slot[n][s].readers \ {t}
  BY <1>3 DEF SlotType
<1>9. slot' = [slot EXCEPT ![n][s].readers = R]
  BY <1>6, <1>8
<1>10. SlotSet(slot', slot, n, s, slot[n][s].key, slot[n][s].words, slot[n][s].wlock, R)
  BY <1>3, <1>9, SetReaders
<1>11. PcTo(t, "idle")
  BY <1>1, GotoPc DEF Place
<1>12. TypeInv'
  BY <1>1, <1>7, <1>10, <1>11, QuietStep DEF SlotSet, Sent, TypeInv
<1>13. SlotSet(slot', slot, Me(t), op[t].slot, Mine(t).key, Mine(t).words, Mine(t).wlock, Mine(t).readers \ {t})
  BY <1>2, <1>3, <1>8, <1>10
<1> QED BY <1>1, <1>2, <1>7, <1>11, <1>12, <1>13

-----------------------------------------------------------------------------
(* Steps of the protocol threads.                                          *)

\* Protocol thread i of node n for peer p handles v, the others what they did.
SrvTo(n, p, i, v) ==
  /\ SrvType(srv') /\ srv'[n][p][i] = v
  /\ \A a, b \in Node : \A j \in Servers(a, b) : a # n \/ b # p \/ j # i => srv'[a][b][j] = srv[a][b][j]

\* Copies of block k get the version v of words ws; locks and keys stay.
Renewed(k, ws, v) ==
  /\ slot' \in Slots
  /\ \A a \in Node, r \in Slot :
       /\ slot'[a][r].key = slot[a][r].key /\ slot'[a][r].wlock = slot[a][r].wlock
       /\ slot'[a][r].readers = slot[a][r].readers
       /\ \/ slot'[a][r].words = slot[a][r].words
          \/ slot[a][r].key = k /\ slot'[a][r].words = Overwrite(slot[a][r].words, ws, v)

\* A reply for block k is sent from n to p.
Replied(n, p, k) ==
  /\ reply' \in [Node -> [Node -> Seq(Reply)]]
  /\ reply'[n][p] = Append(reply[n][p], [blk |-> k, words |-> backend[k]])
  /\ \A x, y \in Node : x # n \/ y # p => reply'[x][y] = reply[x][y]

\* The fields of a message.
LEMMA MessageFields ==
  ASSUME NEW m \in Messages \cup {Idle}
  PROVE  /\ m.kind \in {None, "ReadMiss", "WriteMiss", "Write", "Renew", "WriteRenew", "MissRenew", "Writeback"}
         /\ m.kind # None => m \in Messages /\ m.blk \in Block
         /\ m.kind \notin {None, "Writeback"} => m.words \in SUBSET Word /\ m.val \in Nat
<1>1. CASE m = Idle
  BY <1>1 DEF Idle, None
<1>2. CASE m \in [kind : {"ReadMiss", "WriteMiss", "Write", "Renew", "WriteRenew", "MissRenew"},
                  blk : Block, words : SUBSET Word, val : Nat]
  BY <1>2 DEF Messages, None
<1>3. CASE m \in [kind : {"Writeback"}, blk : Block]
  BY <1>3 DEF Messages, None
<1>4. \/ m = Idle \/ m \in [kind : {"Writeback"}, blk : Block]
      \/ m \in [kind : {"ReadMiss", "WriteMiss", "Write", "Renew", "WriteRenew", "MissRenew"},
                blk : Block, words : SUBSET Word, val : Nat]
  BY Zenon DEF Messages
<1> QED BY <1>1, <1>2, <1>3, <1>4, Zenon

\* A protocol thread is assigned.
LEMMA SrvSet ==
  ASSUME TypeInv, NEW n \in Node, NEW p \in Node, NEW i \in Servers(n, p), NEW v \in Messages \cup {Idle},
         srv' = [srv EXCEPT ![n][p][i] = v]
  PROVE  SrvTo(n, p, i, v)
<1>1. PICK f, g : f = srv /\ g = [f EXCEPT ![n][p][i] = v]
  OBVIOUS
<1> SrvType(f)
  BY <1>1 DEF TypeInv
<1>2. DOMAIN f = Node /\ \A a \in Node : DOMAIN f[a] = Node /\ \A b \in Node : DOMAIN f[a][b] = Servers(a, b)
  BY DEF SrvType
<1>3. g[n][p][i] = v
  BY <1>1, <1>2
<1>4. \A a, b \in Node : \A j \in Servers(a, b) : a # n \/ b # p \/ j # i => g[a][b][j] = f[a][b][j]
  BY <1>1, <1>2
<1>5. \A a, b \in Node : \A j \in Servers(a, b) : g[a][b][j] \in Messages \cup {Idle}
  BY <1>3, <1>4 DEF SrvType
<1>6. DOMAIN g = Node /\ \A a \in Node : DOMAIN g[a] = Node
  BY <1>1, <1>2
<1>7. \A a, b \in Node : DOMAIN g[a][b] = Servers(a, b)
  BY <1>1, <1>2
<1> QED BY <1>1, <1>3, <1>4, <1>5, <1>6, <1>7 DEF SrvType, SrvTo

\* The type invariant after a step of a protocol thread.
LEMMA ServerStep ==
  ASSUME TypeInv, NEW n \in Node, NEW p \in Node, NEW i \in Servers(n, p), NEW v, SrvTo(n, p, i, v),
         UNCHANGED <<hash, unused, dlock, pc, op, latest, ops>>,
         slot' \in Slots, backend' \in [Block -> [Word -> Nat]], dir' \in [Block -> SUBSET Node],
         ctl' \in [Node -> [Node -> Seq(Messages)]], reply' \in [Node -> [Node -> Seq(Reply)]]
  PROVE  TypeInv'
<1>1. \A t \in Thread : Working(t)'
  BY DEF TypeInv, Working
<1> QED BY <1>1 DEF TypeInv, SrvTo, Slots

\* A message is taken from its socket.
LEMMA ReceiveEffect ==
  ASSUME TypeInv, NEW n \in Node, NEW p \in Node, NEW i \in Servers(n, p), Receive(n, p, i)
  PROVE  /\ TypeInv' /\ srv[n][p][i] = Idle /\ ctl[p][n] # <<>>
         /\ SrvTo(n, p, i, Head(ctl[p][n]))
         /\ ctl' \in [Node -> [Node -> Seq(Messages)]] /\ ctl'[p][n] = Tail(ctl[p][n])
         /\ \A x, y \in Node : x # p \/ y # n => ctl'[x][y] = ctl[x][y]
         /\ UNCHANGED <<backend, dir, local, reply, dlock, pc, op, latest, ops>>
<1>1. /\ srv[n][p][i] = Idle /\ ctl[p][n] # <<>> /\ srv' = [srv EXCEPT ![n][p][i] = Head(ctl[p][n])]
      /\ ctl' = [ctl EXCEPT ![p][n] = Tail(@)] /\ UNCHANGED <<backend, dir, local, reply, dlock, pc, op, latest, ops>>
  BY DEF Receive
<1>2. PICK m \in Messages : m = Head(ctl[p][n])
  BY <1>1 DEF TypeInv
<1>3. SrvTo(n, p, i, m)
  BY <1>1, <1>2, SrvSet
<1>4. /\ ctl' \in [Node -> [Node -> Seq(Messages)]] /\ ctl'[p][n] = Tail(ctl[p][n])
      /\ \A x, y \in Node : x # p \/ y # n => ctl'[x][y] = ctl[x][y]
  BY <1>1, MatrixTail DEF TypeInv
<1>5. TypeInv'
  BY <1>1, <1>3, <1>4, ServerStep DEF TypeInv, local, Slots
<1> QED BY <1>1, <1>2, <1>3, <1>4, <1>5

\* What a protocol thread is handling.
LEMMA Handled ==
  ASSUME TypeInv, NEW n \in Node, NEW p \in Node, NEW i \in Servers(n, p)
  PROVE  srv[n][p][i] \in Messages \cup {Idle}
BY DEF TypeInv, SrvType

\* A reply is sent.
LEMMA ReplySent ==
  ASSUME TypeInv, NEW n \in Node, NEW p \in Node, NEW k \in Block,
         reply' = [reply EXCEPT ![n][p] = Append(@, [blk |-> k, words |-> backend[k]])]
  PROVE  Replied(n, p, k)
<1>1. PICK r : r = [blk |-> k, words |-> backend[k]]
  OBVIOUS
<1>2. r \in Reply
  BY <1>1 DEF Reply, TypeInv
<1> QED BY <1>1, <1>2, MatrixAppend DEF Replied, TypeInv

\* A read miss is answered.
LEMMA ServerReadMissEffect ==
  ASSUME TypeInv, NEW n \in Node, NEW p \in Node, NEW i \in Servers(n, p), ServerReadMiss(n, p, i)
  PROVE  /\ TypeInv' /\ srv[n][p][i].kind = "ReadMiss" /\ srv[n][p][i].blk \in Block
         /\ SrvTo(n, p, i, Idle) /\ Replied(n, p, srv[n][p][i].blk)
         /\ UNCHANGED <<backend, local, ctl, dlock, pc, op, latest, ops>>
<1>1. PICK m : m = srv[n][p][i]
  OBVIOUS
<1>2. /\ m.kind = "ReadMiss" /\ dir' = [dir EXCEPT ![m.blk] = Registered(@, p)]
      /\ reply' = [reply EXCEPT ![n][p] = Append(@, [blk |-> m.blk, words |-> backend[m.blk]])]
      /\ srv' = [srv EXCEPT ![n][p][i] = Idle]
      /\ UNCHANGED <<backend, local, ctl, dlock, pc, op, latest, ops>>
  BY <1>1, Zenon DEF ServerReadMiss
<1>3. m.blk \in Block
  BY <1>1, <1>2, Handled, MessageFields DEF None
<1>4. SrvTo(n, p, i, Idle)
  BY <1>2, SrvSet
<1>5. Replied(n, p, m.blk)
  BY <1>2, <1>3, ReplySent
<1>6. dir' \in [Block -> SUBSET Node]
  BY <1>2 DEF TypeInv, Registered
<1>7. TypeInv'
  BY <1>2, <1>4, <1>5, <1>6, ServerStep DEF TypeInv, local, Slots, Replied
<1> QED BY <1>1, <1>2, <1>3, <1>4, <1>5, <1>7

\* A write-back is entered in the directory.
LEMMA ServerWritebackEffect ==
  ASSUME TypeInv, NEW n \in Node, NEW p \in Node, NEW i \in Servers(n, p), ServerWriteback(n, p, i)
  PROVE  /\ TypeInv' /\ srv[n][p][i].kind = "Writeback" /\ SrvTo(n, p, i, Idle)
         /\ UNCHANGED <<backend, local, ctl, reply, dlock, pc, op, latest, ops>>
<1>1. PICK m : m = srv[n][p][i]
  OBVIOUS
<1>2. /\ m.kind = "Writeback" /\ dir' = [dir EXCEPT ![m.blk] = Dropped(@, p)]
      /\ srv' = [srv EXCEPT ![n][p][i] = Idle]
      /\ UNCHANGED <<backend, local, ctl, reply, dlock, pc, op, latest, ops>>
  BY <1>1, Zenon DEF ServerWriteback
<1>3. SrvTo(n, p, i, Idle)
  BY <1>2, SrvSet
<1>4. dir' \in [Block -> SUBSET Node]
  BY <1>2 DEF TypeInv, Dropped
<1>5. TypeInv'
  BY <1>2, <1>3, <1>4, ServerStep DEF TypeInv, local, Slots
<1> QED BY <1>1, <1>2, <1>3, <1>5

\* The slots of one node after a Renew.
LEMMA RenewSlots ==
  ASSUME TypeInv, NEW n \in Node, NEW k \in Block, NEW ws \in SUBSET Word, NEW v \in Nat,
         slot' = [slot EXCEPT ![n] = RenewFresh(n, k, ws, v)]
  PROVE  Renewed(k, ws, v)
<1>1. PICK f : f = RenewFresh(n, k, ws, v)
  OBVIOUS
<1>2. /\ f \in [Slot -> SlotType]
      /\ \A r \in Slot :
           /\ f[r].key = slot[n][r].key /\ f[r].wlock = slot[n][r].wlock /\ f[r].readers = slot[n][r].readers
           /\ \/ f[r].words = slot[n][r].words
              \/ slot[n][r].key = k /\ f[r].words = Overwrite(slot[n][r].words, ws, v)
  <2>1. /\ slot[n] \in [Slot -> SlotType] /\ hash[n][k] \in Slot \cup {None}
        /\ \A r \in Slot : slot[n][r].words \in [Word -> Nat]
    BY DEF TypeInv, SlotType
  <2>2. CASE f = slot[n]
    BY <2>1, <2>2
  <2>3. CASE /\ hash[n][k] # None /\ slot[n][hash[n][k]].key = k
             /\ f = [slot[n] EXCEPT ![hash[n][k]].words = Overwrite(@, ws, v)]
    <3>1. PICK s \in Slot : s = hash[n][k]
      BY <2>1, <2>3
    <3>2. Overwrite(slot[n][s].words, ws, v) \in [Word -> Nat]
      BY <2>1, OverwriteType
    <3>3. [slot[n][s] EXCEPT !.words = Overwrite(slot[n][s].words, ws, v)] \in SlotType
      BY <2>1, <3>2, SlotFields
    <3>4. f = [slot[n] EXCEPT ![s] = [slot[n][s] EXCEPT !.words = Overwrite(slot[n][s].words, ws, v)]]
      BY <2>1, <2>3, <3>1
    <3>5. \A r \in Slot \ {s} : f[r] = slot[n][r]
      BY <2>1, <3>4
    <3>6. f[s] = [slot[n][s] EXCEPT !.words = Overwrite(slot[n][s].words, ws, v)]
      BY <2>1, <3>4
    <3>7. LET q == [slot[n][s] EXCEPT !.words = Overwrite(slot[n][s].words, ws, v)] IN
          /\ q.key = slot[n][s].key /\ q.wlock = slot[n][s].wlock /\ q.readers = slot[n][s].readers
          /\ q.words = Overwrite(slot[n][s].words, ws, v)
      BY <2>1 DEF SlotType
    <3>8. f \in [Slot -> SlotType]
      BY <2>1, <3>3, <3>4
    <3> QED BY <2>3, <3>1, <3>5, <3>6, <3>7, <3>8
  <2> QED BY <1>1, <2>2, <2>3 DEF RenewFresh
<1>3. slot' = [slot EXCEPT ![n] = f]
  BY <1>1
<1>4. slot \in Slots
  BY DEF TypeInv, Slots
<1>5. slot' \in Slots /\ slot'[n] = f /\ \A a \in Node : a # n => slot'[a] = slot[a]
  BY <1>2, <1>3, <1>4 DEF Slots
<1> QED BY <1>2, <1>5, Zenon DEF Renewed

\* A Renew is applied.
LEMMA ServerRenewEffect ==
  ASSUME TypeInv, NEW n \in Node, NEW p \in Node, NEW i \in Servers(n, p), ServerRenew(n, p, i)
  PROVE  /\ TypeInv' /\ srv[n][p][i].kind = "Renew" /\ SrvTo(n, p, i, Idle)
         /\ Renewed(srv[n][p][i].blk, srv[n][p][i].words, srv[n][p][i].val)
         /\ UNCHANGED <<backend, dir, hash, unused, ctl, reply, dlock, pc, op, latest, ops>>
<1>1. PICK m : m = srv[n][p][i]
  OBVIOUS
<1>2. /\ m.kind = "Renew" /\ slot' = [slot EXCEPT ![n] = RenewFresh(n, m.blk, m.words, m.val)]
      /\ srv' = [srv EXCEPT ![n][p][i] = Idle]
      /\ UNCHANGED <<backend, dir, hash, unused, ctl, reply, dlock, pc, op, latest, ops>>
  BY <1>1, Zenon DEF ServerRenew
<1>3. m.blk \in Block /\ m.words \in SUBSET Word /\ m.val \in Nat
  BY <1>1, <1>2, Handled, MessageFields DEF None
<1>4. SrvTo(n, p, i, Idle)
  BY <1>2, SrvSet
<1>5. Renewed(m.blk, m.words, m.val)
  BY <1>2, <1>3, RenewSlots
<1>6. TypeInv'
  BY <1>2, <1>4, <1>5, ServerStep DEF TypeInv, Renewed
<1> QED BY <1>1, <1>2, <1>4, <1>5, <1>6

\* A put is stored before it is answered.
LEMMA ServerPutEffect ==
  ASSUME TypeInv, NEW n \in Node, NEW p \in Node, NEW i \in Servers(n, p), ServerPut(n, p, i)
  PROVE  LET m == srv[n][p][i] IN
         /\ TypeInv' /\ m.kind \in {"Write", "WriteMiss"}
         /\ Stored(m.blk, m.words, m.val)
         /\ \E v \in Messages : /\ v.kind \in {"WriteRenew", "MissRenew"} /\ v.blk = m.blk /\ v.words = m.words /\ v.val = m.val
                                /\ SrvTo(n, p, i, v)
         /\ UNCHANGED <<dir, local, ctl, reply, dlock, pc, op, latest, ops>>
<1>1. PICK m : m = srv[n][p][i]
  OBVIOUS
<1>2. /\ m.kind \in {"Write", "WriteMiss"} /\ PutBackend(m.blk, m.words, m.val)
      /\ srv' = [srv EXCEPT ![n][p][i].kind = IF @ = "Write" THEN "WriteRenew" ELSE "MissRenew"]
      /\ UNCHANGED <<dir, local, ctl, reply, dlock, pc, op, latest, ops>>
  BY <1>1, Zenon DEF ServerPut
<1>3. m \in Messages /\ m.blk \in Block /\ m.words \in SUBSET Word /\ m.val \in Nat
  BY <1>1, <1>2, Handled, MessageFields DEF None
<1>4. Stored(m.blk, m.words, m.val)
  BY <1>2, <1>3, PutEffect
<1>5. PICK v : v = [m EXCEPT !.kind = IF m.kind = "Write" THEN "WriteRenew" ELSE "MissRenew"]
  OBVIOUS
<1>6. v \in Messages /\ v.kind \in {"WriteRenew", "MissRenew"} /\ v.blk = m.blk /\ v.words = m.words /\ v.val = m.val
  BY <1>2, <1>3, <1>5 DEF Messages
<1>7. srv' = [srv EXCEPT ![n][p][i] = v]
  BY <1>1, <1>2, <1>5, Zenon
<1>8. SrvTo(n, p, i, v)
  BY <1>6, <1>7, SrvSet
<1>9. TypeInv'
  BY <1>2, <1>4, <1>8, ServerStep DEF TypeInv, local, Slots, Stored
<1> QED BY <1>1, <1>2, <1>4, <1>6, <1>8, <1>9, Zenon

\* A put is answered and the other copies are renewed.
LEMMA ServerAnswerEffect ==
  ASSUME TypeInv, NEW n \in Node, NEW p \in Node, NEW i \in Servers(n, p), ServerAnswer(n, p, i)
  PROVE  LET m == srv[n][p][i] IN
         /\ TypeInv' /\ m.kind \in {"WriteRenew", "MissRenew"} /\ m.blk \in Block
         /\ \E r : /\ Sent(r) /\ r.kind = "Renew" /\ r.blk = m.blk /\ r.words \subseteq m.words /\ r.val = m.val
         /\ Renewed(m.blk, m.words, m.val)
         /\ SrvTo(n, p, i, Idle) /\ Replied(n, p, m.blk)
         /\ UNCHANGED <<backend, hash, unused, dlock, pc, op, latest, ops>>
<1>1. PICK m : m = srv[n][p][i]
  OBVIOUS
<1>2. /\ m.kind \in {"WriteRenew", "MissRenew"} /\ SendRenew(n, p, m) /\ slot' = RenewHome(n, p, m)
      /\ dir' = IF m.kind = "MissRenew" THEN [dir EXCEPT ![m.blk] = Registered(@, p)] ELSE dir
      /\ reply' = [reply EXCEPT ![n][p] = Append(@, [blk |-> m.blk, words |-> backend[m.blk]])]
      /\ srv' = [srv EXCEPT ![n][p][i] = Idle]
      /\ UNCHANGED <<backend, hash, unused, dlock, pc, op, latest, ops>>
  BY <1>1, Zenon DEF ServerAnswer
<1>3. m \in Messages /\ m.blk \in Block /\ m.words \in SUBSET Word /\ m.val \in Nat
  BY <1>1, <1>2, Handled, MessageFields DEF None
<1>4. SrvTo(n, p, i, Idle)
  BY <1>2, SrvSet
<1>5. Replied(n, p, m.blk)
  BY <1>2, <1>3, ReplySent
<1>6. /\ Sent(RenewMsg(m)) /\ RenewMsg(m).kind = "Renew" /\ RenewMsg(m).blk = m.blk
      /\ RenewMsg(m).words \subseteq m.words /\ RenewMsg(m).val = m.val
  BY <1>2, <1>3, RenewSent
<1>7. Renewed(m.blk, m.words, m.val)
  <2>1. CASE slot' = slot
    BY <2>1 DEF Renewed, TypeInv, Slots
  <2>2. CASE slot' = [slot EXCEPT ![n] = RenewFresh(n, m.blk, m.words, m.val)]
    BY <1>3, <2>2, RenewSlots
  <2> QED BY <1>2, <2>1, <2>2 DEF RenewHome
<1>8. dir' \in [Block -> SUBSET Node]
  BY <1>2 DEF TypeInv, Registered
<1>9. TypeInv'
  BY <1>2, <1>4, <1>5, <1>6, <1>7, <1>8, ServerStep DEF TypeInv, Renewed, Sent, Replied
<1> QED BY <1>1, <1>2, <1>3, <1>4, <1>5, <1>6, <1>7, <1>9, Zenon

-----------------------------------------------------------------------------
(* The slots of a node.                                                    *)

\* Thread t fills a slot.
Filling(t) == \/ pc[t] \in {"writeback", "fill", "missrenew", "filled"}
              \/ pc[t] = "wait" /\ t \notin Mine(t).readers

\* A slot with a key is the one the hash table names.
Mapped == \A n \in Node, s \in Slot : slot[n][s].key # None => hash[n][slot[n][s].key] = s

\* The hash table names slots that hold the block or are being filled with it.
Named ==
  \A n \in Node, k \in Block : hash[n][k] # None =>
    /\ hash[n][k] \notin unused[n]
    /\ \/ slot[n][hash[n][k]].key = k
       \/ \E t \in Thread : Me(t) = n /\ Filling(t) /\ op[t].slot = hash[n][k] /\ op[t].blk = k

\* A slot that is filled is locked and without a key, and has one thread that
\* fills it.
Filled1 ==
  /\ \A t \in Thread : Filling(t) =>
       hash[Me(t)][op[t].blk] = op[t].slot /\ Mine(t).wlock /\ Mine(t).key = None
  /\ \A t, u \in Thread :
       Filling(t) /\ Filling(u) /\ Me(t) = Me(u) /\ op[t].slot = op[u].slot => t = u

\* A slot is read-locked by writers of its block.
Reading ==
  /\ \A n \in Node, s \in Slot : \A t \in slot[n][s].readers :
       /\ Me(t) = n /\ op[t].slot = s /\ op[t].kind = "put" /\ pc[t] \in {"write", "wait", "renew"}
       /\ slot[n][s].key = op[t].blk /\ ~slot[n][s].wlock
  /\ \A t \in Thread : pc[t] \in {"write", "renew"} => t \in Mine(t).readers

\* An unused slot has no key.
Empty == \A n \in Node : \A s \in unused[n] : slot[n][s].key = None

SlotInv == Mapped /\ Named /\ Filled1 /\ Reading /\ Empty

\* Initially there is nothing in the slots.
LEMMA SlotInit ==
  ASSUME Init
  PROVE  SlotInv
<1>1. \A t \in Thread : ~Filling(t) /\ pc[t] = "idle"
  BY DEF Init, Filling
<1>2. \A n \in Node, s \in Slot : slot[n][s].key = None /\ slot[n][s].readers = {}
  BY DEF Init
<1>3. \A n \in Node, k \in Block : hash[n][k] = None
  BY DEF Init
<1>4. Mapped /\ Empty /\ Named
  BY <1>2, <1>3, CacheAssumption DEF Mapped, Empty, Named, Init
<1>5. Filled1 /\ Reading
  BY <1>1, <1>2 DEF Filled1, Reading
<1> QED BY <1>4, <1>5 DEF SlotInv

\* Thread t holds the read lock of some slot.
Reads(t) == \E n \in Node, s \in Slot : t \in slot[n][s].readers

\* A step that changes no key, lock or mapping and no thread's part in them.
LEMMA SlotFrame ==
  ASSUME TypeInv, SlotInv, UNCHANGED <<hash, unused>>,
         \A n \in Node, s \in Slot : /\ slot'[n][s].key = slot[n][s].key /\ slot'[n][s].wlock = slot[n][s].wlock
                                     /\ slot'[n][s].readers = slot[n][s].readers,
         \A u \in Thread : Filling(u)' <=> Filling(u),
         \A u \in Thread : Filling(u) \/ Reads(u) => op'[u] = op[u],
         \A u \in Thread : Reads(u) => pc'[u] \in {"write", "wait", "renew"},
         \A u \in Thread : pc'[u] \in {"write", "renew"} => pc[u] \in {"write", "renew"}
  PROVE  SlotInv'
<1>1. \A u \in Thread : Me(u) \in Node /\ (Filling(u) => op[u].slot \in Slot) /\ (pc[u] \in {"write", "renew"} => op[u].slot \in Slot)
  BY Here DEF Filling
<1>2. Mapped'
  <2> SUFFICES ASSUME NEW n \in Node, NEW s \in Slot, slot'[n][s].key # None PROVE hash'[n][slot'[n][s].key] = s
    BY DEF Mapped
  <2> QED BY DEF SlotInv, Mapped
<1>3. Empty'
  BY DEF SlotInv, Empty, TypeInv
<1>4. Named'
  <2> SUFFICES ASSUME NEW n \in Node, NEW k \in Block, hash'[n][k] # None
               PROVE  /\ hash'[n][k] \notin unused'[n]
                      /\ \/ slot'[n][hash'[n][k]].key = k
                         \/ \E t \in Thread : Me(t) = n /\ Filling(t)' /\ op'[t].slot = hash'[n][k] /\ op'[t].blk = k
    BY DEF Named, Me
  <2>1. hash[n][k] \in Slot
    BY DEF TypeInv
  <2> QED BY <2>1 DEF SlotInv, Named
<1>5. Filled1'
  <2>1. \A t \in Thread : Filling(t) =>
          hash'[Me(t)][op'[t].blk] = op'[t].slot /\ slot'[Me(t)][op'[t].slot].wlock /\ slot'[Me(t)][op'[t].slot].key = None
    BY <1>1 DEF SlotInv, Filled1, Mine
  <2>2. \A t, u \in Thread : Filling(t) /\ Filling(u) /\ Me(t) = Me(u) /\ op'[t].slot = op'[u].slot => t = u
    BY DEF SlotInv, Filled1
  <2> QED BY <2>1, <2>2 DEF Filled1, Mine, Me
<1>6. Reading'
  <2>1. \A n \in Node, s \in Slot : \A t \in slot'[n][s].readers : t \in Thread /\ Reads(t)
    BY DEF Reads, TypeInv, SlotType
  <2>2. \A n \in Node, s \in Slot : \A t \in slot'[n][s].readers :
          /\ Me(t) = n /\ op'[t].slot = s /\ op'[t].kind = "put" /\ pc'[t] \in {"write", "wait", "renew"}
          /\ slot'[n][s].key = op'[t].blk /\ ~slot'[n][s].wlock
    BY <2>1 DEF SlotInv, Reading
  <2>3. \A t \in Thread : pc'[t] \in {"write", "renew"} => t \in slot'[Me(t)][op'[t].slot].readers
    BY <1>1 DEF SlotInv, Reading, Mine, Reads
  <2> QED BY <2>2, <2>3 DEF Reading, Mine, Me
<1> QED BY <1>2, <1>3, <1>4, <1>5, <1>6 DEF SlotInv

\* A thread that moves on without a slot of its own.
LEMMA SlotMove ==
  ASSUME TypeInv, SlotInv, NEW t \in Thread, NEW l, PcTo(t, l), UNCHANGED <<slot, hash, unused>>,
         \A u \in Thread : u # t => op'[u] = op[u],
         pc[t] \in {"idle", "lookup", "hit", "miss"}, l \in {"idle", "lookup", "hit", "miss"}
  PROVE  SlotInv'
<1>1. ~Filling(t) /\ ~Filling(t)' /\ ~Reads(t)
  BY DEF Filling, Reads, SlotInv, Reading, PcTo
<1>2. \A u \in Thread : u # t => (Filling(u)' <=> Filling(u))
  BY DEF Filling, Mine, PcTo, Me
<1>3. \A u \in Thread : Reads(u) => pc'[u] \in {"write", "wait", "renew"}
  BY <1>1 DEF Reads, SlotInv, Reading, PcTo
<1>4. \A u \in Thread : pc'[u] \in {"write", "renew"} => pc[u] \in {"write", "renew"}
  BY DEF PcTo
<1>5. \A u \in Thread : Filling(u)' <=> Filling(u)
  BY <1>1, <1>2
<1>6. \A u \in Thread : Filling(u) \/ Reads(u) => op'[u] = op[u]
  BY <1>1
<1> QED BY <1>3, <1>4, <1>5, <1>6, SlotFrame

\* A thread that goes on with the slot it fills, or writes through.
LEMMA SlotStay ==
  ASSUME TypeInv, SlotInv, NEW t \in Thread, NEW l, PcTo(t, l), UNCHANGED <<hash, unused, op>>,
         \A n \in Node, s \in Slot : /\ slot'[n][s].key = slot[n][s].key /\ slot'[n][s].wlock = slot[n][s].wlock
                                     /\ slot'[n][s].readers = slot[n][s].readers,
         \/ pc[t] \in {"writeback", "fill", "missrenew"} /\ l \in {"fill", "missrenew", "wait", "filled"}
         \/ pc[t] = "wait" /\ t \notin Mine(t).readers /\ l = "filled"
         \/ pc[t] = "write" /\ l \in {"wait", "renew"}
  PROVE  SlotInv'
<1>1. \A u \in Thread : pc[u] \notin {"idle", "lookup", "miss"} => Mine(u).readers' = Mine(u).readers
  BY Here DEF Mine, Me
<1>2. \A u \in Thread : u # t => (Filling(u)' <=> Filling(u))
  BY <1>1 DEF Filling, PcTo
<1>3. Filling(t)' <=> Filling(t)
  <2>1. CASE pc[t] \in {"writeback", "fill", "missrenew"} /\ l \in {"fill", "missrenew", "wait", "filled"}
    <3>1. t \notin Mine(t).readers
      BY <2>1, Here DEF SlotInv, Reading, Mine
    <3> QED BY <1>1, <2>1, <3>1 DEF Filling, PcTo
  <2>2. CASE pc[t] = "wait" /\ t \notin Mine(t).readers /\ l = "filled"
    BY <2>2 DEF Filling, PcTo
  <2>3. CASE pc[t] = "write" /\ l \in {"wait", "renew"}
    <3>1. t \in Mine(t).readers
      BY <2>3 DEF SlotInv, Reading
    <3> QED BY <1>1, <2>3, <3>1 DEF Filling, PcTo
  <2> QED BY <2>1, <2>2, <2>3
<1>4. ASSUME NEW u \in Thread, Reads(u)
      PROVE  pc'[u] \in {"write", "wait", "renew"}
  <2>1. pc[u] \in {"write", "wait", "renew"} /\ u \in Mine(u).readers
    BY <1>4 DEF Reads, SlotInv, Reading, Mine
  <2> QED BY <2>1 DEF PcTo
<1>5. \A u \in Thread : pc'[u] \in {"write", "renew"} => pc[u] \in {"write", "renew"}
  BY DEF PcTo
<1>6. \A u \in Thread : Filling(u)' <=> Filling(u)
  BY <1>2, <1>3
<1> QED BY <1>4, <1>5, <1>6, SlotFrame

\* A protocol step moves no thread and no key.
LEMMA SlotServe ==
  ASSUME TypeInv, SlotInv, UNCHANGED <<hash, unused, op, pc>>,
         \A n \in Node, s \in Slot : /\ slot'[n][s].key = slot[n][s].key /\ slot'[n][s].wlock = slot[n][s].wlock
                                     /\ slot'[n][s].readers = slot[n][s].readers
  PROVE  SlotInv'
<1>1. \A u \in Thread : Filling(u)' <=> Filling(u)
  BY Here DEF Filling, Mine, Me
<1>2. \A u \in Thread : Reads(u) => pc'[u] \in {"write", "wait", "renew"}
  BY DEF Reads, SlotInv, Reading
<1> QED BY <1>1, <1>2, SlotFrame

\* A slot that only its words differ in.
LEMMA LoadsKeys ==
  ASSUME TypeInv, NEW t \in Thread, op[t].slot \in Slot, NEW ws, Loads(t, ws)
  PROVE  \A n \in Node, s \in Slot : /\ slot'[n][s].key = slot[n][s].key /\ slot'[n][s].wlock = slot[n][s].wlock
                                     /\ slot'[n][s].readers = slot[n][s].readers
BY DEF Loads, SlotSet, Mine

\* A put gets the read lock of the slot it hit.
LEMMA SlotHit ==
  ASSUME TypeInv, SlotInv, NEW t \in Thread, Hit(t)
  PROVE  SlotInv'
<1>1. /\ pc[t] = "hit" /\ op[t].slot \in Slot /\ ~Mine(t).wlock
      /\ UNCHANGED <<hash, unused, op>>
  BY HitEffect
<1>2. CASE (PcTo(t, "miss") \/ PcTo(t, "idle")) /\ UNCHANGED slot
  BY <1>1, <1>2, SlotMove
<1>3. CASE /\ StillMine(t) /\ op[t].kind = "put" /\ PcTo(t, "write")
           /\ SlotSet(slot', slot, Me(t), op[t].slot, op[t].blk, Overwrite(Mine(t).words, op[t].words, op[t].val),
                      Mine(t).wlock, Mine(t).readers \cup {t})
  <2>1. PICK n \in Node, s \in Slot : n = Me(t) /\ s = op[t].slot
    BY <1>1, Here
  <2>2. /\ \A a \in Node, r \in Slot : a # n \/ r # s => slot'[a][r] = slot[a][r]
        /\ slot'[n][s].key = slot[n][s].key /\ slot'[n][s].wlock = slot[n][s].wlock
        /\ slot'[n][s].readers = slot[n][s].readers \cup {t} /\ slot[n][s].key = op[t].blk /\ ~slot[n][s].wlock
    BY <1>1, <1>3, <2>1 DEF SlotSet, Mine, StillMine
  <2>3. \A a \in Node, r \in Slot : slot'[a][r].key = slot[a][r].key /\ slot'[a][r].wlock = slot[a][r].wlock
    BY <2>2
  <2>4. \A a \in Node, r \in Slot : \A u \in Thread : u # t => (u \in slot'[a][r].readers <=> u \in slot[a][r].readers)
    BY <2>2
  <2>5. \A u \in Thread : Me(u) \in Node /\ (pc[u] \notin {"idle", "lookup", "miss"} => op[u].slot \in Slot)
    BY Here
  <2>6. \A u \in Thread : Filling(u)' <=> Filling(u)
    <3>1. ~Filling(t) /\ ~Filling(t)'
      BY <1>1, <1>3 DEF Filling, PcTo
    <3>2. \A u \in Thread : u # t => (Filling(u)' <=> Filling(u))
      BY <1>1, <1>3, <2>4, <2>5 DEF Filling, PcTo, Mine, Me
    <3> QED BY <3>1, <3>2
  <2>7. Mapped'
    BY <1>1, <2>3 DEF SlotInv, Mapped
  <2>8. Empty'
    <3>1. \A a \in Node : unused[a] \subseteq Slot
      BY DEF TypeInv
    <3> QED BY <1>1, <2>3, <3>1 DEF SlotInv, Empty
  <2>9. Named'
    <3> SUFFICES ASSUME NEW a \in Node, NEW k \in Block, hash'[a][k] # None
                 PROVE  /\ hash'[a][k] \notin unused'[a]
                        /\ \/ slot'[a][hash'[a][k]].key = k
                           \/ \E u \in Thread : Me(u) = a /\ Filling(u)' /\ op'[u].slot = hash'[a][k] /\ op'[u].blk = k
      BY DEF Named, Me
    <3>1. hash[a][k] \in Slot
      BY <1>1 DEF TypeInv
    <3> QED BY <1>1, <2>3, <2>6, <3>1 DEF SlotInv, Named
  <2>10. Filled1'
    <3>1. \A u \in Thread : Filling(u) => op[u].slot \in Slot
      BY <2>5 DEF Filling
    <3>2. \A u \in Thread : Filling(u) =>
            hash[Me(u)][op[u].blk] = op[u].slot /\ slot'[Me(u)][op[u].slot].wlock /\ slot'[Me(u)][op[u].slot].key = None
      BY <2>3, <2>5, <3>1 DEF SlotInv, Filled1, Mine
    <3>3. \A v, u \in Thread : Filling(v) /\ Filling(u) /\ Me(v) = Me(u) /\ op[v].slot = op[u].slot => v = u
      BY DEF SlotInv, Filled1
    <3> QED BY <1>1, <2>6, <3>2, <3>3 DEF Filled1, Mine, Me
  <2>11. Reading'
    <3>1. \A a \in Node, r \in Slot : \A u \in slot'[a][r].readers : (u = t /\ a = n /\ r = s) \/ (u # t /\ u \in slot[a][r].readers)
      <4>1. \A a \in Node, r \in Slot : t \notin slot[a][r].readers
        BY <1>1 DEF SlotInv, Reading
      <4> QED BY <2>2, <4>1
    <3>2. \A a \in Node, r \in Slot : \A u \in slot'[a][r].readers :
            /\ Me(u) = a /\ op[u].slot = r /\ op[u].kind = "put" /\ pc'[u] \in {"write", "wait", "renew"}
            /\ slot'[a][r].key = op[u].blk /\ ~slot'[a][r].wlock
      <4> TAKE a \in Node, r \in Slot
      <4> TAKE u \in slot'[a][r].readers
      <4>1. CASE u = t /\ a = n /\ r = s
        BY <1>3, <2>1, <2>2, <4>1 DEF PcTo
      <4>2. CASE u # t /\ u \in slot[a][r].readers
        <5>1. u \in Thread
          BY <4>2 DEF TypeInv, SlotType
        <5> QED BY <1>3, <2>3, <4>2, <5>1 DEF SlotInv, Reading, PcTo
      <4> QED BY <3>1, <4>1, <4>2
    <3>3. \A u \in Thread : pc'[u] \in {"write", "renew"} => u \in slot'[Me(u)][op[u].slot].readers
      <4> TAKE u \in Thread
      <4>1. CASE u = t
        BY <2>1, <2>2, <4>1
      <4>2. CASE u # t /\ pc'[u] \in {"write", "renew"}
        <5>1. pc[u] \in {"write", "renew"}
          BY <1>3, <4>2 DEF PcTo
        <5> QED BY <2>4, <2>5, <4>2, <5>1 DEF SlotInv, Reading, Mine
      <4> QED BY <4>1, <4>2
    <3> QED BY <1>1, <3>2, <3>3 DEF Reading, Mine, Me
  <2> QED BY <2>7, <2>8, <2>9, <2>10, <2>11 DEF SlotInv
<1> QED BY <1>2, <1>3, HitEffect

\* A put gives the read lock back.
LEMMA SlotLeave ==
  ASSUME TypeInv, SlotInv, NEW t \in Thread, pc[t] \in {"wait", "renew"}, t \in Mine(t).readers, PcTo(t, "idle"),
         SlotSet(slot', slot, Me(t), op[t].slot, Mine(t).key, Mine(t).words, Mine(t).wlock, Mine(t).readers \ {t}),
         UNCHANGED <<hash, unused, op>>
  PROVE  SlotInv'
<1>1. PICK n \in Node, s \in Slot : n = Me(t) /\ s = op[t].slot
  BY Here
<1>2. /\ \A a \in Node, r \in Slot : a # n \/ r # s => slot'[a][r] = slot[a][r]
      /\ slot'[n][s].key = slot[n][s].key /\ slot'[n][s].wlock = slot[n][s].wlock
      /\ slot'[n][s].readers = slot[n][s].readers \ {t}
  BY <1>1 DEF SlotSet, Mine
<1>3. \A a \in Node, r \in Slot : slot'[a][r].key = slot[a][r].key /\ slot'[a][r].wlock = slot[a][r].wlock
  BY <1>2
<1>4. \A a \in Node, r \in Slot : \A u \in Thread : u # t => (u \in slot'[a][r].readers <=> u \in slot[a][r].readers)
  BY <1>2
<1>5. \A u \in Thread : Me(u) \in Node /\ (pc[u] \notin {"idle", "lookup", "miss"} => op[u].slot \in Slot)
  BY Here
<1>6. \A u \in Thread : Filling(u)' <=> Filling(u)
  <2>1. ~Filling(t) /\ ~Filling(t)'
    BY DEF Filling, PcTo
  <2>2. \A u \in Thread : u # t => (Filling(u)' <=> Filling(u))
    BY <1>4, <1>5 DEF Filling, PcTo, Mine, Me
  <2> QED BY <2>1, <2>2
<1>7. Mapped'
  BY <1>3 DEF SlotInv, Mapped
<1>8. Empty'
  <2>1. \A a \in Node : unused[a] \subseteq Slot
    BY DEF TypeInv
  <2> QED BY <1>3, <2>1 DEF SlotInv, Empty
<1>9. Named'
  <2> SUFFICES ASSUME NEW a \in Node, NEW k \in Block, hash'[a][k] # None
               PROVE  /\ hash'[a][k] \notin unused'[a]
                      /\ \/ slot'[a][hash'[a][k]].key = k
                         \/ \E u \in Thread : Me(u) = a /\ Filling(u)' /\ op'[u].slot = hash'[a][k] /\ op'[u].blk = k
    BY DEF Named, Me
  <2>1. hash[a][k] \in Slot
    BY DEF TypeInv
  <2> QED BY <1>3, <1>6, <2>1 DEF SlotInv, Named
<1>10. Filled1'
  <2>1. \A u \in Thread : Filling(u) => op[u].slot \in Slot
    BY <1>5 DEF Filling
  <2>2. \A u \in Thread : Filling(u) =>
          hash[Me(u)][op[u].blk] = op[u].slot /\ slot'[Me(u)][op[u].slot].wlock /\ slot'[Me(u)][op[u].slot].key = None
    BY <1>3, <1>5, <2>1 DEF SlotInv, Filled1, Mine
  <2>3. \A v, u \in Thread : Filling(v) /\ Filling(u) /\ Me(v) = Me(u) /\ op[v].slot = op[u].slot => v = u
    BY DEF SlotInv, Filled1
  <2> QED BY <1>6, <2>2, <2>3 DEF Filled1, Mine, Me
<1>11. Reading'
  <2>1. \A a \in Node, r \in Slot : \A u \in slot'[a][r].readers : u # t /\ u \in slot[a][r].readers
    <3>1. \A a \in Node, r \in Slot : t \in slot[a][r].readers => a = n /\ r = s
      BY <1>1 DEF SlotInv, Reading
    <3> QED BY <1>2, <3>1
  <2>2. \A a \in Node, r \in Slot : \A u \in slot'[a][r].readers :
          /\ Me(u) = a /\ op[u].slot = r /\ op[u].kind = "put" /\ pc'[u] \in {"write", "wait", "renew"}
          /\ slot'[a][r].key = op[u].blk /\ ~slot'[a][r].wlock
    <3> TAKE a \in Node, r \in Slot
    <3> TAKE u \in slot'[a][r].readers
    <3>1. u # t /\ u \in slot[a][r].readers
      BY <2>1
    <3>2. u \in Thread
      BY <3>1 DEF TypeInv, SlotType
    <3> QED BY <1>3, <3>1, <3>2 DEF SlotInv, Reading, PcTo
  <2>3. \A u \in Thread : pc'[u] \in {"write", "renew"} => u \in slot'[Me(u)][op[u].slot].readers
    BY <1>4, <1>5 DEF SlotInv, Reading, Mine, PcTo
  <2> QED BY <2>2, <2>3 DEF Reading, Mine, Me
<1> QED BY <1>7, <1>8, <1>9, <1>10, <1>11 DEF SlotInv

\* A filled slot is given its key and unlocked.
LEMMA SlotFilled ==
  ASSUME TypeInv, SlotInv, NEW t \in Thread, Filled(t)
  PROVE  SlotInv'
<1>1. /\ pc[t] = "filled" /\ PcTo(t, "idle") /\ UNCHANGED <<hash, unused, op>>
      /\ SlotSet(slot', slot, Me(t), op[t].slot, op[t].blk, Mine(t).words, FALSE, Mine(t).readers)
  BY FilledEffect
<1>2. PICK n \in Node, s \in Slot, k \in Block : n = Me(t) /\ s = op[t].slot /\ k = op[t].blk
  BY <1>1, Here
<1>3. /\ \A a \in Node, r \in Slot : a # n \/ r # s => slot'[a][r] = slot[a][r]
      /\ slot'[n][s].key = k /\ slot'[n][s].wlock = FALSE
      /\ slot'[n][s].readers = slot[n][s].readers
  BY <1>1, <1>2 DEF SlotSet, Mine
<1>4. Filling(t) /\ hash[n][k] = s /\ slot[n][s].wlock /\ slot[n][s].key = None
  BY <1>1, <1>2 DEF Filling, SlotInv, Filled1, Mine
<1>5. slot[n][s].readers = {}
  BY <1>4 DEF SlotInv, Reading
<1>6. \A u \in Thread : Me(u) \in Node /\ (pc[u] \notin {"idle", "lookup", "miss"} => op[u].slot \in Slot)
  BY Here
<1>7. \A a \in Node, r \in Slot : slot'[a][r].readers = slot[a][r].readers
  BY <1>3
<1>8. ~Filling(t)' /\ \A u \in Thread : u # t => (Filling(u)' <=> Filling(u))
  BY <1>1, <1>6, <1>7 DEF Filling, PcTo, Mine, Me
<1>9. \A u \in Thread : Filling(u) /\ Me(u) = n /\ op[u].slot = s => u = t
  BY <1>2, <1>4 DEF SlotInv, Filled1
<1>10. None \notin Slot /\ None \notin Block
  BY CacheAssumption
<1>11. Mapped'
  <2> SUFFICES ASSUME NEW a \in Node, NEW r \in Slot, slot'[a][r].key # None PROVE hash'[a][slot'[a][r].key] = r
    BY DEF Mapped
  <2> QED BY <1>1, <1>3, <1>4 DEF SlotInv, Mapped
<1>12. Empty'
  <2>1. s \notin unused[n]
    BY <1>4, <1>10 DEF SlotInv, Named
  <2>2. \A a \in Node : unused[a] \subseteq Slot
    BY DEF TypeInv
  <2> QED BY <1>1, <1>3, <2>1, <2>2 DEF SlotInv, Empty
<1>13. Named'
  <2> SUFFICES ASSUME NEW a \in Node, NEW j \in Block, hash'[a][j] # None
               PROVE  /\ hash'[a][j] \notin unused'[a]
                      /\ \/ slot'[a][hash'[a][j]].key = j
                         \/ \E u \in Thread : Me(u) = a /\ Filling(u)' /\ op'[u].slot = hash'[a][j] /\ op'[u].blk = j
    BY DEF Named, Me
  <2>1. hash[a][j] \in Slot
    BY <1>1 DEF TypeInv
  <2>2. CASE slot[a][hash[a][j]].key = j
    BY <1>1, <1>3, <1>4, <1>10, <2>1, <2>2 DEF SlotInv, Named
  <2>3. CASE \E u \in Thread : Me(u) = a /\ Filling(u) /\ op[u].slot = hash[a][j] /\ op[u].blk = j
    BY <1>1, <1>2, <1>3, <1>8, <1>9, <2>1, <2>3 DEF SlotInv, Named
  <2> QED BY <1>1, <2>2, <2>3 DEF SlotInv, Named
<1>14. Filled1'
  <2>1. \A u \in Thread : Filling(u) /\ u # t =>
          hash[Me(u)][op[u].blk] = op[u].slot /\ slot'[Me(u)][op[u].slot].wlock /\ slot'[Me(u)][op[u].slot].key = None
    <3> SUFFICES ASSUME NEW u \in Thread, Filling(u), u # t
                 PROVE  hash[Me(u)][op[u].blk] = op[u].slot /\ slot'[Me(u)][op[u].slot].wlock /\ slot'[Me(u)][op[u].slot].key = None
      OBVIOUS
    <3>1. op[u].slot \in Slot /\ Me(u) \in Node /\ (Me(u) # n \/ op[u].slot # s)
      BY <1>6, <1>9 DEF Filling
    <3> QED BY <1>3, <3>1 DEF SlotInv, Filled1, Mine
  <2>2. \A v, u \in Thread : Filling(v) /\ Filling(u) /\ Me(v) = Me(u) /\ op[v].slot = op[u].slot => v = u
    BY DEF SlotInv, Filled1
  <2> QED BY <1>1, <1>8, <2>1, <2>2 DEF Filled1, Mine, Me
<1>15. Reading'
  <2>1. \A a \in Node, r \in Slot : \A u \in slot'[a][r].readers :
          /\ Me(u) = a /\ op[u].slot = r /\ op[u].kind = "put" /\ pc'[u] \in {"write", "wait", "renew"}
          /\ slot'[a][r].key = op[u].blk /\ ~slot'[a][r].wlock
    <3> TAKE a \in Node, r \in Slot
    <3> TAKE u \in slot'[a][r].readers
    <3>1. u \in slot[a][r].readers /\ (a # n \/ r # s)
      BY <1>5, <1>7
    <3>2. u \in Thread
      BY <3>1 DEF TypeInv, SlotType
    <3>3. u # t
      BY <1>1, <3>1 DEF SlotInv, Reading
    <3> QED BY <1>1, <1>3, <3>1, <3>2, <3>3 DEF SlotInv, Reading, PcTo
  <2>2. \A u \in Thread : pc'[u] \in {"write", "renew"} => u \in slot'[Me(u)][op[u].slot].readers
    BY <1>1, <1>6, <1>7 DEF SlotInv, Reading, Mine, PcTo
  <2> QED BY <1>1, <2>1, <2>2 DEF Reading, Mine, Me
<1> QED BY <1>11, <1>12, <1>13, <1>14, <1>15 DEF SlotInv

\* Thread t takes slot s of its node n to fill it with block k.
Takes(t, n, k, s, o, l) ==
  /\ n = Me(t) /\ k = op[t].blk /\ pc[t] = "miss" /\ hash[n][k] = None
  /\ OpTo(t, s, o) /\ PcTo(t, l) /\ SlotSet(slot', slot, n, s, None, slot[n][s].words, TRUE, {})
  /\ unused' \in [Node -> SUBSET Slot] /\ (\A a \in Node : unused'[a] \subseteq unused[a]) /\ s \notin unused'[n]
  /\ hash'[n][k] = s
  /\ \A a \in Node, j \in Block :
       a # n \/ j # k => hash'[a][j] = hash[a][j] \/ (a = n /\ hash[n][j] = s /\ hash'[n][j] = None)
  /\ \A j \in Block : j # k => hash'[n][j] # s
  /\ \A u \in Thread : Filling(u) => Me(u) # n \/ op[u].slot # s
  /\ slot[n][s].readers = {}

\* A slot is taken: an unused one or a victim.
LEMMA SlotTake ==
  ASSUME TypeInv, SlotInv, NEW t \in Thread, NEW n \in Node, NEW k \in Block, NEW s \in Slot,
         NEW o, NEW l \in {"fill", "writeback"}, Takes(t, n, k, s, o, l)
  PROVE  SlotInv'
<1> USE DEF Takes
<1>1. /\ \A a \in Node, r \in Slot : a # n \/ r # s => slot'[a][r] = slot[a][r]
      /\ slot'[n][s].key = None /\ slot'[n][s].wlock = TRUE /\ slot'[n][s].readers = {}
  BY DEF SlotSet
<1>2. \A a \in Node, r \in Slot : slot'[a][r].readers = slot[a][r].readers
  BY <1>1
<1>3. \A u \in Thread : Me(u) \in Node /\ (pc[u] \notin {"idle", "lookup", "miss"} => op[u].slot \in Slot)
  BY Here
<1>4. \A u \in Thread : u # t => op'[u] = op[u] /\ pc'[u] = pc[u]
  BY DEF OpTo, PcTo
<1>5. op'[t].slot = s /\ op'[t].blk = k /\ pc'[t] = l
  BY DEF OpTo, PcTo
<1>6. ~Filling(t) /\ Filling(t)'
  BY <1>5 DEF Filling
<1>7. \A u \in Thread : u # t => (Filling(u)' <=> Filling(u))
  BY <1>2, <1>3, <1>4 DEF Filling, Mine, Me
<1>8. None \notin Slot /\ None \notin Block
  BY CacheAssumption
<1>9. Mapped'
  <2> SUFFICES ASSUME NEW a \in Node, NEW r \in Slot, slot'[a][r].key # None PROVE hash'[a][slot'[a][r].key] = r
    BY DEF Mapped
  <2>1. (a # n \/ r # s) /\ slot'[a][r] = slot[a][r]
    BY <1>1
  <2>2. PICK j \in Block : j = slot[a][r].key
    BY <2>1 DEF TypeInv, SlotType
  <2>3. hash[a][j] = r
    BY <2>1, <2>2 DEF SlotInv, Mapped
  <2>4. a # n \/ j # k
    BY <1>8, <2>3
  <2> QED BY <2>1, <2>2, <2>3, <2>4
<1>10. Empty'
  BY <1>1 DEF SlotInv, Empty
<1>11. Named'
  <2> SUFFICES ASSUME NEW a \in Node, NEW j \in Block, hash'[a][j] # None
               PROVE  /\ hash'[a][j] \notin unused'[a]
                      /\ \/ slot'[a][hash'[a][j]].key = j
                         \/ \E u \in Thread : Me(u) = a /\ Filling(u)' /\ op'[u].slot = hash'[a][j] /\ op'[u].blk = j
    BY DEF Named, Me
  <2>1. CASE a = n /\ j = k
    BY <1>5, <1>6, <2>1
  <2>2. CASE a # n \/ j # k
    <3>1. hash'[a][j] = hash[a][j] /\ hash[a][j] \in Slot /\ (a # n \/ hash[a][j] # s)
      BY <2>2 DEF TypeInv
    <3>2. PICK r \in Slot : r = hash[a][j]
      BY <3>1
    <3>3. slot'[a][r] = slot[a][r] /\ r \notin unused'[a]
      BY <1>1, <3>1, <3>2 DEF SlotInv, Named
    <3>4. CASE slot[a][r].key = j
      BY <3>1, <3>2, <3>3, <3>4
    <3>5. CASE \E u \in Thread : Me(u) = a /\ Filling(u) /\ op[u].slot = r /\ op[u].blk = j
      BY <1>4, <1>6, <1>7, <3>1, <3>2, <3>3, <3>5
    <3> QED BY <3>1, <3>2, <3>4, <3>5 DEF SlotInv, Named
  <2> QED BY <2>1, <2>2
<1>12. Filled1'
  <2>1. ASSUME NEW u \in Thread, Filling(u)
        PROVE  /\ u # t /\ hash'[Me(u)][op'[u].blk] = op'[u].slot
               /\ slot'[Me(u)][op'[u].slot].wlock /\ slot'[Me(u)][op'[u].slot].key = None
               /\ Me(u) # n \/ op'[u].slot # s
    <3>1. /\ u # t /\ op[u].slot \in Slot /\ Me(u) \in Node /\ (Me(u) # n \/ op[u].slot # s) /\ op[u].blk \in Block
          /\ op'[u] = op[u]
      BY <1>3, <1>4, <1>6, <2>1, Here DEF Filling
    <3>2. hash[Me(u)][op[u].blk] = op[u].slot /\ slot[Me(u)][op[u].slot].wlock /\ slot[Me(u)][op[u].slot].key = None
      BY <2>1 DEF SlotInv, Filled1, Mine
    <3>3. Me(u) # n \/ op[u].blk # k
      BY <1>8, <3>1, <3>2
    <3> QED BY <1>1, <3>1, <3>2, <3>3
  <2>2. \A v, u \in Thread : Filling(v) /\ Filling(u) /\ Me(v) = Me(u) /\ op[v].slot = op[u].slot => v = u
    BY DEF SlotInv, Filled1
  <2>3. \A u \in Thread : Filling(u)' =>
          hash'[Me(u)][op'[u].blk] = op'[u].slot /\ slot'[Me(u)][op'[u].slot].wlock /\ slot'[Me(u)][op'[u].slot].key = None
    BY <1>1, <1>5, <1>7, <2>1
  <2>4. \A v, u \in Thread : Filling(v)' /\ Filling(u)' /\ Me(v) = Me(u) /\ op'[v].slot = op'[u].slot => v = u
    BY <1>4, <1>5, <1>7, <2>1, <2>2
  <2> QED BY <2>3, <2>4 DEF Filled1, Mine, Me
<1>13. Reading'
  <2>1. \A a \in Node, r \in Slot : \A u \in slot'[a][r].readers :
          /\ Me(u) = a /\ op'[u].slot = r /\ op'[u].kind = "put" /\ pc'[u] \in {"write", "wait", "renew"}
          /\ slot'[a][r].key = op'[u].blk /\ ~slot'[a][r].wlock
    <3> TAKE a \in Node, r \in Slot
    <3> TAKE u \in slot'[a][r].readers
    <3>1. u \in slot[a][r].readers /\ (a # n \/ r # s)
      BY <1>1, <1>2
    <3>2. u \in Thread
      BY <3>1 DEF TypeInv, SlotType
    <3>3. u # t
      BY <3>1 DEF SlotInv, Reading
    <3> QED BY <1>1, <1>4, <3>1, <3>2, <3>3 DEF SlotInv, Reading
  <2>2. \A u \in Thread : pc'[u] \in {"write", "renew"} => u \in slot'[Me(u)][op'[u].slot].readers
    BY <1>2, <1>3, <1>4, <1>5 DEF SlotInv, Reading, Mine
  <2> QED BY <2>1, <2>2 DEF Reading, Mine, Me
<1> QED BY <1>9, <1>10, <1>11, <1>12, <1>13 DEF SlotInv

\* getblock keeps the slots in order.
LEMMA SlotGet ==
  ASSUME TypeInv, SlotInv, NEW t \in Thread, GetBlock(t)
  PROVE  SlotInv'
<1>1. TypeInv' /\ pc[t] = "miss"
  BY GetBlockEffect
<1>2. PICK n \in Node, k \in Block : n = Me(t) /\ k = op[t].blk
  BY <1>1, Here
<1>3. None \notin Slot /\ None \notin Block /\ unused \in [Node -> SUBSET Slot] /\ hash \in [Node -> [Block -> Slot \cup {None}]]
  BY CacheAssumption DEF TypeInv
<1>4. \A u \in Thread : Filling(u) => op[u].blk \in Block /\ op[u].slot \in Slot
  BY Here DEF Filling
<1>5. CASE OpTo(t, hash[n][k], op[t].old) /\ PcTo(t, "hit") /\ UNCHANGED local
  BY <1>1, <1>5, SlotMove DEF local, OpTo
<1>6. ASSUME NEW s \in unused[n], ~Pending(n, k), unused' = [unused EXCEPT ![n] = @ \ {s}],
             hash' = [hash EXCEPT ![n][k] = s], OpTo(t, s, op[t].old), PcTo(t, "fill"),
             SlotSet(slot', slot, n, s, slot[n][s].key, slot[n][s].words, TRUE, slot[n][s].readers)
      PROVE  SlotInv'
  <2>1. s \in Slot /\ hash[n][k] = None /\ slot[n][s].key = None
    BY <1>3, <1>6 DEF Pending, SlotInv, Empty
  <2>2. \A u \in slot[n][s].readers : FALSE
    <3> TAKE u \in slot[n][s].readers
    <3>1. u \in Thread
      BY <2>1 DEF TypeInv, SlotType
    <3>2. pc[u] # "idle" /\ op[u].blk = None
      BY <2>1 DEF SlotInv, Reading
    <3> QED BY <1>3, <3>1, <3>2, Here
  <2>3. slot[n][s].readers = {}
    BY <2>2
  <2>4. hash'[n][k] = s /\ \A a \in Node, j \in Block : a # n \/ j # k => hash'[a][j] = hash[a][j]
    BY <1>3, <1>6, <2>1
  <2>5. unused' \in [Node -> SUBSET Slot] /\ s \notin unused'[n] /\ \A a \in Node : unused'[a] \subseteq unused[a]
    BY <1>3, <1>6
  <2>6. \A j \in Block : j # k => hash'[n][j] # s
    BY <1>3, <1>6, <2>1, <2>4 DEF SlotInv, Named
  <2>7. \A u \in Thread : Filling(u) => Me(u) # n \/ op[u].slot # s
    BY <1>3, <1>4, <1>6 DEF SlotInv, Named, Filled1
  <2>8. SlotSet(slot', slot, n, s, None, slot[n][s].words, TRUE, {})
    BY <1>6, <2>1, <2>3
  <2>9. Takes(t, n, k, s, op[t].old, "fill")
    BY <1>1, <1>2, <1>6, <2>1, <2>3, <2>4, <2>5, <2>6, <2>7, <2>8 DEF Takes
  <2> QED BY <2>1, <2>9, SlotTake
<1>7. ASSUME NEW s \in Slot, ~Pending(n, k), slot[n][s].key \in Block, ~slot[n][s].wlock, slot[n][s].readers = {},
             UNCHANGED unused,
             hash' = [hash EXCEPT ![n][slot[n][s].key] = None, ![n][k] = s],
             OpTo(t, s, slot[n][s].key), PcTo(t, "writeback"),
             SlotSet(slot', slot, n, s, None, slot[n][s].words, TRUE, slot[n][s].readers)
      PROVE  SlotInv'
  <2>1. PICK o \in Block : o = slot[n][s].key
    BY <1>7
  <2>2. hash[n][k] = None /\ hash[n][o] = s /\ o # k
    BY <1>3, <1>7, <2>1 DEF Pending, SlotInv, Mapped
  <2>3. hash' = [hash EXCEPT ![n][o] = None, ![n][k] = s]
    BY <1>7, <2>1
  <2>4. /\ hash'[n][k] = s /\ hash'[n][o] = None
        /\ \A a \in Node, j \in Block : a # n \/ (j # k /\ j # o) => hash'[a][j] = hash[a][j]
    BY <1>3, <2>2, <2>3
  <2>5. \A u \in Thread : Filling(u) => Me(u) # n \/ op[u].slot # s
    BY <1>7 DEF SlotInv, Filled1, Mine
  <2>6. \A j \in Block : j # k => hash'[n][j] # s
    <3> SUFFICES ASSUME NEW j \in Block, j # k, j # o, hash[n][j] = s PROVE FALSE
      BY <1>3, <2>4
    <3>1. slot[n][s].key = j \/ \E u \in Thread : Me(u) = n /\ Filling(u) /\ op[u].slot = s
      BY <1>3 DEF SlotInv, Named
    <3> QED BY <2>1, <2>5, <3>1
  <2>7. \A a \in Node, j \in Block : a # n \/ j # k => hash'[a][j] = hash[a][j] \/ (a = n /\ hash[n][j] = s /\ hash'[n][j] = None)
    BY <2>2, <2>4
  <2>8. unused' \in [Node -> SUBSET Slot] /\ s \notin unused'[n] /\ \A a \in Node : unused'[a] \subseteq unused[a]
    BY <1>3, <1>7 DEF SlotInv, Empty
  <2>9. SlotSet(slot', slot, n, s, None, slot[n][s].words, TRUE, {})
    BY <1>7
  <2>10. hash'[n][k] = s
    BY <2>4
  <2>11. Takes(t, n, k, s, slot[n][s].key, "writeback")
    BY <1>1, <1>2, <1>7, <2>2, <2>5, <2>6, <2>7, <2>8, <2>9, <2>10 DEF Takes
  <2> QED BY <2>11, SlotTake
<1>8. \/ OpTo(t, hash[n][k], op[t].old) /\ PcTo(t, "hit") /\ UNCHANGED local
      \/ \E s \in unused[n] :
           /\ ~Pending(n, k) /\ unused' = [unused EXCEPT ![n] = @ \ {s}] /\ hash' = [hash EXCEPT ![n][k] = s]
           /\ SlotSet(slot', slot, n, s, slot[n][s].key, slot[n][s].words, TRUE, slot[n][s].readers)
           /\ OpTo(t, s, op[t].old) /\ PcTo(t, "fill")
      \/ \E s \in Slot :
           /\ ~Pending(n, k) /\ slot[n][s].key \in Block /\ ~slot[n][s].wlock /\ slot[n][s].readers = {}
           /\ hash' = [hash EXCEPT ![n][slot[n][s].key] = None, ![n][k] = s]
           /\ SlotSet(slot', slot, n, s, None, slot[n][s].words, TRUE, slot[n][s].readers)
           /\ OpTo(t, s, slot[n][s].key) /\ PcTo(t, "writeback") /\ UNCHANGED unused
  <2>1. \/ OpTo(t, hash[Me(t)][op[t].blk], op[t].old) /\ PcTo(t, "hit") /\ UNCHANGED local
        \/ \E s \in unused[Me(t)] :
             /\ ~Pending(Me(t), op[t].blk) /\ unused' = [unused EXCEPT ![Me(t)] = @ \ {s}] /\ hash' = [hash EXCEPT ![Me(t)][op[t].blk] = s]
             /\ SlotSet(slot', slot, Me(t), s, slot[Me(t)][s].key, slot[Me(t)][s].words, TRUE, slot[Me(t)][s].readers)
             /\ OpTo(t, s, op[t].old) /\ PcTo(t, "fill")
        \/ \E s \in Slot :
             /\ ~Pending(Me(t), op[t].blk) /\ slot[Me(t)][s].key \in Block /\ ~slot[Me(t)][s].wlock /\ slot[Me(t)][s].readers = {}
             /\ hash' = [hash EXCEPT ![Me(t)][slot[Me(t)][s].key] = None, ![Me(t)][op[t].blk] = s]
             /\ SlotSet(slot', slot, Me(t), s, None, slot[Me(t)][s].words, TRUE, slot[Me(t)][s].readers)
             /\ OpTo(t, s, slot[Me(t)][s].key) /\ PcTo(t, "writeback") /\ UNCHANGED unused
    BY GetBlockEffect, Zenon
  <2> QED BY <1>2, <2>1, Zenon
<1> QED BY <1>5, <1>6, <1>7, <1>8, Zenon

\* The steps of a thread, and of a protocol thread, keep the types.
LEMMA TypeStep ==
  ASSUME TypeInv, [Next]_vars
  PROVE  TypeInv'
<1>1. ASSUME NEW t \in Thread, Start(t) \/ Work(t)
      PROVE  TypeInv'
  BY <1>1, StartEffect, LookupEffect, HitEffect, GetBlockEffect, WritebackEffect, FillEffect, MissRenewEffect,
     AnsweredEffect, FilledEffect, WriteEffect, WriteRenewEffect DEF Work
<1>2. ASSUME NEW n \in Node, NEW p \in Node, NEW i \in Servers(n, p), Protocol(n, p, i)
      PROVE  TypeInv'
  BY <1>2, ReceiveEffect, ServerReadMissEffect, ServerWritebackEffect, ServerRenewEffect, ServerPutEffect,
     ServerAnswerEffect DEF Protocol
<1>3. CASE UNCHANGED vars
  <2>1. \A t \in Thread : Working(t)'
    BY <1>3 DEF TypeInv, Working, vars
  <2> QED BY <1>3, <2>1 DEF TypeInv, vars
<1> QED BY <1>1, <1>2, <1>3 DEF Next

\* The initial state has its types.
LEMMA TypeInit ==
  ASSUME Init
  PROVE  TypeInv
<1>1. \A t \in Thread : Working(t)
  BY DEF Init, Working
<1>2. NoOp \in OpType
  BY DEF NoOp, OpType
<1>3. \A k \in Block : Bounded(latest[k])
  <2> TAKE k \in Block
  <2>1. \A w \in Word : latest[k][w] <= 0
    BY DEF Init
  <2> QED BY <2>1 DEF Bounded
<1>4. SrvType(srv)
  BY DEF Init, SrvType
<1>5. slot \in [Node -> [Slot -> SlotType]]
  BY DEF Init, SlotType
<1>6. pc \in [Thread -> Place] /\ op \in [Thread -> OpType]
  BY <1>2 DEF Init, Place
<1>7. ctl \in [Node -> [Node -> Seq(Messages)]] /\ reply \in [Node -> [Node -> Seq(Reply)]]
  BY DEF Init
<1>8. /\ backend \in [Block -> [Word -> Nat]] /\ latest \in [Block -> [Word -> Nat]] /\ dir \in [Block -> SUBSET Node]
      /\ hash \in [Node -> [Block -> Slot \cup {None}]] /\ unused \in [Node -> SUBSET Slot]
      /\ dlock \in [Node -> [Node -> Thread \cup {None}]]
  BY DEF Init
<1> QED BY <1>1, <1>3, <1>4, <1>5, <1>6, <1>7, <1>8 DEF TypeInv

\* Every step keeps the slots in order.
LEMMA SlotStep ==
  ASSUME TypeInv, SlotInv, [Next]_vars
  PROVE  SlotInv'
<1>1. ASSUME NEW t \in Thread, Start(t)
      PROVE  SlotInv'
  <2>1. pc[t] = "idle" /\ PcTo(t, "lookup") /\ (\A u \in Thread : u # t => op'[u] = op[u]) /\ UNCHANGED <<slot, hash, unused>>
    BY <1>1, StartEffect DEF local
  <2> QED BY <2>1, SlotMove
<1>2. ASSUME NEW t \in Thread, Lookup(t)
      PROVE  SlotInv'
  <2>1. /\ pc[t] = "lookup" /\ (PcTo(t, "miss") \/ PcTo(t, "hit"))
        /\ (\A u \in Thread : u # t => op'[u] = op[u]) /\ UNCHANGED <<slot, hash, unused>>
    BY <1>2, LookupEffect DEF local, OpTo
  <2> QED BY <2>1, SlotMove
<1>3. ASSUME NEW t \in Thread, Writeback(t)
      PROVE  SlotInv'
  <2>1. pc[t] = "writeback" /\ PcTo(t, "fill") /\ UNCHANGED <<slot, hash, unused, op>>
    BY <1>3, WritebackEffect DEF local
  <2> QED BY <2>1, SlotStay
<1>4. ASSUME NEW t \in Thread, Fill(t)
      PROVE  SlotInv'
  <2>1. pc[t] = "fill" /\ UNCHANGED <<hash, unused, op>> /\ op[t].slot \in Slot
    BY <1>4, FillEffect, Here
  <2>2. CASE PcTo(t, "wait") /\ UNCHANGED slot
    BY <2>1, <2>2, SlotStay
  <2>3. CASE Loads(t, backend[op[t].blk]) /\ PcTo(t, "filled")
    <3>1. \A n \in Node, s \in Slot : /\ slot'[n][s].key = slot[n][s].key /\ slot'[n][s].wlock = slot[n][s].wlock
                                      /\ slot'[n][s].readers = slot[n][s].readers
      BY <2>1, <2>3, LoadsKeys
    <3> QED BY <2>1, <2>3, <3>1, SlotStay
  <2>4. CASE PcTo(t, "missrenew") /\ UNCHANGED slot
    BY <2>1, <2>4, SlotStay
  <2> QED BY <1>4, <2>2, <2>3, <2>4, FillEffect DEF AskTo
<1>5. ASSUME NEW t \in Thread, MissRenew(t)
      PROVE  SlotInv'
  <2>1. pc[t] = "missrenew" /\ PcTo(t, "filled") /\ UNCHANGED <<hash, unused, op>> /\ op[t].slot \in Slot
        /\ Loads(t, backend[op[t].blk])
    BY <1>5, MissRenewEffect, Here
  <2>2. \A n \in Node, s \in Slot : /\ slot'[n][s].key = slot[n][s].key /\ slot'[n][s].wlock = slot[n][s].wlock
                                    /\ slot'[n][s].readers = slot[n][s].readers
    BY <2>1, LoadsKeys
  <2> QED BY <2>1, <2>2, SlotStay
<1>6. ASSUME NEW t \in Thread, Answered(t)
      PROVE  SlotInv'
  <2>1. pc[t] = "wait" /\ UNCHANGED <<hash, unused, op>> /\ op[t].slot \in Slot
    BY <1>6, AnsweredEffect, Here
  <2>2. CASE /\ t \in Mine(t).readers /\ PcTo(t, "idle")
             /\ SlotSet(slot', slot, Me(t), op[t].slot, Mine(t).key, Mine(t).words, Mine(t).wlock, Mine(t).readers \ {t})
    BY <2>1, <2>2, SlotLeave
  <2>3. ASSUME NEW ws, t \notin Mine(t).readers, Loads(t, ws), PcTo(t, "filled")
        PROVE  SlotInv'
    <3>1. \A n \in Node, s \in Slot : /\ slot'[n][s].key = slot[n][s].key /\ slot'[n][s].wlock = slot[n][s].wlock
                                      /\ slot'[n][s].readers = slot[n][s].readers
      BY <2>1, <2>3, LoadsKeys
    <3> QED BY <2>1, <2>3, <3>1, SlotStay
  <2> QED BY <1>6, <2>2, <2>3, AnsweredEffect
<1>7. ASSUME NEW t \in Thread, Write(t)
      PROVE  SlotInv'
  <2>1. pc[t] = "write" /\ (PcTo(t, "wait") \/ PcTo(t, "renew")) /\ UNCHANGED <<slot, hash, unused, op>>
    BY <1>7, WriteEffect DEF local, AskTo
  <2> QED BY <2>1, SlotStay
<1>8. ASSUME NEW t \in Thread, WriteRenew(t)
      PROVE  SlotInv'
  <2>1. /\ pc[t] = "renew" /\ PcTo(t, "idle") /\ UNCHANGED <<hash, unused, op>>
        /\ SlotSet(slot', slot, Me(t), op[t].slot, Mine(t).key, Mine(t).words, Mine(t).wlock, Mine(t).readers \ {t})
    BY <1>8, WriteRenewEffect
  <2>2. t \in Mine(t).readers
    BY <2>1 DEF SlotInv, Reading
  <2> QED BY <2>1, <2>2, SlotLeave
<1>9. ASSUME NEW n \in Node, NEW p \in Node, NEW i \in Servers(n, p), Protocol(n, p, i)
      PROVE  SlotInv'
  <2>1. CASE UNCHANGED <<local, op, pc>>
    BY <2>1, SlotServe DEF local
  <2>2. ASSUME NEW k, NEW ws, NEW v, Renewed(k, ws, v), UNCHANGED <<hash, unused, op, pc>>
        PROVE  SlotInv'
    <3>1. \A a \in Node, s \in Slot : /\ slot'[a][s].key = slot[a][s].key /\ slot'[a][s].wlock = slot[a][s].wlock
                                      /\ slot'[a][s].readers = slot[a][s].readers
      BY <2>2 DEF Renewed
    <3> QED BY <2>2, <3>1, SlotServe
  <2>3. CASE Receive(n, p, i) \/ ServerReadMiss(n, p, i) \/ ServerWriteback(n, p, i) \/ ServerPut(n, p, i)
    BY <2>1, <2>3, ReceiveEffect, ServerReadMissEffect, ServerWritebackEffect, ServerPutEffect
  <2>4. CASE ServerRenew(n, p, i)
    BY <2>2, <2>4, ServerRenewEffect
  <2>5. CASE ServerAnswer(n, p, i)
    BY <2>2, <2>5, ServerAnswerEffect
  <2> QED BY <1>9, <2>3, <2>4, <2>5 DEF Protocol
<1>10. CASE UNCHANGED vars
  BY <1>10, SlotServe DEF vars
<1> QED BY <1>1, <1>2, <1>3, <1>4, <1>5, <1>6, <1>7, <1>8, <1>9, <1>10, SlotHit, SlotGet, SlotFilled DEF Next, Work

\* A node keeps a block in one slot: getblock looks into the hash table again
\* under the queue lock, and a victim leaves the table before its slot is
\* reused.
THEOREM OneSlotPerBlockHolds == Spec => []OneSlotPerBlock
<1>1. Init => TypeInv /\ SlotInv
  BY TypeInit, SlotInit
<1>2. TypeInv /\ SlotInv /\ [Next]_vars => (TypeInv /\ SlotInv)'
  BY TypeStep, SlotStep
<1>3. TypeInv /\ SlotInv => OneSlotPerBlock
  BY DEF SlotInv, Mapped, OneSlotPerBlock
<1> QED BY <1>1, <1>2, <1>3, PTL DEF Spec

-----------------------------------------------------------------------------
(* Requests and replies.                                                   *)

\* The messages that are answered on the data socket, as they are sent and as
\* they are served.
Requests == {"ReadMiss", "WriteMiss", "Write", "WriteRenew", "MissRenew"}

\* A request from n is the i-th message to h, or is served there by thread i.
Asks(n, h, i) == ctl[n][h][i].kind \in Requests
Serves(n, h, i) == srv[h][n][i].kind \in Requests

\* The thread that holds the data socket from n to h waits there.
Holder == \A n, h \in Node : dlock[n][h] # None =>
            pc[dlock[n][h]] = "wait" /\ Me(dlock[n][h]) = n /\ Home[op[dlock[n][h]].blk] = h
Waiter == \A t \in Thread : pc[t] = "wait" => dlock[Me(t)][Home[op[t].blk]] = t

\* One request or reply is under way at a time.
Alone(n, h) ==
  /\ \A i, j \in 1 .. Len(ctl[n][h]) : Asks(n, h, i) /\ Asks(n, h, j) => i = j
  /\ \A i, j \in Servers(h, n) : Serves(n, h, i) /\ Serves(n, h, j) => i = j
  /\ \A i \in 1 .. Len(ctl[n][h]), j \in Servers(h, n) : ~(Asks(n, h, i) /\ Serves(n, h, j))
  /\ reply[h][n] # <<>> => /\ \A i \in 1 .. Len(ctl[n][h]) : ~Asks(n, h, i)
                           /\ \A i \in Servers(h, n) : ~Serves(n, h, i)
  /\ Len(reply[h][n]) <= 1

\* It is for the block that the holder of the data socket wants.
Addressed(n, h) ==
  /\ \A i \in 1 .. Len(ctl[n][h]) : Asks(n, h, i) =>
       dlock[n][h] # None /\ ctl[n][h][i].blk = op[dlock[n][h]].blk
  /\ \A i \in Servers(h, n) : Serves(n, h, i) =>
       dlock[n][h] # None /\ srv[h][n][i].blk = op[dlock[n][h]].blk
  /\ \A i \in 1 .. Len(reply[h][n]) :
       dlock[n][h] # None /\ reply[h][n][i].blk = op[dlock[n][h]].blk

ReplyInv == Holder /\ Waiter /\ \A n, h \in Node : Alone(n, h) /\ Addressed(n, h)

\* Initially nobody waits.
LEMMA ReplyInit ==
  ASSUME Init
  PROVE  ReplyInv
<1>1. \A n, h \in Node : /\ ctl[n][h] = <<>> /\ reply[h][n] = <<>> /\ dlock[n][h] = None
                         /\ \A i \in Servers(h, n) : srv[h][n][i] = Idle
  BY DEF Init
<1>2. \A n, h \in Node : \A i \in Servers(h, n) : ~Serves(n, h, i)
  BY <1>1 DEF Serves, Idle, Requests, None
<1>3. \A n, h \in Node : Alone(n, h) /\ Addressed(n, h)
  BY <1>1, <1>2 DEF Alone, Addressed
<1>4. Holder /\ Waiter
  BY <1>1 DEF Holder, Waiter, Init
<1> QED BY <1>3, <1>4 DEF ReplyInv

\* The elements of a queue after an Append.
LEMMA AppendAt ==
  ASSUME NEW M, NEW c \in Seq(M), NEW m \in M, NEW d, d = Append(c, m)
  PROVE  /\ Len(c) \in Nat /\ Len(d) = Len(c) + 1 /\ d[Len(c) + 1] = m
         /\ \A i \in 1 .. Len(c) : d[i] = c[i]
OBVIOUS

\* The elements of a queue after a Tail.
LEMMA TailAt ==
  ASSUME NEW M, NEW c \in Seq(M), c # <<>>, NEW d, d = Tail(c)
  PROVE  /\ Len(c) \in Nat /\ Len(c) > 0 /\ Head(c) = c[1] /\ Len(d) = Len(c) - 1 /\ d \in Seq(M)
         /\ \A i \in 1 .. Len(d) : i + 1 \in 1 .. Len(c) /\ d[i] = c[i + 1]
OBVIOUS

\* The requests queued from n to h were queued before, o places further on.
Fewer(n, h, o) ==
  \A i \in 1 .. Len(ctl'[n][h]) : Asks(n, h, i)' =>
    i + o \in 1 .. Len(ctl[n][h]) /\ Asks(n, h, i + o) /\ ctl'[n][h][i] = ctl[n][h][i + o]

\* A pair of nodes between which no request comes or is answered.
LEMMA PairKept ==
  ASSUME TypeInv, NEW n \in Node, NEW h \in Node, Alone(n, h), Addressed(n, h),
         NEW o \in {0, 1}, Fewer(n, h, o), reply'[h][n] = reply[h][n],
         \A i \in Servers(h, n) : Serves(n, h, i)' => Serves(n, h, i) /\ srv'[h][n][i].blk = srv[h][n][i].blk,
         dlock[n][h] # None => dlock'[n][h] = dlock[n][h] /\ op'[dlock[n][h]] = op[dlock[n][h]]
  PROVE  Alone(n, h)' /\ Addressed(n, h)'
<1>1. \A i, j \in 1 .. Len(ctl'[n][h]) : Asks(n, h, i)' /\ Asks(n, h, j)' => i = j
  <2> SUFFICES ASSUME NEW i \in 1 .. Len(ctl'[n][h]), NEW j \in 1 .. Len(ctl'[n][h]), Asks(n, h, i)', Asks(n, h, j)'
               PROVE  i = j
    OBVIOUS
  <2>1. i + o \in 1 .. Len(ctl[n][h]) /\ j + o \in 1 .. Len(ctl[n][h]) /\ Asks(n, h, i + o) /\ Asks(n, h, j + o)
    BY DEF Fewer
  <2>2. i + o = j + o
    BY <2>1 DEF Alone
  <2>3. i \in Int /\ j \in Int
    OBVIOUS
  <2> QED BY <2>2, <2>3
<1>2. Alone(n, h)'
  <2>1. \A i, j \in Servers(h, n) : Serves(n, h, i)' /\ Serves(n, h, j)' => i = j
    BY DEF Alone
  <2>2. \A i \in 1 .. Len(ctl'[n][h]), j \in Servers(h, n) : ~(Asks(n, h, i)' /\ Serves(n, h, j)')
    BY DEF Alone, Fewer
  <2>3. reply'[h][n] # <<>> => /\ \A i \in 1 .. Len(ctl'[n][h]) : ~Asks(n, h, i)'
                               /\ \A i \in Servers(h, n) : ~Serves(n, h, i)'
    BY DEF Alone, Fewer
  <2>4. Len(reply'[h][n]) <= 1
    BY DEF Alone
  <2> QED BY <1>1, <2>1, <2>2, <2>3, <2>4 DEF Alone
<1>3. Addressed(n, h)'
  <2>1. \A i \in 1 .. Len(ctl'[n][h]) : Asks(n, h, i)' =>
          dlock'[n][h] # None /\ ctl'[n][h][i].blk = op'[dlock'[n][h]].blk
    BY DEF Addressed, Fewer
  <2>2. \A i \in Servers(h, n) : Serves(n, h, i)' =>
          dlock'[n][h] # None /\ srv'[h][n][i].blk = op'[dlock'[n][h]].blk
    BY DEF Addressed
  <2>3. \A i \in 1 .. Len(reply'[h][n]) :
          dlock'[n][h] # None /\ reply'[h][n][i].blk = op'[dlock'[n][h]].blk
    BY DEF Addressed
  <2> QED BY <2>1, <2>2, <2>3 DEF Addressed
<1> QED BY <1>2, <1>3

\* Messages that are no requests are sent.
LEMMA SentFewer ==
  ASSUME TypeInv, NEW m, Sent(m), m.kind \notin Requests, NEW n \in Node, NEW h \in Node
  PROVE  Fewer(n, h, 0)
<1>1. PICK c, d : c = ctl[n][h] /\ d = ctl'[n][h]
  OBVIOUS
<1>2. m \in Messages /\ c \in Seq(Messages) /\ (d = c \/ d = Append(c, m))
  BY <1>1 DEF Sent, TypeInv
<1>3. \A i \in 1 .. Len(d) : d[i].kind \in Requests => i + 0 \in 1 .. Len(c) /\ d[i] = c[i + 0]
  <2>1. CASE d = c
    BY <1>2, <2>1
  <2>2. CASE d = Append(c, m)
    BY <1>2, <2>2, AppendAt
  <2> QED BY <1>2, <2>1, <2>2
<1> QED BY <1>1, <1>3 DEF Fewer, Asks

\* No request is sent.
NoAsk == \A n, h \in Node : Fewer(n, h, 0)

\* A queue that stays as it is.
LEMMA KeptFewer ==
  ASSUME TypeInv, NEW n \in Node, NEW h \in Node, ctl'[n][h] = ctl[n][h]
  PROVE  Fewer(n, h, 0)
<1>1. Len(ctl[n][h]) \in Nat
  BY DEF TypeInv
<1>2. \A i \in 1 .. Len(ctl[n][h]) : i + 0 = i
  BY <1>1
<1>3. \A i : Asks(n, h, i)' <=> Asks(n, h, i)
  BY DEF Asks
<1> QED BY <1>2, <1>3 DEF Fewer

\* A thread moves on that neither waits nor begins to.
LEMMA ReplyQuiet ==
  ASSUME TypeInv, ReplyInv, NEW t \in Thread, NEW l, PcTo(t, l), pc[t] # "wait", l # "wait",
         \A u \in Thread : u # t => op'[u] = op[u], UNCHANGED <<dlock, reply, srv>>, NoAsk
  PROVE  ReplyInv'
<1>1. \A n, h \in Node : dlock[n][h] # None => dlock[n][h] \in Thread /\ dlock[n][h] # t
  BY DEF TypeInv, ReplyInv, Holder
<1>2. \A n, h \in Node : Alone(n, h)' /\ Addressed(n, h)'
  <2> TAKE n, h \in Node
  <2>1. Alone(n, h) /\ Addressed(n, h) /\ Fewer(n, h, 0)
    BY DEF ReplyInv, NoAsk
  <2>2. \A i \in Servers(h, n) : Serves(n, h, i)' => Serves(n, h, i) /\ srv'[h][n][i].blk = srv[h][n][i].blk
    BY DEF Serves
  <2>3. dlock[n][h] # None => dlock'[n][h] = dlock[n][h] /\ op'[dlock[n][h]] = op[dlock[n][h]]
    BY <1>1
  <2> QED BY <2>1, <2>2, <2>3, PairKept
<1>3. Holder'
  BY <1>1 DEF ReplyInv, Holder, PcTo, Me
<1>4. Waiter'
  BY DEF ReplyInv, Waiter, PcTo, Me
<1> QED BY <1>2, <1>3, <1>4 DEF ReplyInv

\* A thread sends its request: nothing else was under way.
LEMMA ReplyAsk ==
  ASSUME TypeInv, ReplyInv, NEW t \in Thread, pc[t] \in {"fill", "write"},
         NEW kind \in {"ReadMiss", "WriteMiss", "Write"}, AskTo(t, kind), UNCHANGED <<op, reply, srv>>
  PROVE  ReplyInv'
<1>1. PICK n \in Node, h \in Node, m \in Messages : n = Me(t) /\ h = Home[op[t].blk] /\ m = Fields(t, kind)
  BY Here DEF AskTo
<1>2. /\ dlock[n][h] = None /\ dlock'[n][h] = t /\ (\A x, y \in Node : x # n \/ y # h => dlock'[x][y] = dlock[x][y])
      /\ ctl'[n][h] = Append(ctl[n][h], m) /\ (\A x, y \in Node : x # n \/ y # h => ctl'[x][y] = ctl[x][y])
      /\ PcTo(t, "wait")
  BY <1>1 DEF AskTo, LockTo, CtlAdd
<1>3. m.blk = op[t].blk /\ t # None
  BY <1>1, CacheAssumption DEF Fields
<1>4. /\ \A i \in 1 .. Len(ctl[n][h]) : ~Asks(n, h, i)
      /\ \A i \in Servers(h, n) : ~Serves(n, h, i)
      /\ \A i \in 1 .. Len(reply[h][n]) : FALSE
  BY <1>2 DEF ReplyInv, Addressed
<1>5. reply[h][n] = <<>>
  BY <1>4 DEF TypeInv
<1>6. PICK c, d : c = ctl[n][h] /\ d = ctl'[n][h]
  OBVIOUS
<1>7. /\ Len(c) \in Nat /\ Len(d) = Len(c) + 1 /\ d[Len(c) + 1] = m
      /\ \A i \in 1 .. Len(c) : d[i] = c[i]
  <2>1. c \in Seq(Messages) /\ d = Append(c, m)
    BY <1>2, <1>6 DEF TypeInv
  <2> QED BY <2>1, AppendAt
<1>8. \A i \in 1 .. Len(ctl'[n][h]) : Asks(n, h, i)' => i = Len(c) + 1 /\ ctl'[n][h][i] = m
  <2>1. \A i \in 1 .. Len(c) : d[i].kind \notin Requests
    BY <1>4, <1>6, <1>7 DEF Asks
  <2>2. \A i \in 1 .. Len(d) : d[i].kind \in Requests => i = Len(c) + 1 /\ d[i] = m
    BY <1>7, <2>1
  <2> QED BY <1>6, <2>2 DEF Asks
<1>9. \A i \in Servers(h, n) : ~Serves(n, h, i)'
  BY <1>4 DEF Serves
<1>10. Alone(n, h)'
  BY <1>5, <1>8, <1>9 DEF Alone
<1>11. Addressed(n, h)'
  <2>1. \A i \in 1 .. Len(reply'[h][n]) : FALSE
    BY <1>5
  <2> QED BY <1>2, <1>3, <1>8, <1>9, <2>1 DEF Addressed
<1>12. ASSUME NEW x \in Node, NEW y \in Node, x # n \/ y # h
       PROVE  Alone(x, y)' /\ Addressed(x, y)'
  <2>1. Alone(x, y) /\ Addressed(x, y) /\ Fewer(x, y, 0)
    BY <1>2, <1>12, KeptFewer DEF ReplyInv
  <2>2. \A i \in Servers(y, x) : Serves(x, y, i)' => Serves(x, y, i) /\ srv'[y][x][i].blk = srv[y][x][i].blk
    BY DEF Serves
  <2>3. dlock[x][y] # None => dlock'[x][y] = dlock[x][y] /\ op'[dlock[x][y]] = op[dlock[x][y]]
    BY <1>2, <1>12
  <2> QED BY <2>1, <2>2, <2>3, PairKept
<1>13. Holder'
  <2> SUFFICES ASSUME NEW x \in Node, NEW y \in Node, dlock'[x][y] # None
               PROVE  pc'[dlock'[x][y]] = "wait" /\ Me(dlock'[x][y]) = x /\ Home[op'[dlock'[x][y]].blk] = y
    BY DEF Holder, Me
  <2>1. CASE x = n /\ y = h
    BY <1>1, <1>2, <2>1 DEF PcTo
  <2>2. CASE x # n \/ y # h
    <3>1. dlock'[x][y] = dlock[x][y]
      BY <1>2, <2>2
    <3>2. dlock[x][y] \in Thread \cup {None}
      BY DEF TypeInv
    <3>3. PICK u \in Thread : u = dlock[x][y] /\ dlock'[x][y] = u
      BY <3>1, <3>2
    <3>4. pc[u] = "wait" /\ Me(u) = x /\ Home[op[u].blk] = y
      BY <1>2, <2>2, <3>3 DEF ReplyInv, Holder
    <3> QED BY <1>2, <3>3, <3>4 DEF PcTo
  <2> QED BY <2>1, <2>2
<1>14. Waiter'
  <2> SUFFICES ASSUME NEW u \in Thread, pc'[u] = "wait" PROVE dlock'[Me(u)][Home[op[u].blk]] = u
    BY DEF Waiter, Me
  <2>1. CASE u = t
    BY <1>1, <1>2, <2>1
  <2>2. CASE u # t
    <3>1. pc[u] = "wait" /\ dlock[Me(u)][Home[op[u].blk]] = u
      BY <1>2, <2>2 DEF PcTo, ReplyInv, Waiter
    <3>2. Me(u) \in Node /\ Home[op[u].blk] \in Node /\ u # None
      BY <3>1, Here
    <3> QED BY <1>2, <3>1, <3>2
  <2> QED BY <2>1, <2>2
<1> QED BY <1>10, <1>11, <1>12, <1>13, <1>14 DEF ReplyInv

\* A thread takes its reply and leaves the socket.
LEMMA ReplyAnswered ==
  ASSUME TypeInv, ReplyInv, NEW t \in Thread, Answered(t)
  PROVE  ReplyInv'
<1>1. pc[t] = "wait" /\ UNCHANGED <<ctl, srv, op>>
  BY AnsweredEffect
<1>2. PICK n \in Node, h \in Node : n = Me(t) /\ h = Home[op[t].blk]
  BY <1>1, Here
<1>3. /\ reply[h][n] # <<>> /\ dlock'[n][h] = None /\ (\A x, y \in Node : x # n \/ y # h => dlock'[x][y] = dlock[x][y])
      /\ reply'[h][n] = Tail(reply[h][n]) /\ (\A x, y \in Node : x # h \/ y # n => reply'[x][y] = reply[x][y])
      /\ \E l \in {"idle", "filled"} : PcTo(t, l)
  <2>1. /\ reply[Home[op[t].blk]][Me(t)] # <<>> /\ LockTo(Me(t), Home[op[t].blk], None)
        /\ reply'[Home[op[t].blk]][Me(t)] = Tail(reply[Home[op[t].blk]][Me(t)])
        /\ \A x, y \in Node : x # Home[op[t].blk] \/ y # Me(t) => reply'[x][y] = reply[x][y]
        /\ PcTo(t, "idle") \/ PcTo(t, "filled")
    BY AnsweredEffect, Zenon
  <2> QED BY <1>2, <2>1 DEF LockTo
<1>4. dlock[n][h] = t
  BY <1>1, <1>2 DEF ReplyInv, Waiter
<1>5. Alone(n, h) /\ Addressed(n, h)
  BY DEF ReplyInv
<1>6. reply'[h][n] = <<>>
  <2>1. reply[h][n] \in Seq(Reply) /\ Len(reply[h][n]) <= 1
    BY <1>5 DEF Alone, TypeInv
  <2> QED BY <1>3, <2>1
<1>7. /\ \A i \in 1 .. Len(ctl'[n][h]) : ~Asks(n, h, i)'
      /\ \A i \in Servers(h, n) : ~Serves(n, h, i)'
  BY <1>1, <1>3, <1>5 DEF Alone, Asks, Serves
<1>8. Len(reply'[h][n]) = 0 /\ \A i \in 1 .. Len(reply'[h][n]) : FALSE
  BY <1>6
<1>9. Alone(n, h)' /\ Addressed(n, h)'
  BY <1>7, <1>8 DEF Alone, Addressed
<1>10. ASSUME NEW x \in Node, NEW y \in Node, x # n \/ y # h
       PROVE  Alone(x, y)' /\ Addressed(x, y)'
  <2>1. Alone(x, y) /\ Addressed(x, y) /\ Fewer(x, y, 0)
    BY <1>1, KeptFewer DEF ReplyInv
  <2>2. \A i \in Servers(y, x) : Serves(x, y, i)' => Serves(x, y, i) /\ srv'[y][x][i].blk = srv[y][x][i].blk
    BY <1>1 DEF Serves
  <2>3. dlock[x][y] # None => dlock'[x][y] = dlock[x][y] /\ op'[dlock[x][y]] = op[dlock[x][y]]
    BY <1>1, <1>3, <1>10
  <2> QED BY <1>3, <1>10, <2>1, <2>2, <2>3, PairKept
<1>11. Holder'
  <2> SUFFICES ASSUME NEW x \in Node, NEW y \in Node, dlock'[x][y] # None
               PROVE  pc'[dlock'[x][y]] = "wait" /\ Me(dlock'[x][y]) = x /\ Home[op'[dlock'[x][y]].blk] = y
    BY DEF Holder, Me
  <2>1. x # n \/ y # h
    BY <1>3
  <2>2. dlock[x][y] \in Thread \cup {None} /\ dlock'[x][y] = dlock[x][y]
    BY <1>3, <2>1 DEF TypeInv
  <2>3. PICK u \in Thread : u = dlock[x][y] /\ dlock'[x][y] = u
    BY <2>2
  <2>4. pc[u] = "wait" /\ Me(u) = x /\ Home[op[u].blk] = y
    BY <1>3, <2>1, <2>3 DEF ReplyInv, Holder
  <2>5. u # t
    BY <1>2, <2>1, <2>4
  <2> QED BY <1>1, <1>3, <2>3, <2>4, <2>5 DEF PcTo
<1>12. Waiter'
  <2> SUFFICES ASSUME NEW u \in Thread, pc'[u] = "wait" PROVE dlock'[Me(u)][Home[op[u].blk]] = u
    BY <1>1 DEF Waiter, Me
  <2>1. u # t /\ pc[u] = "wait"
    BY <1>3 DEF PcTo
  <2>2. dlock[Me(u)][Home[op[u].blk]] = u /\ Me(u) \in Node /\ Home[op[u].blk] \in Node
    BY <2>1, Here DEF ReplyInv, Waiter
  <2> QED BY <1>3, <1>4, <2>1, <2>2
<1> QED BY <1>9, <1>10, <1>11, <1>12 DEF ReplyInv

\* A protocol step, seen from the pairs it does not answer or take from.
LEMMA ServeElse ==
  ASSUME TypeInv, ReplyInv, NEW n \in Node, NEW p \in Node, NEW i \in Servers(n, p), NEW v, SrvTo(n, p, i, v),
         UNCHANGED <<dlock, op>>, NEW x \in Node, NEW y \in Node, x # p \/ y # n, Fewer(x, y, 0),
         reply'[y][x] = reply[y][x]
  PROVE  Alone(x, y)' /\ Addressed(x, y)'
<1>1. Alone(x, y) /\ Addressed(x, y)
  BY DEF ReplyInv
<1>2. \A j \in Servers(y, x) : Serves(x, y, j)' => Serves(x, y, j) /\ srv'[y][x][j].blk = srv[y][x][j].blk
  BY DEF Serves, SrvTo
<1> QED BY <1>1, <1>2, PairKept

\* A protocol step that answers no request.
LEMMA ServeSame ==
  ASSUME TypeInv, ReplyInv, NEW n \in Node, NEW p \in Node, NEW i \in Servers(n, p), NEW v, SrvTo(n, p, i, v),
         UNCHANGED <<dlock, op, pc, reply>>, NEW o \in {0, 1}, Fewer(p, n, o),
         \A x, y \in Node : x # p \/ y # n => Fewer(x, y, 0),
         v.kind \in Requests => srv[n][p][i].kind \in Requests /\ v.blk = srv[n][p][i].blk
  PROVE  ReplyInv'
<1>1. \A x, y \in Node : x # p \/ y # n => Alone(x, y)' /\ Addressed(x, y)'
  BY ServeElse
<1>2. Alone(p, n) /\ Addressed(p, n)
  BY DEF ReplyInv
<1>3. \A j \in Servers(n, p) : Serves(p, n, j)' => Serves(p, n, j) /\ srv'[n][p][j].blk = srv[n][p][j].blk
  BY DEF Serves, SrvTo
<1>4. Alone(p, n)' /\ Addressed(p, n)'
  BY <1>2, <1>3, PairKept
<1>5. Holder' /\ Waiter'
  BY DEF ReplyInv, Holder, Waiter, Me
<1> QED BY <1>1, <1>4, <1>5 DEF ReplyInv

\* A request is taken from its socket.
LEMMA ReplyReceive ==
  ASSUME TypeInv, ReplyInv, NEW n \in Node, NEW p \in Node, NEW i \in Servers(n, p), Receive(n, p, i)
  PROVE  ReplyInv'
<1>1. /\ srv[n][p][i] = Idle /\ ctl[p][n] # <<>> /\ SrvTo(n, p, i, Head(ctl[p][n]))
      /\ ctl'[p][n] = Tail(ctl[p][n]) /\ (\A x, y \in Node : x # p \/ y # n => ctl'[x][y] = ctl[x][y])
      /\ UNCHANGED <<reply, dlock, pc, op>>
  BY ReceiveEffect
<1>2. PICK c, d : c = ctl[p][n] /\ d = ctl'[p][n]
  OBVIOUS
<1>3. c \in Seq(Messages) /\ c # <<>> /\ d = Tail(c)
  BY <1>1, <1>2 DEF TypeInv
<1>4. /\ Len(c) \in Nat /\ Len(c) > 0 /\ Head(c) = c[1]
      /\ \A j \in 1 .. Len(d) : j + 1 \in 1 .. Len(c) /\ d[j] = c[j + 1]
  BY <1>3, TailAt
<1>5. Fewer(p, n, 1)
  BY <1>2, <1>4 DEF Fewer, Asks
<1>6. \A x, y \in Node : x # p \/ y # n => Fewer(x, y, 0)
  BY <1>1, KeptFewer
<1>7. CASE c[1].kind \notin Requests
  BY <1>1, <1>2, <1>4, <1>5, <1>6, <1>7, ServeSame
<1>8. CASE c[1].kind \in Requests
  <2>1. Alone(p, n) /\ Addressed(p, n)
    BY DEF ReplyInv
  <2>2. 1 \in 1 .. Len(c) /\ Asks(p, n, 1)
    BY <1>2, <1>4, <1>8 DEF Asks
  <2>3. \A j \in 1 .. Len(ctl'[p][n]) : ~Asks(p, n, j)'
    <3> SUFFICES ASSUME NEW j \in 1 .. Len(ctl'[p][n]), Asks(p, n, j)' PROVE FALSE
      OBVIOUS
    <3>1. j + 1 \in 1 .. Len(c) /\ Asks(p, n, j + 1)
      BY <1>2, <1>5 DEF Fewer
    <3>2. j + 1 = 1
      BY <1>2, <2>1, <2>2, <3>1 DEF Alone
    <3> QED BY <3>2
  <2>4. \A j \in Servers(n, p) : ~Serves(p, n, j)
    BY <1>2, <2>1, <2>2 DEF Alone
  <2>5. \A j \in Servers(n, p) : Serves(p, n, j)' => j = i /\ srv'[n][p][j] = c[1]
    BY <1>1, <1>2, <1>4, <2>4 DEF SrvTo, Serves
  <2>6. reply'[n][p] = <<>> /\ Len(reply'[n][p]) = 0
    <3>1. reply[n][p] = <<>>
      BY <1>2, <2>1, <2>2 DEF Alone
    <3> QED BY <1>1, <3>1
  <2>7. Alone(p, n)'
    BY <2>3, <2>5, <2>6 DEF Alone
  <2>8. dlock[p][n] # None /\ c[1].blk = op[dlock[p][n]].blk
    BY <1>2, <2>1, <2>2 DEF Addressed
  <2>9. Addressed(p, n)'
    <3>1. \A j \in 1 .. Len(reply'[n][p]) : FALSE
      BY <2>6
    <3> QED BY <1>1, <2>3, <2>5, <2>8, <3>1 DEF Addressed
  <2>10. \A x, y \in Node : x # p \/ y # n => Alone(x, y)' /\ Addressed(x, y)'
    BY <1>1, <1>6, ServeElse
  <2>11. Holder' /\ Waiter'
    BY <1>1 DEF ReplyInv, Holder, Waiter, Me
  <2> QED BY <2>7, <2>9, <2>10, <2>11 DEF ReplyInv
<1> QED BY <1>7, <1>8

\* A request is answered.
LEMMA ReplyServed ==
  ASSUME TypeInv, ReplyInv, NEW n \in Node, NEW p \in Node, NEW i \in Servers(n, p), NEW k,
         srv[n][p][i].kind \in Requests, k = srv[n][p][i].blk,
         SrvTo(n, p, i, Idle), Replied(n, p, k), NoAsk, UNCHANGED <<dlock, pc, op>>
  PROVE  ReplyInv'
<1>1. Alone(p, n) /\ Addressed(p, n) /\ Serves(p, n, i)
  BY DEF ReplyInv, Serves
<1>2. \A j \in Servers(n, p) : ~Serves(p, n, j)'
  BY <1>1 DEF Alone, SrvTo, Serves, Idle, Requests, None
<1>3. \A j \in 1 .. Len(ctl'[p][n]) : ~Asks(p, n, j)'
  <2>1. Fewer(p, n, 0)
    BY DEF NoAsk
  <2> QED BY <1>1, <2>1 DEF Alone, Fewer
<1>4. reply[n][p] = <<>>
  BY <1>1 DEF Alone
<1>5. PICK m : m = [blk |-> k, words |-> backend[k]]
  OBVIOUS
<1>6. reply'[n][p] = <<m>> /\ m.blk = k
  BY <1>4, <1>5 DEF Replied
<1>7. Len(reply'[n][p]) = 1 /\ \A j \in 1 .. Len(reply'[n][p]) : reply'[n][p][j].blk = k
  BY <1>6
<1>8. dlock[p][n] # None /\ k = op[dlock[p][n]].blk
  BY <1>1 DEF Addressed
<1>9. Alone(p, n)'
  BY <1>2, <1>3, <1>7 DEF Alone
<1>10. Addressed(p, n)'
  BY <1>2, <1>3, <1>7, <1>8 DEF Addressed
<1>11. \A x, y \in Node : x # p \/ y # n => Alone(x, y)' /\ Addressed(x, y)'
  BY ServeElse DEF NoAsk, Replied
<1>12. Holder' /\ Waiter'
  BY DEF ReplyInv, Holder, Waiter, Me
<1> QED BY <1>9, <1>10, <1>11, <1>12 DEF ReplyInv

\* Every step keeps requests and replies apart.
LEMMA ReplyStep ==
  ASSUME TypeInv, ReplyInv, [Next]_vars
  PROVE  ReplyInv'
<1>1. ASSUME UNCHANGED ctl
      PROVE  NoAsk
  BY <1>1, KeptFewer DEF NoAsk
<1>2. ASSUME NEW m, Sent(m), m.kind = "Renew" \/ m.kind = "Writeback"
      PROVE  NoAsk
  <2>1. m.kind \notin Requests
    BY <1>2 DEF Requests
  <2> QED BY <1>2, <2>1, SentFewer DEF NoAsk
<1>3. ASSUME NEW t \in Thread, Start(t)
      PROVE  ReplyInv'
  <2>1. /\ pc[t] = "idle" /\ PcTo(t, "lookup") /\ (\A u \in Thread : u # t => op'[u] = op[u])
        /\ UNCHANGED <<ctl, dlock, reply, srv>>
    BY <1>3, StartEffect DEF net
  <2> QED BY <1>1, <2>1, ReplyQuiet
<1>4. ASSUME NEW t \in Thread, Lookup(t) \/ Hit(t) \/ GetBlock(t) \/ Filled(t)
      PROVE  ReplyInv'
  <2>1. /\ pc[t] # "wait" /\ (\E l \in Place \ {"wait"} : PcTo(t, l)) /\ (\A u \in Thread : u # t => op'[u] = op[u])
        /\ UNCHANGED <<ctl, dlock, reply, srv>>
    <3>1. CASE Lookup(t)
      BY <3>1, LookupEffect DEF net, OpTo, Place
    <3>2. CASE Hit(t)
      BY <3>2, HitEffect DEF net, Place
    <3>3. CASE GetBlock(t)
      BY <3>3, GetBlockEffect DEF net, OpTo, Place
    <3>4. CASE Filled(t)
      BY <3>4, FilledEffect DEF net, Place
    <3> QED BY <1>4, <3>1, <3>2, <3>3, <3>4
  <2> QED BY <1>1, <2>1, ReplyQuiet
<1>5. ASSUME NEW t \in Thread, Writeback(t)
      PROVE  ReplyInv'
  <2>1. pc[t] = "writeback" /\ PcTo(t, "fill") /\ op[t].old \in Block /\ UNCHANGED <<op, dlock, reply, srv>>
    BY <1>5, WritebackEffect
  <2>2. PICK m : m = [kind |-> "Writeback", blk |-> op[t].old]
    OBVIOUS
  <2>3. m \in Messages /\ m.kind = "Writeback"
    BY <2>1, <2>2 DEF Messages
  <2>4. NoAsk
    <3>1. CASE UNCHANGED ctl
      BY <1>1, <3>1
    <3>2. CASE CtlAdd(Me(t), Home[op[t].old], m)
      <4>1. Sent(m)
        BY <2>3, <3>2 DEF CtlAdd, Sent
      <4> QED BY <1>2, <2>3, <4>1
    <3> QED BY <1>5, <2>2, <3>1, <3>2, WritebackEffect
  <2> QED BY <2>1, <2>4, ReplyQuiet
<1>6. ASSUME NEW t \in Thread, Fill(t)
      PROVE  ReplyInv'
  <2>1. pc[t] = "fill" /\ UNCHANGED <<op, reply, srv>>
    BY <1>6, FillEffect
  <2>2. CASE \E kind \in {"ReadMiss", "WriteMiss"} : AskTo(t, kind)
    BY <2>1, <2>2, ReplyAsk
  <2>3. CASE (PcTo(t, "filled") \/ PcTo(t, "missrenew")) /\ UNCHANGED <<ctl, dlock>>
    BY <1>1, <2>1, <2>3, ReplyQuiet
  <2> QED BY <1>6, <2>2, <2>3, FillEffect
<1>7. ASSUME NEW t \in Thread, MissRenew(t)
      PROVE  ReplyInv'
  <2>1. /\ pc[t] = "missrenew" /\ PcTo(t, "filled") /\ UNCHANGED <<op, dlock, reply, srv>>
        /\ \E m : Sent(m) /\ m.kind = "Renew"
    BY <1>7, MissRenewEffect
  <2> QED BY <1>2, <2>1, ReplyQuiet
<1>8. ASSUME NEW t \in Thread, Write(t)
      PROVE  ReplyInv'
  <2>1. pc[t] = "write" /\ UNCHANGED <<op, reply, srv>>
    BY <1>8, WriteEffect
  <2>2. CASE AskTo(t, "Write")
    BY <2>1, <2>2, ReplyAsk
  <2>3. CASE PcTo(t, "renew") /\ UNCHANGED <<ctl, dlock>>
    BY <1>1, <2>1, <2>3, ReplyQuiet
  <2> QED BY <1>8, <2>2, <2>3, WriteEffect
<1>9. ASSUME NEW t \in Thread, WriteRenew(t)
      PROVE  ReplyInv'
  <2>1. /\ pc[t] = "renew" /\ PcTo(t, "idle") /\ UNCHANGED <<op, dlock, reply, srv>>
        /\ \E m : Sent(m) /\ m.kind = "Renew"
    BY <1>9, WriteRenewEffect
  <2> QED BY <1>2, <2>1, ReplyQuiet
<1>10. ASSUME NEW n \in Node, NEW p \in Node, NEW i \in Servers(n, p), Protocol(n, p, i)
       PROVE  ReplyInv'
  <2>1. Idle.kind \notin Requests
    BY DEF Idle, Requests, None
  <2>2. CASE ServerReadMiss(n, p, i)
    <3>1. /\ srv[n][p][i].kind \in Requests /\ SrvTo(n, p, i, Idle) /\ Replied(n, p, srv[n][p][i].blk)
          /\ UNCHANGED <<ctl, dlock, pc, op>>
      BY <2>2, ServerReadMissEffect DEF Requests
    <3> QED BY <1>1, <3>1, ReplyServed
  <2>3. CASE ServerAnswer(n, p, i)
    <3>1. /\ srv[n][p][i].kind \in Requests /\ SrvTo(n, p, i, Idle) /\ Replied(n, p, srv[n][p][i].blk)
          /\ UNCHANGED <<dlock, pc, op>> /\ \E m : Sent(m) /\ m.kind = "Renew"
      BY <2>3, ServerAnswerEffect DEF Requests
    <3> QED BY <1>2, <3>1, ReplyServed
  <2>4. CASE ServerWriteback(n, p, i) \/ ServerRenew(n, p, i)
    <3>1. SrvTo(n, p, i, Idle) /\ UNCHANGED <<ctl, dlock, op, pc, reply>>
      BY <2>4, ServerWritebackEffect, ServerRenewEffect
    <3> QED BY <1>1, <2>1, <3>1, ServeSame DEF NoAsk
  <2>5. CASE ServerPut(n, p, i)
    <3>1. /\ srv[n][p][i].kind \in Requests /\ UNCHANGED <<ctl, dlock, op, pc, reply>>
          /\ \E v : v.blk = srv[n][p][i].blk /\ SrvTo(n, p, i, v)
      BY <2>5, ServerPutEffect DEF Requests
    <3> QED BY <1>1, <3>1, ServeSame DEF NoAsk
  <2> QED BY <1>10, <2>2, <2>3, <2>4, <2>5, ReplyReceive DEF Protocol
<1>11. CASE UNCHANGED vars
  <2>1. UNCHANGED <<dlock, op, pc, reply, srv, ctl>>
    BY <1>11 DEF vars
  <2>2. \A n, h \in Node : Alone(n, h)' /\ Addressed(n, h)'
    <3> TAKE n, h \in Node
    <3>1. Alone(n, h) /\ Addressed(n, h) /\ Fewer(n, h, 0)
      BY <1>1, <2>1 DEF ReplyInv, NoAsk
    <3>2. \A i \in Servers(h, n) : Serves(n, h, i)' => Serves(n, h, i) /\ srv'[h][n][i].blk = srv[h][n][i].blk
      BY <2>1 DEF Serves
    <3> QED BY <2>1, <3>1, <3>2, PairKept
  <2> QED BY <2>1, <2>2 DEF ReplyInv, Holder, Waiter, Me
<1> QED BY <1>3, <1>4, <1>5, <1>6, <1>7, <1>8, <1>9, <1>10, <1>11, ReplyAnswered DEF Next, Work

\* A thread reads its own reply from the data socket of its node: the socket's
\* lock is held from the request to the reply, so that no other is under way.
THEOREM RepliesMatchHolds == Spec => []RepliesMatch
<1>1. Init => TypeInv /\ ReplyInv
  BY TypeInit, ReplyInit
<1>2. TypeInv /\ ReplyInv /\ [Next]_vars => (TypeInv /\ ReplyInv)'
  BY TypeStep, ReplyStep
<1>3. TypeInv /\ ReplyInv => RepliesMatch
  <2> SUFFICES ASSUME TypeInv, ReplyInv, NEW t \in Thread, pc[t] = "wait", reply[Home[op[t].blk]][Me(t)] # <<>>
               PROVE  Head(reply[Home[op[t].blk]][Me(t)]).blk = op[t].blk
    BY DEF RepliesMatch
  <2>1. PICK n \in Node, h \in Node : n = Me(t) /\ h = Home[op[t].blk]
    BY Here
  <2>2. PICK r \in Seq(Reply) : r = reply[h][n]
    BY DEF TypeInv
  <2>3. 1 \in 1 .. Len(r) /\ Head(r) = r[1]
    BY <2>1, <2>2
  <2>4. r[1].blk = op[dlock[n][h]].blk
    BY <2>2, <2>3 DEF ReplyInv, Addressed
  <2>5. dlock[n][h] = t
    BY <2>1 DEF ReplyInv, Waiter
  <2> QED BY <2>1, <2>2, <2>3, <2>4, <2>5
<1> QED BY <1>1, <1>2, <1>3, PTL DEF Spec

-----------------------------------------------------------------------------
(* Versions.                                                               *)

\* The words ws of a block k, and the version v of its words W, were put.
Old(k, ws) == \A w \in Word : ws[w] <= latest[k][w]
Put(k, W, v) == \A w \in W : v <= latest[k][w]

\* What the backend, the keyed slots, the slots just filled, the operations,
\* the messages and the replies hold has been put to their block.
OldBackend == \A k \in Block, w \in Word : backend[k][w] <= latest[k][w]
OldSlots == \A n \in Node, s \in Slot : slot[n][s].key # None =>
              \A w \in Word : slot[n][s].words[w] <= latest[slot[n][s].key][w]
OldFilled == \A t \in Thread : pc[t] = "filled" =>
               \A w \in Word : slot[Me(t)][op[t].slot].words[w] <= latest[op[t].blk][w]
OldOps == \A t \in Thread : pc[t] # "idle" => \A w \in op[t].words : op[t].val <= latest[op[t].blk][w]
OldCtl == \A n, p \in Node : \A i \in 1 .. Len(ctl[n][p]) : ctl[n][p][i].kind # "Writeback" =>
            \A w \in ctl[n][p][i].words : ctl[n][p][i].val <= latest[ctl[n][p][i].blk][w]
OldSrv == \A n, p \in Node : \A i \in Servers(n, p) : srv[n][p][i].kind \notin {None, "Writeback"} =>
            \A w \in srv[n][p][i].words : srv[n][p][i].val <= latest[srv[n][p][i].blk][w]
OldReply == \A n, p \in Node : \A i \in 1 .. Len(reply[n][p]) :
              \A w \in Word : reply[n][p][i].words[w] <= latest[reply[n][p][i].blk][w]

VersionInv == OldBackend /\ OldSlots /\ OldFilled /\ OldOps /\ OldCtl /\ OldSrv /\ OldReply

\* Initially everything is at version 0.
LEMMA VersionInit ==
  ASSUME Init
  PROVE  VersionInv
<1>1. OldBackend /\ OldSlots /\ OldFilled /\ OldOps /\ OldCtl /\ OldReply
  BY DEF Init, OldBackend, OldSlots, OldFilled, OldOps, OldCtl, OldReply
<1>2. OldSrv
  <2>1. \A n, p \in Node : \A i \in Servers(n, p) : srv[n][p][i].kind = None
    BY DEF Init, Idle
  <2> QED BY <2>1 DEF OldSrv
<1> QED BY <1>1, <1>2 DEF VersionInv

\* Overwriting words of a block by a version that was put to them.
LEMMA OverwriteOld ==
  ASSUME TypeInv, NEW k \in Block, NEW f \in [Word -> Nat], Old(k, f), NEW W \in SUBSET Word, NEW v \in Nat, Put(k, W, v)
  PROVE  Old(k, Overwrite(f, W, v))
BY DEF Old, Put, Overwrite, TypeInv

\* The backend after a put.
LEMMA BackendVersions ==
  ASSUME TypeInv, VersionInv, UNCHANGED latest,
         NEW k \in Block, NEW W \in SUBSET Word, NEW v \in Nat, Put(k, W, v), Stored(k, W, v)
  PROVE  OldBackend'
<1>1. backend[k] \in [Word -> Nat]
  BY DEF TypeInv
<1>2. PICK f \in [Word -> Nat] : f = backend[k]
  BY <1>1
<1>3. Old(k, f)
  BY <1>2 DEF VersionInv, OldBackend, Old
<1>4. Old(k, Overwrite(f, W, v))
  BY <1>3, OverwriteOld
<1>5. \A w \in Word : backend'[k][w] <= latest[k][w]
  BY <1>2, <1>4 DEF Stored, Old
<1>6. \A j \in Block : j # k => \A w \in Word : backend'[j][w] <= latest[j][w]
  BY DEF Stored, VersionInv, OldBackend
<1> QED BY <1>5, <1>6 DEF OldBackend

\* The operations while no put begins.
LEMMA OpVersions ==
  ASSUME TypeInv, VersionInv, UNCHANGED latest,
         \A u \in Thread : pc'[u] # "idle" => /\ pc[u] # "idle" /\ op'[u].words = op[u].words
                                               /\ op'[u].val = op[u].val /\ op'[u].blk = op[u].blk
  PROVE  OldOps'
BY DEF VersionInv, OldOps

\* The queues after one message was sent.
LEMMA CtlVersions ==
  ASSUME TypeInv, VersionInv, UNCHANGED latest, NEW m, Sent(m), m.kind # "Writeback" => Put(m.blk, m.words, m.val)
  PROVE  OldCtl'
<1> SUFFICES ASSUME NEW n \in Node, NEW p \in Node, NEW i \in 1 .. Len(ctl'[n][p]), ctl'[n][p][i].kind # "Writeback"
             PROVE  \A w \in ctl'[n][p][i].words : ctl'[n][p][i].val <= latest[ctl'[n][p][i].blk][w]
  BY DEF OldCtl
<1>1. PICK c, d : c = ctl[n][p] /\ d = ctl'[n][p]
  OBVIOUS
<1>2. m \in Messages /\ c \in Seq(Messages) /\ (d = c \/ d = Append(c, m)) /\ i \in 1 .. Len(d)
  BY <1>1 DEF Sent, TypeInv
<1>3. d[i] = m \/ (i \in 1 .. Len(c) /\ d[i] = c[i])
  <2>1. CASE d = c
    BY <1>2, <2>1
  <2>2. CASE d = Append(c, m)
    BY <1>2, <2>2, AppendAt
  <2> QED BY <1>2, <2>1, <2>2
<1>4. CASE d[i] = m
  BY <1>1, <1>4 DEF Put
<1>5. CASE i \in 1 .. Len(c) /\ d[i] = c[i]
  BY <1>1, <1>5 DEF VersionInv, OldCtl
<1> QED BY <1>3, <1>4, <1>5

\* The protocol threads after one was given something to handle.
LEMMA SrvVersions ==
  ASSUME TypeInv, VersionInv, UNCHANGED latest, NEW n \in Node, NEW p \in Node, NEW i \in Servers(n, p), NEW v,
         SrvTo(n, p, i, v), v.kind \notin {None, "Writeback"} => Put(v.blk, v.words, v.val)
  PROVE  OldSrv'
<1> SUFFICES ASSUME NEW a \in Node, NEW b \in Node, NEW j \in Servers(a, b), srv'[a][b][j].kind \notin {None, "Writeback"}
             PROVE  \A w \in srv'[a][b][j].words : srv'[a][b][j].val <= latest[srv'[a][b][j].blk][w]
  BY DEF OldSrv
<1>1. CASE a = n /\ b = p /\ j = i
  BY <1>1 DEF SrvTo, Put
<1>2. CASE a # n \/ b # p \/ j # i
  BY <1>2 DEF SrvTo, VersionInv, OldSrv
<1> QED BY <1>1, <1>2

\* The replies after one was sent.
LEMMA ReplyVersions ==
  ASSUME TypeInv, VersionInv, UNCHANGED latest, NEW n \in Node, NEW p \in Node, NEW k \in Block, Replied(n, p, k)
  PROVE  OldReply'
<1> SUFFICES ASSUME NEW a \in Node, NEW b \in Node, NEW i \in 1 .. Len(reply'[a][b])
             PROVE  \A w \in Word : reply'[a][b][i].words[w] <= latest[reply'[a][b][i].blk][w]
  BY DEF OldReply
<1>1. CASE a # n \/ b # p
  <2>1. reply'[a][b] = reply[a][b]
    BY <1>1 DEF Replied
  <2> QED BY <2>1 DEF VersionInv, OldReply
<1>2. CASE a = n /\ b = p
  <2>1. PICK c, d, m : c = reply[n][p] /\ d = reply'[n][p] /\ m = [blk |-> k, words |-> backend[k]]
    OBVIOUS
  <2>2. c \in Seq(Reply) /\ d = Append(c, m) /\ m \in Reply /\ m.blk = k /\ m.words = backend[k]
    BY <2>1 DEF Replied, TypeInv, Reply
  <2>3. d[i] = m \/ (i \in 1 .. Len(c) /\ d[i] = c[i])
    BY <1>2, <2>1, <2>2, AppendAt
  <2>4. CASE d[i] = m
    BY <1>2, <2>1, <2>2, <2>4 DEF VersionInv, OldBackend
  <2>5. CASE i \in 1 .. Len(c) /\ d[i] = c[i]
    BY <1>2, <2>1, <2>5 DEF VersionInv, OldReply
  <2> QED BY <2>3, <2>4, <2>5
<1> QED BY <1>1, <1>2

\* What a step leaves alone keeps its versions.
LEMMA VersionKept ==
  ASSUME TypeInv, VersionInv, UNCHANGED latest
  PROVE  /\ UNCHANGED backend => OldBackend'
         /\ UNCHANGED slot => OldSlots'
         /\ UNCHANGED ctl => OldCtl'
         /\ UNCHANGED srv => OldSrv'
         /\ UNCHANGED reply => OldReply'
<1>1. ASSUME UNCHANGED backend PROVE OldBackend'
  BY <1>1 DEF VersionInv, OldBackend
<1>2. ASSUME UNCHANGED slot PROVE OldSlots'
  BY <1>2 DEF VersionInv, OldSlots
<1>3. ASSUME UNCHANGED ctl PROVE OldCtl'
  BY <1>3 DEF VersionInv, OldCtl
<1>4. ASSUME UNCHANGED srv PROVE OldSrv'
  BY <1>4 DEF VersionInv, OldSrv
<1>5. ASSUME UNCHANGED reply PROVE OldReply'
  BY <1>5 DEF VersionInv, OldReply
<1> QED BY <1>1, <1>2, <1>3, <1>4, <1>5

\* The keyed slots after one was assigned.
LEMMA SlotVersions ==
  ASSUME TypeInv, VersionInv, UNCHANGED latest, NEW n \in Node, NEW s \in Slot, NEW k, NEW ws, NEW l, NEW R,
         SlotSet(slot', slot, n, s, k, ws, l, R), k # None => Old(k, ws)
  PROVE  OldSlots'
<1> SUFFICES ASSUME NEW a \in Node, NEW r \in Slot, slot'[a][r].key # None
             PROVE  \A w \in Word : slot'[a][r].words[w] <= latest[slot'[a][r].key][w]
  BY DEF OldSlots
<1>1. CASE a = n /\ r = s
  BY <1>1 DEF SlotSet, Old
<1>2. CASE a # n \/ r # s
  <2>1. slot'[a][r] = slot[a][r]
    BY <1>2 DEF SlotSet
  <2> QED BY <2>1 DEF VersionInv, OldSlots
<1> QED BY <1>1, <1>2

\* The words thread u has filled its slot with stay as they are.
Rests(u) == pc[u] = "filled" /\ op'[u] = op[u] /\ slot'[Me(u)][op[u].slot].words = slot[Me(u)][op[u].slot].words

\* The slots just filled.
LEMMA FilledVersions ==
  ASSUME TypeInv, VersionInv, UNCHANGED latest,
         \A u \in Thread : pc'[u] = "filled" => Rests(u) \/ Old(op'[u].blk, slot'[Me(u)][op'[u].slot].words)
  PROVE  OldFilled'
<1> SUFFICES ASSUME NEW u \in Thread, pc'[u] = "filled"
             PROVE  \A w \in Word : slot'[Me(u)][op'[u].slot].words[w] <= latest[op'[u].blk][w]
  BY DEF OldFilled, Me
<1>1. CASE Rests(u)
  BY <1>1 DEF VersionInv, OldFilled, Rests
<1>2. CASE Old(op'[u].blk, slot'[Me(u)][op'[u].slot].words)
  BY <1>2 DEF Old
<1> QED BY <1>1, <1>2

\* A slot just filled is not one that is unused, has a key or that another
\* thread fills.
LEMMA FilledApart ==
  ASSUME TypeInv, SlotInv, NEW u \in Thread, pc[u] = "filled", NEW n \in Node, NEW s \in Slot,
         \/ slot[n][s].key # None
         \/ s \in unused[n]
         \/ \E t \in Thread : t # u /\ Filling(t) /\ Me(t) = n /\ op[t].slot = s
  PROVE  Me(u) # n \/ op[u].slot # s
<1>1. Filling(u)
  BY DEF Filling
<1>2. Mine(u).key = None /\ hash[Me(u)][op[u].blk] = op[u].slot
  BY <1>1 DEF SlotInv, Filled1
<1>3. \A t \in Thread : Filling(t) /\ Me(t) = Me(u) /\ op[t].slot = op[u].slot => t = u
  BY <1>1 DEF SlotInv, Filled1
<1>4. op[u].slot \in Slot /\ op[u].blk \in Block /\ Me(u) \in Node /\ None \notin Slot
  BY Here
<1>5. op[u].slot \notin unused[Me(u)]
  <2>1. hash[Me(u)][op[u].blk] # None
    BY <1>2, <1>4
  <2> QED BY <1>2, <1>4, <2>1 DEF SlotInv, Named
<1> QED BY <1>2, <1>3, <1>5 DEF Mine

\* One slot is assigned, and no thread has newly filled one but thread t,
\* with words put to its block.
LEMMA FilledSet ==
  ASSUME TypeInv, SlotInv, VersionInv, UNCHANGED latest, NEW t \in Thread, NEW l, PcTo(t, l),
         \A u \in Thread : u # t => op'[u] = op[u],
         NEW n \in Node, NEW s \in Slot, NEW k, NEW ws, NEW b, NEW R, SlotSet(slot', slot, n, s, k, ws, b, R),
         \/ slot[n][s].key # None
         \/ s \in unused[n]
         \/ Filling(t) /\ Me(t) = n /\ op[t].slot = s
         \/ ws = slot[n][s].words,
         l = "filled" => Me(t) = n /\ op'[t].slot = s /\ Old(op'[t].blk, ws)
  PROVE  OldFilled'
<1> SUFFICES ASSUME NEW u \in Thread, pc'[u] = "filled"
             PROVE  Rests(u) \/ Old(op'[u].blk, slot'[Me(u)][op'[u].slot].words)
  BY FilledVersions
<1>1. CASE u = t
  <2>1. Me(t) = n /\ op'[t].slot = s /\ Old(op'[t].blk, ws)
    BY <1>1 DEF PcTo
  <2>2. slot'[Me(u)][op'[u].slot].words = ws
    BY <1>1, <2>1 DEF SlotSet
  <2> QED BY <1>1, <2>1, <2>2
<1>2. CASE u # t
  <2>1. pc[u] = "filled" /\ op'[u] = op[u] /\ op[u].slot \in Slot /\ Me(u) \in Node
    BY <1>2, Here DEF PcTo
  <2>2. CASE Me(u) # n \/ op[u].slot # s
    BY <2>1, <2>2 DEF SlotSet, Rests
  <2>3. CASE Me(u) = n /\ op[u].slot = s
    <3>1. ws = slot[n][s].words
      BY <1>2, <2>1, <2>3, FilledApart
    <3> QED BY <2>1, <2>3, <3>1 DEF SlotSet, Rests
  <2> QED BY <2>2, <2>3
<1> QED BY <1>1, <1>2

\* The slots stay, and no thread has newly filled one.
LEMMA FilledKept ==
  ASSUME TypeInv, VersionInv, UNCHANGED <<latest, slot>>, NEW t \in Thread, NEW l, PcTo(t, l), l # "filled",
         \A u \in Thread : u # t => op'[u] = op[u]
  PROVE  OldFilled'
<1>1. \A u \in Thread : pc'[u] = "filled" => Rests(u)
  BY DEF PcTo, Rests
<1> QED BY <1>1, FilledVersions

\* Copies of a block are renewed by a version that was put to it.
LEMMA RenewedVersions ==
  ASSUME TypeInv, SlotInv, VersionInv, UNCHANGED <<latest, pc, op>>,
         NEW k \in Block, NEW W \in SUBSET Word, NEW v \in Nat, Put(k, W, v), Renewed(k, W, v)
  PROVE  OldSlots' /\ OldFilled'
<1>1. OldSlots'
  <2> SUFFICES ASSUME NEW a \in Node, NEW r \in Slot, slot'[a][r].key # None
               PROVE  \A w \in Word : slot'[a][r].words[w] <= latest[slot'[a][r].key][w]
    BY DEF OldSlots
  <2>1. slot'[a][r].key = slot[a][r].key
    BY DEF Renewed
  <2>2. PICK f \in [Word -> Nat] : f = slot[a][r].words
    BY DEF TypeInv, SlotType
  <2>3. Old(slot[a][r].key, f)
    BY <2>1, <2>2 DEF VersionInv, OldSlots, Old
  <2>4. CASE slot'[a][r].words = slot[a][r].words
    BY <2>1, <2>2, <2>3, <2>4 DEF Old
  <2>5. CASE slot[a][r].key = k /\ slot'[a][r].words = Overwrite(slot[a][r].words, W, v)
    <3>1. Old(k, Overwrite(f, W, v))
      BY <2>3, <2>5, OverwriteOld
    <3> QED BY <2>1, <2>2, <2>5, <3>1 DEF Old
  <2> QED BY <2>4, <2>5 DEF Renewed
<1>2. \A u \in Thread : pc'[u] = "filled" => Rests(u)
  <2> SUFFICES ASSUME NEW u \in Thread, pc[u] = "filled" PROVE Rests(u)
    OBVIOUS
  <2>1. op[u].slot \in Slot /\ Me(u) \in Node /\ None \notin Block
    BY Here
  <2>2. slot[Me(u)][op[u].slot].key # k
    BY <2>1, FilledApart, CacheAssumption
  <2> QED BY <2>1, <2>2 DEF Renewed, Rests
<1>3. OldFilled'
  BY <1>2, FilledVersions
<1> QED BY <1>1, <1>3

\* A put or a get begins: the versions of all blocks grow.
LEMMA VersionStart ==
  ASSUME TypeInv, VersionInv, NEW t \in Thread, Start(t)
  PROVE  VersionInv'
<1>1. /\ TypeInv' /\ pc[t] = "idle" /\ PcTo(t, "lookup")
      /\ \A u \in Thread : u # t => op'[u] = op[u]
      /\ \A w \in op'[t].words : op'[t].val <= latest'[op'[t].blk][w]
      /\ UNCHANGED <<backend, slot, ctl, srv, reply>>
  BY StartEffect DEF local, net
<1>2. ASSUME NEW k \in Block, NEW w \in Word, NEW x \in Nat, x <= latest[k][w]
      PROVE  x <= latest'[k][w]
  <2>1. latest[k][w] \in Nat /\ latest'[k][w] \in Nat
    BY <1>1 DEF TypeInv
  <2>2. latest[k][w] <= latest'[k][w]
    BY StartEffect DEF Grows
  <2> QED BY <1>2, <2>1, <2>2
<1>3. OldBackend'
  <2> SUFFICES ASSUME NEW k \in Block, NEW w \in Word PROVE backend[k][w] <= latest'[k][w]
    BY <1>1 DEF OldBackend
  <2>1. backend[k][w] \in Nat /\ backend[k][w] <= latest[k][w]
    BY DEF TypeInv, VersionInv, OldBackend
  <2> QED BY <1>2, <2>1
<1>4. OldSlots'
  <2> SUFFICES ASSUME NEW n \in Node, NEW s \in Slot, slot[n][s].key # None, NEW w \in Word
               PROVE  slot[n][s].words[w] <= latest'[slot[n][s].key][w]
    BY <1>1 DEF OldSlots
  <2>1. slot[n][s].key \in Block /\ slot[n][s].words[w] \in Nat
    BY DEF TypeInv, SlotType
  <2>2. slot[n][s].words[w] <= latest[slot[n][s].key][w]
    BY DEF VersionInv, OldSlots
  <2> QED BY <1>2, <2>1, <2>2
<1>5. OldFilled'
  <2> SUFFICES ASSUME NEW u \in Thread, pc'[u] = "filled", NEW w \in Word
               PROVE  slot[Me(u)][op'[u].slot].words[w] <= latest'[op'[u].blk][w]
    BY <1>1 DEF OldFilled, Me
  <2>1. u # t /\ pc[u] = "filled" /\ op'[u] = op[u]
    BY <1>1 DEF PcTo
  <2>2. op[u].slot \in Slot /\ op[u].blk \in Block /\ Me(u) \in Node
    BY <2>1, Here
  <2>3. slot[Me(u)][op[u].slot].words[w] \in Nat
    BY <2>2 DEF TypeInv, SlotType
  <2>4. slot[Me(u)][op[u].slot].words[w] <= latest[op[u].blk][w]
    BY <2>1 DEF VersionInv, OldFilled
  <2> QED BY <1>2, <2>1, <2>2, <2>3, <2>4
<1>6. OldOps'
  <2> SUFFICES ASSUME NEW u \in Thread, pc'[u] # "idle", NEW w \in op'[u].words
               PROVE  op'[u].val <= latest'[op'[u].blk][w]
    BY DEF OldOps
  <2>1. CASE u = t
    BY <1>1, <2>1
  <2>2. CASE u # t
    <3>1. pc[u] # "idle" /\ op'[u] = op[u]
      BY <1>1, <2>2 DEF PcTo
    <3>2. op[u].blk \in Block /\ op[u].val \in Nat /\ w \in Word
      BY <3>1, Here
    <3>3. op[u].val <= latest[op[u].blk][w]
      BY <3>1 DEF VersionInv, OldOps
    <3> QED BY <1>2, <3>1, <3>2, <3>3
  <2> QED BY <2>1, <2>2
<1>7. OldCtl'
  <2> SUFFICES ASSUME NEW n \in Node, NEW p \in Node, NEW i \in 1 .. Len(ctl[n][p]),
                      ctl[n][p][i].kind # "Writeback", NEW w \in ctl[n][p][i].words
               PROVE  ctl[n][p][i].val <= latest'[ctl[n][p][i].blk][w]
    BY <1>1 DEF OldCtl
  <2>1. PICK m \in Messages : m = ctl[n][p][i]
    BY DEF TypeInv
  <2>2. m.kind # None
    BY DEF Messages, None
  <2>3. m.blk \in Block /\ m.words \in SUBSET Word /\ m.val \in Nat
    BY <2>1, <2>2, MessageFields
  <2>4. m.val <= latest[m.blk][w]
    BY <2>1 DEF VersionInv, OldCtl
  <2> QED BY <1>2, <2>1, <2>3, <2>4
<1>8. OldSrv'
  <2> SUFFICES ASSUME NEW n \in Node, NEW p \in Node, NEW i \in Servers(n, p),
                      srv[n][p][i].kind \notin {None, "Writeback"}, NEW w \in srv[n][p][i].words
               PROVE  srv[n][p][i].val <= latest'[srv[n][p][i].blk][w]
    BY <1>1 DEF OldSrv
  <2>1. PICK m \in Messages \cup {Idle} : m = srv[n][p][i]
    BY DEF TypeInv, SrvType
  <2>2. m.blk \in Block /\ m.words \in SUBSET Word /\ m.val \in Nat
    BY <2>1, MessageFields
  <2>3. m.val <= latest[m.blk][w]
    BY <2>1 DEF VersionInv, OldSrv
  <2> QED BY <1>2, <2>1, <2>2, <2>3
<1>9. OldReply'
  <2> SUFFICES ASSUME NEW n \in Node, NEW p \in Node, NEW i \in 1 .. Len(reply[n][p]), NEW w \in Word
               PROVE  reply[n][p][i].words[w] <= latest'[reply[n][p][i].blk][w]
    BY <1>1 DEF OldReply
  <2>1. PICK m \in Reply : m = reply[n][p][i]
    BY DEF TypeInv
  <2>2. m.blk \in Block /\ m.words[w] \in Nat
    BY DEF Reply
  <2>3. m.words[w] <= latest[m.blk][w]
    BY <2>1 DEF VersionInv, OldReply
  <2> QED BY <1>2, <2>1, <2>2, <2>3
<1> QED BY <1>3, <1>4, <1>5, <1>6, <1>7, <1>8, <1>9 DEF VersionInv

\* The operation of thread t has been put.
LEMMA OpPut ==
  ASSUME TypeInv, VersionInv, NEW t \in Thread, pc[t] # "idle"
  PROVE  /\ op[t].blk \in Block /\ op[t].words \in SUBSET Word /\ op[t].val \in Nat
         /\ Put(op[t].blk, op[t].words, op[t].val)
         /\ \A W \in SUBSET op[t].words : Put(op[t].blk, W, op[t].val)
<1>1. op[t].blk \in Block /\ op[t].words \in SUBSET Word /\ op[t].val \in Nat
  BY Here
<1>2. \A w \in op[t].words : op[t].val <= latest[op[t].blk][w]
  BY DEF VersionInv, OldOps
<1> QED BY <1>1, <1>2 DEF Put

\* The message a protocol thread handles has been put.
LEMMA SrvPut ==
  ASSUME TypeInv, VersionInv, NEW n \in Node, NEW p \in Node, NEW i \in Servers(n, p), NEW m, m = srv[n][p][i],
         m.kind \notin {None, "Writeback"}
  PROVE  /\ m.blk \in Block /\ m.words \in SUBSET Word /\ m.val \in Nat
         /\ Put(m.blk, m.words, m.val)
         /\ \A W \in SUBSET m.words : Put(m.blk, W, m.val)
<1>1. m \in Messages \cup {Idle}
  BY DEF TypeInv, SrvType
<1>2. m.blk \in Block /\ m.words \in SUBSET Word /\ m.val \in Nat
  BY <1>1, MessageFields
<1>3. \A w \in m.words : m.val <= latest[m.blk][w]
  BY DEF VersionInv, OldSrv
<1> QED BY <1>2, <1>3 DEF Put

\* A request of thread t is queued.
LEMMA AskVersions ==
  ASSUME TypeInv, VersionInv, UNCHANGED latest, NEW t \in Thread, pc[t] # "idle",
         NEW kind \in {"ReadMiss", "WriteMiss", "Write"}, AskTo(t, kind)
  PROVE  OldCtl'
<1>1. PICK m : m = Fields(t, kind)
  OBVIOUS
<1>2. m \in Messages /\ CtlAdd(Me(t), Home[op[t].blk], m)
  BY <1>1 DEF AskTo
<1>3. Sent(m)
  BY <1>2 DEF CtlAdd, Sent
<1>4. m.blk = op[t].blk /\ m.words = op[t].words /\ m.val = op[t].val
  BY <1>1 DEF Fields
<1>5. Put(m.blk, m.words, m.val)
  BY <1>4, OpPut
<1> QED BY <1>3, <1>5, CtlVersions

\* The operations while thread t goes on with its own.
LEMMA WorkOps ==
  ASSUME TypeInv, VersionInv, UNCHANGED latest, NEW t \in Thread, pc[t] # "idle", NEW l, PcTo(t, l),
         UNCHANGED op \/ \E s, o : OpTo(t, s, o)
  PROVE  OldOps'
<1>1. \A u \in Thread : op'[u].words = op[u].words /\ op'[u].val = op[u].val /\ op'[u].blk = op[u].blk
  BY DEF OpTo
<1>2. \A u \in Thread : pc'[u] # "idle" => pc[u] # "idle"
  BY DEF PcTo
<1> QED BY <1>1, <1>2, OpVersions

\* A hit writes what its thread put to the block.
LEMMA VersionHit ==
  ASSUME TypeInv, SlotInv, VersionInv, NEW t \in Thread, Hit(t)
  PROVE  VersionInv'
<1>1. pc[t] = "hit" /\ op[t].slot \in Slot /\ UNCHANGED <<backend, ctl, srv, reply, op, latest>>
  BY HitEffect DEF net
<1>2. OldBackend' /\ OldCtl' /\ OldSrv' /\ OldReply'
  BY <1>1, VersionKept
<1>3. CASE UNCHANGED slot /\ \E l \in {"miss", "idle"} : PcTo(t, l)
  <2>1. OldSlots'
    BY <1>1, <1>3, VersionKept
  <2>2. OldFilled'
    BY <1>1, <1>3, FilledKept
  <2>3. OldOps'
    BY <1>1, <1>3, WorkOps
  <2> QED BY <1>2, <2>1, <2>2, <2>3 DEF VersionInv
<1>4. ASSUME StillMine(t), PcTo(t, "write"),
             SlotSet(slot', slot, Me(t), op[t].slot, op[t].blk, Overwrite(Mine(t).words, op[t].words, op[t].val),
                     Mine(t).wlock, Mine(t).readers \cup {t})
      PROVE  VersionInv'
  <2>1. PICK n \in Node, s \in Slot : n = Me(t) /\ s = op[t].slot
    BY <1>1, Here
  <2>2. PICK f \in [Word -> Nat] : f = Mine(t).words
    BY <2>1 DEF TypeInv, SlotType, Mine
  <2>3. slot[n][s].key = op[t].blk /\ op[t].blk \in Block /\ None \notin Block
    BY <1>1, <1>4, <2>1, Here DEF StillMine, Mine
  <2>4. Old(op[t].blk, f)
    BY <2>1, <2>2, <2>3 DEF VersionInv, OldSlots, Old, Mine
  <2>5. Old(op[t].blk, Overwrite(f, op[t].words, op[t].val))
    BY <1>1, <2>3, <2>4, OpPut, OverwriteOld
  <2>6. PICK ws, b, R : ws = Overwrite(f, op[t].words, op[t].val) /\ b = Mine(t).wlock /\ R = Mine(t).readers \cup {t}
    OBVIOUS
  <2>7. SlotSet(slot', slot, n, s, op[t].blk, ws, b, R)
    BY <1>4, <2>1, <2>2, <2>6
  <2>8. OldSlots'
    BY <1>1, <2>5, <2>6, <2>7, SlotVersions
  <2>9. slot[n][s].key # None
    BY <2>3
  <2>10. OldFilled'
    BY <1>1, <1>4, <2>7, <2>9, FilledSet
  <2>11. OldOps'
    BY <1>1, <1>4, WorkOps
  <2> QED BY <1>2, <2>8, <2>10, <2>11 DEF VersionInv
<1> QED BY <1>3, <1>4, HitEffect

\* A slot is taken: it has no key, and its words are not read.
LEMMA VersionGet ==
  ASSUME TypeInv, SlotInv, VersionInv, NEW t \in Thread, GetBlock(t)
  PROVE  VersionInv'
<1>1. pc[t] = "miss" /\ Me(t) \in Node /\ UNCHANGED <<backend, ctl, srv, reply, latest>>
  BY GetBlockEffect, Here DEF net
<1>2. OldBackend' /\ OldCtl' /\ OldSrv' /\ OldReply'
  BY <1>1, VersionKept
<1>3. ASSUME NEW s, NEW o, OpTo(t, s, o), PcTo(t, "hit"), UNCHANGED slot
      PROVE  VersionInv'
  <2>1. OldSlots'
    BY <1>1, <1>3, VersionKept
  <2>2. OldFilled'
    BY <1>1, <1>3, FilledKept DEF OpTo
  <2>3. OldOps'
    BY <1>1, <1>3, WorkOps
  <2> QED BY <1>2, <2>1, <2>2, <2>3 DEF VersionInv
<1>4. ASSUME NEW s \in Slot, NEW o, OpTo(t, s, o), NEW l \in {"fill", "writeback"}, PcTo(t, l),
             SlotSet(slot', slot, Me(t), s, None, slot[Me(t)][s].words, TRUE, slot[Me(t)][s].readers)
      PROVE  VersionInv'
  <2>1. OldSlots'
    BY <1>1, <1>4, SlotVersions
  <2>2. OldFilled'
    <3>1. \A u \in Thread : u # t => op'[u] = op[u]
      BY <1>4 DEF OpTo
    <3> QED BY <1>1, <1>4, <3>1, FilledSet
  <2>3. OldOps'
    BY <1>1, <1>4, WorkOps
  <2> QED BY <1>2, <2>1, <2>2, <2>3 DEF VersionInv
<1>5. CASE \E s \in unused[Me(t)] :
             /\ SlotSet(slot', slot, Me(t), s, slot[Me(t)][s].key, slot[Me(t)][s].words, TRUE, slot[Me(t)][s].readers)
             /\ OpTo(t, s, op[t].old) /\ PcTo(t, "fill")
  <2>1. PICK s \in unused[Me(t)] :
             /\ SlotSet(slot', slot, Me(t), s, slot[Me(t)][s].key, slot[Me(t)][s].words, TRUE, slot[Me(t)][s].readers)
             /\ OpTo(t, s, op[t].old) /\ PcTo(t, "fill")
    BY <1>5, Zenon
  <2>2. s \in Slot /\ slot[Me(t)][s].key = None
    BY <1>1 DEF TypeInv, SlotInv, Empty
  <2> QED BY <1>4, <2>1, <2>2
<1>6. \/ OpTo(t, hash[Me(t)][op[t].blk], op[t].old) /\ PcTo(t, "hit") /\ UNCHANGED local
      \/ \E s \in unused[Me(t)] :
           /\ SlotSet(slot', slot, Me(t), s, slot[Me(t)][s].key, slot[Me(t)][s].words, TRUE, slot[Me(t)][s].readers)
           /\ OpTo(t, s, op[t].old) /\ PcTo(t, "fill")
      \/ \E s \in Slot :
           /\ SlotSet(slot', slot, Me(t), s, None, slot[Me(t)][s].words, TRUE, slot[Me(t)][s].readers)
           /\ OpTo(t, s, slot[Me(t)][s].key) /\ PcTo(t, "writeback")
  BY GetBlockEffect, Zenon
<1>7. UNCHANGED local => UNCHANGED slot
  BY DEF local
<1>8. "fill" \in {"fill", "writeback"} /\ "writeback" \in {"fill", "writeback"}
  OBVIOUS
<1> QED BY <1>3, <1>4, <1>5, <1>6, <1>7, <1>8, Zenon

\* The slot of thread t is loaded with what was put to its block.
LEMMA LoadVersions ==
  ASSUME TypeInv, SlotInv, VersionInv, UNCHANGED <<latest, op>>, NEW t \in Thread, Filling(t), PcTo(t, "filled"),
         NEW ws, Old(op[t].blk, ws), Loads(t, ws)
  PROVE  OldSlots' /\ OldFilled' /\ OldOps'
<1>1. PICK n \in Node, s \in Slot : n = Me(t) /\ s = op[t].slot
  BY Here DEF Filling
<1>2. PICK k, b, R : k = Mine(t).key /\ b = Mine(t).wlock /\ R = Mine(t).readers
  OBVIOUS
<1>3. SlotSet(slot', slot, n, s, k, ws, b, R) /\ k = None
  BY <1>1, <1>2 DEF Loads, SlotInv, Filled1
<1>4. OldSlots'
  BY <1>3, SlotVersions
<1>5. OldFilled'
  BY <1>1, <1>3, FilledSet
<1>6. OldOps'
  BY WorkOps DEF Filling
<1> QED BY <1>4, <1>5, <1>6

\* What the backend has of a block was put.
LEMMA BackendOld ==
  ASSUME VersionInv, NEW k \in Block
  PROVE  Old(k, backend[k])
BY DEF VersionInv, OldBackend, Old

\* A miss is served at the home, or asked for.
LEMMA VersionFill ==
  ASSUME TypeInv, SlotInv, VersionInv, NEW t \in Thread, Fill(t)
  PROVE  VersionInv'
<1>1. pc[t] = "fill" /\ op[t].blk \in Block /\ UNCHANGED <<srv, reply, op, latest>>
  BY FillEffect, Here
<1>2. OldSrv' /\ OldReply'
  BY <1>1, VersionKept
<1>3. ASSUME NEW kind \in {"ReadMiss", "WriteMiss"}, AskTo(t, kind), UNCHANGED <<backend, slot>>
      PROVE  VersionInv'
  <2>1. PcTo(t, "wait")
    BY <1>3 DEF AskTo
  <2>2. OldBackend' /\ OldSlots'
    BY <1>1, <1>3, VersionKept
  <2>3. OldFilled' /\ OldOps'
    BY <1>1, <1>3, <2>1, FilledKept, WorkOps
  <2>4. OldCtl'
    BY <1>1, <1>3, AskVersions
  <2> QED BY <1>2, <2>2, <2>3, <2>4 DEF VersionInv
<1>4. ASSUME Loads(t, backend[op[t].blk]), PcTo(t, "filled"), UNCHANGED <<backend, ctl>>
      PROVE  VersionInv'
  <2>1. OldBackend' /\ OldCtl'
    BY <1>1, <1>4, VersionKept
  <2>2. Filling(t) /\ Old(op[t].blk, backend[op[t].blk])
    BY <1>1, BackendOld DEF Filling
  <2>3. OldSlots' /\ OldFilled' /\ OldOps'
    BY <1>1, <1>4, <2>2, LoadVersions
  <2> QED BY <1>2, <2>1, <2>3 DEF VersionInv
<1>5. ASSUME Stored(op[t].blk, FirstWord(op[t].words), op[t].val), PcTo(t, "missrenew"), UNCHANGED <<slot, ctl>>
      PROVE  VersionInv'
  <2>1. PICK W : W = FirstWord(op[t].words)
    OBVIOUS
  <2>2. W \in SUBSET op[t].words
    BY <2>1 DEF FirstWord
  <2>3. op[t].val \in Nat /\ W \in SUBSET Word /\ Put(op[t].blk, W, op[t].val)
    BY <1>1, <2>2, OpPut
  <2>4. OldBackend'
    BY <1>1, <1>5, <2>1, <2>3, BackendVersions
  <2>5. OldSlots' /\ OldCtl'
    BY <1>1, <1>5, VersionKept
  <2>6. OldFilled' /\ OldOps'
    BY <1>1, <1>5, FilledKept, WorkOps
  <2> QED BY <1>2, <2>4, <2>5, <2>6 DEF VersionInv
<1> QED BY <1>3, <1>4, <1>5, FillEffect

\* A local write miss loads the block and renews the holders.
LEMMA VersionMissRenew ==
  ASSUME TypeInv, SlotInv, VersionInv, NEW t \in Thread, MissRenew(t)
  PROVE  VersionInv'
<1>1. /\ pc[t] = "missrenew" /\ op[t].blk \in Block /\ PcTo(t, "filled") /\ Loads(t, backend[op[t].blk])
      /\ UNCHANGED <<backend, reply, srv, op, latest>>
  BY MissRenewEffect, Here
<1>2. OldBackend' /\ OldSrv' /\ OldReply'
  BY <1>1, VersionKept
<1>3. Filling(t) /\ Old(op[t].blk, backend[op[t].blk])
  BY <1>1, BackendOld DEF Filling
<1>4. OldSlots' /\ OldFilled' /\ OldOps'
  BY <1>1, <1>3, LoadVersions
<1>5. PICK m : Sent(m) /\ m.blk = op[t].blk /\ m.words \subseteq op[t].words /\ m.val = op[t].val
  BY MissRenewEffect
<1>6. Put(m.blk, m.words, m.val)
  BY <1>1, <1>5, OpPut
<1>7. OldCtl'
  BY <1>1, <1>5, <1>6, CtlVersions
<1> QED BY <1>2, <1>4, <1>7 DEF VersionInv

\* A thread lets its read lock go.
LEMMA LeaveVersions ==
  ASSUME TypeInv, SlotInv, VersionInv, UNCHANGED <<latest, op>>, NEW t \in Thread, pc[t] \in {"wait", "renew"}, PcTo(t, "idle"),
         SlotSet(slot', slot, Me(t), op[t].slot, Mine(t).key, Mine(t).words, Mine(t).wlock, Mine(t).readers \ {t})
  PROVE  OldSlots' /\ OldFilled' /\ OldOps'
<1>1. PICK n \in Node, s \in Slot : n = Me(t) /\ s = op[t].slot
  BY Here
<1>2. PICK k, ws, b, R : k = Mine(t).key /\ ws = Mine(t).words /\ b = Mine(t).wlock /\ R = Mine(t).readers \ {t}
  OBVIOUS
<1>3. SlotSet(slot', slot, n, s, k, ws, b, R)
  BY <1>1, <1>2
<1>4. k # None => Old(k, ws)
  BY <1>1, <1>2 DEF VersionInv, OldSlots, Old, Mine
<1>5. OldSlots'
  BY <1>3, <1>4, SlotVersions
<1>6. ws = slot[n][s].words
  BY <1>1, <1>2 DEF Mine
<1>7. OldFilled'
  BY <1>3, <1>6, FilledSet
<1>8. OldOps'
  BY WorkOps
<1> QED BY <1>5, <1>7, <1>8

\* The reply is taken from the data socket.
LEMMA VersionAnswered ==
  ASSUME TypeInv, SlotInv, ReplyInv, VersionInv, NEW t \in Thread, Answered(t)
  PROVE  VersionInv'
<1>1. PICK n \in Node, h \in Node : n = Me(t) /\ h = Home[op[t].blk]
  <2>1. pc[t] = "wait"
    BY DEF Answered
  <2> QED BY <2>1, Here
<1>2. /\ pc[t] = "wait" /\ reply[h][n] # <<>> /\ reply'[h][n] = Tail(reply[h][n])
      /\ \A x, y \in Node : x # h \/ y # n => reply'[x][y] = reply[x][y]
      /\ UNCHANGED <<backend, ctl, srv, op, latest>>
  <2>1. pc[t] = "wait" /\ UNCHANGED <<backend, ctl, srv, op, latest>>
    BY AnsweredEffect
  <2>2. /\ reply[Home[op[t].blk]][Me(t)] # <<>>
        /\ reply'[Home[op[t].blk]][Me(t)] = Tail(reply[Home[op[t].blk]][Me(t)])
        /\ \A x, y \in Node : x # Home[op[t].blk] \/ y # Me(t) => reply'[x][y] = reply[x][y]
    BY AnsweredEffect, Zenon
  <2> QED BY <1>1, <2>1, <2>2
<1>3. OldBackend' /\ OldSrv' /\ OldCtl'
  BY <1>2, VersionKept
<1>4. PICK c, d : c \in Seq(Reply) /\ c = reply[h][n] /\ d = reply'[h][n]
  BY DEF TypeInv
<1>5. /\ 1 \in 1 .. Len(c) /\ Head(c) = c[1]
      /\ \A i \in 1 .. Len(d) : i + 1 \in 1 .. Len(c) /\ d[i] = c[i + 1]
  <2>1. c # <<>> /\ d = Tail(c)
    BY <1>2, <1>4
  <2> QED BY <1>4, <2>1, TailAt
<1>6. \A i \in 1 .. Len(c) : \A w \in Word : c[i].words[w] <= latest[c[i].blk][w]
  BY <1>4 DEF VersionInv, OldReply
<1>7. OldReply'
  <2> SUFFICES ASSUME NEW x \in Node, NEW y \in Node, NEW i \in 1 .. Len(reply'[x][y])
               PROVE  \A w \in Word : reply'[x][y][i].words[w] <= latest[reply'[x][y][i].blk][w]
    BY <1>2 DEF OldReply
  <2>1. CASE x = h /\ y = n
    <3>1. i + 1 \in 1 .. Len(c) /\ reply'[x][y][i] = c[i + 1]
      BY <1>4, <1>5, <2>1
    <3> QED BY <1>6, <3>1
  <2>2. CASE x # h \/ y # n
    <3>1. reply'[x][y] = reply[x][y]
      BY <1>2, <2>2
    <3> QED BY <3>1 DEF VersionInv, OldReply
  <2> QED BY <2>1, <2>2
<1>8. CASE PcTo(t, "idle") /\ SlotSet(slot', slot, Me(t), op[t].slot, Mine(t).key, Mine(t).words, Mine(t).wlock, Mine(t).readers \ {t})
  <2>1. OldSlots' /\ OldFilled' /\ OldOps'
    BY <1>2, <1>8, LeaveVersions
  <2> QED BY <1>3, <1>7, <2>1 DEF VersionInv
<1>9. CASE t \notin Mine(t).readers /\ Loads(t, Head(reply[h][n]).words) /\ PcTo(t, "filled")
  <2>1. dlock[n][h] = t
    BY <1>1, <1>2 DEF ReplyInv, Waiter
  <2>2. c[1].blk = op[t].blk
    BY <1>4, <1>5, <2>1 DEF ReplyInv, Addressed
  <2>3. PICK ws : ws = Head(reply[h][n]).words
    OBVIOUS
  <2>4. Old(op[t].blk, ws)
    BY <1>4, <1>5, <1>6, <2>2, <2>3 DEF Old
  <2>5. Filling(t)
    BY <1>2, <1>9 DEF Filling
  <2>6. OldSlots' /\ OldFilled' /\ OldOps'
    BY <1>2, <1>9, <2>3, <2>4, <2>5, LoadVersions
  <2> QED BY <1>3, <1>7, <2>6 DEF VersionInv
<1> QED BY <1>1, <1>8, <1>9, AnsweredEffect

\* A filled slot gets its key.
LEMMA VersionFilled ==
  ASSUME TypeInv, SlotInv, VersionInv, NEW t \in Thread, Filled(t)
  PROVE  VersionInv'
<1>1. /\ pc[t] = "filled" /\ PcTo(t, "idle") /\ UNCHANGED <<backend, ctl, srv, reply, op, latest>>
      /\ SlotSet(slot', slot, Me(t), op[t].slot, op[t].blk, Mine(t).words, FALSE, Mine(t).readers)
  BY FilledEffect DEF net
<1>2. OldBackend' /\ OldCtl' /\ OldSrv' /\ OldReply'
  BY <1>1, VersionKept
<1>3. PICK n \in Node, s \in Slot : n = Me(t) /\ s = op[t].slot
  BY <1>1, Here
<1>4. PICK k, ws, b, R : k = op[t].blk /\ ws = Mine(t).words /\ b = FALSE /\ R = Mine(t).readers
  OBVIOUS
<1>5. SlotSet(slot', slot, n, s, k, ws, b, R)
  BY <1>1, <1>3, <1>4
<1>6. Old(k, ws)
  BY <1>1, <1>3, <1>4 DEF VersionInv, OldFilled, Old, Mine
<1>7. OldSlots'
  BY <1>1, <1>5, <1>6, SlotVersions
<1>8. ws = slot[n][s].words
  BY <1>3, <1>4 DEF Mine
<1>9. OldFilled'
  BY <1>1, <1>5, <1>8, FilledSet
<1>10. OldOps'
  BY <1>1, WorkOps
<1> QED BY <1>2, <1>7, <1>9, <1>10 DEF VersionInv

\* A write goes to the home.
LEMMA VersionWrite ==
  ASSUME TypeInv, SlotInv, VersionInv, NEW t \in Thread, Write(t) \/ WriteRenew(t)
  PROVE  VersionInv'
<1>1. CASE Write(t)
  <2>1. pc[t] = "write" /\ op[t].blk \in Block /\ UNCHANGED <<slot, reply, srv, op, latest>>
    BY <1>1, WriteEffect, Here DEF local
  <2>2. OldSlots' /\ OldSrv' /\ OldReply'
    BY <2>1, VersionKept
  <2>3. CASE AskTo(t, "Write") /\ UNCHANGED backend
    <3>1. PcTo(t, "wait")
      BY <2>3 DEF AskTo
    <3>2. OldBackend' /\ OldCtl'
      BY <2>1, <2>3, VersionKept, AskVersions
    <3>3. OldFilled' /\ OldOps'
      BY <2>1, <3>1, FilledKept, WorkOps
    <3> QED BY <2>2, <3>2, <3>3 DEF VersionInv
  <2>4. CASE Stored(op[t].blk, op[t].words, op[t].val) /\ PcTo(t, "renew") /\ UNCHANGED ctl
    <3>1. OldBackend'
      BY <2>1, <2>4, OpPut, BackendVersions
    <3>2. OldCtl'
      BY <2>1, <2>4, VersionKept
    <3>3. OldFilled' /\ OldOps'
      BY <2>1, <2>4, FilledKept, WorkOps
    <3> QED BY <2>2, <3>1, <3>2, <3>3 DEF VersionInv
  <2> QED BY <1>1, <2>3, <2>4, WriteEffect
<1>2. CASE WriteRenew(t)
  <2>1. /\ pc[t] = "renew" /\ PcTo(t, "idle") /\ UNCHANGED <<backend, reply, srv, op, latest>>
        /\ SlotSet(slot', slot, Me(t), op[t].slot, Mine(t).key, Mine(t).words, Mine(t).wlock, Mine(t).readers \ {t})
    BY <1>2, WriteRenewEffect
  <2>2. OldBackend' /\ OldSrv' /\ OldReply'
    BY <2>1, VersionKept
  <2>3. OldSlots' /\ OldFilled' /\ OldOps'
    BY <2>1, LeaveVersions
  <2>4. PICK m : Sent(m) /\ m.blk = op[t].blk /\ m.words \subseteq op[t].words /\ m.val = op[t].val
    BY <1>2, WriteRenewEffect
  <2>5. Put(m.blk, m.words, m.val)
    BY <2>1, <2>4, OpPut
  <2>6. OldCtl'
    BY <2>1, <2>4, <2>5, CtlVersions
  <2> QED BY <2>2, <2>3, <2>6 DEF VersionInv
<1> QED BY <1>1, <1>2

\* The operations and the slots just filled while no thread moves.
LEMMA ServeVersions ==
  ASSUME TypeInv, VersionInv, UNCHANGED <<latest, pc, op>>
  PROVE  OldOps' /\ (UNCHANGED slot => OldFilled')
<1>1. OldOps'
  BY OpVersions
<1>2. ASSUME UNCHANGED slot PROVE OldFilled'
  <2>1. \A u \in Thread : pc'[u] = "filled" => Rests(u)
    BY <1>2 DEF Rests
  <2> QED BY <2>1, FilledVersions
<1> QED BY <1>1, <1>2

\* A protocol thread takes a message.
LEMMA VersionReceive ==
  ASSUME TypeInv, VersionInv, NEW n \in Node, NEW p \in Node, NEW i \in Servers(n, p), Receive(n, p, i)
  PROVE  VersionInv'
<1>1. /\ ctl[p][n] # <<>> /\ SrvTo(n, p, i, Head(ctl[p][n])) /\ ctl'[p][n] = Tail(ctl[p][n])
      /\ \A x, y \in Node : x # p \/ y # n => ctl'[x][y] = ctl[x][y]
      /\ UNCHANGED <<backend, slot, reply, pc, op, latest>>
  BY ReceiveEffect DEF local
<1>2. OldBackend' /\ OldSlots' /\ OldReply' /\ OldFilled' /\ OldOps'
  BY <1>1, VersionKept, ServeVersions
<1>3. PICK c, d : c \in Seq(Messages) /\ c = ctl[p][n] /\ d = ctl'[p][n]
  BY DEF TypeInv
<1>4. /\ 1 \in 1 .. Len(c) /\ Head(c) = c[1]
      /\ \A j \in 1 .. Len(d) : j + 1 \in 1 .. Len(c) /\ d[j] = c[j + 1]
  <2>1. c # <<>> /\ d = Tail(c)
    BY <1>1, <1>3
  <2> QED BY <1>3, <2>1, TailAt
<1>5. \A j \in 1 .. Len(c) : c[j].kind # "Writeback" => \A w \in c[j].words : c[j].val <= latest[c[j].blk][w]
  BY <1>3 DEF VersionInv, OldCtl
<1>6. OldCtl'
  <2> SUFFICES ASSUME NEW x \in Node, NEW y \in Node, NEW j \in 1 .. Len(ctl'[x][y]), ctl'[x][y][j].kind # "Writeback"
               PROVE  \A w \in ctl'[x][y][j].words : ctl'[x][y][j].val <= latest[ctl'[x][y][j].blk][w]
    BY <1>1 DEF OldCtl
  <2>1. CASE x = p /\ y = n
    <3>1. j + 1 \in 1 .. Len(c) /\ ctl'[x][y][j] = c[j + 1]
      BY <1>3, <1>4, <2>1
    <3> QED BY <1>5, <3>1
  <2>2. CASE x # p \/ y # n
    <3>1. ctl'[x][y] = ctl[x][y]
      BY <1>1, <2>2
    <3> QED BY <3>1 DEF VersionInv, OldCtl
  <2> QED BY <2>1, <2>2
<1>7. PICK v : v = c[1]
  OBVIOUS
<1>8. SrvTo(n, p, i, v)
  BY <1>1, <1>3, <1>4, <1>7
<1>9. v.kind \notin {None, "Writeback"} => Put(v.blk, v.words, v.val)
  BY <1>4, <1>5, <1>7 DEF Put
<1>10. OldSrv'
  BY <1>1, <1>8, <1>9, SrvVersions
<1> QED BY <1>2, <1>6, <1>10 DEF VersionInv

\* A protocol thread handles a message.
LEMMA VersionProtocol ==
  ASSUME TypeInv, SlotInv, VersionInv, NEW n \in Node, NEW p \in Node, NEW i \in Servers(n, p), Protocol(n, p, i)
  PROVE  VersionInv'
<1>1. PICK m : m = srv[n][p][i]
  OBVIOUS
<1>2. Idle.kind \in {None, "Writeback"}
  BY DEF Idle
<1>3. "ReadMiss" # None /\ "Write" # None /\ "WriteMiss" # None /\ "Renew" # None /\ "WriteRenew" # None /\ "MissRenew" # None
  BY DEF None
<1>4. CASE ServerReadMiss(n, p, i)
  <2>1. /\ m.blk \in Block /\ SrvTo(n, p, i, Idle) /\ Replied(n, p, m.blk)
        /\ UNCHANGED <<backend, slot, ctl, pc, op, latest>>
    BY <1>1, <1>4, ServerReadMissEffect DEF local
  <2>2. OldBackend' /\ OldSlots' /\ OldCtl' /\ OldFilled' /\ OldOps'
    BY <2>1, VersionKept, ServeVersions
  <2>3. OldSrv'
    BY <1>2, <2>1, SrvVersions
  <2>4. OldReply'
    BY <2>1, ReplyVersions
  <2> QED BY <2>2, <2>3, <2>4 DEF VersionInv
<1>5. CASE ServerWriteback(n, p, i)
  <2>1. SrvTo(n, p, i, Idle) /\ UNCHANGED <<backend, slot, ctl, reply, pc, op, latest>>
    BY <1>5, ServerWritebackEffect DEF local
  <2>2. OldBackend' /\ OldSlots' /\ OldCtl' /\ OldReply' /\ OldFilled' /\ OldOps'
    BY <2>1, VersionKept, ServeVersions
  <2>3. OldSrv'
    BY <1>2, <2>1, SrvVersions
  <2> QED BY <2>2, <2>3 DEF VersionInv
<1>6. CASE ServerRenew(n, p, i)
  <2>1. /\ m.kind = "Renew" /\ SrvTo(n, p, i, Idle) /\ Renewed(m.blk, m.words, m.val)
        /\ UNCHANGED <<backend, ctl, reply, pc, op, latest>>
    BY <1>1, <1>6, ServerRenewEffect
  <2>2. m.blk \in Block /\ m.words \in SUBSET Word /\ m.val \in Nat /\ Put(m.blk, m.words, m.val)
    BY <1>1, <1>3, <2>1, SrvPut
  <2>3. OldBackend' /\ OldCtl' /\ OldReply' /\ OldOps'
    BY <2>1, VersionKept, ServeVersions
  <2>4. OldSlots' /\ OldFilled'
    BY <2>1, <2>2, RenewedVersions
  <2>5. OldSrv'
    BY <1>2, <2>1, SrvVersions
  <2> QED BY <2>3, <2>4, <2>5 DEF VersionInv
<1>7. CASE ServerPut(n, p, i)
  <2>1. /\ m.kind \in {"Write", "WriteMiss"} /\ Stored(m.blk, m.words, m.val)
        /\ UNCHANGED <<slot, ctl, reply, pc, op, latest>>
    BY <1>1, <1>7, ServerPutEffect DEF local
  <2>2. m.blk \in Block /\ m.words \in SUBSET Word /\ m.val \in Nat /\ Put(m.blk, m.words, m.val)
    BY <1>1, <1>3, <2>1, SrvPut
  <2>3. PICK v : v.blk = m.blk /\ v.words = m.words /\ v.val = m.val /\ SrvTo(n, p, i, v)
    BY <1>1, <1>7, ServerPutEffect
  <2>4. Put(v.blk, v.words, v.val)
    BY <2>2, <2>3
  <2>5. OldSlots' /\ OldCtl' /\ OldReply' /\ OldFilled' /\ OldOps'
    BY <2>1, VersionKept, ServeVersions
  <2>6. OldBackend'
    BY <2>1, <2>2, BackendVersions
  <2>7. OldSrv'
    BY <2>1, <2>3, <2>4, SrvVersions
  <2> QED BY <2>5, <2>6, <2>7 DEF VersionInv
<1>8. CASE ServerAnswer(n, p, i)
  <2>1. /\ m.kind \in {"WriteRenew", "MissRenew"} /\ Renewed(m.blk, m.words, m.val)
        /\ SrvTo(n, p, i, Idle) /\ Replied(n, p, m.blk)
        /\ UNCHANGED <<backend, pc, op, latest>>
    BY <1>1, <1>8, ServerAnswerEffect
  <2>2. PICK r : Sent(r) /\ r.blk = m.blk /\ r.words \subseteq m.words /\ r.val = m.val
    BY <1>1, <1>8, ServerAnswerEffect
  <2>3. m.kind \notin {None, "Writeback"}
    BY <1>3, <2>1
  <2>4. m.blk \in Block /\ m.words \in SUBSET Word /\ m.val \in Nat /\ Put(m.blk, m.words, m.val)
    BY <1>1, <2>3, SrvPut
  <2>5. Put(r.blk, r.words, r.val)
    BY <2>2, <2>4 DEF Put
  <2>6. OldBackend' /\ OldOps'
    BY <2>1, VersionKept, ServeVersions
  <2>7. OldSlots' /\ OldFilled'
    BY <2>1, <2>4, RenewedVersions
  <2>8. OldCtl'
    BY <2>1, <2>2, <2>5, CtlVersions
  <2>9. OldSrv'
    BY <1>2, <2>1, SrvVersions
  <2>10. OldReply'
    BY <2>1, <2>4, ReplyVersions
  <2> QED BY <2>6, <2>7, <2>8, <2>9, <2>10 DEF VersionInv
<1> QED BY <1>4, <1>5, <1>6, <1>7, <1>8, VersionReceive DEF Protocol

\* Every step keeps the versions.
LEMMA VersionStep ==
  ASSUME TypeInv, SlotInv, ReplyInv, VersionInv, [Next]_vars
  PROVE  VersionInv'
<1>1. ASSUME NEW t \in Thread, Lookup(t)
      PROVE  VersionInv'
  <2>1. /\ pc[t] = "lookup" /\ (\E l \in {"miss", "hit"} : PcTo(t, l)) /\ (\E s, o : OpTo(t, s, o))
        /\ UNCHANGED <<backend, slot, ctl, srv, reply, latest>>
    BY <1>1, LookupEffect DEF local, net
  <2>2. OldBackend' /\ OldSlots' /\ OldCtl' /\ OldSrv' /\ OldReply'
    BY <2>1, VersionKept
  <2>3. \A u \in Thread : u # t => op'[u] = op[u]
    BY <2>1 DEF OpTo
  <2>4. OldFilled' /\ OldOps'
    BY <2>1, <2>3, FilledKept, WorkOps
  <2> QED BY <2>2, <2>4 DEF VersionInv
<1>2. ASSUME NEW t \in Thread, Writeback(t)
      PROVE  VersionInv'
  <2>1. /\ pc[t] = "writeback" /\ PcTo(t, "fill") /\ op[t].old \in Block
        /\ UNCHANGED <<backend, slot, srv, reply, op, latest>>
    BY <1>2, WritebackEffect DEF local
  <2>2. OldBackend' /\ OldSlots' /\ OldSrv' /\ OldReply'
    BY <2>1, VersionKept
  <2>3. OldFilled' /\ OldOps'
    BY <2>1, FilledKept, WorkOps
  <2>4. PICK m : m = [kind |-> "Writeback", blk |-> op[t].old]
    OBVIOUS
  <2>5. m \in Messages /\ m.kind = "Writeback"
    BY <2>1, <2>4 DEF Messages
  <2>6. CASE UNCHANGED ctl
    BY <2>1, <2>2, <2>3, <2>6, VersionKept DEF VersionInv
  <2>7. CASE CtlAdd(Me(t), Home[op[t].old], m)
    <3>1. Sent(m)
      BY <2>5, <2>7 DEF CtlAdd, Sent
    <3>2. OldCtl'
      BY <2>1, <2>5, <3>1, CtlVersions
    <3> QED BY <2>2, <2>3, <3>2 DEF VersionInv
  <2> QED BY <1>2, <2>4, <2>6, <2>7, WritebackEffect
<1>3. CASE UNCHANGED vars
  <2>1. UNCHANGED <<backend, slot, ctl, srv, reply, pc, op, latest>>
    BY <1>3 DEF vars
  <2> QED BY <2>1, VersionKept, ServeVersions DEF VersionInv
<1> QED BY <1>1, <1>2, <1>3, VersionStart, VersionHit, VersionGet, VersionFill, VersionMissRenew, VersionAnswered,
           VersionFilled, VersionWrite, VersionProtocol DEF Next, Work

\* A copy holds no version that was not put to its block, though slots are
\* given to other blocks between a look-up and the access: Hit looks at the
\* slot's key again under its read lock.
THEOREM NoStrayWriteHolds == Spec => []NoStrayWrite
<1>1. Init => TypeInv /\ SlotInv /\ ReplyInv /\ VersionInv
  BY TypeInit, SlotInit, ReplyInit, VersionInit
<1>2. TypeInv /\ SlotInv /\ ReplyInv /\ VersionInv /\ [Next]_vars => (TypeInv /\ SlotInv /\ ReplyInv /\ VersionInv)'
  BY TypeStep, SlotStep, ReplyStep, VersionStep
<1>3. VersionInv => NoStrayWrite
  <2>1. None \notin Block
    BY CacheAssumption
  <2> QED BY <2>1 DEF VersionInv, OldSlots, NoStrayWrite, HasCopy
<1> QED BY <1>1, <1>2, <1>3, PTL DEF Spec

-----------------------------------------------------------------------------
(* The backend.                                                            *)

\* Where a thread is before its put is stored by its own node or sent.
Before == {"lookup", "hit", "miss", "writeback", "fill", "write"}

\* The requests that carry a put which is not stored yet.
Unstored == {"Write", "WriteMiss"}

\* Message m carries the put of the thread that holds the socket from n to h.
Carries(m, n, h) ==
  /\ dlock[n][h] # None /\ op[dlock[n][h]].kind = "put" /\ m.blk = op[dlock[n][h]].blk
  /\ m.words = op[dlock[n][h]].words /\ m.val = op[dlock[n][h]].val
PairCarries(n, h) ==
  /\ \A i \in 1 .. Len(ctl[n][h]) : ctl[n][h][i].kind \in Unstored => Carries(ctl[n][h][i], n, h)
  /\ \A i \in Servers(h, n) : srv[h][n][i].kind \in Unstored => Carries(srv[h][n][i], n, h)

\* There is such a request from n to h, and it is thread t's.
Sending(n, h) ==
  \/ \E i \in 1 .. Len(ctl[n][h]) : ctl[n][h][i].kind \in Unstored
  \/ \E i \in Servers(h, n) : srv[h][n][i].kind \in Unstored
OnWay(t) == pc[t] = "wait" /\ \E n, h \in Node : n = Me(t) /\ h = Home[op[t].blk] /\ Sending(n, h)

\* A put is one of the thread's program, and the last one to its words.
OwnPut(t) ==
  /\ Putting(t) => /\ <<op[t].blk, op[t].words>> \in Puts[t]
                   /\ \A w \in op[t].words : latest[op[t].blk][w] = op[t].val
  /\ pc[t] \in {"write", "missrenew", "renew"} => op[t].kind = "put"

\* Thread t is putting word w of block k and has not stored it yet.
Late(t, k, w) == Putting(t) /\ k = op[t].blk /\ w \in op[t].words /\ (pc[t] \in Before \/ OnWay(t))

\* The backend has the last version of every word, but for puts that are late.
Stores == \A t \in Thread, k \in Block : \A w \in Writes(t, k) : backend[k][w] = latest[k][w] \/ Late(t, k, w)

ThroughInv == (\A t \in Thread : OwnPut(t)) /\ (\A n, h \in Node : PairCarries(n, h)) /\ Stores

\* A home that misses a put of its own passes on one word of it: programs put
\* chunks to blocks of other homes only.
WordsAtHome == \A t \in Thread : \A p \in Puts[t] : Home[p[1]] = NodeOf[t] => FirstWord(p[2]) = p[2]

\* Initially nothing was put.
LEMMA ThroughInit ==
  ASSUME Init
  PROVE  ThroughInv
<1>1. \A n, h \in Node : ctl[n][h] = <<>> /\ \A i \in Servers(h, n) : srv[h][n][i] = Idle
  BY DEF Init
<1>2. Idle.kind \notin Unstored
  BY DEF Idle, Unstored, None
<1>3. \A n, h \in Node : PairCarries(n, h)
  BY <1>1, <1>2 DEF PairCarries
<1>4. \A t \in Thread : OwnPut(t)
  BY DEF Init, OwnPut, Putting
<1>5. \A t \in Thread, k \in Block : Writes(t, k) \subseteq Word
  BY CacheAssumption DEF Writes
<1>6. \A k \in Block, w \in Word : backend[k][w] = latest[k][w]
  BY DEF Init
<1>7. Stores
  BY <1>5, <1>6 DEF Stores
<1> QED BY <1>3, <1>4, <1>7 DEF ThroughInv

\* The backend changes to what was put last, if at all.
CatchesUp == \A k \in Block, w \in Word : backend'[k][w] = backend[k][w] \/ backend'[k][w] = latest[k][w]

\* Thread t's put is stored.
Lands(t) == \A w \in op[t].words : backend'[op[t].blk][w] = latest[op[t].blk][w]

\* The words of the last put to a block are stored.
LEMMA StoredLatest ==
  ASSUME TypeInv, NEW k \in Block, NEW ws \in SUBSET Word, NEW v, Stored(k, ws, v),
         \A w \in ws : latest[k][w] = v
  PROVE  CatchesUp /\ \A w \in ws : backend'[k][w] = latest[k][w]
<1>1. \A w \in Word : backend'[k][w] = IF w \in ws THEN v ELSE backend[k][w]
  BY DEF Stored, Overwrite
<1>2. \A w \in Word : backend'[k][w] = backend[k][w] \/ backend'[k][w] = latest[k][w]
  BY <1>1
<1>3. \A w \in ws : backend'[k][w] = latest[k][w]
  BY <1>1
<1>4. \A j \in Block : j # k => backend'[j] = backend[j]
  BY DEF Stored
<1> QED BY <1>2, <1>3, <1>4 DEF CatchesUp

\* A step that begins no put and leaves none behind.
LEMMA StoresKept ==
  ASSUME Stores, UNCHANGED latest, CatchesUp,
         \A u \in Thread, k \in Block, w \in Word : Late(u, k, w) => Late(u, k, w)' \/ backend'[k][w] = latest[k][w]
  PROVE  Stores'
<1> SUFFICES ASSUME NEW u \in Thread, NEW k \in Block, NEW w \in Writes(u, k)
             PROVE  backend'[k][w] = latest[k][w] \/ Late(u, k, w)'
  BY DEF Stores, Writes
<1>1. w \in Word
  BY CacheAssumption DEF Writes
<1>2. backend[k][w] = latest[k][w] \/ Late(u, k, w)
  BY DEF Stores
<1> QED BY <1>1, <1>2 DEF CatchesUp

\* The messages from n to h stay where they are in their queue.
Longer(n, h) == \A i \in 1 .. Len(ctl[n][h]) : i \in 1 .. Len(ctl'[n][h]) /\ ctl'[n][h][i] = ctl[n][h][i]

\* Sending a message keeps the queues, and so does leaving them alone.
LEMMA SentLonger ==
  ASSUME TypeInv, UNCHANGED ctl \/ (\E m : Sent(m)), NEW n \in Node, NEW h \in Node
  PROVE  Longer(n, h)
<1>1. CASE UNCHANGED ctl
  BY <1>1 DEF Longer
<1>2. ASSUME NEW m, Sent(m) PROVE Longer(n, h)
  <2>1. PICK c, d : c = ctl[n][h] /\ d = ctl'[n][h]
    OBVIOUS
  <2>2. m \in Messages /\ c \in Seq(Messages) /\ (d = c \/ d = Append(c, m))
    BY <1>2, <2>1 DEF Sent, TypeInv
  <2>3. CASE d = c
    BY <2>1, <2>3 DEF Longer
  <2>4. CASE d = Append(c, m)
    <3>1. /\ Len(c) \in Nat /\ Len(d) = Len(c) + 1
          /\ \A i \in 1 .. Len(c) : d[i] = c[i]
      BY <2>2, <2>4, AppendAt
    <3>2. \A i \in 1 .. Len(c) : i \in 1 .. Len(d) /\ d[i] = c[i]
      BY <3>1
    <3> QED BY <2>1, <3>2 DEF Longer
  <2> QED BY <2>2, <2>3, <2>4
<1> QED BY <1>1, <1>2

\* A put on its way stays on its way while nobody stores it.
LEMMA SendingKept ==
  ASSUME NEW n \in Node, NEW h \in Node, Sending(n, h), Longer(n, h),
         \A i \in Servers(h, n) : srv[h][n][i].kind \in Unstored => srv'[h][n][i] = srv[h][n][i]
  PROVE  Sending(n, h)'
<1>1. CASE \E i \in 1 .. Len(ctl[n][h]) : ctl[n][h][i].kind \in Unstored
  BY <1>1 DEF Sending, Longer
<1>2. CASE \E i \in Servers(h, n) : srv[h][n][i].kind \in Unstored
  BY <1>2 DEF Sending
<1> QED BY <1>1, <1>2 DEF Sending

\* No new put is on its way from n to h.
LEMMA CarriesKept ==
  ASSUME NEW n \in Node, NEW h \in Node, PairCarries(n, h), NEW o \in {0, 1}, Fewer(n, h, o),
         \A i \in Servers(h, n) : srv'[h][n][i].kind \in Unstored => Carries(srv'[h][n][i], n, h),
         dlock[n][h] # None => dlock'[n][h] = dlock[n][h] /\ op'[dlock[n][h]] = op[dlock[n][h]]
  PROVE  PairCarries(n, h)'
<1>1. Unstored \subseteq Requests
  BY DEF Unstored, Requests
<1>2. ASSUME NEW m, Carries(m, n, h)
      PROVE  Carries(m, n, h)'
  BY <1>2 DEF Carries
<1>3. ASSUME NEW i \in 1 .. Len(ctl'[n][h]), ctl'[n][h][i].kind \in Unstored
      PROVE  \E m : m = ctl'[n][h][i] /\ Carries(m, n, h)
  <2>1. Asks(n, h, i)'
    BY <1>1, <1>3 DEF Asks
  <2>2. i + o \in 1 .. Len(ctl[n][h]) /\ ctl'[n][h][i] = ctl[n][h][i + o]
    BY <2>1 DEF Fewer
  <2> QED BY <1>3, <2>2 DEF PairCarries
<1>4. ASSUME NEW i \in 1 .. Len(ctl'[n][h]), ctl'[n][h][i].kind \in Unstored
      PROVE  \E m : m = ctl'[n][h][i] /\ Carries(m, n, h)'
  BY <1>2, <1>3, <1>4
<1>5. ASSUME NEW i \in Servers(h, n), srv'[h][n][i].kind \in Unstored
      PROVE  \E m : m = srv'[h][n][i] /\ Carries(m, n, h)'
  <2>1. PICK m : m = srv'[h][n][i]
    OBVIOUS
  <2>2. Carries(m, n, h)
    BY <1>5, <2>1
  <2> QED BY <1>2, <2>1, <2>2
<1> QED BY <1>4, <1>5 DEF PairCarries, Carries

\* The operations of the threads are the same, but for thread t's slot and victim.
SameOps(t) ==
  /\ \A u \in Thread : u # t => op'[u] = op[u]
  /\ op'[t].kind = op[t].kind /\ op'[t].blk = op[t].blk /\ op'[t].words = op[t].words /\ op'[t].val = op[t].val

\* The put of a thread that does not move stays on its way.
LEMMA OnWayKept ==
  ASSUME NEW u \in Thread, OnWay(u), pc'[u] = pc[u], op'[u].blk = op[u].blk,
         \A n, h \in Node : n = Me(u) /\ h = Home[op[u].blk] /\ Sending(n, h) => Sending(n, h)'
  PROVE  OnWay(u)'
<1>1. PICK n \in Node, h \in Node : n = Me(u) /\ h = Home[op[u].blk] /\ Sending(n, h)
  BY DEF OnWay
<1>2. h = Home[op'[u].blk] /\ Sending(n, h)'
  BY <1>1
<1>3. n = Me(u)'
  BY <1>1 DEF Me
<1> QED BY <1>1, <1>2, <1>3 DEF OnWay

\* A thread moves on with its operation: its put is still to be sent, on its
\* way, stored by this step, or was stored before.
LEMMA ThroughWork ==
  ASSUME TypeInv, ThroughInv, NEW t \in Thread, NEW l, PcTo(t, l), pc[t] # "idle", SameOps(t),
         UNCHANGED <<latest, srv>>, UNCHANGED ctl \/ (\E m : Sent(m)), CatchesUp,
         \A n, h \in Node : PairCarries(n, h)',
         l \in {"write", "missrenew", "renew"} => op[t].kind = "put",
         op[t].kind = "put" => l \in Before \/ OnWay(t)' \/ Lands(t) \/ (pc[t] \notin Before /\ ~OnWay(t))
  PROVE  ThroughInv'
<1>1. \A u \in Thread : OwnPut(u)'
  <2> SUFFICES ASSUME NEW u \in Thread PROVE OwnPut(u)'
    OBVIOUS
  <2>1. OwnPut(u)
    BY DEF ThroughInv
  <2>2. CASE u = t
    BY <2>1, <2>2 DEF OwnPut, Putting, PcTo, SameOps
  <2>3. CASE u # t
    BY <2>1, <2>3 DEF OwnPut, Putting, PcTo, SameOps
  <2> QED BY <2>2, <2>3
<1>2. ASSUME NEW u \in Thread, NEW k \in Block, NEW w \in Word, Late(u, k, w)
      PROVE  Late(u, k, w)' \/ backend'[k][w] = latest[k][w]
  <2>1. Putting(u) /\ k = op[u].blk /\ w \in op[u].words /\ (pc[u] \in Before \/ OnWay(u))
    BY <1>2 DEF Late
  <2>2. CASE u # t
    <3>1. pc'[u] = pc[u] /\ op'[u] = op[u]
      BY <2>2 DEF PcTo, SameOps
    <3>2. Putting(u)' /\ k = op'[u].blk /\ w \in op'[u].words
      BY <2>1, <3>1 DEF Putting
    <3>3. ASSUME OnWay(u) PROVE OnWay(u)'
      <4>1. \A n, h \in Node : Longer(n, h)
        BY SentLonger
      <4>2. \A n, h \in Node : Sending(n, h) => Sending(n, h)'
        BY <4>1, SendingKept
      <4> QED BY <3>1, <3>3, <4>2, OnWayKept
    <3> QED BY <2>1, <3>1, <3>2, <3>3 DEF Late
  <2>3. CASE u = t
    <3>1. op[t].kind = "put" /\ (pc[t] \in Before \/ OnWay(t))
      BY <2>1, <2>3 DEF Putting
    <3>2. CASE Lands(t)
      BY <2>1, <2>3, <3>2 DEF Lands
    <3>3. CASE l \in Before \/ OnWay(t)'
      <4>1. pc'[t] = l /\ op'[t].kind = "put" /\ k = op'[t].blk /\ w \in op'[t].words
        BY <2>1, <2>3, <3>1 DEF PcTo, SameOps
      <4>2. l # "idle"
        BY <3>3, <4>1 DEF Before, OnWay
      <4>3. Putting(t)'
        BY <4>1, <4>2 DEF Putting
      <4> QED BY <2>3, <3>3, <4>1, <4>3 DEF Late
    <3> QED BY <3>1, <3>2, <3>3
  <2> QED BY <2>2, <2>3
<1>3. Stores'
  BY <1>2, StoresKept DEF ThroughInv
<1> QED BY <1>1, <1>3 DEF ThroughInv

\* A protocol thread moves on: every put on its way stays so or is stored.
LEMMA ThroughServe ==
  ASSUME ThroughInv, UNCHANGED <<pc, op, latest>>, CatchesUp,
         \A n, h \in Node : PairCarries(n, h)',
         \A u \in Thread : Putting(u) /\ OnWay(u) => OnWay(u)' \/ Lands(u)
  PROVE  ThroughInv'
<1>1. \A u \in Thread : OwnPut(u)'
  BY DEF ThroughInv, OwnPut, Putting
<1>2. ASSUME NEW u \in Thread, NEW k \in Block, NEW w \in Word, Late(u, k, w)
      PROVE  Late(u, k, w)' \/ backend'[k][w] = latest[k][w]
  <2>1. Putting(u) /\ k = op[u].blk /\ w \in op[u].words /\ (pc[u] \in Before \/ OnWay(u))
    BY <1>2 DEF Late
  <2>2. Putting(u)' /\ k = op'[u].blk /\ w \in op'[u].words
    BY <2>1 DEF Putting
  <2>3. CASE pc[u] \in Before
    BY <2>2, <2>3 DEF Late
  <2>4. CASE OnWay(u)
    BY <2>1, <2>2, <2>4 DEF Late, Lands
  <2> QED BY <2>1, <2>3, <2>4
<1>3. Stores'
  BY <1>2, StoresKept DEF ThroughInv
<1> QED BY <1>1, <1>3 DEF ThroughInv

\* The puts on their way where no request is sent or taken and no socket changes hands.
LEMMA QuietCarries ==
  ASSUME TypeInv, ReplyInv, ThroughInv, NEW t \in Thread, pc[t] # "wait",
         \A u \in Thread : u # t => op'[u] = op[u], UNCHANGED <<dlock, srv>>, NoAsk
  PROVE  \A n, h \in Node : PairCarries(n, h)'
<1> TAKE n, h \in Node
<1>1. PairCarries(n, h) /\ Fewer(n, h, 0)
  BY DEF ThroughInv, NoAsk
<1>2. dlock[n][h] # None => dlock[n][h] \in Thread /\ dlock[n][h] # t
  BY DEF TypeInv, ReplyInv, Holder
<1>3. dlock[n][h] # None => dlock'[n][h] = dlock[n][h] /\ op'[dlock[n][h]] = op[dlock[n][h]]
  BY <1>2
<1>4. \A i \in Servers(h, n) : srv'[h][n][i].kind \in Unstored => Carries(srv'[h][n][i], n, h)
  BY <1>1 DEF PairCarries
<1> QED BY <1>1, <1>3, <1>4, CarriesKept

\* A request is sent: it carries the put of its thread, which takes the socket.
LEMMA AskCarries ==
  ASSUME TypeInv, ReplyInv, ThroughInv, NEW t \in Thread, pc[t] \in {"fill", "write"},
         NEW kind \in {"ReadMiss", "WriteMiss", "Write"}, kind # "ReadMiss" => op[t].kind = "put",
         AskTo(t, kind), UNCHANGED <<op, srv>>
  PROVE  /\ \A n, h \in Node : PairCarries(n, h)'
         /\ kind # "ReadMiss" => OnWay(t)'
         /\ \E m : Sent(m)
<1>1. PICK n \in Node, h \in Node, m \in Messages : n = Me(t) /\ h = Home[op[t].blk] /\ m = Fields(t, kind)
  BY Here DEF AskTo
<1>2. /\ dlock[n][h] = None /\ dlock'[n][h] = t /\ (\A x, y \in Node : x # n \/ y # h => dlock'[x][y] = dlock[x][y])
      /\ ctl'[n][h] = Append(ctl[n][h], m) /\ (\A x, y \in Node : x # n \/ y # h => ctl'[x][y] = ctl[x][y])
      /\ PcTo(t, "wait") /\ ctl' \in [Node -> [Node -> Seq(Messages)]]
  BY <1>1 DEF AskTo, LockTo, CtlAdd
<1>3. m.kind = kind /\ m.blk = op[t].blk /\ m.words = op[t].words /\ m.val = op[t].val /\ t # None
  BY <1>1, CacheAssumption DEF Fields
<1>4. PICK c, d : c = ctl[n][h] /\ d = ctl'[n][h]
  OBVIOUS
<1>5. /\ Len(c) \in Nat /\ Len(d) = Len(c) + 1 /\ d[Len(c) + 1] = m
      /\ \A i \in 1 .. Len(c) : d[i] = c[i]
  <2>1. c \in Seq(Messages) /\ d = Append(c, m)
    BY <1>2, <1>4 DEF TypeInv
  <2> QED BY <2>1, AppendAt
<1>6. PairCarries(n, h)'
  <2>1. \A i \in 1 .. Len(c) : c[i].kind \notin Unstored
    BY <1>2, <1>4 DEF ThroughInv, PairCarries, Carries
  <2>2. \A i \in Servers(h, n) : srv'[h][n][i].kind \notin Unstored
    BY <1>2 DEF ThroughInv, PairCarries, Carries
  <2>3. \A i \in 1 .. Len(d) : d[i].kind \in Unstored => d[i] = m /\ kind # "ReadMiss"
    <3>1. "ReadMiss" \notin Unstored
      BY DEF Unstored
    <3> QED BY <1>3, <1>5, <2>1, <3>1
  <2>4. kind # "ReadMiss" => Carries(m, n, h)'
    BY <1>2, <1>3 DEF Carries
  <2>5. \A i \in 1 .. Len(ctl'[n][h]) : ctl'[n][h][i].kind \in Unstored => ctl'[n][h][i] = m /\ Carries(m, n, h)'
    BY <1>4, <2>3, <2>4
  <2> QED BY <2>2, <2>5 DEF PairCarries, Carries
<1>7. ASSUME NEW x \in Node, NEW y \in Node, x # n \/ y # h
      PROVE  PairCarries(x, y)'
  <2>1. PairCarries(x, y) /\ Fewer(x, y, 0)
    BY <1>2, <1>7, KeptFewer DEF ThroughInv
  <2>2. dlock'[x][y] = dlock[x][y]
    BY <1>2, <1>7
  <2>3. \A i \in Servers(y, x) : srv'[y][x][i].kind \in Unstored => Carries(srv'[y][x][i], x, y)
    BY <2>1 DEF PairCarries
  <2> QED BY <2>1, <2>2, <2>3, CarriesKept
<1>8. ASSUME kind # "ReadMiss" PROVE OnWay(t)'
  <2>1. Len(c) + 1 \in 1 .. Len(d) /\ d[Len(c) + 1].kind \in Unstored
    BY <1>3, <1>5, <1>8 DEF Unstored
  <2>2. Sending(n, h)'
    BY <1>4, <2>1 DEF Sending
  <2>3. pc'[t] = "wait" /\ h = Home[op'[t].blk] /\ n = Me(t)'
    BY <1>1, <1>2 DEF PcTo, Me
  <2> QED BY <2>2, <2>3 DEF OnWay
<1>9. Sent(m)
  BY <1>1, <1>2 DEF Sent
<1> QED BY <1>6, <1>7, <1>8, <1>9

\* Thread t begins to put words ws of block k: they, and no others, get a version.
Begins(t, k, ws) ==
  /\ <<k, ws>> \in Puts[t] /\ op'[t].kind = "put" /\ op'[t].blk = k /\ op'[t].words = ws
  /\ \A w \in ws : latest'[k][w] = op'[t].val
  /\ \A j \in Block, w \in Word : j # k \/ w \notin ws => latest'[j][w] = latest[j][w]

\* What an operation begins with.
LEMMA StartOp ==
  ASSUME TypeInv, NEW t \in Thread, Start(t)
  PROVE  \/ \E k \in Block, ws \in SUBSET Word : Begins(t, k, ws)
         \/ op'[t].kind = "get" /\ UNCHANGED latest
<1>1. op \in [Thread -> OpType] /\ latest \in [Block -> [Word -> Nat]]
  BY DEF TypeInv
<1>2. ASSUME NEW p \in Puts[t], NEW v,
             op' = [op EXCEPT ![t] = [NoOp EXCEPT !.kind = "put", !.blk = p[1], !.words = p[2], !.val = v]],
             latest' = [latest EXCEPT ![p[1]] = Overwrite(@, p[2], v)]
      PROVE  \E k \in Block, ws \in SUBSET Word : Begins(t, k, ws)
  <2>1. PICK k \in Block, ws \in SUBSET Word : p = <<k, ws>>
    BY CacheAssumption
  <2>2. p[1] = k /\ p[2] = ws
    BY <2>1
  <2>3. PICK q : q = [NoOp EXCEPT !.kind = "put", !.blk = k, !.words = ws, !.val = v]
    OBVIOUS
  <2>4. q.kind = "put" /\ q.blk = k /\ q.words = ws /\ q.val = v
    BY <2>3 DEF NoOp
  <2>5. op' = [op EXCEPT ![t] = q]
    BY <1>2, <2>2, <2>3
  <2>6. op'[t] = q
    BY <1>1, <2>5
  <2>7. PICK o : o = Overwrite(latest[k], ws, v)
    OBVIOUS
  <2>8. latest' = [latest EXCEPT ![k] = o]
    BY <1>2, <2>2, <2>7
  <2>9. \A w \in Word : o[w] = IF w \in ws THEN v ELSE latest[k][w]
    BY <2>7 DEF Overwrite
  <2>10. latest'[k] = o /\ \A j \in Block : j # k => latest'[j] = latest[j]
    BY <1>1, <2>8
  <2>11. \A w \in ws : latest'[k][w] = v
    BY <2>9, <2>10
  <2>12. \A j \in Block, w \in Word : j # k \/ w \notin ws => latest'[j][w] = latest[j][w]
    BY <2>9, <2>10
  <2> QED BY <2>1, <2>4, <2>6, <2>11, <2>12 DEF Begins
<1>3. ASSUME NEW k \in Gets[t], op' = [op EXCEPT ![t] = [NoOp EXCEPT !.kind = "get", !.blk = k]], UNCHANGED latest
      PROVE  op'[t].kind = "get" /\ UNCHANGED latest
  <2>1. PICK q : q = [NoOp EXCEPT !.kind = "get", !.blk = k]
    OBVIOUS
  <2>2. q.kind = "get"
    BY <2>1 DEF NoOp
  <2>3. op'[t] = q
    BY <1>1, <1>3, <2>1
  <2> QED BY <1>3, <2>2, <2>3
<1> QED BY <1>2, <1>3 DEF Start

\* A word of a thread's program is not in another thread's put.
LEMMA Apart ==
  ASSUME NEW t \in Thread, NEW u \in Thread, t # u, NEW k \in Block, NEW ws, <<k, ws>> \in Puts[t],
         NEW w \in Writes(u, k)
  PROVE  w \notin ws
<1>1. PICK q \in Puts[u] : q[1] = k /\ w \in q[2]
  BY DEF Writes
<1>2. PICK p \in Puts[t] : p[1] = k /\ p[2] = ws
  <2>1. PICK p : p = <<k, ws>>
    OBVIOUS
  <2>2. p \in Puts[t] /\ p[1] = k /\ p[2] = ws
    BY <2>1
  <2> QED BY <2>2
<1>3. p[2] \cap q[2] = {}
  BY <1>1, <1>2, OneWriter
<1> QED BY <1>1, <1>2, <1>3

\* An operation begins.
LEMMA ThroughStart ==
  ASSUME TypeInv, ReplyInv, ThroughInv, NEW t \in Thread, Start(t)
  PROVE  ThroughInv'
<1>1. /\ pc[t] = "idle" /\ PcTo(t, "lookup") /\ (\A u \in Thread : u # t => op'[u] = op[u])
      /\ UNCHANGED <<backend, ctl, dlock, srv>>
  BY StartEffect DEF net
<1>2. NoAsk
  BY <1>1, KeptFewer DEF NoAsk
<1>3. \A n, h \in Node : PairCarries(n, h)'
  BY <1>1, <1>2, QuietCarries
<1>4. pc'[t] = "lookup" /\ \A u \in Thread : u # t => pc'[u] = pc[u]
  BY <1>1 DEF PcTo
<1>5. ASSUME NEW u \in Thread, u # t, NEW k \in Block, NEW w, Late(u, k, w)
      PROVE  Late(u, k, w)'
  <2>1. pc'[u] = pc[u] /\ op'[u] = op[u]
    BY <1>1, <1>4, <1>5
  <2>2. ASSUME OnWay(u) PROVE OnWay(u)'
    <3>1. \A n, h \in Node : Sending(n, h) => Sending(n, h)'
      BY <1>1 DEF Sending
    <3> QED BY <2>1, <2>2, <3>1, OnWayKept
  <2> QED BY <1>5, <2>1, <2>2 DEF Late, Putting
<1>6. \A u \in Thread, k \in Block : Writes(u, k) \subseteq Word
  BY CacheAssumption DEF Writes
<1>7. \A k \in Block : \A w \in Writes(t, k) : backend[k][w] = latest[k][w]
  BY <1>1 DEF ThroughInv, Stores, Late, Putting
<1>8. ASSUME NEW k \in Block, NEW ws \in SUBSET Word, Begins(t, k, ws)
      PROVE  ThroughInv'
  <2>1. \A u \in Thread : OwnPut(u)'
    <3> SUFFICES ASSUME NEW u \in Thread PROVE OwnPut(u)'
      OBVIOUS
    <3>1. CASE u = t
      BY <1>4, <1>8, <3>1 DEF Begins, OwnPut
    <3>2. CASE u # t
      <4>1. pc'[u] = pc[u] /\ op'[u] = op[u] /\ OwnPut(u)
        BY <1>1, <1>4, <3>2 DEF ThroughInv
      <4>2. ASSUME Putting(u)
            PROVE  \A w \in op[u].words : latest'[op[u].blk][w] = op[u].val
        <5> SUFFICES ASSUME NEW w \in op[u].words PROVE latest'[op[u].blk][w] = op[u].val
          OBVIOUS
        <5>1. op[u].blk \in Block /\ w \in Word
          BY <4>2, Here DEF Putting
        <5>2. <<op[u].blk, op[u].words>> \in Puts[u] /\ latest[op[u].blk][w] = op[u].val
          BY <4>1, <4>2 DEF OwnPut
        <5>3. PICK j, W : j = op[u].blk /\ W = op[u].words
          OBVIOUS
        <5>4. w \in Writes(u, j)
          <6>1. PICK p : p = <<j, W>>
            OBVIOUS
          <6>2. p \in Puts[u] /\ p[1] = j /\ w \in p[2]
            BY <5>2, <5>3, <6>1
          <6> QED BY <6>2 DEF Writes
        <5>5. j # k \/ w \notin ws
          BY <1>8, <3>2, <5>4, Apart DEF Begins
        <5> QED BY <1>8, <5>1, <5>2, <5>3, <5>5 DEF Begins
      <4> QED BY <4>1, <4>2 DEF OwnPut, Putting
    <3> QED BY <3>1, <3>2
  <2>2. Stores'
    <3> SUFFICES ASSUME NEW u \in Thread, NEW j \in Block, NEW w \in Writes(u, j)
                 PROVE  backend[j][w] = latest'[j][w] \/ Late(u, j, w)'
      BY <1>1 DEF Stores, Writes
    <3>1. w \in Word
      BY <1>6
    <3>2. CASE u = t /\ j = k /\ w \in ws
      BY <1>4, <1>8, <3>2 DEF Begins, Late, Putting, Before
    <3>3. CASE u = t /\ (j # k \/ w \notin ws)
      BY <1>7, <1>8, <3>1, <3>3 DEF Begins
    <3>4. CASE u # t
      <4>1. j # k \/ w \notin ws
        BY <1>8, <3>4, Apart DEF Begins
      <4>2. latest'[j][w] = latest[j][w]
        BY <1>8, <3>1, <4>1 DEF Begins
      <4>3. backend[j][w] = latest[j][w] \/ Late(u, j, w)
        BY DEF ThroughInv, Stores
      <4> QED BY <1>5, <3>4, <4>2, <4>3
    <3> QED BY <3>2, <3>3, <3>4
  <2> QED BY <1>3, <2>1, <2>2 DEF ThroughInv
<1>9. ASSUME op'[t].kind = "get", UNCHANGED latest
      PROVE  ThroughInv'
  <2>1. \A u \in Thread : OwnPut(u)'
    <3> SUFFICES ASSUME NEW u \in Thread PROVE OwnPut(u)'
      OBVIOUS
    <3>1. CASE u = t
      BY <1>4, <1>9, <3>1 DEF OwnPut, Putting
    <3>2. CASE u # t
      BY <1>1, <1>4, <1>9, <3>2 DEF ThroughInv, OwnPut, Putting
    <3> QED BY <3>1, <3>2
  <2>2. Stores'
    <3> SUFFICES ASSUME NEW u \in Thread, NEW j \in Block, NEW w \in Writes(u, j)
                 PROVE  backend[j][w] = latest[j][w] \/ Late(u, j, w)'
      BY <1>1, <1>9 DEF Stores, Writes
    <3>1. CASE u = t
      BY <1>7, <3>1
    <3>2. CASE u # t
      <4>1. backend[j][w] = latest[j][w] \/ Late(u, j, w)
        BY DEF ThroughInv, Stores
      <4> QED BY <1>5, <3>2, <4>1
    <3> QED BY <3>1, <3>2
  <2> QED BY <1>3, <2>1, <2>2 DEF ThroughInv
<1> QED BY <1>8, <1>9, StartOp

\* A put that a thread stores at its own node is the last one to its words.
LEMMA OwnStored ==
  ASSUME TypeInv, ThroughInv, NEW t \in Thread, pc[t] # "idle", op[t].kind = "put",
         NEW ws, ws = op[t].words, Stored(op[t].blk, ws, op[t].val)
  PROVE  CatchesUp /\ Lands(t)
<1>1. PICK k \in Block : k = op[t].blk
  BY Here
<1>2. \A w \in ws : latest[k][w] = op[t].val
  BY <1>1 DEF ThroughInv, OwnPut, Putting
<1>3. ws \in SUBSET Word
  BY Here
<1>4. CatchesUp /\ \A w \in ws : backend'[k][w] = latest[k][w]
  BY <1>1, <1>2, <1>3, StoredLatest
<1> QED BY <1>1, <1>4 DEF Lands

\* The backend stays as it is.
LEMMA BackendKept ==
  ASSUME UNCHANGED backend
  PROVE  CatchesUp
BY DEF CatchesUp

\* A thread looks for its block, or leaves.
LEMMA ThroughLook ==
  ASSUME TypeInv, ReplyInv, ThroughInv, NEW t \in Thread, Lookup(t) \/ Hit(t) \/ GetBlock(t) \/ Filled(t)
  PROVE  ThroughInv'
<1>1. /\ pc[t] \notin {"idle", "wait"} /\ SameOps(t) /\ UNCHANGED <<backend, ctl, dlock, srv, latest>>
      /\ \E l \in Place : /\ PcTo(t, l) /\ (l \in {"write", "missrenew", "renew"} => op[t].kind = "put")
                          /\ l \in Before \/ op[t].kind = "get" \/ pc[t] = "filled"
  <2>1. CASE Lookup(t)
    BY <2>1, LookupEffect DEF net, OpTo, SameOps, Place, Before
  <2>2. CASE Hit(t)
    <3>1. /\ pc[t] = "hit" /\ UNCHANGED <<backend, net, op, latest>>
          /\ PcTo(t, "miss") \/ PcTo(t, "idle") \/ (PcTo(t, "write") /\ op[t].kind = "put")
      BY <2>2, HitEffect
    <3>2. PcTo(t, "idle") => op[t].kind = "get"
      <4>1. pc \in [Thread -> Place]
        BY DEF TypeInv
      <4> QED BY <2>2, <4>1 DEF Hit, Goto, PcTo
    <3> QED BY <3>1, <3>2 DEF net, SameOps, Place, Before
  <2>3. CASE GetBlock(t)
    BY <2>3, GetBlockEffect DEF net, OpTo, SameOps, Place, Before
  <2>4. CASE Filled(t)
    BY <2>4, FilledEffect DEF net, SameOps, Place
  <2> QED BY <2>1, <2>2, <2>3, <2>4
<1>2. NoAsk
  BY <1>1, KeptFewer DEF NoAsk
<1>3. \A n, h \in Node : PairCarries(n, h)'
  BY <1>1, <1>2, QuietCarries DEF SameOps
<1>4. CatchesUp
  BY <1>1, BackendKept
<1>5. pc[t] = "filled" => pc[t] \notin Before /\ ~OnWay(t)
  BY DEF Before, OnWay
<1> QED BY <1>1, <1>3, <1>4, <1>5, ThroughWork

\* A thread sends what is no request.
LEMMA ThroughSent ==
  ASSUME TypeInv, ReplyInv, ThroughInv, NEW t \in Thread, Writeback(t) \/ MissRenew(t) \/ WriteRenew(t)
  PROVE  ThroughInv'
<1>1. /\ pc[t] \in {"writeback", "missrenew", "renew"} /\ UNCHANGED <<backend, dlock, srv, op, latest>>
      /\ \E l \in {"fill", "filled", "idle"} : PcTo(t, l) /\ (pc[t] = "writeback" => l = "fill")
  BY WritebackEffect, MissRenewEffect, WriteRenewEffect
<1>2. UNCHANGED ctl \/ \E m : Sent(m) /\ m.kind \notin Requests
  <2>1. CASE Writeback(t)
    <3>1. PICK m : m = [kind |-> "Writeback", blk |-> op[t].old]
      OBVIOUS
    <3>2. op[t].old \in Block /\ (UNCHANGED ctl \/ CtlAdd(Me(t), Home[op[t].old], m))
      BY <2>1, <3>1, WritebackEffect
    <3>3. m \in Messages /\ m.kind \notin Requests
      BY <3>1, <3>2 DEF Messages, Requests
    <3> QED BY <3>2, <3>3 DEF CtlAdd, Sent
  <2>2. CASE MissRenew(t) \/ WriteRenew(t)
    <3>1. PICK m : Sent(m) /\ m.kind = "Renew"
      BY <2>2, MissRenewEffect, WriteRenewEffect
    <3> QED BY <3>1 DEF Requests
  <2> QED BY <2>1, <2>2
<1>3. NoAsk
  BY <1>2, KeptFewer, SentFewer DEF NoAsk
<1>4. \A n, h \in Node : PairCarries(n, h)'
  BY <1>1, <1>3, QuietCarries
<1>5. CatchesUp
  BY <1>1, BackendKept
<1>6. SameOps(t)
  BY <1>1 DEF SameOps
<1>7. pc[t] # "writeback" => pc[t] \notin Before /\ ~OnWay(t)
  BY <1>1 DEF Before, OnWay
<1>8. "fill" \in Before
  BY DEF Before
<1> QED BY <1>1, <1>2, <1>4, <1>5, <1>6, <1>7, <1>8, ThroughWork

\* A miss is asked for, or served at home.
LEMMA ThroughFill ==
  ASSUME TypeInv, ReplyInv, ThroughInv, WordsAtHome, NEW t \in Thread, Fill(t)
  PROVE  ThroughInv'
<1>1. pc[t] = "fill" /\ UNCHANGED <<srv, op, latest>> /\ SameOps(t) /\ op[t].blk \in Block
  BY FillEffect, Here DEF SameOps
<1>2. ASSUME NEW kind \in {"ReadMiss", "WriteMiss"}, Ask(t, kind), UNCHANGED backend,
             op[t].kind = IF kind = "ReadMiss" THEN "get" ELSE "put"
      PROVE  ThroughInv'
  <2>1. AskTo(t, kind) /\ PcTo(t, "wait")
    BY <1>1, <1>2, AskEffect DEF AskTo
  <2>2. /\ \A n, h \in Node : PairCarries(n, h)'
        /\ kind # "ReadMiss" => OnWay(t)'
        /\ \E m : Sent(m)
    BY <1>1, <1>2, <2>1, AskCarries
  <2>3. CatchesUp
    BY <1>2, BackendKept
  <2> QED BY <1>1, <1>2, <2>1, <2>2, <2>3, ThroughWork
<1>3. ASSUME NEW l \in {"filled", "missrenew"}, Goto(t, l), UNCHANGED <<ctl, dlock>>, CatchesUp,
             l = "missrenew" => op[t].kind = "put", op[t].kind = "put" => Lands(t)
      PROVE  ThroughInv'
  <2>1. PcTo(t, l)
    BY <1>3, GotoPc DEF Place
  <2>2. NoAsk
    BY <1>3, KeptFewer DEF NoAsk
  <2>3. \A n, h \in Node : PairCarries(n, h)'
    BY <1>1, <1>3, <2>2, QuietCarries
  <2> QED BY <1>1, <1>3, <2>1, <2>3, ThroughWork
<1>4. CASE op[t].kind = "get" /\ Ask(t, "ReadMiss") /\ UNCHANGED backend
  BY <1>2, <1>4
<1>5. CASE op[t].kind = "put" /\ Ask(t, "WriteMiss") /\ UNCHANGED backend
  BY <1>2, <1>5
<1>6. CASE op[t].kind = "get" /\ Goto(t, "filled") /\ UNCHANGED <<backend, ctl, dlock>>
  BY <1>3, <1>6, BackendKept
<1>7. CASE /\ op[t].kind = "put" /\ Home[op[t].blk] = Me(t) /\ PutBackend(op[t].blk, FirstWord(op[t].words), op[t].val)
           /\ Goto(t, "missrenew") /\ UNCHANGED <<ctl, dlock>>
  <2>1. PICK k \in Block, ws \in SUBSET Word : k = op[t].blk /\ ws = op[t].words
    BY <1>1, Here
  <2>2. <<k, ws>> \in Puts[t]
    BY <1>1, <1>7, <2>1 DEF ThroughInv, OwnPut, Putting
  <2>3. FirstWord(ws) = ws
    <3>1. PICK p \in Puts[t] : p = <<k, ws>>
      BY <2>2
    <3>2. p[1] = k /\ p[2] = ws /\ Home[k] = NodeOf[t]
      BY <1>7, <2>1, <3>1 DEF Me
    <3> QED BY <3>2 DEF WordsAtHome
  <2>4. PutBackend(k, ws, op[t].val) /\ op[t].val \in Nat
    BY <1>7, <2>1, <2>3, Here
  <2>5. Stored(op[t].blk, ws, op[t].val)
    BY <2>1, <2>4, PutEffect
  <2>6. CatchesUp /\ Lands(t)
    BY <1>1, <1>7, <2>1, <2>5, OwnStored
  <2> QED BY <1>3, <1>7, <2>6
<1> QED BY <1>4, <1>5, <1>6, <1>7 DEF Fill

\* A hit is written to the home.
LEMMA ThroughWrite ==
  ASSUME TypeInv, ReplyInv, ThroughInv, NEW t \in Thread, Write(t)
  PROVE  ThroughInv'
<1>1. pc[t] = "write" /\ UNCHANGED <<srv, op, latest>> /\ SameOps(t)
  BY WriteEffect DEF SameOps
<1>2. op[t].kind = "put"
  BY <1>1 DEF ThroughInv, OwnPut
<1>3. CASE AskTo(t, "Write") /\ UNCHANGED backend
  <2>1. PcTo(t, "wait")
    BY <1>3 DEF AskTo
  <2>2. (\A n, h \in Node : PairCarries(n, h)') /\ OnWay(t)' /\ \E m : Sent(m)
    BY <1>1, <1>2, <1>3, AskCarries
  <2>3. CatchesUp
    BY <1>3, BackendKept
  <2> QED BY <1>1, <1>2, <2>1, <2>2, <2>3, ThroughWork
<1>4. CASE Stored(op[t].blk, op[t].words, op[t].val) /\ PcTo(t, "renew") /\ UNCHANGED <<ctl, dlock>>
  <2>1. CatchesUp /\ Lands(t)
    BY <1>1, <1>2, <1>4, OwnStored
  <2>2. NoAsk
    BY <1>4, KeptFewer DEF NoAsk
  <2>3. \A n, h \in Node : PairCarries(n, h)'
    BY <1>1, <1>4, <2>2, QuietCarries
  <2> QED BY <1>1, <1>2, <1>4, <2>1, <2>3, ThroughWork
<1> QED BY <1>3, <1>4, WriteEffect

\* A thread takes its reply: its put is no longer on its way.
LEMMA ThroughAnswered ==
  ASSUME TypeInv, ReplyInv, ThroughInv, NEW t \in Thread, Answered(t)
  PROVE  ThroughInv'
<1>1. pc[t] = "wait" /\ UNCHANGED <<backend, ctl, srv, op, latest>> /\ SameOps(t)
  BY AnsweredEffect DEF SameOps
<1>2. PICK n \in Node, h \in Node : n = Me(t) /\ h = Home[op[t].blk]
  BY <1>1, Here
<1>3. /\ reply[h][n] # <<>> /\ (\A x, y \in Node : x # n \/ y # h => dlock'[x][y] = dlock[x][y])
      /\ \E l \in {"idle", "filled"} : PcTo(t, l)
  <2>1. /\ reply[Home[op[t].blk]][Me(t)] # <<>> /\ LockTo(Me(t), Home[op[t].blk], None)
        /\ PcTo(t, "idle") \/ PcTo(t, "filled")
    BY AnsweredEffect, Zenon
  <2> QED BY <1>2, <2>1 DEF LockTo
<1>4. /\ \A i \in 1 .. Len(ctl[n][h]) : ctl[n][h][i].kind \notin Unstored
      /\ \A i \in Servers(h, n) : srv[h][n][i].kind \notin Unstored
  BY <1>3 DEF ReplyInv, Alone, Asks, Serves, Unstored, Requests
<1>5. PairCarries(n, h)'
  BY <1>1, <1>4 DEF PairCarries
<1>6. ASSUME NEW x \in Node, NEW y \in Node, x # n \/ y # h
      PROVE  PairCarries(x, y)'
  <2>1. PairCarries(x, y) /\ Fewer(x, y, 0)
    BY <1>1, KeptFewer DEF ThroughInv
  <2>2. dlock'[x][y] = dlock[x][y]
    BY <1>3, <1>6
  <2>3. \A i \in Servers(y, x) : srv'[y][x][i].kind \in Unstored => Carries(srv'[y][x][i], x, y)
    BY <1>1, <2>1 DEF PairCarries
  <2> QED BY <1>1, <2>1, <2>2, <2>3, CarriesKept
<1>7. ~OnWay(t) /\ pc[t] \notin Before
  BY <1>1, <1>2, <1>4 DEF OnWay, Sending, Before
<1>8. CatchesUp
  BY <1>1, BackendKept
<1> QED BY <1>1, <1>3, <1>5, <1>6, <1>7, <1>8, ThroughWork

\* A protocol step that takes no message from its socket, seen from the puts on their way.
LEMMA ServeCarries ==
  ASSUME TypeInv, ThroughInv, NEW n \in Node, NEW p \in Node, NEW i \in Servers(n, p), NEW v, SrvTo(n, p, i, v),
         v.kind \notin Unstored, UNCHANGED <<dlock, op>>, NoAsk
  PROVE  \A x, y \in Node : PairCarries(x, y)'
<1> TAKE x, y \in Node
<1>1. PairCarries(x, y) /\ Fewer(x, y, 0)
  BY DEF ThroughInv, NoAsk
<1>2. \A j \in Servers(y, x) : srv'[y][x][j].kind \in Unstored => srv'[y][x][j] = srv[y][x][j]
  BY DEF SrvTo
<1>3. \A j \in Servers(y, x) : srv'[y][x][j].kind \in Unstored => Carries(srv'[y][x][j], x, y)
  BY <1>1, <1>2 DEF PairCarries
<1> QED BY <1>1, <1>3, CarriesKept

\* A message other than a put is handled.
LEMMA ThroughHandled ==
  ASSUME TypeInv, ThroughInv, NEW n \in Node, NEW p \in Node, NEW i \in Servers(n, p), SrvTo(n, p, i, Idle),
         srv[n][p][i].kind \notin Unstored, UNCHANGED <<backend, dlock, pc, op, latest>>,
         UNCHANGED ctl \/ \E m : Sent(m) /\ m.kind \notin Requests
  PROVE  ThroughInv'
<1>1. NoAsk
  BY KeptFewer, SentFewer DEF NoAsk
<1>2. Idle.kind \notin Unstored
  BY DEF Idle, Unstored, None
<1>3. \A x, y \in Node : PairCarries(x, y)'
  BY <1>1, <1>2, ServeCarries
<1>4. \A x, y \in Node : Sending(x, y) => Sending(x, y)'
  <2> TAKE x, y \in Node
  <2>1. Longer(x, y)
    BY SentLonger
  <2>2. \A j \in Servers(y, x) : srv[y][x][j].kind \in Unstored => srv'[y][x][j] = srv[y][x][j]
    BY DEF SrvTo
  <2> QED BY <2>1, <2>2, SendingKept
<1>5. \A u \in Thread : OnWay(u) => OnWay(u)'
  BY <1>4, OnWayKept
<1>6. CatchesUp
  BY BackendKept
<1> QED BY <1>3, <1>5, <1>6, ThroughServe

\* A put is stored at its home.
LEMMA ThroughPut ==
  ASSUME TypeInv, ReplyInv, ThroughInv, NEW n \in Node, NEW p \in Node, NEW i \in Servers(n, p), ServerPut(n, p, i)
  PROVE  ThroughInv'
<1>1. PICK m : m = srv[n][p][i]
  OBVIOUS
<1>2. m.kind \in Unstored /\ Stored(m.blk, m.words, m.val) /\ UNCHANGED <<ctl, dlock, pc, op, latest>>
  BY <1>1, ServerPutEffect DEF Unstored
<1>3. PICK v : v.kind \in {"WriteRenew", "MissRenew"} /\ SrvTo(n, p, i, v)
  BY ServerPutEffect
<1>4. v.kind \notin Unstored /\ NoAsk
  BY <1>2, <1>3, KeptFewer DEF Unstored, NoAsk
<1>5. \A x, y \in Node : PairCarries(x, y)'
  BY <1>2, <1>3, <1>4, ServeCarries
<1>6. Carries(m, p, n)
  BY <1>1, <1>2 DEF ThroughInv, PairCarries
<1>7. PICK t \in Thread : t = dlock[p][n]
  BY <1>6 DEF Carries, TypeInv
<1>8. op[t].kind = "put" /\ m.blk = op[t].blk /\ m.words = op[t].words /\ m.val = op[t].val /\ pc[t] = "wait"
  BY <1>6, <1>7 DEF Carries, ReplyInv, Holder
<1>9. CatchesUp /\ Lands(t)
  BY <1>2, <1>8, OwnStored
<1>10. ASSUME NEW u \in Thread, OnWay(u), u # t
       PROVE  OnWay(u)'
  <2>1. pc[u] = "wait" /\ dlock[Me(u)][Home[op[u].blk]] = u
    BY <1>10 DEF OnWay, ReplyInv, Waiter
  <2>2. ASSUME NEW x \in Node, NEW y \in Node, x = Me(u), y = Home[op[u].blk], Sending(x, y)
        PROVE  Sending(x, y)'
    <3>1. x # p \/ y # n
      BY <1>7, <1>10, <2>1, <2>2
    <3>2. Longer(x, y)
      BY <1>2, SentLonger
    <3>3. \A j \in Servers(y, x) : srv'[y][x][j] = srv[y][x][j]
      BY <1>3, <3>1 DEF SrvTo
    <3> QED BY <2>2, <3>2, <3>3, SendingKept
  <2> QED BY <1>2, <1>10, <2>2, OnWayKept
<1> QED BY <1>2, <1>5, <1>9, <1>10, ThroughServe

\* A protocol thread takes a message, and with it the put it carries.
LEMMA ThroughReceive ==
  ASSUME TypeInv, ThroughInv, NEW n \in Node, NEW p \in Node, NEW i \in Servers(n, p), Receive(n, p, i)
  PROVE  ThroughInv'
<1>1. /\ srv[n][p][i] = Idle /\ ctl[p][n] # <<>> /\ SrvTo(n, p, i, Head(ctl[p][n]))
      /\ ctl'[p][n] = Tail(ctl[p][n]) /\ (\A x, y \in Node : x # p \/ y # n => ctl'[x][y] = ctl[x][y])
      /\ UNCHANGED <<backend, dlock, pc, op, latest>>
  BY ReceiveEffect
<1>2. PICK c, d : c = ctl[p][n] /\ d = ctl'[p][n]
  OBVIOUS
<1>3. c \in Seq(Messages) /\ c # <<>> /\ d = Tail(c)
  BY <1>1, <1>2 DEF TypeInv
<1>4. /\ Len(c) \in Nat /\ Len(c) > 0 /\ Head(c) = c[1] /\ Len(d) = Len(c) - 1
      /\ \A j \in 1 .. Len(d) : j + 1 \in 1 .. Len(c) /\ d[j] = c[j + 1]
  BY <1>3, TailAt
<1>5. Fewer(p, n, 1)
  BY <1>2, <1>4 DEF Fewer, Asks
<1>6. srv'[n][p][i] = c[1] /\ \A a, b \in Node : \A j \in Servers(a, b) : a # n \/ b # p \/ j # i => srv'[a][b][j] = srv[a][b][j]
  BY <1>1, <1>2, <1>4 DEF SrvTo
<1>7. Idle.kind \notin Unstored
  BY DEF Idle, Unstored, None
<1>8. \A x, y \in Node : PairCarries(x, y)'
  <2> SUFFICES ASSUME NEW x \in Node, NEW y \in Node PROVE PairCarries(x, y)'
    OBVIOUS
  <2>1. PairCarries(x, y)
    BY DEF ThroughInv
  <2>2. CASE x = p /\ y = n
    <3>1. \A j \in Servers(n, p) : srv'[n][p][j].kind \in Unstored => Carries(srv'[n][p][j], p, n)
      <4> SUFFICES ASSUME NEW j \in Servers(n, p), srv'[n][p][j].kind \in Unstored
                   PROVE  Carries(srv'[n][p][j], p, n)
        OBVIOUS
      <4>1. CASE j = i
        <5>1. 1 \in 1 .. Len(c) /\ c[1].kind \in Unstored
          BY <1>4, <1>6, <4>1
        <5>2. Carries(c[1], p, n)
          BY <1>2, <2>1, <2>2, <5>1 DEF PairCarries
        <5> QED BY <1>6, <4>1, <5>2
      <4>2. CASE j # i
        BY <1>6, <2>1, <2>2, <4>2 DEF PairCarries
      <4> QED BY <4>1, <4>2
    <3> QED BY <1>1, <1>5, <2>1, <2>2, <3>1, CarriesKept
  <2>3. CASE x # p \/ y # n
    <3>1. Fewer(x, y, 0)
      BY <1>1, <2>3, KeptFewer
    <3>2. \A j \in Servers(y, x) : srv'[y][x][j].kind \in Unstored => Carries(srv'[y][x][j], x, y)
      BY <1>6, <2>1, <2>3 DEF PairCarries
    <3> QED BY <1>1, <2>1, <3>1, <3>2, CarriesKept
  <2> QED BY <2>2, <2>3
<1>9. ASSUME NEW x \in Node, NEW y \in Node, Sending(x, y)
      PROVE  Sending(x, y)'
  <2>1. \A j \in Servers(y, x) : srv[y][x][j].kind \in Unstored => srv'[y][x][j] = srv[y][x][j]
    BY <1>1, <1>6, <1>7
  <2>2. CASE x = p /\ y = n
    <3>1. CASE \E j \in Servers(n, p) : srv[n][p][j].kind \in Unstored
      BY <2>1, <2>2, <3>1 DEF Sending
    <3>2. ASSUME NEW j \in 1 .. Len(c), c[j].kind \in Unstored
          PROVE  Sending(p, n)'
      <4>1. CASE j = 1
        <5>1. srv'[n][p][i].kind \in Unstored
          BY <1>6, <3>2, <4>1
        <5> QED BY <5>1 DEF Sending
      <4>2. CASE j # 1
        <5>1. j - 1 \in 1 .. Len(d) /\ (j - 1) + 1 = j
          BY <1>4, <4>2
        <5>2. d[j - 1] = c[j]
          BY <1>4, <5>1
        <5>3. \E g \in 1 .. Len(d) : d[g].kind \in Unstored
          BY <3>2, <5>1, <5>2
        <5> QED BY <1>2, <5>3 DEF Sending
      <4> QED BY <4>1, <4>2
    <3> QED BY <1>2, <1>9, <2>2, <3>1, <3>2 DEF Sending
  <2>3. CASE x # p \/ y # n
    <3>1. Longer(x, y)
      BY <1>1, <2>3 DEF Longer
    <3> QED BY <1>9, <2>1, <3>1, SendingKept
  <2> QED BY <2>2, <2>3
<1>10. \A u \in Thread : OnWay(u) => OnWay(u)'
  BY <1>1, <1>9, OnWayKept
<1>11. CatchesUp
  BY <1>1, BackendKept
<1> QED BY <1>1, <1>8, <1>10, <1>11, ThroughServe

\* Every step keeps the backend up to date, but for puts that are late.
LEMMA ThroughStep ==
  ASSUME TypeInv, ReplyInv, ThroughInv, WordsAtHome, [Next]_vars
  PROVE  ThroughInv'
<1>1. ASSUME NEW n \in Node, NEW p \in Node, NEW i \in Servers(n, p), Protocol(n, p, i)
      PROVE  ThroughInv'
  <2>1. CASE ServerReadMiss(n, p, i) \/ ServerWriteback(n, p, i) \/ ServerRenew(n, p, i)
    <3>1. /\ srv[n][p][i].kind \in {"ReadMiss", "Writeback", "Renew"} /\ SrvTo(n, p, i, Idle)
          /\ UNCHANGED <<backend, ctl, dlock, pc, op, latest>>
      BY <2>1, ServerReadMissEffect, ServerWritebackEffect, ServerRenewEffect
    <3>2. srv[n][p][i].kind \notin Unstored
      BY <3>1 DEF Unstored
    <3> QED BY <3>1, <3>2, ThroughHandled
  <2>2. CASE ServerAnswer(n, p, i)
    <3>1. /\ srv[n][p][i].kind \in {"WriteRenew", "MissRenew"} /\ SrvTo(n, p, i, Idle)
          /\ UNCHANGED <<backend, dlock, pc, op, latest>> /\ \E m : Sent(m) /\ m.kind = "Renew"
      BY <2>2, ServerAnswerEffect
    <3>2. srv[n][p][i].kind \notin Unstored /\ "Renew" \notin Requests
      BY <3>1 DEF Unstored, Requests
    <3> QED BY <3>1, <3>2, ThroughHandled
  <2> QED BY <1>1, <2>1, <2>2, ThroughReceive, ThroughPut DEF Protocol
<1>2. CASE UNCHANGED vars
  <2>1. UNCHANGED <<backend, ctl, dlock, srv, pc, op, latest>>
    BY <1>2 DEF vars
  <2>2. \A x, y \in Node : PairCarries(x, y)'
    BY <2>1 DEF ThroughInv, PairCarries, Carries
  <2>3. \A u \in Thread : OnWay(u) => OnWay(u)'
    BY <2>1 DEF OnWay, Sending, Me
  <2>4. CatchesUp
    BY <2>1, BackendKept
  <2> QED BY <2>1, <2>2, <2>3, <2>4, ThroughServe
<1> QED BY <1>1, <1>2, ThroughStart, ThroughLook, ThroughSent, ThroughFill, ThroughWrite, ThroughAnswered DEF Next, Work

\* When doput has returned, the backend holds what was put: a remote home
\* answers only after its put, and a node's requests to a home are not mixed up
\* while the data socket is locked.  Programs put chunks to remote homes only.
THEOREM WriteThroughHolds ==
  ASSUME WordsAtHome
  PROVE  Spec => []WriteThrough
<1>1. Init => TypeInv /\ ReplyInv /\ ThroughInv
  BY TypeInit, ReplyInit, ThroughInit
<1>2. TypeInv /\ ReplyInv /\ ThroughInv /\ [Next]_vars => (TypeInv /\ ReplyInv /\ ThroughInv)'
  BY TypeStep, ReplyStep, ThroughStep
<1>3. ThroughInv => WriteThrough
  BY DEF ThroughInv, Stores, Late, WriteThrough
<1> QED BY <1>1, <1>2, <1>3, PTL DEF Spec

-----------------------------------------------------------------------------
(* A node reads its own writes.                                            *)

\* Thread t has begun to put word w of block k and has neither hit a copy nor
\* taken a slot yet.
Behind(t, k, w) == Putting(t) /\ op[t].blk = k /\ w \in op[t].words /\ pc[t] \in {"lookup", "hit", "miss"}

\* Words ws are what the threads of node n put to block k last, but for puts
\* that are behind.
Own(n, k, ws) ==
  \A t \in Thread : Me(t) = n => \A w \in Writes(t, k) : ws[w] = latest[k][w] \/ Behind(t, k, w)

\* Thread t waits for a block to fill its slot with.
Waits(t) == pc[t] = "wait" /\ t \notin Mine(t).readers

\* Node n has words ws of block k in a slot with a key, in the slot that thread
\* u has just filled, or in the reply that thread u waits for.
InSlot(n, k, ws, s) == slot[n][s].key = k /\ slot[n][s].words = ws
InFilled(n, k, ws, u) == pc[u] = "filled" /\ Me(u) = n /\ op[u].blk = k /\ slot[n][op[u].slot].words = ws
InReply(n, k, ws, u) ==
  /\ Waits(u) /\ Me(u) = n /\ op[u].blk = k
  /\ \E i \in 1 .. Len(reply[Home[k]][n]) : reply[Home[k]][n][i].words = ws
Copy(n, k, ws) ==
  \/ \E s \in Slot : InSlot(n, k, ws, s)
  \/ \E u \in Thread : InFilled(n, k, ws, u) \/ InReply(n, k, ws, u)
OwnCopies == \A n \in Node, k \in Block : \A ws : Copy(n, k, ws) => Own(n, k, ws)

\* Message m from node p to node n, if it is a Renew, has no word that a thread
\* of n writes; a put that is stored and not answered yet is of a thread of p.
Spares(m, n) == m.kind = "Renew" => \A t \in Thread : Me(t) = n => \A w \in Writes(t, m.blk) : w \notin m.words
From(m, p) == m.kind \in {"WriteRenew", "MissRenew"} =>
                \E t \in Thread : Me(t) = p /\ <<m.blk, m.words>> \in Puts[t]
Clean(m, p, n) == Spares(m, n) /\ From(m, p)
CleanCtl == \A p, n \in Node : \A i \in 1 .. Len(ctl[p][n]) : Clean(ctl[p][n][i], p, n)
CleanSrv == \A p, n \in Node : \A i \in Servers(n, p) : Clean(srv[n][p][i], p, n)

OwnInv == OwnCopies /\ CleanCtl /\ CleanSrv

\* Initially there is no copy and no message.
LEMMA OwnInit ==
  ASSUME Init
  PROVE  OwnInv
<1>1. /\ \A n \in Node, s \in Slot : slot[n][s].key = None
      /\ \A t \in Thread : pc[t] = "idle"
  BY DEF Init
<1>2. \A n, p \in Node : ctl[n][p] = <<>> /\ \A i \in Servers(n, p) : srv[n][p][i] = Idle
  BY DEF Init
<1>3. None \notin Block
  BY CacheAssumption
<1>4. OwnCopies
  BY <1>1, <1>3 DEF OwnCopies, Copy, InSlot, InFilled, InReply, Waits
<1>5. CleanCtl
  BY <1>2 DEF CleanCtl
<1>6. Idle.kind \notin {"Renew", "WriteRenew", "MissRenew"}
  BY DEF Idle, None
<1>7. CleanSrv
  BY <1>2, <1>6 DEF CleanSrv, Clean, Spares, From
<1> QED BY <1>4, <1>5, <1>7 DEF OwnInv

\* Where the copies of a block are: in the slot that the hash table names, with
\* the block's key or in the hands of the one thread that fills it.
LEMMA OneCopy ==
  ASSUME TypeInv, SlotInv, NEW n \in Node, NEW k \in Block
  PROVE  /\ \A s \in Slot : slot[n][s].key = k => hash[n][k] = s
         /\ \A t \in Thread : Filling(t) /\ Me(t) = n /\ op[t].blk = k =>
              /\ op[t].slot \in Slot /\ hash[n][k] = op[t].slot /\ \A s \in Slot : slot[n][s].key # k
              /\ \A u \in Thread : Filling(u) /\ Me(u) = n /\ op[u].blk = k => u = t
<1>1. \A s \in Slot : slot[n][s].key = k => hash[n][k] = s
  BY CacheAssumption DEF SlotInv, Mapped
<1>2. ASSUME NEW t \in Thread, Filling(t), Me(t) = n, op[t].blk = k
      PROVE  /\ op[t].slot \in Slot /\ hash[n][k] = op[t].slot /\ \A s \in Slot : slot[n][s].key # k
             /\ \A u \in Thread : Filling(u) /\ Me(u) = n /\ op[u].blk = k => u = t
  <2>1. pc[t] \notin {"idle", "lookup", "miss"}
    BY <1>2 DEF Filling
  <2>2. op[t].slot \in Slot
    BY <2>1, Here
  <2>3. hash[n][k] = op[t].slot /\ slot[n][op[t].slot].key = None
    BY <1>2 DEF SlotInv, Filled1, Mine
  <2>4. \A s \in Slot : slot[n][s].key # k
    BY <1>1, <2>3, CacheAssumption
  <2>5. ASSUME NEW u \in Thread, Filling(u), Me(u) = n, op[u].blk = k
        PROVE  u = t
    <3>1. hash[n][k] = op[u].slot
      BY <2>5 DEF SlotInv, Filled1
    <3> QED BY <1>2, <2>3, <2>5, <3>1 DEF SlotInv, Filled1
  <2> QED BY <2>2, <2>3, <2>4, <2>5
<1> QED BY <1>1, <1>2

\* A block of which there is a copy is in the hash table.
LEMMA CopyNamed ==
  ASSUME TypeInv, SlotInv, NEW n \in Node, NEW k \in Block, NEW ws, Copy(n, k, ws)
  PROVE  hash[n][k] # None
<1>1. None \notin Slot
  BY CacheAssumption
<1>2. ASSUME NEW u \in Thread, InFilled(n, k, ws, u) \/ InReply(n, k, ws, u)
      PROVE  Filling(u) /\ Me(u) = n /\ op[u].blk = k
  BY <1>2 DEF InFilled, InReply, Waits, Filling
<1> QED BY <1>1, <1>2, OneCopy DEF Copy, InSlot

\* A step after which the copies are what they were, or are right.
LEMMA OwnKept ==
  ASSUME OwnCopies, UNCHANGED latest,
         \A n \in Node, k \in Block : \A ws : Copy(n, k, ws)' =>
           \/ Own(n, k, ws)'
           \/ Copy(n, k, ws) /\ \A t \in Thread, w \in Word : Me(t) = n /\ Behind(t, k, w) => Behind(t, k, w)'
  PROVE  OwnCopies'
<1>1. ASSUME NEW n \in Node, NEW k \in Block, NEW ws, Copy(n, k, ws), Own(n, k, ws),
             \A t \in Thread, w \in Word : Me(t) = n /\ Behind(t, k, w) => Behind(t, k, w)'
      PROVE  Own(n, k, ws)'
  <2>1. \A t \in Thread : \A w \in Writes(t, k) : w \in Word
    BY CacheAssumption DEF Writes
  <2> QED BY <1>1, <2>1 DEF Own
<1> QED BY <1>1 DEF OwnCopies

\* Every reply after the step was there before it.
RepliesFrom == \A x, y \in Node : \A i \in 1 .. Len(reply'[x][y]) :
                 \E j \in 1 .. Len(reply[x][y]) : reply[x][y][j] = reply'[x][y][i]

\* A thread moves on, and what has a key then was a copy before.
LEMMA OwnMove ==
  ASSUME TypeInv, OwnCopies, UNCHANGED latest, NEW t \in Thread, NEW l, PcTo(t, l), l # "filled",
         \A u \in Thread : u # t => op'[u] = op[u],
         \A a \in Node, r \in Slot :
           /\ slot'[a][r].words = slot[a][r].words
           /\ \A k \in Block : slot'[a][r].key = k => Copy(a, k, slot[a][r].words)
           /\ \A u \in slot[a][r].readers : u # t => u \in slot'[a][r].readers,
         RepliesFrom, l = "wait" => UNCHANGED reply /\ reply[Home[op'[t].blk]][Me(t)] = <<>>,
         \A k \in Block, w \in Word : Behind(t, k, w) => Behind(t, k, w)' \/ \A ws : ~Copy(Me(t), k, ws)
  PROVE  OwnCopies'
<1>1. \A u \in Thread : Me(u) \in Node /\ (pc[u] \in {"filled", "wait"} => op[u].slot \in Slot)
  BY Here
<1>2. ASSUME NEW n \in Node, NEW k \in Block, NEW ws, Copy(n, k, ws)'
      PROVE  Copy(n, k, ws)
  <2>1. ASSUME NEW s \in Slot, InSlot(n, k, ws, s)'
        PROVE  Copy(n, k, ws)
    BY <2>1 DEF InSlot
  <2>2. ASSUME NEW u \in Thread, InFilled(n, k, ws, u)'
        PROVE  Copy(n, k, ws)
    <3>1. u # t /\ pc[u] = "filled" /\ op'[u] = op[u]
      BY <2>2 DEF InFilled, PcTo
    <3>2. InFilled(n, k, ws, u)
      BY <1>1, <2>2, <3>1 DEF InFilled
    <3> QED BY <3>2 DEF Copy
  <2>3. ASSUME NEW u \in Thread, InReply(n, k, ws, u)'
        PROVE  Copy(n, k, ws)
    <3>1. PICK h \in Node : h = Home[k]
      BY CacheAssumption
    <3>2. PICK i \in 1 .. Len(reply'[h][n]) : reply'[h][n][i].words = ws
      BY <2>3, <3>1 DEF InReply
    <3>3. PICK j \in 1 .. Len(reply[h][n]) : reply[h][n][j] = reply'[h][n][i]
      BY DEF RepliesFrom
    <3>4. u # t
      <4>1. reply[h][n] # <<>>
        BY <3>3
      <4>2. u = t => pc'[t] = "wait" /\ Me(t) = n /\ op'[t].blk = k
        BY <2>3 DEF InReply, Waits
      <4>3. u = t => reply[h][n] = <<>>
        BY <3>1, <4>2 DEF PcTo
      <4> QED BY <4>1, <4>3
    <3>5. pc[u] = "wait" /\ op'[u] = op[u]
      BY <2>3, <3>4 DEF InReply, Waits, PcTo
    <3>6. Waits(u)
      BY <1>1, <2>3, <3>4, <3>5 DEF InReply, Waits, Mine
    <3>7. InReply(n, k, ws, u)
      BY <2>3, <3>1, <3>2, <3>3, <3>5, <3>6 DEF InReply
    <3> QED BY <3>7 DEF Copy
  <2> QED BY <1>2, <2>1, <2>2, <2>3 DEF Copy
<1>3. ASSUME NEW n \in Node, NEW k \in Block, NEW ws, Copy(n, k, ws), NEW u \in Thread, NEW w \in Word,
             Me(u) = n, Behind(u, k, w)
      PROVE  Behind(u, k, w)'
  <2>1. CASE u = t
    BY <1>3, <2>1
  <2>2. CASE u # t
    BY <1>3, <2>2 DEF Behind, Putting, PcTo
  <2> QED BY <2>1, <2>2
<1> QED BY <1>2, <1>3, OwnKept

\* The slot that a thread fills is loaded with words that are right.
LEMMA OwnLoad ==
  ASSUME TypeInv, SlotInv, OwnCopies, UNCHANGED <<latest, op>>, NEW t \in Thread, Filling(t), PcTo(t, "filled"),
         RepliesFrom, NEW n, NEW k, NEW ws, n = Me(t), k = op[t].blk, Own(n, k, ws), Loads(t, ws)
  PROVE  OwnCopies'
<1>1. pc[t] \notin {"idle", "lookup", "hit", "miss"}
  BY DEF Filling
<1>2. \A u \in Thread : Me(u) \in Node /\ (pc[u] \in {"filled", "wait"} => op[u].slot \in Slot)
  BY Here
<1>3. PICK s \in Slot : s = op[t].slot
  BY <1>1, Here
<1>4. n \in Node /\ k \in Block /\ slot[n][s].key = None
  BY <1>1, <1>3, Here DEF SlotInv, Filled1, Mine
<1>5. /\ \A a \in Node, r \in Slot : a # n \/ r # s => slot'[a][r] = slot[a][r]
      /\ slot'[n][s].key = None /\ slot'[n][s].words = ws /\ slot'[n][s].readers = slot[n][s].readers
  BY <1>3, <1>4 DEF Loads, SlotSet, Mine
<1>6. \A u \in Thread, j \in Block, w \in Word : Behind(u, j, w) => Behind(u, j, w)'
  BY <1>1 DEF Behind, Putting, PcTo
<1>7. Own(n, k, ws)'
  <2>1. \A u \in Thread : \A w \in Writes(u, k) : w \in Word
    BY CacheAssumption DEF Writes
  <2> QED BY <1>4, <1>6, <2>1 DEF Own
<1>8. ASSUME NEW a \in Node, NEW j \in Block, NEW f, Copy(a, j, f)'
      PROVE  Own(a, j, f)' \/ Copy(a, j, f)
  <2>1. ASSUME NEW r \in Slot, InSlot(a, j, f, r)'
        PROVE  Copy(a, j, f)
    <3>1. a # n \/ r # s
      BY <1>5, <2>1, CacheAssumption DEF InSlot
    <3>2. InSlot(a, j, f, r)
      BY <1>5, <2>1, <3>1 DEF InSlot
    <3> QED BY <3>2 DEF Copy
  <2>2. ASSUME NEW u \in Thread, InFilled(a, j, f, u)'
        PROVE  Own(a, j, f)' \/ Copy(a, j, f)
    <3>1. CASE u = t
      <4>1. a = n /\ j = k /\ f = ws
        BY <1>3, <1>5, <2>2, <3>1 DEF InFilled
      <4> QED BY <1>7, <4>1
    <3>2. CASE u # t
      <4>1. pc[u] = "filled" /\ Filling(u)
        BY <2>2, <3>2 DEF InFilled, PcTo, Filling
      <4>2. Me(u) # n \/ op[u].slot # s
        BY <1>3, <3>2, <4>1 DEF SlotInv, Filled1
      <4>3. InFilled(a, j, f, u)
        BY <1>2, <1>5, <2>2, <4>1, <4>2 DEF InFilled
      <4> QED BY <4>3 DEF Copy
    <3> QED BY <3>1, <3>2
  <2>3. ASSUME NEW u \in Thread, InReply(a, j, f, u)'
        PROVE  Copy(a, j, f)
    <3>1. u # t /\ pc[u] = "wait"
      BY <2>3 DEF InReply, Waits, PcTo
    <3>2. slot'[Me(u)][op[u].slot].readers = slot[Me(u)][op[u].slot].readers
      BY <1>2, <1>5, <3>1
    <3>3. Waits(u)
      BY <2>3, <3>1, <3>2 DEF InReply, Waits, Mine
    <3>4. PICK h \in Node : h = Home[j]
      BY CacheAssumption
    <3>5. PICK i \in 1 .. Len(reply'[h][a]) : reply'[h][a][i].words = f
      BY <2>3, <3>4 DEF InReply
    <3>6. PICK x \in 1 .. Len(reply[h][a]) : reply[h][a][x] = reply'[h][a][i]
      BY DEF RepliesFrom
    <3>7. InReply(a, j, f, u)
      BY <2>3, <3>3, <3>4, <3>5, <3>6 DEF InReply
    <3> QED BY <3>7 DEF Copy
  <2> QED BY <1>8, <2>1, <2>2, <2>3 DEF Copy
<1> QED BY <1>6, <1>8, OwnKept

\* The backend has what the threads of a node put to the block that one of
\* them fills its slot with, once that thread's own put is stored.
LEMMA OwnBackend ==
  ASSUME TypeInv, SlotInv, ThroughInv, NEW t \in Thread, Filling(t), NEW n, NEW k, n = Me(t), k = op[t].blk,
         \A w \in Word : ~Late(t, k, w)
  PROVE  Own(n, k, backend[k])
<1>1. pc[t] \notin {"idle", "lookup", "hit", "miss"}
  BY DEF Filling
<1>2. n \in Node /\ k \in Block
  BY <1>1, Here
<1>3. ASSUME NEW u \in Thread, Me(u) = n, NEW w \in Writes(u, k), ~(backend[k][w] = latest[k][w])
      PROVE  Behind(u, k, w)
  <2>1. w \in Word
    BY CacheAssumption DEF Writes
  <2>2. Late(u, k, w)
    BY <1>2, <1>3 DEF ThroughInv, Stores
  <2>3. u # t
    BY <2>1, <2>2
  <2>4. Putting(u) /\ op[u].blk = k /\ w \in op[u].words /\ pc[u] \in Before \cup {"wait"}
    BY <2>2 DEF Late, OnWay
  <2>5. ~Filling(u)
    BY <1>2, <1>3, <2>3, <2>4, OneCopy
  <2>6. \A s \in Slot : slot[n][s].key # k
    BY <1>2, OneCopy
  <2>7. pc[u] \notin {"write", "wait"}
    <3>1. pc[u] \in {"write", "wait"} => op[u].slot \in Slot /\ u \in Mine(u).readers
      BY <2>5, Here DEF Filling, SlotInv, Reading
    <3>2. u \in Mine(u).readers /\ op[u].slot \in Slot => Mine(u).key = k
      BY <1>2, <1>3, <2>4 DEF SlotInv, Reading, Mine
    <3> QED BY <1>3, <2>6, <3>1, <3>2 DEF Mine
  <2> QED BY <2>4, <2>5, <2>7 DEF Behind, Before, Filling
<1> QED BY <1>3 DEF Own

\* Replies that stay were there, and so are those left after one is taken.
LEMMA RepliesKept ==
  ASSUME TypeInv
  PROVE  /\ UNCHANGED reply => RepliesFrom
         /\ \A n, h \in Node : reply[h][n] # <<>> /\ reply'[h][n] = Tail(reply[h][n])
              /\ (\A x, y \in Node : x # h \/ y # n => reply'[x][y] = reply[x][y]) => RepliesFrom
<1>1. UNCHANGED reply => RepliesFrom
  BY DEF RepliesFrom
<1>2. ASSUME NEW n \in Node, NEW h \in Node, reply[h][n] # <<>>, reply'[h][n] = Tail(reply[h][n]),
             \A x, y \in Node : x # h \/ y # n => reply'[x][y] = reply[x][y]
      PROVE  RepliesFrom
  <2>1. reply[h][n] \in Seq(Reply)
    BY DEF TypeInv
  <2>2. \A i \in 1 .. Len(reply'[h][n]) : i + 1 \in 1 .. Len(reply[h][n]) /\ reply'[h][n][i] = reply[h][n][i + 1]
    BY <1>2, <2>1, TailAt
  <2> QED BY <1>2, <2>2 DEF RepliesFrom
<1> QED BY <1>1, <1>2

\* The keys and words of the slots stay.
LEMMA SlotsCopies ==
  ASSUME NEW t \in Thread, UNCHANGED slot
  PROVE  \A a \in Node, r \in Slot :
           /\ slot'[a][r].words = slot[a][r].words
           /\ \A k \in Block : slot'[a][r].key = k => Copy(a, k, slot[a][r].words)
           /\ \A u \in slot[a][r].readers : u # t => u \in slot'[a][r].readers
BY DEF Copy, InSlot

\* An operation begins: a put is behind on its words, and no other thread
\* writes them.
LEMMA OwnStart ==
  ASSUME TypeInv, OwnCopies, NEW t \in Thread, Start(t)
  PROVE  OwnCopies'
<1>1. /\ pc[t] = "idle" /\ PcTo(t, "lookup") /\ (\A u \in Thread : u # t => op'[u] = op[u])
      /\ UNCHANGED <<slot, reply>>
  BY StartEffect DEF local, net
<1>2. CASE op'[t].kind = "get" /\ UNCHANGED latest
  <2>1. \A k \in Block, w \in Word : ~Behind(t, k, w)
    BY <1>1 DEF Behind
  <2>2. RepliesFrom
    BY <1>1, RepliesKept
  <2>3. \A a \in Node, r \in Slot :
           /\ slot'[a][r].words = slot[a][r].words
           /\ \A k \in Block : slot'[a][r].key = k => Copy(a, k, slot[a][r].words)
           /\ \A u \in slot[a][r].readers : u # t => u \in slot'[a][r].readers
    BY <1>1, SlotsCopies
  <2> QED BY <1>1, <1>2, <2>1, <2>2, <2>3, OwnMove
<1>3. ASSUME NEW k \in Block, NEW ws \in SUBSET Word, Begins(t, k, ws)
      PROVE  OwnCopies'
  <2>1. ASSUME NEW n \in Node, NEW j \in Block, NEW f, Copy(n, j, f)'
        PROVE  Copy(n, j, f)
    <3>1. ASSUME NEW u \in Thread, InFilled(n, j, f, u)' \/ InReply(n, j, f, u)'
          PROVE  InFilled(n, j, f, u) \/ InReply(n, j, f, u)
      <4>1. u # t
        BY <1>1, <3>1 DEF InFilled, InReply, Waits, PcTo
      <4>2. pc'[u] = pc[u] /\ op'[u] = op[u]
        BY <1>1, <4>1 DEF PcTo
      <4> QED BY <1>1, <3>1, <4>2 DEF InFilled, InReply, Waits, Mine
    <3> QED BY <1>1, <2>1, <3>1 DEF Copy, InSlot
  <2>2. ASSUME NEW n \in Node, NEW j \in Block, NEW f, Own(n, j, f), NEW u \in Thread, Me(u) = n, NEW w \in Writes(u, j)
        PROVE  f[w] = latest'[j][w] \/ Behind(u, j, w)'
    <3>1. w \in Word
      BY CacheAssumption DEF Writes
    <3>2. f[w] = latest[j][w] \/ Behind(u, j, w)
      BY <2>2 DEF Own
    <3>3. CASE u = t
      <4>1. f[w] = latest[j][w]
        BY <1>1, <3>2, <3>3 DEF Behind
      <4>2. CASE j = k /\ w \in ws
        <5>1. pc'[t] = "lookup" /\ op'[t].kind = "put" /\ op'[t].blk = k /\ op'[t].words = ws
          BY <1>1, <1>3 DEF PcTo, Begins
        <5> QED BY <3>3, <4>2, <5>1 DEF Behind, Putting
      <4>3. CASE ~(j = k /\ w \in ws)
        BY <1>3, <3>1, <4>1, <4>3 DEF Begins
      <4> QED BY <4>2, <4>3
    <3>4. CASE u # t
      <4>1. Behind(u, j, w) => Behind(u, j, w)'
        BY <1>1, <3>4 DEF Behind, Putting, PcTo
      <4>2. j # k \/ w \notin ws
        BY <1>3, <2>2, <3>4, Apart DEF Begins
      <4>3. latest'[j][w] = latest[j][w]
        BY <1>3, <3>1, <4>2 DEF Begins
      <4> QED BY <3>2, <4>1, <4>3
    <3> QED BY <3>3, <3>4
  <2> QED BY <2>1, <2>2 DEF OwnCopies, Own
<1> QED BY <1>2, <1>3, StartOp

\* A thread looks its block up.
LEMMA OwnLookup ==
  ASSUME TypeInv, OwnCopies, NEW t \in Thread, Lookup(t)
  PROVE  OwnCopies'
<1>1. PICK l \in {"miss", "hit"} : PcTo(t, l)
  BY LookupEffect
<1>2. PICK s, o : OpTo(t, s, o)
  BY LookupEffect
<1>3. pc[t] = "lookup" /\ UNCHANGED <<slot, reply, latest>>
  BY LookupEffect DEF local, net
<1>4. \A k \in Block, w \in Word : Behind(t, k, w) => Behind(t, k, w)'
  BY <1>1, <1>2, <1>3 DEF Behind, Putting, PcTo, OpTo
<1>5. RepliesFrom
  BY <1>3, RepliesKept
<1>6. \A a \in Node, r \in Slot :
         /\ slot'[a][r].words = slot[a][r].words
         /\ \A k \in Block : slot'[a][r].key = k => Copy(a, k, slot[a][r].words)
         /\ \A u \in slot[a][r].readers : u # t => u \in slot'[a][r].readers
  BY <1>3, SlotsCopies
<1>7. l # "filled" /\ l # "wait" /\ \A u \in Thread : u # t => op'[u] = op[u]
  BY <1>2 DEF OpTo
<1> QED BY <1>1, <1>3, <1>4, <1>5, <1>6, <1>7, OwnMove

\* A put that hits brings the one copy of its block up to date.
LEMMA OwnHitPut ==
  ASSUME TypeInv, SlotInv, ThroughInv, OwnCopies, NEW t \in Thread, Hit(t), op[t].kind = "put", StillMine(t), PcTo(t, "write"),
         SlotSet(slot', slot, Me(t), op[t].slot, op[t].blk, Overwrite(Mine(t).words, op[t].words, op[t].val),
                 Mine(t).wlock, Mine(t).readers \cup {t})
  PROVE  OwnCopies'
<1>1. pc[t] = "hit" /\ op[t].slot \in Slot /\ UNCHANGED <<reply, op, latest>>
  BY HitEffect DEF net
<1>2. PICK n \in Node, s \in Slot, k \in Block : n = Me(t) /\ s = op[t].slot /\ k = op[t].blk
  BY <1>1, Here
<1>3. PICK f : f = slot[n][s].words
  OBVIOUS
<1>4. slot[n][s].key = k /\ Own(n, k, f)
  BY <1>2, <1>3 DEF StillMine, Mine, OwnCopies, Copy, InSlot
<1>5. PICK g : g = Overwrite(f, op[t].words, op[t].val)
  OBVIOUS
<1>6. /\ \A a \in Node, r \in Slot : a # n \/ r # s => slot'[a][r] = slot[a][r]
      /\ slot'[n][s].key = k /\ slot'[n][s].words = g /\ slot'[n][s].readers = slot[n][s].readers \cup {t}
  BY <1>2, <1>3, <1>5 DEF SlotSet, Mine
<1>7. Own(n, k, g)'
  <2>1. SUFFICES ASSUME NEW u \in Thread, Me(u) = n, NEW w \in Writes(u, k)
                 PROVE  g[w] = latest[k][w] \/ Behind(u, k, w)'
    BY <1>1 DEF Own
  <2>2. w \in Word
    BY CacheAssumption DEF Writes
  <2>3. g[w] = IF w \in op[t].words THEN op[t].val ELSE f[w]
    BY <1>5, <2>2 DEF Overwrite
  <2>4. <<k, op[t].words>> \in Puts[t] /\ \A x \in op[t].words : latest[k][x] = op[t].val
    BY <1>1, <1>2 DEF ThroughInv, OwnPut, Putting
  <2>5. CASE w \in op[t].words
    BY <2>3, <2>4, <2>5
  <2>6. CASE w \notin op[t].words
    <3>1. f[w] = latest[k][w] \/ Behind(u, k, w)
      BY <1>4, <2>1 DEF Own
    <3>2. Behind(u, k, w) => u # t
      BY <2>6 DEF Behind
    <3>3. Behind(u, k, w) => Behind(u, k, w)'
      BY <1>1, <3>2 DEF Behind, Putting, PcTo
    <3> QED BY <2>3, <2>6, <3>1, <3>3
  <2> QED BY <2>5, <2>6
<1>8. ASSUME NEW a \in Node, NEW j \in Block, NEW ws, Copy(a, j, ws)'
      PROVE  \/ Own(a, j, ws)'
             \/ Copy(a, j, ws) /\ (a # n \/ j # k)
  <2>1. \A r \in Slot : slot[n][r].key = k => r = s
    BY <1>4, OneCopy
  <2>2. \A u \in Thread : Filling(u) /\ Me(u) = n => op[u].blk # k /\ op[u].slot # s
    <3>1. \A u \in Thread : Filling(u) /\ Me(u) = n => op[u].blk # k
      BY <1>4, OneCopy
    <3>2. \A u \in Thread : Filling(u) /\ Me(u) = n => op[u].slot # s
      BY <1>4, CacheAssumption DEF SlotInv, Filled1, Mine
    <3> QED BY <3>1, <3>2
  <2>3. ASSUME NEW r \in Slot, InSlot(a, j, ws, r)'
        PROVE  Own(a, j, ws)' \/ (Copy(a, j, ws) /\ (a # n \/ j # k))
    <3>1. CASE a = n /\ r = s
      <4>1. j = k /\ ws = g
        BY <1>6, <2>3, <3>1 DEF InSlot
      <4> QED BY <1>7, <3>1, <4>1
    <3>2. CASE a # n \/ r # s
      <4>1. InSlot(a, j, ws, r)
        BY <1>6, <2>3, <3>2 DEF InSlot
      <4>2. a # n \/ j # k
        BY <2>1, <3>2, <4>1 DEF InSlot
      <4> QED BY <4>1, <4>2 DEF Copy
    <3> QED BY <3>1, <3>2
  <2>4. ASSUME NEW u \in Thread, InFilled(a, j, ws, u)' \/ InReply(a, j, ws, u)'
        PROVE  Copy(a, j, ws) /\ (a # n \/ j # k)
    <3>1. u # t
      BY <2>4 DEF InFilled, InReply, Waits, PcTo
    <3>2. pc'[u] = pc[u] /\ Me(u) = a /\ op[u].blk = j /\ pc[u] \in {"filled", "wait"}
      BY <1>1, <2>4, <3>1 DEF InFilled, InReply, Waits, PcTo
    <3>3. op[u].slot \in Slot
      BY <3>2, Here
    <3>4. slot[a][op[u].slot].readers \subseteq slot'[a][op[u].slot].readers
      BY <1>6, <3>3
    <3>5. Filling(u)
      BY <1>1, <2>4, <3>2, <3>4 DEF InFilled, InReply, Waits, Mine, Filling
    <3>6. a # n \/ (j # k /\ op[u].slot # s)
      BY <2>2, <3>2, <3>5
    <3>7. slot'[a][op[u].slot] = slot[a][op[u].slot]
      BY <1>6, <3>3, <3>6
    <3>8. InFilled(a, j, ws, u) \/ InReply(a, j, ws, u)
      BY <1>1, <2>4, <3>2, <3>7 DEF InFilled, InReply, Waits, Mine
    <3> QED BY <3>6, <3>8 DEF Copy
  <2> QED BY <1>8, <2>3, <2>4 DEF Copy
<1>9. \A u \in Thread, j \in Block, w \in Word : Behind(u, j, w) /\ (Me(u) # n \/ j # k) => Behind(u, j, w)'
  BY <1>1, <1>2 DEF Behind, Putting, PcTo
<1> QED BY <1>1, <1>8, <1>9, OwnKept

\* A thread moves on and leaves the slots and the replies alone.
LEMMA OwnQuiet ==
  ASSUME TypeInv, OwnCopies, UNCHANGED <<latest, slot, reply>>, NEW t \in Thread, NEW l, PcTo(t, l), l # "filled",
         \A u \in Thread : u # t => op'[u] = op[u],
         l = "wait" => reply[Home[op'[t].blk]][Me(t)] = <<>>,
         \A k \in Block, w \in Word : Behind(t, k, w) => Behind(t, k, w)'
  PROVE  OwnCopies'
<1>1. RepliesFrom
  BY RepliesKept
<1>2. \A a \in Node, r \in Slot :
         /\ slot'[a][r].words = slot[a][r].words
         /\ \A k \in Block : slot'[a][r].key = k => Copy(a, k, slot[a][r].words)
         /\ \A u \in slot[a][r].readers : u # t => u \in slot'[a][r].readers
  BY SlotsCopies
<1> QED BY <1>1, <1>2, OwnMove

\* A thread with the read lock of the slot it found.
LEMMA OwnHit ==
  ASSUME TypeInv, SlotInv, ThroughInv, OwnCopies, NEW t \in Thread, Hit(t)
  PROVE  OwnCopies'
<1>1. pc[t] = "hit" /\ op[t].slot \in Slot /\ UNCHANGED <<reply, op, latest>>
  BY HitEffect DEF net
<1>2. CASE PcTo(t, "miss") /\ UNCHANGED slot
  <2>1. \A k \in Block, w \in Word : Behind(t, k, w) => Behind(t, k, w)'
    BY <1>1, <1>2 DEF Behind, Putting, PcTo
  <2> QED BY <1>1, <1>2, <2>1, OwnQuiet
<1>3. CASE PcTo(t, "idle") /\ UNCHANGED slot /\ op[t].kind = "get"
  <2>1. \A k \in Block, w \in Word : ~Behind(t, k, w)
    BY <1>3 DEF Behind, Putting
  <2> QED BY <1>1, <1>3, <2>1, OwnQuiet
<1>4. PcTo(t, "idle") => op[t].kind = "get"
  BY <1>1 DEF Hit, Goto, PcTo, TypeInv
<1> QED BY <1>2, <1>3, <1>4, OwnHitPut, HitEffect

\* A thread takes a slot only if there is no copy of its block.
LEMMA OwnGet ==
  ASSUME TypeInv, SlotInv, OwnCopies, NEW t \in Thread, GetBlock(t)
  PROVE  OwnCopies'
<1>1. pc[t] = "miss" /\ Me(t) \in Node /\ op[t].blk \in Block /\ UNCHANGED <<reply, latest>>
  BY GetBlockEffect, Here DEF net
<1>2. ASSUME NEW s, NEW o, OpTo(t, s, o), PcTo(t, "hit"), UNCHANGED slot
      PROVE  OwnCopies'
  <2>1. \A k \in Block, w \in Word : Behind(t, k, w) => Behind(t, k, w)'
    BY <1>1, <1>2 DEF Behind, Putting, PcTo, OpTo
  <2>2. \A u \in Thread : u # t => op'[u] = op[u]
    BY <1>2 DEF OpTo
  <2> QED BY <1>1, <1>2, <2>1, <2>2, OwnQuiet
<1>3. ASSUME NEW s \in Slot, NEW o, OpTo(t, s, o), NEW l \in {"fill", "writeback"}, PcTo(t, l), ~Pending(Me(t), op[t].blk),
             SlotSet(slot', slot, Me(t), s, None, slot[Me(t)][s].words, TRUE, slot[Me(t)][s].readers)
      PROVE  OwnCopies'
  <2>1. \A u \in Thread : u # t => op'[u] = op[u]
    BY <1>3 DEF OpTo
  <2>2. \A ws : ~Copy(Me(t), op[t].blk, ws)
    BY <1>1, <1>3, CopyNamed DEF Pending
  <2>3. \A k \in Block, w \in Word : Behind(t, k, w) => k = op[t].blk
    BY DEF Behind
  <2>4. ASSUME NEW a \in Node, NEW r \in Slot
        PROVE  /\ slot'[a][r].words = slot[a][r].words
               /\ \A k \in Block : slot'[a][r].key = k => Copy(a, k, slot[a][r].words)
               /\ \A u \in slot[a][r].readers : u # t => u \in slot'[a][r].readers
    <3>1. CASE a = Me(t) /\ r = s
      BY <1>1, <1>3, <3>1, CacheAssumption DEF SlotSet
    <3>2. CASE ~(a = Me(t) /\ r = s)
      <4>1. slot'[a][r] = slot[a][r]
        BY <1>3, <3>2 DEF SlotSet
      <4> QED BY <4>1 DEF Copy, InSlot
    <3> QED BY <3>1, <3>2
  <2>5. RepliesFrom
    BY <1>1, RepliesKept
  <2> QED BY <1>1, <1>3, <2>1, <2>2, <2>3, <2>4, <2>5, OwnMove
<1>4. CASE \E s \in unused[Me(t)] :
             /\ ~Pending(Me(t), op[t].blk)
             /\ SlotSet(slot', slot, Me(t), s, slot[Me(t)][s].key, slot[Me(t)][s].words, TRUE, slot[Me(t)][s].readers)
             /\ OpTo(t, s, op[t].old) /\ PcTo(t, "fill")
  <2>1. PICK s \in unused[Me(t)] :
             /\ ~Pending(Me(t), op[t].blk)
             /\ SlotSet(slot', slot, Me(t), s, slot[Me(t)][s].key, slot[Me(t)][s].words, TRUE, slot[Me(t)][s].readers)
             /\ OpTo(t, s, op[t].old) /\ PcTo(t, "fill")
    BY <1>4, Zenon
  <2>2. s \in Slot /\ slot[Me(t)][s].key = None
    BY <1>1 DEF TypeInv, SlotInv, Empty
  <2> QED BY <1>3, <2>1, <2>2
<1>5. \/ OpTo(t, hash[Me(t)][op[t].blk], op[t].old) /\ PcTo(t, "hit") /\ UNCHANGED local
      \/ \E s \in unused[Me(t)] :
           /\ ~Pending(Me(t), op[t].blk)
           /\ SlotSet(slot', slot, Me(t), s, slot[Me(t)][s].key, slot[Me(t)][s].words, TRUE, slot[Me(t)][s].readers)
           /\ OpTo(t, s, op[t].old) /\ PcTo(t, "fill")
      \/ \E s \in Slot :
           /\ ~Pending(Me(t), op[t].blk)
           /\ SlotSet(slot', slot, Me(t), s, None, slot[Me(t)][s].words, TRUE, slot[Me(t)][s].readers)
           /\ OpTo(t, s, slot[Me(t)][s].key) /\ PcTo(t, "writeback")
  BY GetBlockEffect, Zenon
<1>6. UNCHANGED local => UNCHANGED slot
  BY DEF local
<1>7. "fill" \in {"fill", "writeback"} /\ "writeback" \in {"fill", "writeback"}
  OBVIOUS
<1> QED BY <1>2, <1>3, <1>4, <1>5, <1>6, <1>7, Zenon

\* Nobody has answered when a request is sent.
LEMMA OwnAsk ==
  ASSUME TypeInv, ReplyInv, OwnCopies, NEW t \in Thread, pc[t] \in {"fill", "write"},
         NEW kind, AskTo(t, kind), UNCHANGED <<op, latest, slot, reply>>
  PROVE  OwnCopies'
<1>1. PICK n \in Node, h \in Node : n = Me(t) /\ h = Home[op[t].blk]
  BY Here
<1>2. dlock[n][h] = None /\ PcTo(t, "wait")
  BY <1>1 DEF AskTo
<1>3. reply[h][n] = <<>>
  <2>1. reply[h][n] \in Seq(Reply)
    BY DEF TypeInv
  <2>2. \A i \in 1 .. Len(reply[h][n]) : FALSE
    BY <1>2 DEF ReplyInv, Addressed
  <2> QED BY <2>1, <2>2
<1>4. \A k \in Block, w \in Word : ~Behind(t, k, w)
  BY DEF Behind
<1> QED BY <1>1, <1>2, <1>3, <1>4, OwnQuiet

\* A miss is asked for, or served at the home.
LEMMA OwnFill ==
  ASSUME TypeInv, SlotInv, ReplyInv, ThroughInv, OwnCopies, NEW t \in Thread, Fill(t)
  PROVE  OwnCopies'
<1>1. pc[t] = "fill" /\ UNCHANGED <<op, latest, reply>>
  BY FillEffect
<1>2. Filling(t) /\ \A k \in Block, w \in Word : ~Behind(t, k, w)
  BY <1>1 DEF Filling, Behind
<1>3. CASE \E kind \in {"ReadMiss", "WriteMiss"} : AskTo(t, kind) /\ UNCHANGED <<backend, dir, slot>>
  BY <1>1, <1>3, OwnAsk
<1>4. CASE Loads(t, backend[op[t].blk]) /\ PcTo(t, "filled")
  <2>1. PICK n, k : n = Me(t) /\ k = op[t].blk
    OBVIOUS
  <2>2. op[t].kind = "get"
    BY <1>1, <1>4 DEF Fill, Ask, Goto, PcTo, TypeInv
  <2>3. Own(n, k, backend[k])
    BY <1>2, <2>1, <2>2, OwnBackend DEF Late, Putting
  <2>4. RepliesFrom
    BY <1>1, RepliesKept
  <2>5. PICK ws : ws = backend[k]
    OBVIOUS
  <2>6. Own(n, k, ws) /\ Loads(t, ws)
    BY <1>4, <2>1, <2>3, <2>5
  <2> QED BY <1>1, <1>2, <1>4, <2>1, <2>4, <2>6, OwnLoad
<1>5. CASE PcTo(t, "missrenew") /\ UNCHANGED slot
  BY <1>1, <1>2, <1>5, OwnQuiet
<1> QED BY <1>3, <1>4, <1>5, FillEffect

\* A local write miss loads the block once its word is stored.
LEMMA OwnMissRenew ==
  ASSUME TypeInv, SlotInv, ThroughInv, OwnCopies, NEW t \in Thread, MissRenew(t)
  PROVE  OwnCopies'
<1>1. pc[t] = "missrenew" /\ PcTo(t, "filled") /\ Loads(t, backend[op[t].blk]) /\ UNCHANGED <<op, latest, reply>>
  BY MissRenewEffect
<1>2. Filling(t)
  BY <1>1 DEF Filling
<1>3. PICK n, k : n = Me(t) /\ k = op[t].blk
  OBVIOUS
<1>4. PICK ws : ws = backend[k]
  OBVIOUS
<1>5. \A w \in Word : ~Late(t, k, w)
  BY <1>1 DEF Late, Before, OnWay
<1>6. Own(n, k, ws) /\ Loads(t, ws)
  BY <1>1, <1>2, <1>3, <1>4, <1>5, OwnBackend
<1>7. RepliesFrom
  BY <1>1, RepliesKept
<1> QED BY <1>1, <1>2, <1>3, <1>6, <1>7, OwnLoad

\* A slot loses a reader, or the slot just filled gets its key.
LEMMA OwnLeave ==
  ASSUME TypeInv, OwnCopies, UNCHANGED <<latest, op>>, RepliesFrom, NEW t \in Thread, pc[t] \in {"wait", "renew", "filled"},
         PcTo(t, "idle"), NEW k, NEW b, NEW R, Mine(t).readers \ {t} \subseteq R,
         SlotSet(slot', slot, Me(t), op[t].slot, k, Mine(t).words, b, R),
         k = Mine(t).key \/ (pc[t] = "filled" /\ k = op[t].blk)
  PROVE  OwnCopies'
<1>1. PICK n \in Node, s \in Slot : n = Me(t) /\ s = op[t].slot
  BY Here
<1>2. \A j \in Block, w \in Word : ~Behind(t, j, w)
  BY DEF Behind
<1>3. ASSUME NEW a \in Node, NEW r \in Slot
      PROVE  /\ slot'[a][r].words = slot[a][r].words
             /\ \A j \in Block : slot'[a][r].key = j => Copy(a, j, slot[a][r].words)
             /\ \A u \in slot[a][r].readers : u # t => u \in slot'[a][r].readers
  <2>1. CASE a = n /\ r = s
    <3>1. slot'[n][s].key = k /\ slot'[n][s].words = slot[n][s].words /\ slot'[n][s].readers = R
      BY <1>1 DEF SlotSet, Mine
    <3>2. \A j \in Block : k = j => Copy(n, j, slot[n][s].words)
      <4>1. CASE k = Mine(t).key
        BY <1>1, <4>1 DEF Copy, InSlot, Mine
      <4>2. CASE pc[t] = "filled" /\ k = op[t].blk
        BY <1>1, <4>2 DEF Copy, InFilled
      <4> QED BY <4>1, <4>2
    <3> QED BY <1>1, <2>1, <3>1, <3>2 DEF Mine
  <2>2. CASE ~(a = n /\ r = s)
    <3>1. slot'[a][r] = slot[a][r]
      BY <1>1, <2>2 DEF SlotSet
    <3> QED BY <3>1 DEF Copy, InSlot
  <2> QED BY <2>1, <2>2
<1> QED BY <1>2, <1>3, OwnMove

\* A thread takes its reply, to fill its slot with or to end its write.
LEMMA OwnAnswered ==
  ASSUME TypeInv, SlotInv, OwnCopies, NEW t \in Thread, Answered(t)
  PROVE  OwnCopies'
<1>1. PICK n, h, k : n = Me(t) /\ k = op[t].blk /\ h = Home[k]
  OBVIOUS
<1>2. /\ pc[t] = "wait" /\ reply[h][n] # <<>> /\ reply'[h][n] = Tail(reply[h][n])
      /\ \A x, y \in Node : x # h \/ y # n => reply'[x][y] = reply[x][y]
      /\ UNCHANGED <<op, latest>>
  BY <1>1, AnsweredEffect
<1>3. n \in Node /\ h \in Node /\ k \in Block /\ reply[h][n] \in Seq(Reply)
  BY <1>1, <1>2, Here DEF TypeInv
<1>4. RepliesFrom
  BY <1>2, <1>3, RepliesKept
<1>5. CASE /\ PcTo(t, "idle")
           /\ SlotSet(slot', slot, n, op[t].slot, Mine(t).key, Mine(t).words, Mine(t).wlock, Mine(t).readers \ {t})
  <2>1. PICK j, b, R : j = Mine(t).key /\ b = Mine(t).wlock /\ R = Mine(t).readers \ {t}
    OBVIOUS
  <2>2. SlotSet(slot', slot, Me(t), op[t].slot, j, Mine(t).words, b, R)
    BY <1>1, <1>5, <2>1
  <2> QED BY <1>2, <1>4, <1>5, <2>1, <2>2, OwnLeave
<1>6. CASE t \notin Mine(t).readers /\ Loads(t, Head(reply[h][n]).words) /\ PcTo(t, "filled")
  <2>1. Waits(t) /\ Filling(t)
    BY <1>2, <1>6 DEF Waits, Filling
  <2>2. Head(reply[h][n]) = reply[h][n][1] /\ 1 \in 1 .. Len(reply[h][n])
    BY <1>2, <1>3
  <2>3. PICK ws : ws = reply[h][n][1].words
    OBVIOUS
  <2>4. InReply(n, k, ws, t)
    BY <1>1, <2>1, <2>2, <2>3 DEF InReply
  <2>5. Own(n, k, ws)
    BY <1>3, <2>4 DEF OwnCopies, Copy
  <2>6. Loads(t, ws)
    BY <1>6, <2>2, <2>3
  <2> QED BY <1>1, <1>2, <1>4, <1>6, <2>1, <2>5, <2>6, OwnLoad
<1>7. \/ /\ PcTo(t, "idle")
         /\ SlotSet(slot', slot, n, op[t].slot, Mine(t).key, Mine(t).words, Mine(t).wlock, Mine(t).readers \ {t})
      \/ t \notin Mine(t).readers /\ Loads(t, Head(reply[h][n]).words) /\ PcTo(t, "filled")
  BY <1>1, AnsweredEffect
<1> QED BY <1>5, <1>6, <1>7

\* A thread goes on with its operation.
LEMMA OwnWork ==
  ASSUME TypeInv, SlotInv, ReplyInv, ThroughInv, OwnCopies, NEW t \in Thread, Work(t)
  PROVE  OwnCopies'
<1>1. CASE Writeback(t)
  <2>1. pc[t] = "writeback" /\ PcTo(t, "fill") /\ UNCHANGED <<slot, reply, op, latest>>
    BY <1>1, WritebackEffect DEF local
  <2>2. \A k \in Block, w \in Word : ~Behind(t, k, w)
    BY <2>1 DEF Behind
  <2> QED BY <2>1, <2>2, OwnQuiet
<1>2. CASE Filled(t)
  <2>1. /\ pc[t] = "filled" /\ PcTo(t, "idle") /\ UNCHANGED <<reply, op, latest>>
        /\ SlotSet(slot', slot, Me(t), op[t].slot, op[t].blk, Mine(t).words, FALSE, Mine(t).readers)
    BY <1>2, FilledEffect DEF net
  <2>2. RepliesFrom
    BY <2>1, RepliesKept
  <2>3. PICK k, R : k = op[t].blk /\ R = Mine(t).readers
    OBVIOUS
  <2>4. SlotSet(slot', slot, Me(t), op[t].slot, k, Mine(t).words, FALSE, R)
    BY <2>1, <2>3
  <2> QED BY <2>1, <2>2, <2>3, <2>4, OwnLeave
<1>3. CASE Write(t)
  <2>1. pc[t] = "write" /\ UNCHANGED <<slot, reply, op, latest>>
    BY <1>3, WriteEffect DEF local
  <2>2. CASE AskTo(t, "Write")
    BY <2>1, <2>2, OwnAsk
  <2>3. CASE PcTo(t, "renew")
    <3>1. \A k \in Block, w \in Word : ~Behind(t, k, w)
      BY <2>1 DEF Behind
    <3> QED BY <2>1, <2>3, <3>1, OwnQuiet
  <2> QED BY <1>3, <2>2, <2>3, WriteEffect
<1>4. CASE WriteRenew(t)
  <2>1. /\ pc[t] = "renew" /\ PcTo(t, "idle") /\ UNCHANGED <<reply, op, latest>>
        /\ SlotSet(slot', slot, Me(t), op[t].slot, Mine(t).key, Mine(t).words, Mine(t).wlock, Mine(t).readers \ {t})
    BY <1>4, WriteRenewEffect
  <2>2. RepliesFrom
    BY <2>1, RepliesKept
  <2>3. PICK k, b, R : k = Mine(t).key /\ b = Mine(t).wlock /\ R = Mine(t).readers \ {t}
    OBVIOUS
  <2>4. SlotSet(slot', slot, Me(t), op[t].slot, k, Mine(t).words, b, R)
    BY <2>1, <2>3
  <2> QED BY <2>1, <2>2, <2>3, <2>4, OwnLeave
<1> QED BY <1>1, <1>2, <1>3, <1>4, OwnLookup, OwnHit, OwnGet, OwnFill, OwnMissRenew, OwnAnswered DEF Work

\* What reaches the copies of node n is not written by its threads.
Touches(n, k, W) == \A t \in Thread : Me(t) = n => \A w \in Writes(t, k) : w \notin W

\* A protocol thread moves on: copies with a key may get words that their node
\* does not write, and a reply may come that is right.
LEMMA OwnServe ==
  ASSUME TypeInv, SlotInv, OwnCopies, UNCHANGED <<latest, pc, op>>,
         NEW k \in Block, NEW W \in SUBSET Word, NEW v, Renewed(k, W, v),
         \A a \in Node, r \in Slot : slot'[a][r].words = slot[a][r].words \/ Touches(a, k, W),
         \A x, y \in Node : \A i \in 1 .. Len(reply'[x][y]) :
           \/ \E j \in 1 .. Len(reply[x][y]) : reply[x][y][j] = reply'[x][y][i]
           \/ \A u \in Thread, b \in Block : Waits(u) /\ Me(u) = y /\ b = op[u].blk /\ Home[b] = x =>
                                               Own(y, b, reply'[x][y][i].words)
  PROVE  OwnCopies'
<1>1. \A u \in Thread, j \in Block, w \in Word : Behind(u, j, w) => Behind(u, j, w)'
  BY DEF Behind, Putting
<1>2. \A n \in Node, j \in Block : \A ws : Own(n, j, ws) => Own(n, j, ws)'
  <2>1. \A u \in Thread, j \in Block : \A w \in Writes(u, j) : w \in Word
    BY CacheAssumption DEF Writes
  <2> QED BY <1>1, <2>1 DEF Own
<1>3. \A u \in Thread : Me(u) \in Node /\ (pc[u] \in {"filled", "wait"} => op[u].slot \in Slot)
  BY Here
<1>4. ASSUME NEW n \in Node, NEW j \in Block, NEW ws, Copy(n, j, ws)'
      PROVE  Own(n, j, ws)' \/ Copy(n, j, ws)
  <2>1. ASSUME NEW s \in Slot, InSlot(n, j, ws, s)'
        PROVE  Own(n, j, ws)' \/ Copy(n, j, ws)
    <3>1. slot[n][s].key = j
      BY <2>1 DEF InSlot, Renewed
    <3>2. CASE slot'[n][s].words = slot[n][s].words
      BY <2>1, <3>1, <3>2 DEF InSlot, Copy
    <3>3. CASE slot'[n][s].words # slot[n][s].words
      <4>1. j = k /\ ws = Overwrite(slot[n][s].words, W, v) /\ Touches(n, k, W)
        BY <2>1, <3>1, <3>3 DEF Renewed, InSlot
      <4>2. PICK f : f = slot[n][s].words
        OBVIOUS
      <4>3. Own(n, j, f)
        BY <3>1, <4>2 DEF OwnCopies, Copy, InSlot
      <4>4. \A u \in Thread : Me(u) = n => \A w \in Writes(u, j) : ws[w] = f[w]
        BY <4>1, <4>2, CacheAssumption DEF Touches, Overwrite, Writes
      <4>5. Own(n, j, ws)
        BY <4>3, <4>4 DEF Own
      <4> QED BY <1>2, <4>5
    <3> QED BY <3>2, <3>3
  <2>2. ASSUME NEW u \in Thread, InFilled(n, j, ws, u)'
        PROVE  Copy(n, j, ws)
    <3>1. pc[u] = "filled" /\ Me(u) = n /\ op[u].slot \in Slot /\ Filling(u)
      BY <1>3, <2>2 DEF InFilled, Filling
    <3>2. slot[n][op[u].slot].key = None
      BY <3>1 DEF SlotInv, Filled1, Mine
    <3>3. CASE slot'[n][op[u].slot].words = slot[n][op[u].slot].words
      <4>1. InFilled(n, j, ws, u)
        BY <2>2, <3>1, <3>3 DEF InFilled
      <4> QED BY <4>1 DEF Copy
    <3>4. CASE slot'[n][op[u].slot].words # slot[n][op[u].slot].words
      BY <3>1, <3>2, <3>4, CacheAssumption DEF Renewed
    <3> QED BY <3>3, <3>4
  <2>3. ASSUME NEW u \in Thread, InReply(n, j, ws, u)'
        PROVE  Own(n, j, ws)' \/ Copy(n, j, ws)
    <3>1. Waits(u) /\ Me(u) = n /\ op[u].blk = j
      BY <1>3, <2>3 DEF InReply, Waits, Mine, Renewed
    <3>2. PICK h \in Node : h = Home[j]
      BY CacheAssumption
    <3>3. PICK i \in 1 .. Len(reply'[h][n]) : reply'[h][n][i].words = ws
      BY <2>3, <3>2 DEF InReply
    <3>4. CASE \E x \in 1 .. Len(reply[h][n]) : reply[h][n][x] = reply'[h][n][i]
      <4>1. InReply(n, j, ws, u)
        BY <3>1, <3>2, <3>3, <3>4 DEF InReply
      <4> QED BY <4>1 DEF Copy
    <3>5. CASE Own(n, j, reply'[h][n][i].words)
      BY <1>2, <3>3, <3>5
    <3> QED BY <3>1, <3>2, <3>4, <3>5
  <2> QED BY <1>4, <2>1, <2>2, <2>3 DEF Copy
<1> QED BY <1>1, <1>4, OwnKept

\* The queues after a message was sent to nodes that it is clean for.
LEMMA CleanSent ==
  ASSUME TypeInv, CleanCtl, NEW m, Sent(m),
         \A x, y \in Node : ctl'[x][y] = ctl[x][y] \/ Clean(m, x, y)
  PROVE  CleanCtl'
<1>1. ASSUME NEW x \in Node, NEW y \in Node, NEW i \in 1 .. Len(ctl'[x][y])
      PROVE  Clean(ctl'[x][y][i], x, y)
  <2>1. CASE ctl'[x][y] = ctl[x][y]
    BY <2>1 DEF CleanCtl
  <2>2. CASE ctl'[x][y] # ctl[x][y]
    <3>1. m \in Messages /\ ctl'[x][y] = Append(ctl[x][y], m) /\ ctl[x][y] \in Seq(Messages)
      BY <2>2 DEF Sent, TypeInv
    <3>2. /\ Len(ctl[x][y]) \in Nat /\ Len(ctl'[x][y]) = Len(ctl[x][y]) + 1 /\ ctl'[x][y][Len(ctl[x][y]) + 1] = m
          /\ \A j \in 1 .. Len(ctl[x][y]) : ctl'[x][y][j] = ctl[x][y][j]
      BY <3>1, AppendAt
    <3>3. i \in 1 .. Len(ctl[x][y]) \/ i = Len(ctl[x][y]) + 1
      BY <3>2
    <3>4. CASE i \in 1 .. Len(ctl[x][y])
      BY <3>2, <3>4 DEF CleanCtl
    <3>5. CASE i = Len(ctl[x][y]) + 1
      BY <2>2, <3>2, <3>5
    <3> QED BY <3>3, <3>4, <3>5
  <2> QED BY <2>1, <2>2
<1>2. ASSUME NEW x \in Node, NEW y \in Node, NEW i \in 1 .. Len(ctl'[x][y]), NEW c, c = ctl'[x][y][i], Clean(c, x, y)
      PROVE  Clean(ctl[x][y][i], x, y)'
  BY <1>2 DEF Clean, Spares, From
<1> QED BY <1>1, <1>2 DEF CleanCtl

\* A queue gets a message that is neither a Renew nor being answered.
LEMMA CleanAdd ==
  ASSUME TypeInv, CleanCtl, NEW a \in Node, NEW b \in Node, NEW m \in Messages, CtlAdd(a, b, m),
         m.kind \notin {"Renew", "WriteRenew", "MissRenew"}
  PROVE  CleanCtl'
<1>1. \A x, y \in Node : Clean(m, x, y)
  BY DEF Clean, Spares, From
<1>2. Sent(m)
  BY DEF Sent, CtlAdd
<1> QED BY <1>1, <1>2, CleanSent

\* The protocol threads after one was given something to handle.
LEMMA CleanServe ==
  ASSUME TypeInv, CleanSrv, NEW n \in Node, NEW p \in Node, NEW i \in Servers(n, p), NEW v, SrvTo(n, p, i, v), Clean(v, p, n)
  PROVE  CleanSrv'
<1>1. ASSUME NEW x \in Node, NEW y \in Node, NEW j \in Servers(y, x)
      PROVE  Clean(srv'[y][x][j], x, y)
  <2>1. CASE y = n /\ x = p /\ j = i
    BY <2>1 DEF SrvTo
  <2>2. CASE ~(y = n /\ x = p /\ j = i)
    <3>1. srv'[y][x][j] = srv[y][x][j]
      BY <2>2 DEF SrvTo
    <3> QED BY <3>1 DEF CleanSrv
  <2> QED BY <2>1, <2>2
<1>2. ASSUME NEW x \in Node, NEW y \in Node, NEW j \in Servers(y, x), NEW c, c = srv'[y][x][j], Clean(c, x, y)
      PROVE  Clean(srv[y][x][j], x, y)'
  BY <1>2 DEF Clean, Spares, From
<1> QED BY <1>1, <1>2 DEF CleanSrv

\* SendRenew spares the writer.
LEMMA RenewSpares ==
  ASSUME TypeInv, NEW h \in Node, NEW src \in Node, NEW m, SendRenew(h, src, m)
  PROVE  \A x \in Node : ctl'[x][src] = ctl[x][src]
<1>1. ctl \in [Node -> [Node -> Seq(Messages)]]
  BY DEF TypeInv
<1>2. PICK row : row = [i \in Node |-> IF i \in dir[m.blk] \ {src, h} THEN Append(ctl[h][i], RenewMsg(m)) ELSE ctl[h][i]]
  OBVIOUS
<1>3. ctl' = [ctl EXCEPT ![h] = row]
  BY <1>2, Zenon DEF SendRenew
<1>4. ctl'[h] = row /\ \A x \in Node : x # h => ctl'[x] = ctl[x]
  BY <1>1, <1>3
<1>5. row[src] = ctl[h][src]
  BY <1>2
<1> QED BY <1>4, <1>5

\* The words of a put are not written on other nodes.
LEMMA PutTouches ==
  ASSUME NEW u \in Thread, NEW k \in Block, NEW ws, <<k, ws>> \in Puts[u], NEW W, W \subseteq ws, NEW n, n # Me(u)
  PROVE  Touches(n, k, W)
BY Apart DEF Touches

\* The writer's Renews are clean.
LEMMA RenewClean ==
  ASSUME TypeInv, CleanCtl, NEW u \in Thread, NEW k \in Block, NEW ws, <<k, ws>> \in Puts[u],
         NEW m, Sent(m), m.kind = "Renew", m.blk = k, m.words \subseteq ws,
         \A x \in Node : ctl'[x][Me(u)] = ctl[x][Me(u)]
  PROVE  CleanCtl'
<1>1. \A x, y \in Node : y # Me(u) => Clean(m, x, y)
  BY PutTouches DEF Touches, Clean, Spares, From
<1> QED BY <1>1, CleanSent

\* A thread sends requests, write-backs and clean Renews.
LEMMA CleanWork ==
  ASSUME TypeInv, ThroughInv, CleanCtl, CleanSrv, NEW t \in Thread, Work(t)
  PROVE  CleanCtl' /\ CleanSrv'
<1>1. UNCHANGED ctl => CleanCtl'
  BY DEF CleanCtl, Clean, Spares, From
<1>2. UNCHANGED srv => CleanSrv'
  BY DEF CleanSrv, Clean, Spares, From
<1>3. CASE Lookup(t) \/ Hit(t) \/ GetBlock(t) \/ Filled(t) \/ Answered(t)
  <2>1. UNCHANGED <<ctl, srv>>
    BY <1>3, LookupEffect, HitEffect, GetBlockEffect, FilledEffect, AnsweredEffect DEF net
  <2> QED BY <1>1, <1>2, <2>1
<1>4. ASSUME NEW kind \in {"ReadMiss", "WriteMiss", "Write"}, pc[t] # "idle", AskTo(t, kind)
      PROVE  CleanCtl'
  <2>1. PICK n \in Node, h \in Node, m \in Messages : n = Me(t) /\ h = Home[op[t].blk] /\ m = Fields(t, kind)
    BY <1>4, Here DEF AskTo
  <2>2. m.kind = kind /\ CtlAdd(n, h, m)
    BY <1>4, <2>1 DEF AskTo, Fields
  <2> QED BY <2>2, CleanAdd
<1>5. CASE Writeback(t)
  <2>1. UNCHANGED srv /\ pc[t] = "writeback" /\ op[t].old \in Block
    BY <1>5, WritebackEffect
  <2>2. PICK n \in Node, h \in Node, m \in Messages : n = Me(t) /\ h = Home[op[t].old] /\ m = [kind |-> "Writeback", blk |-> op[t].old]
    BY <2>1, Here DEF Messages
  <2>3. m.kind = "Writeback"
    BY <2>2
  <2>4. UNCHANGED ctl \/ CtlAdd(n, h, m)
    BY <1>5, <2>2, WritebackEffect
  <2> QED BY <1>1, <1>2, <2>1, <2>3, <2>4, CleanAdd
<1>6. CASE Fill(t)
  <2>1. UNCHANGED srv /\ pc[t] = "fill"
    BY <1>6, FillEffect
  <2>2. UNCHANGED ctl \/ \E kind \in {"ReadMiss", "WriteMiss"} : AskTo(t, kind)
    BY <1>6, FillEffect
  <2> QED BY <1>1, <1>2, <1>4, <2>1, <2>2
<1>7. CASE Write(t)
  <2>1. UNCHANGED srv /\ pc[t] = "write" /\ (UNCHANGED ctl \/ AskTo(t, "Write"))
    BY <1>7, WriteEffect
  <2> QED BY <1>1, <1>2, <1>4, <2>1
<1>8. ASSUME pc[t] \in {"missrenew", "renew"}, NEW r, SendRenew(Me(t), Me(t), r),
             \E m : Sent(m) /\ m.kind = "Renew" /\ m.blk = op[t].blk /\ m.words \subseteq op[t].words
      PROVE  CleanCtl'
  <2>1. PICK m : Sent(m) /\ m.kind = "Renew" /\ m.blk = op[t].blk /\ m.words \subseteq op[t].words
    BY <1>8
  <2>2. op[t].blk \in Block /\ Me(t) \in Node
    BY <1>8, Here
  <2>3. <<op[t].blk, op[t].words>> \in Puts[t]
    BY <1>8 DEF ThroughInv, OwnPut, Putting
  <2>4. \A x \in Node : ctl'[x][Me(t)] = ctl[x][Me(t)]
    BY <1>8, <2>2, RenewSpares
  <2> QED BY <2>1, <2>2, <2>3, <2>4, RenewClean
<1>9. CASE MissRenew(t)
  <2>1. UNCHANGED srv /\ pc[t] = "missrenew"
    BY <1>9, MissRenewEffect
  <2>2. \E m : Sent(m) /\ m.kind = "Renew" /\ m.blk = op[t].blk /\ m.words \subseteq op[t].words
    BY <1>9, MissRenewEffect
  <2>3. SendRenew(Me(t), Me(t), [Fields(t, "Write") EXCEPT !.words = FirstWord(@)])
    BY <1>9, Zenon DEF MissRenew
  <2> QED BY <1>2, <1>8, <2>1, <2>2, <2>3
<1>10. CASE WriteRenew(t)
  <2>1. UNCHANGED srv /\ pc[t] = "renew"
    BY <1>10, WriteRenewEffect
  <2>2. \E m : Sent(m) /\ m.kind = "Renew" /\ m.blk = op[t].blk /\ m.words \subseteq op[t].words
    BY <1>10, WriteRenewEffect
  <2>3. SendRenew(Me(t), Me(t), Fields(t, "Write"))
    BY <1>10, Zenon DEF WriteRenew
  <2> QED BY <1>2, <1>8, <2>1, <2>2, <2>3
<1> QED BY <1>3, <1>5, <1>6, <1>7, <1>9, <1>10 DEF Work

\* A reply that is served now is right: the put of the thread that waits for it
\* is stored.
LEMMA ServedOwn ==
  ASSUME TypeInv, SlotInv, ReplyInv, ThroughInv, NEW n \in Node, NEW p \in Node, NEW i \in Servers(n, p),
         srv[n][p][i].kind \in Requests, srv[n][p][i].kind \notin Unstored, Replied(n, p, srv[n][p][i].blk),
         NEW x \in Node, NEW y \in Node, NEW j \in 1 .. Len(reply'[x][y])
  PROVE  \/ \E a \in 1 .. Len(reply[x][y]) : reply[x][y][a] = reply'[x][y][j]
         \/ \A u \in Thread, b \in Block : Waits(u) /\ Me(u) = y /\ b = op[u].blk /\ Home[b] = x =>
                                             Own(y, b, reply'[x][y][j].words)
<1>1. PICK k : k = srv[n][p][i].blk
  OBVIOUS
<1>2. reply[n][p] \in Seq(Reply) /\ reply' \in [Node -> [Node -> Seq(Reply)]]
  BY DEF TypeInv, Replied
<1>3. CASE x # n \/ y # p
  BY <1>3 DEF Replied
<1>4. CASE x = n /\ y = p
  <2>1. PICK q : q = [blk |-> k, words |-> backend[k]]
    OBVIOUS
  <2>2. q.words = backend[k] /\ reply'[n][p] = Append(reply[n][p], q)
    BY <1>1, <2>1 DEF Replied
  <2>3. \/ j \in 1 .. Len(reply[n][p]) /\ reply'[n][p][j] = reply[n][p][j]
        \/ reply'[n][p][j] = q
    <3>1. j \in 1 .. Len(reply'[n][p])
      BY <1>4
    <3>2. PICK c \in Seq(Reply), d \in Seq(Reply) : c = reply[n][p] /\ d = reply'[n][p] /\ q \in Reply
      <4>1. k \in Block /\ backend[k] \in [Word -> Nat]
        BY <1>1, Handled, MessageFields DEF Requests, None, TypeInv
      <4> QED BY <1>2, <2>1, <4>1 DEF Reply
    <3>3. /\ Len(c) \in Nat /\ Len(d) = Len(c) + 1 /\ d[Len(c) + 1] = q
          /\ \A a \in 1 .. Len(c) : d[a] = c[a]
      BY <2>2, <3>2, AppendAt
    <3> QED BY <3>1, <3>2, <3>3
  <2>4. ASSUME NEW u \in Thread, NEW b \in Block, Waits(u), Me(u) = p, b = op[u].blk, Home[b] = n
        PROVE  Own(p, b, backend[k])
    <3>1. pc[u] = "wait" /\ dlock[p][n] = u /\ Filling(u)
      BY <2>4 DEF Waits, ReplyInv, Waiter, Filling
    <3>2. Serves(p, n, i)
      BY DEF Serves
    <3>3. k = b
      BY <1>1, <2>4, <3>1, <3>2 DEF ReplyInv, Addressed
    <3>4. ~Sending(p, n)
      <4>1. \A a \in 1 .. Len(ctl[p][n]) : ~Asks(p, n, a)
        BY <3>2 DEF ReplyInv, Alone
      <4>2. \A a \in Servers(n, p) : Serves(p, n, a) => a = i
        BY <3>2 DEF ReplyInv, Alone
      <4>3. Unstored \subseteq Requests
        BY DEF Unstored, Requests
      <4> QED BY <4>1, <4>2, <4>3 DEF Sending, Asks, Serves
    <3>5. \A w \in Word : ~Late(u, b, w)
      BY <2>4, <3>1, <3>4 DEF Late, OnWay, Before
    <3> QED BY <2>4, <3>1, <3>3, <3>5, OwnBackend
  <2> QED BY <1>4, <2>2, <2>3, <2>4
<1> QED BY <1>3, <1>4

\* A step of a protocol thread that leaves the slots alone.
LEMMA OwnServeQuiet ==
  ASSUME TypeInv, SlotInv, OwnCopies, UNCHANGED <<latest, pc, op, slot>>,
         \A x, y \in Node : \A i \in 1 .. Len(reply'[x][y]) :
           \/ \E j \in 1 .. Len(reply[x][y]) : reply[x][y][j] = reply'[x][y][i]
           \/ \A u \in Thread, b \in Block : Waits(u) /\ Me(u) = y /\ b = op[u].blk /\ Home[b] = x =>
                                               Own(y, b, reply'[x][y][i].words),
         NEW k \in Block
  PROVE  OwnCopies'
<1>1. Renewed(k, {}, 0)
  BY DEF Renewed, TypeInv, Slots
<1>2. {} \in SUBSET Word
  OBVIOUS
<1>3. \A a \in Node, r \in Slot : slot'[a][r].words = slot[a][r].words
  OBVIOUS
<1> QED BY <1>1, <1>2, <1>3, OwnServe

\* A protocol thread handles a message.
LEMMA OwnProtocol ==
  ASSUME TypeInv, SlotInv, ReplyInv, ThroughInv, OwnInv, NEW n \in Node, NEW p \in Node, NEW i \in Servers(n, p),
         Protocol(n, p, i)
  PROVE  OwnInv'
<1>1. PICK m : m = srv[n][p][i]
  OBVIOUS
<1>2. Clean(m, p, n) /\ m \in Messages \cup {Idle}
  BY <1>1, Handled DEF OwnInv, CleanSrv
<1>3. Clean(Idle, p, n)
  BY DEF Clean, Spares, From, Idle, None
<1>4. SrvTo(n, p, i, Idle) => CleanSrv'
  BY <1>3, CleanServe DEF OwnInv
<1>5. UNCHANGED ctl => CleanCtl'
  BY DEF OwnInv, CleanCtl, Clean, Spares, From
<1>6. UNCHANGED reply => \A x, y \in Node : \A j \in 1 .. Len(reply'[x][y]) :
                            \E a \in 1 .. Len(reply[x][y]) : reply[x][y][a] = reply'[x][y][j]
  OBVIOUS
<1>7. CASE Receive(n, p, i)
  <2>1. /\ ctl[p][n] # <<>> /\ SrvTo(n, p, i, Head(ctl[p][n])) /\ ctl'[p][n] = Tail(ctl[p][n])
        /\ \A x, y \in Node : x # p \/ y # n => ctl'[x][y] = ctl[x][y]
        /\ UNCHANGED <<slot, reply, pc, op, latest>>
    BY <1>7, ReceiveEffect DEF local
  <2>2. PICK c \in Seq(Messages) : c = ctl[p][n]
    BY DEF TypeInv
  <2>3. /\ Head(c) = c[1] /\ 1 \in 1 .. Len(c)
        /\ \A j \in 1 .. Len(Tail(c)) : j + 1 \in 1 .. Len(c) /\ Tail(c)[j] = c[j + 1]
    BY <2>1, <2>2, TailAt
  <2>4. Clean(c[1], p, n)
    BY <2>2, <2>3 DEF OwnInv, CleanCtl
  <2>5. CleanSrv'
    BY <2>1, <2>2, <2>3, <2>4, CleanServe DEF OwnInv
  <2>6. CleanCtl'
    <3>1. ASSUME NEW x \in Node, NEW y \in Node, NEW j \in 1 .. Len(ctl'[x][y])
          PROVE  Clean(ctl'[x][y][j], x, y)
      <4>1. CASE x = p /\ y = n
        <5>1. j + 1 \in 1 .. Len(c) /\ ctl'[x][y][j] = c[j + 1]
          BY <2>1, <2>2, <2>3, <4>1
        <5> QED BY <2>2, <4>1, <5>1 DEF OwnInv, CleanCtl
      <4>2. CASE x # p \/ y # n
        BY <2>1, <4>2 DEF OwnInv, CleanCtl
      <4> QED BY <4>1, <4>2
    <3>2. ASSUME NEW x \in Node, NEW y \in Node, NEW j \in 1 .. Len(ctl'[x][y]), NEW d, d = ctl'[x][y][j], Clean(d, x, y)
          PROVE  Clean(ctl[x][y][j], x, y)'
      BY <3>2 DEF Clean, Spares, From
    <3> QED BY <3>1, <3>2 DEF CleanCtl
  <2>7. c[1].blk \in Block
    BY <2>2, <2>3 DEF Messages
  <2>8. OwnCopies'
    BY <1>6, <2>1, <2>7, OwnServeQuiet DEF OwnInv
  <2> QED BY <2>5, <2>6, <2>8 DEF OwnInv
<1>8. CASE ServerReadMiss(n, p, i)
  <2>1. /\ m.kind = "ReadMiss" /\ m.blk \in Block /\ SrvTo(n, p, i, Idle) /\ Replied(n, p, m.blk)
        /\ UNCHANGED <<slot, ctl, pc, op, latest>>
    BY <1>1, <1>8, ServerReadMissEffect DEF local
  <2>2. m.kind \in Requests /\ m.kind \notin Unstored
    BY <2>1 DEF Requests, Unstored
  <2>3. OwnCopies'
    BY <1>1, <2>1, <2>2, ServedOwn, OwnServeQuiet DEF OwnInv
  <2> QED BY <1>4, <1>5, <2>1, <2>3 DEF OwnInv
<1>9. CASE ServerWriteback(n, p, i)
  <2>1. m.kind = "Writeback" /\ SrvTo(n, p, i, Idle) /\ UNCHANGED <<slot, ctl, reply, pc, op, latest>>
    BY <1>1, <1>9, ServerWritebackEffect DEF local
  <2>2. m.blk \in Block
    BY <1>2, <2>1, MessageFields DEF None
  <2>3. OwnCopies'
    BY <1>6, <2>1, <2>2, OwnServeQuiet DEF OwnInv
  <2> QED BY <1>4, <1>5, <2>1, <2>3 DEF OwnInv
<1>10. CASE ServerRenew(n, p, i)
  <2>1. /\ m.kind = "Renew" /\ SrvTo(n, p, i, Idle) /\ Renewed(m.blk, m.words, m.val)
        /\ UNCHANGED <<ctl, reply, pc, op, latest>>
    BY <1>1, <1>10, ServerRenewEffect
  <2>2. m.blk \in Block /\ m.words \in SUBSET Word
    BY <1>2, <2>1, MessageFields DEF None
  <2>3. Touches(n, m.blk, m.words)
    BY <1>2, <2>1 DEF Clean, Spares, Touches
  <2>4. PICK row : slot' = [slot EXCEPT ![n] = row]
    BY <1>10, Zenon DEF ServerRenew
  <2>5. \A a \in Node : a # n => slot'[a] = slot[a]
    BY <2>4 DEF TypeInv
  <2>6. \A a \in Node, r \in Slot : slot'[a][r].words = slot[a][r].words \/ Touches(a, m.blk, m.words)
    BY <2>3, <2>5
  <2>7. OwnCopies'
    BY <1>6, <2>1, <2>2, <2>6, OwnServe DEF OwnInv
  <2> QED BY <1>4, <1>5, <2>1, <2>7 DEF OwnInv
<1>11. CASE ServerPut(n, p, i)
  <2>1. m.kind \in {"Write", "WriteMiss"} /\ UNCHANGED <<slot, ctl, reply, pc, op, latest>>
    BY <1>1, <1>11, ServerPutEffect DEF local
  <2>2. PICK v : v.kind \in {"WriteRenew", "MissRenew"} /\ v.blk = m.blk /\ v.words = m.words /\ SrvTo(n, p, i, v)
    BY <1>1, <1>11, ServerPutEffect
  <2>3. m.blk \in Block /\ m.kind \in Unstored
    BY <1>2, <2>1, MessageFields DEF None, Unstored
  <2>4. Carries(m, p, n)
    BY <1>1, <2>3 DEF ThroughInv, PairCarries
  <2>5. PICK u \in Thread : u = dlock[p][n] /\ pc[u] = "wait" /\ Me(u) = p
    BY <2>4 DEF Carries, TypeInv, ReplyInv, Holder
  <2>6. <<op[u].blk, op[u].words>> \in Puts[u]
    BY <2>4, <2>5 DEF Carries, ThroughInv, OwnPut, Putting
  <2>7. <<v.blk, v.words>> \in Puts[u]
    BY <2>2, <2>4, <2>5, <2>6 DEF Carries
  <2>8. Clean(v, p, n)
    BY <2>2, <2>5, <2>7 DEF Clean, Spares, From
  <2>9. CleanSrv'
    BY <2>2, <2>8, CleanServe DEF OwnInv
  <2>10. OwnCopies'
    BY <1>6, <2>1, <2>3, OwnServeQuiet DEF OwnInv
  <2> QED BY <1>5, <2>1, <2>9, <2>10 DEF OwnInv
<1>12. CASE ServerAnswer(n, p, i)
  <2>1. /\ m.kind \in {"WriteRenew", "MissRenew"} /\ Renewed(m.blk, m.words, m.val)
        /\ SrvTo(n, p, i, Idle) /\ Replied(n, p, m.blk) /\ UNCHANGED <<pc, op, latest>>
    BY <1>1, <1>12, ServerAnswerEffect
  <2>2. m.blk \in Block /\ m.words \in SUBSET Word
    BY <1>2, <2>1, MessageFields DEF None
  <2>3. PICK u \in Thread : Me(u) = p /\ <<m.blk, m.words>> \in Puts[u]
    BY <1>2, <2>1 DEF Clean, From
  <2>4. SendRenew(n, p, m) /\ slot' = RenewHome(n, p, m)
    BY <1>1, <1>12, Zenon DEF ServerAnswer
  <2>5. CleanCtl'
    <3>1. PICK r : Sent(r) /\ r.kind = "Renew" /\ r.blk = m.blk /\ r.words \subseteq m.words
      BY <1>1, <1>12, ServerAnswerEffect
    <3>2. \A x \in Node : ctl'[x][Me(u)] = ctl[x][Me(u)]
      BY <2>3, <2>4, RenewSpares
    <3> QED BY <2>2, <2>3, <3>1, <3>2, RenewClean DEF OwnInv
  <2>6. \A a \in Node, r \in Slot : slot'[a][r].words = slot[a][r].words \/ Touches(a, m.blk, m.words)
    <3>1. CASE slot' = slot
      BY <3>1
    <3>2. CASE n # p /\ slot' = [slot EXCEPT ![n] = RenewFresh(n, m.blk, m.words, m.val)]
      <4>1. Touches(n, m.blk, m.words)
        BY <2>2, <2>3, <3>2, PutTouches
      <4>2. PICK row : slot' = [slot EXCEPT ![n] = row]
        BY <3>2
      <4>3. \A a \in Node : a # n => slot'[a] = slot[a]
        BY <4>2 DEF TypeInv
      <4> QED BY <4>1, <4>3
    <3> QED BY <2>4, <3>1, <3>2 DEF RenewHome
  <2>7. m.kind \in Requests /\ m.kind \notin Unstored
    BY <2>1 DEF Requests, Unstored
  <2>8. OwnCopies'
    BY <1>1, <2>1, <2>2, <2>6, <2>7, ServedOwn, OwnServe DEF OwnInv
  <2> QED BY <1>4, <2>1, <2>5, <2>8 DEF OwnInv
<1> QED BY <1>7, <1>8, <1>9, <1>10, <1>11, <1>12 DEF Protocol

\* Every step keeps the copies right.
LEMMA OwnStep ==
  ASSUME TypeInv, SlotInv, ReplyInv, ThroughInv, OwnInv, [Next]_vars
  PROVE  OwnInv'
<1>1. UNCHANGED ctl => CleanCtl'
  BY DEF OwnInv, CleanCtl, Clean, Spares, From
<1>2. UNCHANGED srv => CleanSrv'
  BY DEF OwnInv, CleanSrv, Clean, Spares, From
<1>3. ASSUME NEW t \in Thread, Start(t)
      PROVE  OwnInv'
  <2>1. UNCHANGED <<ctl, srv>>
    BY <1>3, StartEffect DEF net
  <2> QED BY <1>1, <1>2, <1>3, <2>1, OwnStart DEF OwnInv
<1>4. ASSUME NEW t \in Thread, Work(t)
      PROVE  OwnInv'
  BY <1>4, OwnWork, CleanWork DEF OwnInv
<1>5. CASE UNCHANGED vars
  <2>1. UNCHANGED <<ctl, srv, slot, reply, pc, op, latest>>
    BY <1>5 DEF vars
  <2>2. OwnCopies'
    BY <2>1 DEF OwnInv, OwnCopies, Copy, InSlot, InFilled, InReply, Waits, Mine, Own, Behind, Putting
  <2> QED BY <1>1, <1>2, <2>1, <2>2 DEF OwnInv
<1> QED BY <1>3, <1>4, <1>5, OwnProtocol DEF Next

\* A node reads its own writes once doput has returned: the home does not send
\* a Renew back to the writer's node, a refill is answered after the put was
\* stored, and a copy that is refilled cannot be hit before it is complete.
\* Programs put chunks to remote homes only.
THEOREM OwnCopyCurrentHolds ==
  ASSUME WordsAtHome
  PROVE  Spec => []OwnCopyCurrent
<1> DEFINE Inv == TypeInv /\ SlotInv /\ ReplyInv /\ ThroughInv /\ OwnInv
<1>1. Init => Inv
  BY TypeInit, SlotInit, ReplyInit, ThroughInit, OwnInit
<1>2. Inv /\ [Next]_vars => Inv'
  BY TypeStep, SlotStep, ReplyStep, ThroughStep, OwnStep
<1>3. Inv => OwnCopyCurrent
  <2>1. SUFFICES ASSUME Inv, NEW t \in Thread, NEW k \in Block, NEW s \in Slot, ~Putting(t), HasCopy(Me(t), k, s),
                        NEW w \in Writes(t, k)
                 PROVE  slot[Me(t)][s].words[w] = latest[k][w]
    BY DEF OwnCopyCurrent
  <2>2. PICK n, ws : n = Me(t) /\ n \in Node /\ ws = slot[n][s].words
    BY <2>1, Here
  <2>3. Own(n, k, ws)
    BY <2>1, <2>2 DEF HasCopy, OwnInv, OwnCopies, Copy, InSlot
  <2>4. ~Behind(t, k, w)
    BY <2>1 DEF Behind
  <2> QED BY <2>2, <2>3, <2>4 DEF Own
<1> QED BY <1>1, <1>2, <1>3, PTL DEF Spec

-----------------------------------------------------------------------------
(* Whoever has a copy is registered.                                       *)

\* The blocks of a thread's program.
Program(t) == {p[1] : p \in Puts[t]} \cup Gets[t]

\* A node's write-backs and refills come from one thread, and are received by
\* one: for a peer above it a node has one CacheProtocalProc.
OneThread == \A t, u \in Thread : NodeOf[t] = NodeOf[u] => t = u
HomesBelow == \A t \in Thread : \A k \in Program(t) : Home[k] <= NodeOf[t]

InProgram ==
  \A t \in Thread : /\ pc[t] # "idle" => op[t].blk \in Program(t)
                    /\ pc[t] = "missrenew" => Home[op[t].blk] = Me(t)

\* The keyed slots, the slots just filled and those whose reply has come are
\* registered.
KeyCovered == \A n \in Node, s \in Slot, k \in Block : slot[n][s].key = k => n \in dir[k]
FilledCovered == \A t \in Thread : pc[t] = "filled" => Me(t) \in dir[op[t].blk]
ReplyCovered == \A t \in Thread : Waits(t) /\ reply[Home[op[t].blk]][Me(t)] # <<>> => Me(t) \in dir[op[t].blk]

\* No slot of node n has the key of a victim.
Keyless(n, k) == \A s \in Slot : slot[n][s].key # k
Victims == \A t \in Thread : pc[t] = "writeback" => \A s \in Slot : slot[Me(t)][s].key # op[t].old

\* Message m is on its way from n to h; a write-back there is for a block that
\* n no longer has.
Under(n, h, m) ==
  \/ \E i \in 1 .. Len(ctl[n][h]) : ctl[n][h][i] = m
  \/ \E i \in Servers(h, n) : srv[h][n][i] = m
Gone(n, h, m) ==
  /\ h = Home[m.blk] /\ h # n /\ Keyless(n, m.blk)
  /\ \A t \in Thread : Me(t) = n /\ pc[t] = "filled" => op[t].blk # m.blk
WritebacksGone == \A n, h \in Node : \A m : Under(n, h, m) /\ m.kind = "Writeback" => Gone(n, h, m)

\* No write-back is behind the node's request, or beside it.
NoneQueued(n, h) == \A j \in 1 .. Len(ctl[n][h]) : ctl[n][h][j].kind # "Writeback"
NoneServed(n, h) == \A j \in Servers(h, n) : srv[h][n][j].kind # "Writeback"
Order(n, h) ==
  /\ \A i, j \in 1 .. Len(ctl[n][h]) : Asks(n, h, i) /\ i <= j => ctl[n][h][j].kind # "Writeback"
  /\ \A i \in Servers(h, n) : Serves(n, h, i) => NoneQueued(n, h)
  /\ reply[h][n] # <<>> => NoneQueued(n, h) /\ NoneServed(n, h)

\* A put that hit does not wait for a block.
Hitting == {"Write", "WriteRenew"}
HitWaits(n, h) ==
  \A t \in Thread : dlock[n][h] = t /\ Waits(t) =>
    /\ \A i \in 1 .. Len(ctl[n][h]) : ctl[n][h][i].kind \notin Hitting
    /\ \A i \in Servers(h, n) : srv[h][n][i].kind \notin Hitting

Covered == KeyCovered /\ FilledCovered /\ ReplyCovered
Ordered == \A n, h \in Node : Order(n, h) /\ HitWaits(n, h)
CoverInv == InProgram /\ Covered /\ Victims /\ WritebacksGone /\ Ordered

\* Initially there are no copies and no messages.
LEMMA CoverInit ==
  ASSUME Init
  PROVE  CoverInv
<1>1. /\ \A n \in Node, s \in Slot : slot[n][s].key = None
      /\ \A t \in Thread : pc[t] = "idle"
  BY DEF Init
<1>2. \A n, p \in Node : ctl[n][p] = <<>> /\ reply[n][p] = <<>> /\ \A i \in Servers(n, p) : srv[n][p][i] = Idle
  BY DEF Init
<1>3. None \notin Block
  BY CacheAssumption
<1>4. Covered /\ InProgram /\ Victims
  BY <1>1, <1>3 DEF Covered, KeyCovered, FilledCovered, ReplyCovered, Waits, InProgram, Victims
<1>5. Idle.kind = None /\ None \notin Requests /\ None # "Writeback" /\ None \notin Hitting
  BY DEF Idle, None, Requests, Hitting
<1>6. WritebacksGone
  BY <1>2, <1>5 DEF WritebacksGone, Under
<1>7. Ordered
  BY <1>1, <1>2, <1>5 DEF Ordered, Order, Asks, Serves, HitWaits, Waits
<1> QED BY <1>4, <1>6, <1>7 DEF CoverInv

\* No registration is lost but that of node n for block k.
Drops(n, k) == \A j \in Block, a \in Node : a \in dir[j] => a \in dir'[j] \/ (a = n /\ j = k)
NoDrop == \A j \in Block, a \in Node : a \in dir[j] => a \in dir'[j]

\* The readers of the slots, but for thread t.
ReadersKept(t) == \A a \in Node, s \in Slot : \A u \in slot[a][s].readers : u # t => u \in slot'[a][s].readers

\* A thread that waits after a step of another one did so before.
LEMMA WaitsKept ==
  ASSUME TypeInv, NEW t \in Thread, NEW l, PcTo(t, l), \A u \in Thread : u # t => op'[u] = op[u], ReadersKept(t),
         NEW u \in Thread, u # t, Waits(u)'
  PROVE  Waits(u)
<1>1. pc[u] = "wait" /\ op'[u] = op[u]
  BY DEF Waits, PcTo
<1>2. Me(u) \in Node /\ op[u].slot \in Slot
  BY <1>1, Here
<1> QED BY <1>1, <1>2 DEF Waits, Mine, ReadersKept

\* Keys vanish only.
KeysFrom == \A a \in Node, s \in Slot, k \in Block : slot'[a][s].key = k => slot[a][s].key = k

\* What is covered stays so while a thread moves on that fills nothing.
LEMMA CoveredMove ==
  ASSUME TypeInv, Covered, NEW t \in Thread, NEW l, PcTo(t, l), \A u \in Thread : u # t => op'[u] = op[u],
         ReadersKept(t), KeysFrom, NoDrop,
         \A x, y \in Node : reply'[x][y] # <<>> => reply[x][y] # <<>>,
         l = "wait" => reply[Home[op'[t].blk]][Me(t)] = <<>> /\ UNCHANGED reply,
         l = "filled" => Me(t) \in dir'[op'[t].blk]
  PROVE  Covered'
<1>1. KeyCovered'
  BY DEF Covered, KeyCovered, KeysFrom, NoDrop
<1>2. FilledCovered'
  <2>1. ASSUME NEW u \in Thread, pc'[u] = "filled", u # t
        PROVE  Me(u) \in dir'[op'[u].blk]
    <3>1. pc[u] = "filled" /\ op'[u] = op[u] /\ Me(u) \in Node /\ op[u].blk \in Block
      BY <2>1, Here DEF PcTo
    <3> QED BY <3>1 DEF Covered, FilledCovered, NoDrop
  <2> QED BY <2>1 DEF FilledCovered, PcTo
<1>3. ReplyCovered'
  <2>1. ASSUME NEW u \in Thread, Waits(u)', reply'[Home[op'[u].blk]][Me(u)] # <<>>
        PROVE  Me(u) \in dir'[op'[u].blk]
    <3>1. u # t
      <4>1. u = t => l = "wait"
        BY <2>1 DEF Waits, PcTo
      <4> QED BY <2>1, <4>1
    <3>2. Waits(u) /\ op'[u] = op[u] /\ pc[u] = "wait"
      BY <2>1, <3>1, WaitsKept DEF Waits
    <3>3. PICK h \in Node, n \in Node : h = Home[op[u].blk] /\ n = Me(u) /\ op[u].blk \in Block
      BY <3>2, Here
    <3>4. reply[h][n] # <<>>
      BY <2>1, <3>2, <3>3
    <3>5. n \in dir[op[u].blk]
      BY <3>2, <3>3, <3>4 DEF Covered, ReplyCovered
    <3> QED BY <3>2, <3>3, <3>5 DEF NoDrop
  <2> QED BY <2>1 DEF ReplyCovered
<1> QED BY <1>1, <1>2, <1>3 DEF Covered

\* The messages after a step were under way before it or are no write-backs.
UnderFrom == \A n, h \in Node : \A m : Under(n, h, m)' /\ m.kind = "Writeback" => Under(n, h, m)

\* The victims stay without a slot: the other threads are on other nodes.
LEMMA VictimsMove ==
  ASSUME TypeInv, OneThread, Victims, NEW t \in Thread, NEW l, PcTo(t, l), \A u \in Thread : u # t => op'[u] = op[u],
         \A a \in Node, s \in Slot : a # Me(t) => slot'[a][s].key = slot[a][s].key, l # "writeback"
  PROVE  Victims'
<1>1. ASSUME NEW u \in Thread, pc'[u] = "writeback", NEW s \in Slot
      PROVE  slot'[Me(u)][s].key # op'[u].old
  <2>1. u # t /\ pc[u] = "writeback" /\ op'[u] = op[u] /\ Me(u) \in Node
    BY <1>1, Here DEF PcTo
  <2>2. Me(u) # Me(t)
    BY <2>1 DEF OneThread, Me
  <2> QED BY <2>1, <2>2 DEF Victims
<1> QED BY <1>1 DEF Victims

\* The blocks written back stay without a slot.
LEMMA GoneMove ==
  ASSUME TypeInv, WritebacksGone, NEW t \in Thread, NEW l, PcTo(t, l), \A u \in Thread : u # t => op'[u] = op[u],
         KeysFrom, UnderFrom, \A n, h \in Node : \A m : Under(n, h, m) /\ m.kind = "Writeback" => m.blk \in Block,
         l = "filled" => \A n, h \in Node : \A m : n = Me(t) /\ Under(n, h, m) /\ m.kind = "Writeback" => op'[t].blk # m.blk
  PROVE  WritebacksGone'
<1>1. ASSUME NEW n \in Node, NEW h \in Node, NEW m, Under(n, h, m)', m.kind = "Writeback"
      PROVE  Gone(n, h, m)'
  <2>1. Under(n, h, m) /\ m.blk \in Block
    BY <1>1 DEF UnderFrom
  <2>2. Gone(n, h, m)
    BY <1>1, <2>1 DEF WritebacksGone
  <2>3. Keyless(n, m.blk)'
    BY <2>1, <2>2 DEF Gone, Keyless, KeysFrom
  <2>4. \A u \in Thread : Me(u) = n /\ pc'[u] = "filled" => op'[u].blk # m.blk
    BY <1>1, <2>1, <2>2 DEF Gone, PcTo
  <2> QED BY <2>2, <2>3, <2>4 DEF Gone
<1> QED BY <1>1 DEF WritebacksGone

\* The write-backs under way are messages.
LEMMA UnderType ==
  ASSUME TypeInv, NEW n \in Node, NEW h \in Node, NEW m, Under(n, h, m), m.kind = "Writeback"
  PROVE  m.blk \in Block
<1>1. ctl[n][h] \in Seq(Messages) /\ \A i \in Servers(h, n) : srv[h][n][i] \in Messages \cup {Idle}
  BY DEF TypeInv, SrvType
<1>2. m \in Messages \cup {Idle}
  <2>1. ASSUME NEW i \in 1 .. Len(ctl[n][h])
        PROVE  ctl[n][h][i] \in Messages
    BY <1>1, <2>1
  <2> QED BY <1>1, <2>1 DEF Under
<1> QED BY <1>2, MessageFields DEF None

\* A queue after an Append.
LEMMA Queued ==
  ASSUME TypeInv, NEW n \in Node, NEW h \in Node, NEW c \in Messages, ctl'[n][h] = Append(ctl[n][h], c),
         NEW q, q = ctl[n][h], NEW r, r = ctl'[n][h]
  PROVE  /\ Len(q) \in Nat /\ Len(r) = Len(q) + 1 /\ r[Len(q) + 1] = c
         /\ \A j \in 1 .. Len(q) : r[j] = q[j]
<1>1. q \in Seq(Messages) /\ r = Append(q, c)
  BY DEF TypeInv
<1> QED BY <1>1, AppendAt

\* Sending what is no write-back adds none.
LEMMA UnderSent ==
  ASSUME TypeInv, UNCHANGED ctl \/ (\E c : Sent(c) /\ c.kind # "Writeback"),
         \A n, h \in Node : \A i \in Servers(h, n) : srv'[h][n][i].kind = "Writeback" => srv'[h][n][i] = srv[h][n][i]
  PROVE  UnderFrom
<1>1. ASSUME NEW n \in Node, NEW h \in Node, NEW m, m.kind = "Writeback", NEW i \in 1 .. Len(ctl'[n][h]), ctl'[n][h][i] = m
      PROVE  \E j \in 1 .. Len(ctl[n][h]) : ctl[n][h][j] = m
  <2>1. CASE ctl'[n][h] = ctl[n][h]
    BY <1>1, <2>1
  <2>2. CASE ctl'[n][h] # ctl[n][h]
    <3>1. PICK c \in Messages : c.kind # "Writeback" /\ ctl'[n][h] = Append(ctl[n][h], c)
      BY <2>2 DEF Sent
    <3>2. PICK q, r : q = ctl[n][h] /\ r = ctl'[n][h]
      OBVIOUS
    <3>3. /\ Len(q) \in Nat /\ Len(r) = Len(q) + 1 /\ r[Len(q) + 1] = c
          /\ \A j \in 1 .. Len(q) : r[j] = q[j]
      BY <3>1, <3>2, Queued
    <3>4. i \in 1 .. Len(q)
      BY <1>1, <3>1, <3>2, <3>3
    <3> QED BY <1>1, <3>2, <3>3, <3>4
  <2> QED BY <2>1, <2>2
<1> QED BY <1>1 DEF UnderFrom, Under

\* The order of a queue that gets a message other than a write-back, or none.
LEMMA OrderSent ==
  ASSUME TypeInv, NEW n \in Node, NEW h \in Node, Order(n, h),
         UNCHANGED ctl \/ (\E c : Sent(c) /\ c.kind # "Writeback"),
         \A i \in Servers(h, n) : srv'[h][n][i].kind = "Writeback" => srv[h][n][i].kind = "Writeback",
         \A i \in Servers(h, n) : Serves(n, h, i)' => Serves(n, h, i),
         reply'[h][n] # <<>> => reply[h][n] # <<>> \/ (NoneQueued(n, h) /\ NoneServed(n, h)')
  PROVE  Order(n, h)'
<1>1. PICK q \in Seq(Messages) : q = ctl[n][h]
  BY DEF TypeInv
<1>2. CASE ctl'[n][h] = q
  BY <1>1, <1>2 DEF Order, NoneQueued, NoneServed, Asks
<1>3. CASE ctl'[n][h] # q
  <2>1. PICK c \in Messages : c.kind # "Writeback" /\ ctl'[n][h] = Append(q, c)
    BY <1>1, <1>3 DEF Sent
  <2>2. PICK r : r = ctl'[n][h]
    OBVIOUS
  <2>3. /\ Len(q) \in Nat /\ Len(r) = Len(q) + 1 /\ r[Len(q) + 1] = c
        /\ \A j \in 1 .. Len(q) : r[j] = q[j]
    BY <1>1, <2>1, <2>2, Queued
  <2>4. \A j \in 1 .. Len(r) : r[j].kind = "Writeback" => j \in 1 .. Len(q) /\ q[j].kind = "Writeback"
    BY <2>1, <2>3
  <2>5. NoneQueued(n, h) => NoneQueued(n, h)'
    BY <1>1, <2>2, <2>4 DEF NoneQueued
  <2>6. ASSUME NEW i \in 1 .. Len(r), NEW j \in 1 .. Len(r), r[i].kind \in Requests, i <= j, r[j].kind = "Writeback"
        PROVE  FALSE
    <3>1. j \in 1 .. Len(q) /\ q[j].kind = "Writeback"
      BY <2>4, <2>6
    <3>2. i \in 1 .. Len(q) /\ q[i].kind \in Requests
      BY <2>3, <2>6, <3>1
    <3> QED BY <1>1, <2>6, <3>1, <3>2 DEF Order, Asks
  <2> QED BY <2>2, <2>5, <2>6 DEF Order, Asks, NoneServed
<1> QED BY <1>2, <1>3

\* The waiting of a socket's holder where no put that hit is sent.
LEMMA HitWaitsKept ==
  ASSUME TypeInv, NEW n \in Node, NEW h \in Node, HitWaits(n, h),
         \A u \in Thread : dlock'[n][h] = u /\ Waits(u)' => dlock[n][h] = u /\ Waits(u),
         UNCHANGED ctl \/ (\E c : Sent(c) /\ c.kind \notin Hitting),
         \A i \in Servers(h, n) : srv'[h][n][i].kind \in Hitting => srv[h][n][i].kind \in Hitting
  PROVE  HitWaits(n, h)'
<1>1. PICK q \in Seq(Messages) : q = ctl[n][h]
  BY DEF TypeInv
<1>2. CASE ctl'[n][h] = q
  BY <1>1, <1>2 DEF HitWaits
<1>3. CASE ctl'[n][h] # q
  <2>1. PICK c \in Messages : c.kind \notin Hitting /\ ctl'[n][h] = Append(q, c)
    BY <1>1, <1>3 DEF Sent
  <2>2. PICK r : r = ctl'[n][h]
    OBVIOUS
  <2>3. /\ Len(q) \in Nat /\ Len(r) = Len(q) + 1 /\ r[Len(q) + 1] = c
        /\ \A j \in 1 .. Len(q) : r[j] = q[j]
    BY <1>1, <2>1, <2>2, Queued
  <2>4. \A j \in 1 .. Len(r) : r[j].kind \in Hitting => j \in 1 .. Len(q) /\ q[j].kind \in Hitting
    BY <2>1, <2>3
  <2> QED BY <1>1, <2>2, <2>4 DEF HitWaits
<1> QED BY <1>2, <1>3

\* The order of the messages while a thread moves on without its socket.
LEMMA OrderedMove ==
  ASSUME TypeInv, Ordered, NEW t \in Thread, NEW l, PcTo(t, l), l # "wait", \A u \in Thread : u # t => op'[u] = op[u],
         ReadersKept(t), UNCHANGED <<dlock, reply, srv>>, UNCHANGED ctl \/ (\E c : Sent(c) /\ c.kind = "Renew")
  PROVE  Ordered'
<1>1. "Renew" # "Writeback" /\ "Renew" \notin Hitting
  BY DEF Hitting
<1>2. \A n, h \in Node : Order(n, h)'
  BY <1>1, OrderSent DEF Ordered, Serves
<1>3. \A u \in Thread : Waits(u)' => Waits(u)
  BY WaitsKept DEF Waits, PcTo
<1>4. \A n, h \in Node : HitWaits(n, h)'
  BY <1>1, <1>3, HitWaitsKept DEF Ordered
<1> QED BY <1>2, <1>4 DEF Ordered

\* A thread's block is of its program while it goes on.
LEMMA ProgramKept ==
  ASSUME TypeInv, InProgram, NEW t \in Thread, NEW l, PcTo(t, l), \A u \in Thread : u # t => op'[u] = op[u],
         l # "idle" => op'[t].blk \in Program(t), l = "missrenew" => Home[op'[t].blk] = Me(t)
  PROVE  InProgram'
BY DEF InProgram, PcTo

\* A thread moves on without its socket, and no slot gets a key.
LEMMA CoverMove ==
  ASSUME TypeInv, CoverInv, NEW t \in Thread, NEW l, PcTo(t, l), l # "wait", \A u \in Thread : u # t => op'[u] = op[u],
         l # "idle" => op'[t].blk \in Program(t), l = "missrenew" => Home[op'[t].blk] = Me(t),
         ReadersKept(t), KeysFrom, NoDrop, UNCHANGED <<dlock, reply, srv>>,
         UNCHANGED ctl \/ (\E c : Sent(c) /\ c.kind = "Renew"), Victims',
         l = "filled" => op'[t].blk \in Block /\ Home[op'[t].blk] = Me(t) /\ Me(t) \in dir'[op'[t].blk]
  PROVE  CoverInv'
<1>1. InProgram'
  BY ProgramKept DEF CoverInv
<1>2. Covered'
  BY CoveredMove DEF CoverInv
<1>3. Ordered'
  BY OrderedMove DEF CoverInv
<1>4. WritebacksGone'
  <2>1. "Renew" # "Writeback"
    OBVIOUS
  <2>2. UnderFrom
    BY <2>1, UnderSent
  <2>3. l = "filled" => \A n, h \in Node : \A m : n = Me(t) /\ Under(n, h, m) /\ m.kind = "Writeback" => op'[t].blk # m.blk
    BY DEF CoverInv, WritebacksGone, Gone
  <2> QED BY <2>2, <2>3, UnderType, GoneMove DEF CoverInv
<1> QED BY <1>1, <1>2, <1>3, <1>4 DEF CoverInv

\* The slots of node n, where thread t runs, change; no key is new.
LEMMA SetKeys ==
  ASSUME TypeInv, NEW t \in Thread, NEW n \in Node, NEW s \in Slot, NEW k, NEW ws, NEW b, NEW R,
         SlotSet(slot', slot, n, s, k, ws, b, R), k = None \/ k = slot[n][s].key, slot[n][s].readers \ {t} \subseteq R
  PROVE  /\ KeysFrom /\ ReadersKept(t)
         /\ \A a \in Node, r \in Slot : a # n => slot'[a][r].key = slot[a][r].key
<1>1. None \notin Block
  BY CacheAssumption
<1>2. ASSUME NEW a \in Node, NEW r \in Slot, ~(a = n /\ r = s)
      PROVE  slot'[a][r] = slot[a][r]
  BY <1>2 DEF SlotSet
<1>3. slot'[n][s].key = k /\ slot'[n][s].readers = R
  BY DEF SlotSet
<1>4. KeysFrom
  BY <1>1, <1>2, <1>3 DEF KeysFrom
<1>5. ReadersKept(t)
  BY <1>2, <1>3 DEF ReadersKept
<1> QED BY <1>2, <1>4, <1>5

\* The slots stay.
LEMMA SlotsKeys ==
  ASSUME UNCHANGED slot, NEW t \in Thread
  PROVE  /\ KeysFrom /\ ReadersKept(t)
         /\ \A a \in Node, r \in Slot : slot'[a][r].key = slot[a][r].key
BY DEF KeysFrom, ReadersKept

\* The directory grows.
LEMMA Grown ==
  ASSUME TypeInv
  PROVE  /\ UNCHANGED dir => NoDrop
         /\ \A k \in Block : \A n \in Node : dir' = [dir EXCEPT ![k] = Registered(@, n)] => NoDrop /\ n \in dir'[k]
<1>1. dir \in [Block -> SUBSET Node]
  BY DEF TypeInv
<1> QED BY <1>1 DEF NoDrop, Registered

\* An operation begins.
LEMMA CoverStart ==
  ASSUME TypeInv, OneThread, CoverInv, NEW t \in Thread, Start(t)
  PROVE  CoverInv'
<1>1. /\ PcTo(t, "lookup") /\ (\A u \in Thread : u # t => op'[u] = op[u])
      /\ UNCHANGED <<dir, slot, ctl, reply, dlock, srv>>
  BY StartEffect DEF local, net
<1>2. op'[t].blk \in Program(t)
  <2>1. op \in [Thread -> OpType]
    BY DEF TypeInv
  <2>2. ASSUME NEW p \in Puts[t], NEW v, op' = [op EXCEPT ![t] = [NoOp EXCEPT !.kind = "put", !.blk = p[1], !.words = p[2], !.val = v]]
        PROVE  op'[t].blk = p[1]
    BY <2>1, <2>2 DEF NoOp
  <2>3. ASSUME NEW k \in Gets[t], op' = [op EXCEPT ![t] = [NoOp EXCEPT !.kind = "get", !.blk = k]]
        PROVE  op'[t].blk = k
    BY <2>1, <2>3 DEF NoOp
  <2> QED BY <2>2, <2>3 DEF Start, Program
<1>3. KeysFrom /\ ReadersKept(t) /\ \A a \in Node, r \in Slot : slot'[a][r].key = slot[a][r].key
  BY <1>1, SlotsKeys
<1>4. Victims'
  BY <1>1, <1>3, VictimsMove DEF CoverInv
<1>5. NoDrop
  BY <1>1, Grown
<1> QED BY <1>1, <1>2, <1>3, <1>4, <1>5, CoverMove

\* A thread looks its block up, hits it or takes a slot for it.
LEMMA CoverLook ==
  ASSUME TypeInv, SlotInv, OneThread, CoverInv, NEW t \in Thread, Lookup(t) \/ Hit(t) \/ GetBlock(t)
  PROVE  CoverInv'
<1>1. pc[t] # "idle" /\ Me(t) \in Node /\ op[t].blk \in Program(t) /\ UNCHANGED <<dir, ctl, reply, dlock, srv>>
  BY LookupEffect, HitEffect, GetBlockEffect, Here DEF net, CoverInv, InProgram
<1>2. NoDrop
  BY <1>1, Grown
<1>3. ASSUME NEW l \in {"miss", "hit", "write", "fill", "idle"}, PcTo(t, l), SameOps(t), KeysFrom, ReadersKept(t),
             \A a \in Node, r \in Slot : a # Me(t) => slot'[a][r].key = slot[a][r].key
      PROVE  CoverInv'
  <2>1. (\A u \in Thread : u # t => op'[u] = op[u]) /\ op'[t].blk = op[t].blk
    BY <1>3 DEF SameOps
  <2>2. Victims'
    BY <1>3, <2>1, VictimsMove DEF CoverInv
  <2> QED BY <1>1, <1>2, <1>3, <2>1, <2>2, CoverMove
<1>4. CASE Lookup(t)
  <2>1. PICK l \in {"miss", "hit"} : PcTo(t, l)
    BY <1>4, LookupEffect
  <2>2. UNCHANGED slot /\ SameOps(t)
    BY <1>4, LookupEffect DEF local, OpTo, SameOps
  <2> QED BY <1>3, <2>1, <2>2, SlotsKeys
<1>5. CASE Hit(t)
  <2>1. op[t].slot \in Slot /\ SameOps(t)
    BY <1>5, HitEffect DEF SameOps
  <2>2. CASE UNCHANGED slot /\ \E l \in {"miss", "idle"} : PcTo(t, l)
    BY <1>3, <2>1, <2>2, SlotsKeys
  <2>3. CASE /\ StillMine(t) /\ PcTo(t, "write")
             /\ SlotSet(slot', slot, Me(t), op[t].slot, op[t].blk, Overwrite(Mine(t).words, op[t].words, op[t].val),
                        Mine(t).wlock, Mine(t).readers \cup {t})
    <3>1. PICK n \in Node, s \in Slot : n = Me(t) /\ s = op[t].slot
      BY <1>1, <2>1
    <3>2. PICK k, ws, b, R : /\ k = op[t].blk /\ ws = Overwrite(Mine(t).words, op[t].words, op[t].val)
                             /\ b = Mine(t).wlock /\ R = Mine(t).readers \cup {t}
      OBVIOUS
    <3>3. SlotSet(slot', slot, n, s, k, ws, b, R) /\ k = slot[n][s].key /\ slot[n][s].readers \ {t} \subseteq R
      BY <2>3, <3>1, <3>2 DEF StillMine, Mine
    <3>4. /\ KeysFrom /\ ReadersKept(t)
          /\ \A a \in Node, r \in Slot : a # n => slot'[a][r].key = slot[a][r].key
      BY <3>3, SetKeys
    <3> QED BY <1>3, <2>1, <2>3, <3>1, <3>4
  <2> QED BY <1>5, <2>2, <2>3, HitEffect
<1>6. CASE GetBlock(t)
  <2>1. PICK n \in Node : n = Me(t)
    BY <1>1
  <2>2. ASSUME UNCHANGED local, OpTo(t, hash[Me(t)][op[t].blk], op[t].old), PcTo(t, "hit")
        PROVE  CoverInv'
    <3>1. UNCHANGED slot /\ SameOps(t)
      BY <2>2 DEF local, OpTo, SameOps
    <3> QED BY <1>3, <2>2, <3>1, SlotsKeys
  <2>3. ASSUME NEW s \in unused[n], OpTo(t, s, op[t].old), PcTo(t, "fill"),
               SlotSet(slot', slot, n, s, slot[n][s].key, slot[n][s].words, TRUE, slot[n][s].readers)
        PROVE  CoverInv'
    <3>1. s \in Slot /\ SameOps(t)
      BY <2>3 DEF TypeInv, OpTo, SameOps
    <3>2. /\ KeysFrom /\ ReadersKept(t)
          /\ \A a \in Node, r \in Slot : a # n => slot'[a][r].key = slot[a][r].key
      BY <2>3, <3>1, SetKeys
    <3> QED BY <1>3, <2>1, <2>3, <3>1, <3>2
  <2>4. ASSUME NEW s \in Slot, slot[n][s].key \in Block, OpTo(t, s, slot[n][s].key), PcTo(t, "writeback"),
               SlotSet(slot', slot, n, s, None, slot[n][s].words, TRUE, slot[n][s].readers)
        PROVE  CoverInv'
    <3>1. (\A u \in Thread : u # t => op'[u] = op[u]) /\ op'[t].blk = op[t].blk /\ op'[t].old = slot[n][s].key
      BY <2>4 DEF OpTo
    <3>2. /\ KeysFrom /\ ReadersKept(t)
          /\ \A a \in Node, r \in Slot : a # n => slot'[a][r].key = slot[a][r].key
      BY <2>4, SetKeys
    <3>3. Victims'
      <4>1. \A r \in Slot : slot'[n][r].key # slot[n][s].key
        <5>1. \A r \in Slot : slot[n][r].key = slot[n][s].key => r = s
          BY <2>4, OneCopy
        <5>2. slot'[n][s].key = None /\ None \notin Block
          BY <2>4, CacheAssumption DEF SlotSet
        <5> QED BY <2>4, <5>1, <5>2 DEF KeysFrom, SlotSet
      <4>2. ASSUME NEW u \in Thread, u # t, pc'[u] = "writeback", NEW r \in Slot
            PROVE  slot'[Me(u)][r].key # op'[u].old
        <5>1. pc[u] = "writeback" /\ op'[u] = op[u] /\ Me(u) \in Node /\ Me(u) # n
          BY <2>1, <2>4, <3>1, <4>2, Here DEF PcTo, OneThread, Me
        <5> QED BY <3>2, <5>1 DEF CoverInv, Victims
      <4> QED BY <2>1, <3>1, <4>1, <4>2 DEF Victims
    <3> QED BY <1>1, <1>2, <2>4, <3>1, <3>2, <3>3, CoverMove
  <2>5. \/ UNCHANGED local /\ OpTo(t, hash[Me(t)][op[t].blk], op[t].old) /\ PcTo(t, "hit")
        \/ \E s \in unused[n] :
             /\ SlotSet(slot', slot, n, s, slot[n][s].key, slot[n][s].words, TRUE, slot[n][s].readers)
             /\ OpTo(t, s, op[t].old) /\ PcTo(t, "fill")
        \/ \E s \in Slot :
             /\ slot[n][s].key \in Block /\ OpTo(t, s, slot[n][s].key) /\ PcTo(t, "writeback")
             /\ SlotSet(slot', slot, n, s, None, slot[n][s].words, TRUE, slot[n][s].readers)
    BY <1>6, <2>1, GetBlockEffect, Zenon
  <2> QED BY <2>2, <2>3, <2>4, <2>5, Zenon
<1> QED BY <1>4, <1>5, <1>6

\* While the data socket from n to h is free nothing is asked or answered there.
LEMMA FreeSocket ==
  ASSUME TypeInv, ReplyInv, NEW n \in Node, NEW h \in Node, dlock[n][h] = None
  PROVE  /\ reply[h][n] = <<>>
         /\ \A i \in 1 .. Len(ctl[n][h]) : ~Asks(n, h, i)
         /\ \A i \in Servers(h, n) : ~Serves(n, h, i)
<1>1. reply[h][n] \in Seq(Reply)
  BY DEF TypeInv
<1>2. \A i \in 1 .. Len(reply[h][n]) : FALSE
  BY DEF ReplyInv, Addressed
<1> QED BY <1>1, <1>2 DEF ReplyInv, Addressed

\* The victim's home is told, or drops the node itself.
LEMMA CoverWriteback ==
  ASSUME TypeInv, ReplyInv, OneThread, CoverInv, NEW t \in Thread, Writeback(t)
  PROVE  CoverInv'
<1>1. /\ pc[t] = "writeback" /\ PcTo(t, "fill") /\ op[t].old \in Block
      /\ UNCHANGED <<slot, reply, dlock, srv, op>>
  BY WritebackEffect DEF local
<1>2. PICK n \in Node, k \in Block, h \in Node : n = Me(t) /\ k = op[t].old /\ h = Home[k]
  BY <1>1, Here
<1>3. Keyless(n, k)
  BY <1>1, <1>2 DEF CoverInv, Victims, Keyless
<1>4. \A u \in Thread : u # t => Me(u) # n
  BY <1>2 DEF OneThread, Me
<1>5. InProgram'
  <2>1. op[t].blk \in Program(t)
    BY <1>1 DEF CoverInv, InProgram
  <2> QED BY <1>1, <2>1, ProgramKept DEF CoverInv
<1>6. KeysFrom /\ ReadersKept(t) /\ \A a \in Node, r \in Slot : slot'[a][r].key = slot[a][r].key
  BY <1>1, SlotsKeys
<1>7. Victims'
  BY <1>1, <1>6, VictimsMove DEF CoverInv
<1>8. CASE h = n /\ dir' = [dir EXCEPT ![k] = Dropped(@, n)] /\ UNCHANGED ctl
  <2>1. Drops(n, k)
    BY <1>8 DEF Drops, Dropped, TypeInv
  <2>2. KeyCovered'
    BY <1>1, <1>3, <2>1 DEF KeyCovered, CoverInv, Covered, Drops, Keyless
  <2>3. ASSUME NEW u \in Thread, Me(u) \in dir[op[u].blk], u # t, pc[u] # "idle"
        PROVE  Me(u) \in dir'[op[u].blk]
    BY <1>4, <2>1, <2>3, Here DEF Drops
  <2>4. FilledCovered'
    BY <1>1, <2>3 DEF FilledCovered, CoverInv, Covered, PcTo
  <2>5. ReplyCovered'
    BY <1>1, <2>3 DEF ReplyCovered, CoverInv, Covered, PcTo, Waits, Mine
  <2>6. UnderFrom
    BY <1>1, <1>8 DEF UnderFrom, Under
  <2>7. WritebacksGone'
    BY <1>1, <1>6, <2>6, UnderType, GoneMove DEF CoverInv
  <2>8. Ordered'
    BY <1>1, <1>6, <1>8, OrderedMove DEF CoverInv
  <2> QED BY <1>5, <1>7, <2>2, <2>4, <2>5, <2>7, <2>8 DEF CoverInv, Covered
<1>9. CASE h # n /\ ctl' = [ctl EXCEPT ![n][h] = Append(@, [kind |-> "Writeback", blk |-> k])] /\ UNCHANGED dir
  <2>1. PICK m \in Messages : m = [kind |-> "Writeback", blk |-> k]
    BY DEF Messages
  <2>2. m.kind = "Writeback" /\ m.blk = k
    BY <2>1
  <2>3. /\ ctl'[n][h] = Append(ctl[n][h], m)
        /\ \A x, y \in Node : x # n \/ y # h => ctl'[x][y] = ctl[x][y]
    BY <1>9, <2>1, MatrixAppend DEF TypeInv
  <2>4. PICK q, r : q = ctl[n][h] /\ r = ctl'[n][h]
    OBVIOUS
  <2>5. /\ Len(q) \in Nat /\ Len(r) = Len(q) + 1 /\ r[Len(q) + 1] = m
        /\ \A j \in 1 .. Len(q) : r[j] = q[j]
    BY <2>3, <2>4, Queued
  <2>6. dlock[n][h] = None
    <3>1. dlock[n][h] # None => dlock[n][h] \in Thread /\ pc[dlock[n][h]] = "wait" /\ Me(dlock[n][h]) = n
      BY DEF ReplyInv, Holder, TypeInv
    <3> QED BY <1>1, <1>4, <3>1
  <2>7. Covered'
    <3>1. NoDrop
      BY <1>9, Grown
    <3> QED BY <1>1, <1>6, <3>1, CoveredMove DEF CoverInv
  <2>8. WritebacksGone'
    <3>1. ASSUME NEW x \in Node, NEW y \in Node, NEW c, Under(x, y, c)', c.kind = "Writeback"
          PROVE  Gone(x, y, c)'
      <4>1. Under(x, y, c) \/ (x = n /\ y = h /\ c = m)
        <5>1. CASE x = n /\ y = h
          <6>1. \A i \in 1 .. Len(r) : r[i] = m \/ (i \in 1 .. Len(q) /\ r[i] = q[i])
            BY <2>5
          <6> QED BY <1>1, <2>4, <3>1, <5>1, <6>1 DEF Under
        <5>2. CASE x # n \/ y # h
          BY <1>1, <2>3, <3>1, <5>2 DEF Under
        <5> QED BY <5>1, <5>2
      <4>2. CASE Under(x, y, c)
        <5>1. Gone(x, y, c)
          BY <3>1, <4>2 DEF CoverInv, WritebacksGone
        <5> QED BY <1>1, <5>1 DEF Gone, Keyless, PcTo
      <4>3. CASE x = n /\ y = h /\ c = m
        <5>1. \A u \in Thread : Me(u) = n => pc'[u] # "filled"
          BY <1>1, <1>4 DEF PcTo
        <5>2. Keyless(n, k)'
          BY <1>1, <1>3 DEF Keyless
        <5> QED BY <1>2, <1>9, <2>2, <4>3, <5>1, <5>2 DEF Gone
      <4> QED BY <4>1, <4>2, <4>3
    <3> QED BY <3>1 DEF WritebacksGone
  <2>9. Ordered'
    <3>1. ASSUME NEW x \in Node, NEW y \in Node
          PROVE  Order(x, y)' /\ HitWaits(x, y)'
      <4>1. CASE x = n /\ y = h
        <5>1. /\ reply'[h][n] = <<>> /\ (\A i \in 1 .. Len(q) : q[i].kind \notin Requests)
              /\ \A i \in Servers(h, n) : srv'[h][n][i].kind \notin Requests
          BY <1>1, <2>4, <2>6, FreeSocket DEF Asks, Serves
        <5>2. m.kind \notin Requests
          BY <2>2 DEF Requests
        <5>3. \A i \in 1 .. Len(r) : r[i].kind \notin Requests
          BY <2>5, <5>1, <5>2
        <5>4. Order(x, y)'
          BY <2>4, <4>1, <5>1, <5>3 DEF Order, Asks, Serves
        <5>5. HitWaits(x, y)'
          BY <1>1, <2>6, <4>1, CacheAssumption DEF HitWaits
        <5> QED BY <5>4, <5>5
      <4>2. CASE x # n \/ y # h
        <5>1. ctl'[x][y] = ctl[x][y]
          BY <2>3, <4>2
        <5>2. \A u \in Thread : Waits(u)' => Waits(u)
          BY <1>1 DEF Waits, PcTo, Mine
        <5> QED BY <1>1, <5>1, <5>2 DEF CoverInv, Ordered, Order, HitWaits, Asks, Serves, NoneQueued, NoneServed
      <4> QED BY <4>1, <4>2
    <3> QED BY <3>1 DEF Ordered
  <2> QED BY <1>5, <1>7, <2>7, <2>8, <2>9 DEF CoverInv
<1>10. \/ h = n /\ dir' = [dir EXCEPT ![k] = Dropped(@, n)] /\ UNCHANGED ctl
       \/ h # n /\ ctl' = [ctl EXCEPT ![n][h] = Append(@, [kind |-> "Writeback", blk |-> k])] /\ UNCHANGED dir
  BY <1>2, Zenon DEF Writeback
<1> QED BY <1>8, <1>9, <1>10

\* A request is sent: write-backs are before it in the queue.
LEMMA CoverAsk ==
  ASSUME TypeInv, SlotInv, ReplyInv, OneThread, CoverInv, NEW t \in Thread, pc[t] \in {"fill", "write"},
         NEW kind \in {"ReadMiss", "WriteMiss", "Write"}, kind = "Write" => pc[t] = "write",
         AskTo(t, kind), UNCHANGED <<op, slot, reply, srv, dir>>
  PROVE  CoverInv'
<1>1. PICK n \in Node, h \in Node : n = Me(t) /\ h = Home[op[t].blk]
  BY Here
<1>2. PICK m \in Messages : m = Fields(t, kind)
  BY DEF AskTo
<1>3. /\ m.kind = kind /\ PcTo(t, "wait") /\ dlock[n][h] = None /\ dlock'[n][h] = t
      /\ \A x, y \in Node : x # n \/ y # h => dlock'[x][y] = dlock[x][y]
      /\ CtlAdd(n, h, m)
  BY <1>1, <1>2 DEF AskTo, LockTo, Fields
<1>4. Sent(m) /\ m.kind # "Writeback"
  BY <1>3 DEF Sent, CtlAdd
<1>5. /\ reply[h][n] = <<>> /\ (\A i \in 1 .. Len(ctl[n][h]) : ctl[n][h][i].kind \notin Requests)
      /\ \A i \in Servers(h, n) : srv[h][n][i].kind \notin Requests
  BY <1>3, FreeSocket DEF Asks, Serves
<1>6. KeysFrom /\ ReadersKept(t) /\ \A a \in Node, r \in Slot : slot'[a][r].key = slot[a][r].key
  BY SlotsKeys
<1>7. InProgram'
  <2>1. op[t].blk \in Program(t)
    BY DEF CoverInv, InProgram
  <2> QED BY <1>3, <2>1, ProgramKept DEF CoverInv
<1>8. Victims'
  BY <1>3, <1>6, VictimsMove DEF CoverInv
<1>9. Covered'
  <2>1. NoDrop
    BY Grown
  <2> QED BY <1>1, <1>3, <1>5, <1>6, <2>1, CoveredMove DEF CoverInv
<1>10. WritebacksGone'
  <2>1. UnderFrom
    BY <1>4, UnderSent
  <2> QED BY <1>3, <1>6, <2>1, UnderType, GoneMove DEF CoverInv
<1>11. \A x, y \in Node : Order(x, y)'
  BY <1>4, OrderSent DEF CoverInv, Ordered, Serves
<1>12. ASSUME NEW x \in Node, NEW y \in Node
       PROVE  HitWaits(x, y)'
  <2>1. CASE x = n /\ y = h
    <3>1. CASE kind = "Write"
      <4>1. t \in Mine(t).readers
        BY <3>1 DEF SlotInv, Reading
      <4>2. ~Waits(t)'
        BY <4>1 DEF Waits, Mine
      <4> QED BY <1>3, <2>1, <4>2 DEF HitWaits
    <3>2. CASE kind # "Write"
      <4>1. PICK q, r : q = ctl[n][h] /\ r = ctl'[n][h]
        OBVIOUS
      <4>2. /\ Len(q) \in Nat /\ Len(r) = Len(q) + 1 /\ r[Len(q) + 1] = m
            /\ \A j \in 1 .. Len(q) : r[j] = q[j]
        <5>1. ctl'[n][h] = Append(ctl[n][h], m)
          BY <1>3 DEF CtlAdd
        <5> QED BY <4>1, <5>1, Queued
      <4>3. m.kind \notin Hitting /\ Hitting \subseteq Requests
        BY <1>3, <3>2 DEF Hitting, Requests
      <4>4. \A i \in 1 .. Len(r) : r[i].kind \notin Hitting
        <5>1. \A i \in 1 .. Len(q) : q[i].kind \notin Hitting
          BY <1>5, <4>1, <4>3
        <5>2. \A i \in 1 .. Len(r) : i \in 1 .. Len(q) \/ i = Len(q) + 1
          BY <4>2
        <5> QED BY <4>2, <4>3, <5>1, <5>2
      <4>5. \A i \in Servers(h, n) : srv'[h][n][i].kind \notin Hitting
        BY <1>5, <4>3
      <4> QED BY <2>1, <4>1, <4>4, <4>5 DEF HitWaits
    <3> QED BY <3>1, <3>2
  <2>2. CASE x # n \/ y # h
    <3>1. ctl'[x][y] = ctl[x][y] /\ dlock'[x][y] = dlock[x][y]
      BY <1>3, <2>2 DEF CtlAdd
    <3>2. dlock[x][y] # t
      BY CacheAssumption DEF ReplyInv, Holder
    <3>3. \A u \in Thread : u # t /\ Waits(u)' => Waits(u)
      BY <1>3 DEF Waits, PcTo, Mine
    <3> QED BY <3>1, <3>2, <3>3 DEF CoverInv, Ordered, HitWaits
  <2> QED BY <2>1, <2>2
<1>13. Ordered'
  BY <1>11, <1>12 DEF Ordered
<1> QED BY <1>7, <1>8, <1>9, <1>10, <1>13 DEF CoverInv

\* A thread fills its slot at the home, where it registers its node.
LEMMA CoverLoad ==
  ASSUME TypeInv, OneThread, CoverInv, NEW t \in Thread, pc[t] \in {"fill", "missrenew"}, Home[op[t].blk] = Me(t),
         dir' = [dir EXCEPT ![op[t].blk] = Registered(@, Me(t))], NEW ws, Loads(t, ws), PcTo(t, "filled"),
         UNCHANGED <<op, dlock, reply, srv>>, UNCHANGED ctl \/ (\E c : Sent(c) /\ c.kind = "Renew")
  PROVE  CoverInv'
<1>1. PICK n \in Node, k \in Block, s \in Slot : n = Me(t) /\ k = op[t].blk /\ s = op[t].slot
  BY Here
<1>2. PICK j, b, R : j = slot[n][s].key /\ b = slot[n][s].wlock /\ R = slot[n][s].readers
  OBVIOUS
<1>3. SlotSet(slot', slot, n, s, j, ws, b, R)
  BY <1>1, <1>2 DEF Loads, Mine
<1>4. /\ KeysFrom /\ ReadersKept(t)
      /\ \A a \in Node, r \in Slot : a # n => slot'[a][r].key = slot[a][r].key
  BY <1>2, <1>3, SetKeys
<1>5. NoDrop /\ n \in dir'[k]
  BY <1>1, Grown
<1>6. Victims'
  BY <1>1, <1>4, VictimsMove DEF CoverInv
<1>7. k \in Program(t)
  BY <1>1 DEF CoverInv, InProgram
<1> QED BY <1>1, <1>4, <1>5, <1>6, <1>7, CoverMove

\* A thread asks for its block, or serves it at the home.
LEMMA CoverFill ==
  ASSUME TypeInv, SlotInv, ReplyInv, OneThread, CoverInv, NEW t \in Thread, Fill(t)
  PROVE  CoverInv'
<1>1. pc[t] = "fill" /\ UNCHANGED <<reply, srv, op>> /\ pc \in [Thread -> Place]
  BY FillEffect DEF TypeInv
<1>2. \/ \E kind \in {"ReadMiss", "WriteMiss"} : AskTo(t, kind) /\ UNCHANGED <<backend, dir, slot>>
      \/ /\ Loads(t, backend[op[t].blk]) /\ PcTo(t, "filled")
         /\ UNCHANGED <<backend, ctl, dlock>>
      \/ /\ Stored(op[t].blk, FirstWord(op[t].words), op[t].val)
         /\ PcTo(t, "missrenew")
         /\ UNCHANGED <<dir, slot, ctl, dlock>>
  BY FillEffect
<1>3. \/ Goto(t, "wait")
      \/ /\ Home[op[t].blk] = Me(t) /\ Goto(t, "filled")
         /\ dir' = [dir EXCEPT ![op[t].blk] = Registered(@, Me(t))]
      \/ Home[op[t].blk] = Me(t) /\ Goto(t, "missrenew")
  BY Zenon DEF Fill, Ask
<1>4. /\ Goto(t, "wait") => pc'[t] = "wait"
      /\ Goto(t, "filled") => pc'[t] = "filled"
      /\ Goto(t, "missrenew") => pc'[t] = "missrenew"
  BY <1>1 DEF Goto
<1>5. CASE \E kind \in {"ReadMiss", "WriteMiss"} : AskTo(t, kind) /\ UNCHANGED <<backend, dir, slot>>
  <2>1. PICK kind \in {"ReadMiss", "WriteMiss"} : AskTo(t, kind) /\ UNCHANGED <<backend, dir, slot>>
    BY <1>5
  <2>2. kind # "Write" /\ kind \in {"ReadMiss", "WriteMiss", "Write"}
    BY <2>1
  <2> QED BY <1>1, <2>1, <2>2, CoverAsk
<1>6. CASE Loads(t, backend[op[t].blk]) /\ PcTo(t, "filled") /\ UNCHANGED <<backend, ctl, dlock>>
  <2>1. Home[op[t].blk] = Me(t) /\ dir' = [dir EXCEPT ![op[t].blk] = Registered(@, Me(t))]
    BY <1>3, <1>4, <1>6 DEF PcTo
  <2> QED BY <1>1, <1>6, <2>1, CoverLoad
<1>7. CASE PcTo(t, "missrenew") /\ UNCHANGED <<dir, slot, ctl, dlock>>
  <2>1. Home[op[t].blk] = Me(t)
    BY <1>3, <1>4, <1>7 DEF PcTo
  <2>2. KeysFrom /\ ReadersKept(t) /\ \A a \in Node, r \in Slot : slot'[a][r].key = slot[a][r].key
    BY <1>7, SlotsKeys
  <2>3. NoDrop
    BY <1>7, Grown
  <2>4. Victims'
    BY <1>1, <1>7, <2>2, VictimsMove DEF CoverInv
  <2>5. op[t].blk \in Program(t)
    BY <1>1 DEF CoverInv, InProgram
  <2> QED BY <1>1, <1>7, <2>1, <2>2, <2>3, <2>4, <2>5, CoverMove
<1> QED BY <1>2, <1>5, <1>6, <1>7

\* A put that missed at the home goes on.
LEMMA CoverMissRenew ==
  ASSUME TypeInv, OneThread, CoverInv, NEW t \in Thread, MissRenew(t)
  PROVE  CoverInv'
<1>1. /\ pc[t] = "missrenew" /\ PcTo(t, "filled") /\ Loads(t, backend[op[t].blk])
      /\ UNCHANGED <<reply, dlock, srv, op>>
  BY MissRenewEffect
<1>2. \E c : Sent(c) /\ c.kind = "Renew"
  BY MissRenewEffect
<1>3. Home[op[t].blk] = Me(t)
  BY <1>1 DEF CoverInv, InProgram
<1>4. dir' = [dir EXCEPT ![op[t].blk] = Registered(@, Me(t))]
  BY Zenon DEF MissRenew
<1> QED BY <1>1, <1>2, <1>3, <1>4, CoverLoad

\* A put that hit goes on to the home.
LEMMA CoverWrite ==
  ASSUME TypeInv, SlotInv, ReplyInv, OneThread, CoverInv, NEW t \in Thread, Write(t) \/ WriteRenew(t)
  PROVE  CoverInv'
<1>1. UNCHANGED <<dir, reply, srv, op>> /\ pc[t] \in {"write", "renew"}
  BY WriteEffect, WriteRenewEffect
<1>2. NoDrop
  BY <1>1, Grown
<1>3. op[t].blk \in Program(t)
  BY <1>1 DEF CoverInv, InProgram
<1>4. CASE Write(t)
  <2>1. pc[t] = "write" /\ UNCHANGED slot
    BY <1>4, WriteEffect DEF local
  <2>2. CASE AskTo(t, "Write")
    BY <1>1, <2>1, <2>2, CoverAsk
  <2>3. CASE PcTo(t, "renew") /\ UNCHANGED <<ctl, dlock>>
    <3>1. KeysFrom /\ ReadersKept(t) /\ \A a \in Node, r \in Slot : slot'[a][r].key = slot[a][r].key
      BY <2>1, SlotsKeys
    <3>2. Victims'
      BY <1>1, <2>3, <3>1, VictimsMove DEF CoverInv
    <3> QED BY <1>1, <1>2, <1>3, <2>3, <3>1, <3>2, CoverMove
  <2> QED BY <1>4, <2>2, <2>3, WriteEffect
<1>5. CASE WriteRenew(t)
  <2>1. /\ PcTo(t, "idle") /\ UNCHANGED dlock
        /\ SlotSet(slot', slot, Me(t), op[t].slot, Mine(t).key, Mine(t).words, Mine(t).wlock, Mine(t).readers \ {t})
    BY <1>5, WriteRenewEffect
  <2>2. \E c : Sent(c) /\ c.kind = "Renew"
    BY <1>5, WriteRenewEffect
  <2>3. PICK n \in Node, s \in Slot : n = Me(t) /\ s = op[t].slot
    BY <1>1, Here
  <2>4. PICK j, ws, b, R : j = slot[n][s].key /\ ws = slot[n][s].words /\ b = slot[n][s].wlock /\ R = slot[n][s].readers \ {t}
    OBVIOUS
  <2>5. SlotSet(slot', slot, n, s, j, ws, b, R)
    BY <2>1, <2>3, <2>4 DEF Mine
  <2>6. /\ KeysFrom /\ ReadersKept(t)
        /\ \A a \in Node, r \in Slot : a # n => slot'[a][r].key = slot[a][r].key
    BY <2>4, <2>5, SetKeys
  <2>7. Victims'
    BY <1>1, <2>1, <2>3, <2>6, VictimsMove DEF CoverInv
  <2> QED BY <1>1, <1>2, <2>1, <2>2, <2>6, <2>7, CoverMove
<1> QED BY <1>4, <1>5

\* The reply has come: the block it brings is registered and no write-back of
\* it is under way.
LEMMA CoverAnswered ==
  ASSUME TypeInv, SlotInv, ReplyInv, OneThread, CoverInv, NEW t \in Thread, Answered(t)
  PROVE  CoverInv'
<1>1. PICK n \in Node, h \in Node, s \in Slot, k \in Block :
        n = Me(t) /\ k = op[t].blk /\ h = Home[k] /\ s = op[t].slot /\ pc[t] = "wait"
  <2>1. pc[t] = "wait"
    BY DEF Answered
  <2> QED BY <2>1, Here
<1>2. /\ reply[h][n] # <<>> /\ dlock'[n][h] = None /\ reply'[h][n] = Tail(reply[h][n])
      /\ \A x, y \in Node : x # n \/ y # h => dlock'[x][y] = dlock[x][y] /\ reply'[y][x] = reply[y][x]
      /\ UNCHANGED <<dir, ctl, srv, op>>
  <2>1. reply[h][n] # <<>> /\ LockTo(n, h, None) /\ reply'[h][n] = Tail(reply[h][n]) /\ UNCHANGED <<dir, ctl, srv, op>>
    BY <1>1, AnsweredEffect
  <2>2. \A x, y \in Node : x # h \/ y # n => reply'[x][y] = reply[x][y]
    <3>1. reply' = [reply EXCEPT ![h][n] = Tail(@)] /\ reply[h][n] # <<>>
      BY <1>1, Zenon DEF Answered
    <3> QED BY <3>1, MatrixTail DEF TypeInv
  <2>3. \A x, y \in Node : x # n \/ y # h => reply'[y][x] = reply[y][x]
    BY <2>2
  <2> QED BY <2>1, <2>3 DEF LockTo
<1>3. \/ /\ t \in slot[n][s].readers /\ PcTo(t, "idle")
         /\ SlotSet(slot', slot, n, s, slot[n][s].key, slot[n][s].words, slot[n][s].wlock, slot[n][s].readers \ {t})
      \/ /\ t \notin slot[n][s].readers /\ PcTo(t, "filled")
         /\ \E ws : SlotSet(slot', slot, n, s, slot[n][s].key, ws, slot[n][s].wlock, slot[n][s].readers)
  BY <1>1, AnsweredEffect DEF Loads, Mine
<1>4. PICK l \in {"idle", "filled"} : PcTo(t, l) /\ (l = "filled" => t \notin slot[n][s].readers)
  BY <1>3
<1>5. /\ KeysFrom /\ ReadersKept(t)
      /\ \A a \in Node, r \in Slot : a # n => slot'[a][r].key = slot[a][r].key
  <2>1. PICK j, ws, b, R : /\ j = slot[n][s].key /\ slot[n][s].readers \ {t} \subseteq R
                           /\ SlotSet(slot', slot, n, s, j, ws, b, R)
    BY <1>3
  <2> QED BY <2>1, SetKeys
<1>6. reply'[h][n] = <<>>
  <2>1. PICK q \in Seq(Reply) : q = reply[h][n]
    BY DEF TypeInv
  <2>2. Len(q) <= 1 /\ q # <<>>
    BY <1>2, <2>1 DEF ReplyInv, Alone
  <2>3. Tail(q) = <<>>
    BY <2>1, <2>2
  <2> QED BY <1>2, <2>1, <2>3
<1>7. \A x, y \in Node : reply'[y][x] # <<>> => reply[y][x] # <<>>
  BY <1>2, <1>6
<1>8. InProgram'
  <2>1. k \in Program(t)
    BY <1>1 DEF CoverInv, InProgram
  <2> QED BY <1>1, <1>2, <1>4, <2>1, ProgramKept DEF CoverInv
<1>9. Victims'
  BY <1>1, <1>2, <1>4, <1>5, VictimsMove DEF CoverInv
<1>10. l = "filled" => n \in dir[k]
  <2>1. l = "filled" => Waits(t)
    BY <1>1, <1>4 DEF Waits, Mine
  <2> QED BY <1>1, <1>2, <2>1 DEF CoverInv, Covered, ReplyCovered
<1>11. Covered'
  <2>1. NoDrop
    BY <1>2, Grown
  <2>2. l # "wait"
    BY <1>4
  <2> QED BY <1>1, <1>2, <1>4, <1>5, <1>7, <1>10, <2>1, <2>2, CoveredMove DEF CoverInv
<1>12. WritebacksGone'
  <2>1. UnderFrom
    BY <1>2 DEF UnderFrom, Under
  <2>2. ASSUME NEW a \in Node, NEW y \in Node, NEW m, a = Me(t), Under(a, y, m), m.kind = "Writeback"
        PROVE  op'[t].blk # m.blk
    <3>1. y = Home[m.blk]
      BY <2>2 DEF CoverInv, WritebacksGone, Gone
    <3>2. NoneQueued(n, h) /\ NoneServed(n, h)
      BY <1>2 DEF CoverInv, Ordered, Order
    <3>3. ~Under(n, h, m)
      BY <2>2, <3>2 DEF Under, NoneQueued, NoneServed
    <3> QED BY <1>1, <1>2, <2>2, <3>1, <3>3
  <2> QED BY <1>2, <1>4, <1>5, <2>1, <2>2, UnderType, GoneMove DEF CoverInv
<1>13. \A x, y \in Node : Order(x, y)'
  BY <1>2, <1>7, OrderSent DEF CoverInv, Ordered, Serves
<1>14. \A x, y \in Node : HitWaits(x, y)'
  <2>1. \A u \in Thread : Waits(u)' => u # t
    BY <1>4 DEF Waits, PcTo
  <2>2. \A u \in Thread : Waits(u)' => Waits(u)
    BY <1>2, <1>4, <1>5, <2>1, WaitsKept
  <2>3. \A x, y \in Node : \A u \in Thread : dlock'[x][y] = u => dlock[x][y] = u
    BY <1>2, CacheAssumption
  <2> QED BY <1>2, <2>2, <2>3, HitWaitsKept DEF CoverInv, Ordered
<1> QED BY <1>8, <1>9, <1>11, <1>12, <1>13, <1>14 DEF CoverInv, Ordered

\* The filled slot gets its key.
LEMMA CoverFilled ==
  ASSUME TypeInv, OneThread, CoverInv, NEW t \in Thread, Filled(t)
  PROVE  CoverInv'
<1>1. PICK n \in Node, s \in Slot, k \in Block : n = Me(t) /\ s = op[t].slot /\ k = op[t].blk
  <2>1. pc[t] = "filled"
    BY DEF Filled
  <2> QED BY <2>1, Here
<1>2. pc[t] = "filled" /\ PcTo(t, "idle") /\ UNCHANGED <<dir, ctl, reply, dlock, srv, op>>
  BY FilledEffect DEF net
<1>3. PICK ws, b, R : R = slot[n][s].readers /\ SlotSet(slot', slot, n, s, k, ws, b, R)
  BY <1>1, FilledEffect DEF Mine
<1>4. \A a \in Node, r \in Slot : slot'[a][r].key = slot[a][r].key \/ (a = n /\ slot'[a][r].key = k)
  BY <1>3 DEF SlotSet
<1>5. \A a \in Node, r \in Slot : slot'[a][r].readers = slot[a][r].readers
  BY <1>3 DEF SlotSet
<1>6. ReadersKept(t) /\ \A a \in Node, r \in Slot : a # n => slot'[a][r].key = slot[a][r].key
  BY <1>4, <1>5 DEF ReadersKept
<1>7. InProgram'
  BY <1>2, ProgramKept DEF CoverInv
<1>8. Victims'
  BY <1>1, <1>2, <1>6, VictimsMove DEF CoverInv
<1>9. Ordered'
  BY <1>2, <1>6, OrderedMove DEF CoverInv
<1>10. n \in dir[k]
  BY <1>1, <1>2 DEF CoverInv, Covered, FilledCovered
<1>11. KeyCovered'
  BY <1>2, <1>4, <1>10 DEF CoverInv, Covered, KeyCovered
<1>12. FilledCovered'
  BY <1>2 DEF CoverInv, Covered, FilledCovered, PcTo
<1>13. ReplyCovered'
  <2>1. \A u \in Thread : Waits(u)' => Waits(u)
    BY <1>2, <1>6, WaitsKept DEF Waits, PcTo
  <2> QED BY <1>2, <2>1 DEF CoverInv, Covered, ReplyCovered
<1>14. WritebacksGone'
  <2>1. ASSUME NEW x \in Node, NEW y \in Node, NEW m, Under(x, y, m)', m.kind = "Writeback"
        PROVE  Gone(x, y, m)'
    <3>1. Under(x, y, m)
      BY <1>2, <2>1 DEF Under
    <3>2. Gone(x, y, m)
      BY <2>1, <3>1 DEF CoverInv, WritebacksGone
    <3>3. x = n => m.blk # k
      BY <1>1, <1>2, <3>2 DEF Gone
    <3>4. Keyless(x, m.blk)'
      BY <1>4, <3>2, <3>3 DEF Gone, Keyless
    <3> QED BY <1>2, <3>2, <3>4 DEF Gone, PcTo
  <2> QED BY <2>1 DEF WritebacksGone
<1> QED BY <1>7, <1>8, <1>9, <1>11, <1>12, <1>13, <1>14 DEF CoverInv, Covered

\* The slots' keys and readers stay.
SameKeys == \A a \in Node, r \in Slot : slot'[a][r].key = slot[a][r].key /\ slot'[a][r].readers = slot[a][r].readers

\* The threads wait for their slots after a step of a protocol thread as before.
LEMMA WaitsServe ==
  ASSUME TypeInv, UNCHANGED <<pc, op>>, SameKeys, NEW u \in Thread
  PROVE  Waits(u)' <=> Waits(u)
<1>1. CASE pc[u] = "wait"
  <2>1. Me(u) \in Node /\ op[u].slot \in Slot
    BY <1>1, Here
  <2> QED BY <2>1 DEF Waits, Mine, SameKeys
<1>2. CASE pc[u] # "wait"
  BY <1>2 DEF Waits
<1> QED BY <1>1, <1>2

\* A step of a protocol thread that leaves the keys alone.
LEMMA CoverServe ==
  ASSUME TypeInv, CoverInv, UNCHANGED <<pc, op, dlock>>, SameKeys, UnderFrom, Covered', Ordered'
  PROVE  CoverInv'
<1>1. InProgram'
  BY DEF CoverInv, InProgram
<1>2. Victims'
  <2>1. ASSUME NEW u \in Thread, pc[u] = "writeback", NEW s \in Slot
        PROVE  slot'[Me(u)][s].key # op[u].old
    <3>1. Me(u) \in Node
      BY Here
    <3> QED BY <2>1, <3>1 DEF CoverInv, Victims, SameKeys
  <2> QED BY <2>1 DEF Victims
<1>3. WritebacksGone'
  BY DEF CoverInv, WritebacksGone, UnderFrom, Gone, Keyless, SameKeys
<1> QED BY <1>1, <1>2, <1>3 DEF CoverInv

\* What is covered stays so while registrations are added only, but for the
\* replies, which are for what they register.
LEMMA CoveredServe ==
  ASSUME TypeInv, Covered, UNCHANGED <<pc, op>>, SameKeys, NoDrop,
         \A u \in Thread, x, y \in Node : Waits(u) /\ y = Me(u) /\ x = Home[op[u].blk] /\ reply'[x][y] # <<>> =>
           reply[x][y] # <<>> \/ y \in dir'[op[u].blk]
  PROVE  Covered'
<1>1. KeyCovered'
  BY DEF Covered, KeyCovered, NoDrop, SameKeys
<1>2. FilledCovered'
  <2>1. ASSUME NEW u \in Thread, pc[u] = "filled"
        PROVE  Me(u) \in dir'[op[u].blk]
    <3>1. Me(u) \in Node /\ op[u].blk \in Block /\ Me(u) \in dir[op[u].blk]
      BY <2>1, Here DEF Covered, FilledCovered
    <3> QED BY <3>1 DEF NoDrop
  <2> QED BY <2>1 DEF FilledCovered
<1>3. ReplyCovered'
  <2>1. ASSUME NEW u \in Thread, Waits(u), reply'[Home[op[u].blk]][Me(u)] # <<>>
        PROVE  Me(u) \in dir'[op[u].blk]
    <3>1. PICK x \in Node, y \in Node, k \in Block : y = Me(u) /\ k = op[u].blk /\ x = Home[k]
      BY <2>1, Here DEF Waits
    <3>2. reply[x][y] # <<>> => y \in dir[k]
      BY <2>1, <3>1 DEF Covered, ReplyCovered
    <3> QED BY <2>1, <3>1, <3>2 DEF NoDrop
  <2> QED BY <2>1, WaitsServe DEF ReplyCovered
<1> QED BY <1>1, <1>2, <1>3 DEF Covered

\* A message is taken from a control socket.
LEMMA CoverReceive ==
  ASSUME TypeInv, CoverInv, NEW n \in Node, NEW p \in Node, NEW i \in Servers(n, p), Receive(n, p, i)
  PROVE  CoverInv'
<1>1. PICK c \in Seq(Messages) : c = ctl[p][n] /\ c # <<>>
  BY ReceiveEffect DEF TypeInv
<1>2. PICK d, m : d = Tail(c) /\ m = Head(c)
  OBVIOUS
<1>3. /\ SrvTo(n, p, i, m) /\ ctl'[p][n] = d
      /\ \A x, y \in Node : x # p \/ y # n => ctl'[x][y] = ctl[x][y]
      /\ UNCHANGED <<dir, slot, reply, dlock, pc, op>>
  BY <1>1, <1>2, ReceiveEffect DEF local
<1>4. /\ Len(c) \in Nat /\ Len(c) > 0 /\ m = c[1] /\ Len(d) = Len(c) - 1
      /\ \A j \in 1 .. Len(d) : j + 1 \in 1 .. Len(c) /\ d[j] = c[j + 1]
  BY <1>1, <1>2, TailAt
<1>5. 1 \in 1 .. Len(c)
  BY <1>4
<1>6. \A j \in Servers(n, p) : srv'[n][p][j] = m \/ srv'[n][p][j] = srv[n][p][j]
  BY <1>3 DEF SrvTo
<1>7. \A x, y \in Node : x # p \/ y # n => \A j \in Servers(y, x) : srv'[y][x][j] = srv[y][x][j]
  BY <1>3 DEF SrvTo
<1>8. UnderFrom
  <2>1. ASSUME NEW x \in Node, NEW y \in Node, NEW a, Under(x, y, a)'
        PROVE  Under(x, y, a)
    <3>1. CASE x = p /\ y = n
      <4>1. ASSUME NEW j \in 1 .. Len(d), d[j] = a
            PROVE  Under(p, n, a)
        BY <1>1, <1>4, <4>1 DEF Under
      <4>2. m = a => Under(p, n, a)
        BY <1>1, <1>4, <1>5 DEF Under
      <4>3. ASSUME NEW j \in Servers(n, p), srv[n][p][j] = a
            PROVE  Under(p, n, a)
        BY <4>3 DEF Under
      <4> QED BY <1>3, <1>6, <2>1, <3>1, <4>1, <4>2, <4>3 DEF Under
    <3>2. CASE x # p \/ y # n
      BY <1>3, <1>7, <2>1, <3>2 DEF Under
    <3> QED BY <3>1, <3>2
  <2> QED BY <2>1 DEF UnderFrom
<1>9. SameKeys /\ NoDrop
  BY <1>3, Grown DEF SameKeys
<1>10. Covered'
  BY <1>3, <1>9, CoveredServe DEF CoverInv
<1>11. Order(p, n) /\ HitWaits(p, n)
  BY DEF CoverInv, Ordered
<1>12. NoneQueued(p, n) => NoneQueued(p, n)' /\ m.kind # "Writeback"
  BY <1>1, <1>3, <1>4, <1>5 DEF NoneQueued
<1>13. Order(p, n)'
  <2>1. ASSUME NEW a \in 1 .. Len(d), NEW b \in 1 .. Len(d), d[a].kind \in Requests, a <= b
        PROVE  d[b].kind # "Writeback"
    <3>1. a + 1 \in 1 .. Len(c) /\ b + 1 \in 1 .. Len(c) /\ a + 1 <= b + 1 /\ c[a + 1].kind \in Requests /\ d[b] = c[b + 1]
      BY <1>4, <2>1
    <3> QED BY <1>1, <1>11, <3>1 DEF Order, Asks
  <2>2. m.kind \in Requests => NoneQueued(p, n)
    BY <1>1, <1>4, <1>5, <1>11 DEF Order, Asks, NoneQueued
  <2>3. ASSUME NEW j \in Servers(n, p), srv'[n][p][j].kind \in Requests
        PROVE  NoneQueued(p, n)'
    BY <1>6, <1>11, <1>12, <2>2, <2>3 DEF Order, Serves
  <2>4. reply[n][p] # <<>> => NoneQueued(p, n)' /\ NoneServed(p, n)'
    BY <1>6, <1>11, <1>12 DEF Order, NoneServed
  <2> QED BY <1>3, <2>1, <2>3, <2>4 DEF Order, Asks, Serves
<1>14. HitWaits(p, n)'
  <2>1. \A u \in Thread : Waits(u)' <=> Waits(u)
    BY <1>3, <1>9, WaitsServe
  <2> QED BY <1>1, <1>3, <1>4, <1>5, <1>6, <1>11, <2>1 DEF HitWaits
<1>15. ASSUME NEW x \in Node, NEW y \in Node, x # p \/ y # n
       PROVE  Order(x, y)' /\ HitWaits(x, y)'
  <2>1. \A u \in Thread : Waits(u)' <=> Waits(u)
    BY <1>3, <1>9, WaitsServe
  <2>2. ctl'[x][y] = ctl[x][y] /\ reply'[y][x] = reply[y][x] /\ \A j \in Servers(y, x) : srv'[y][x][j] = srv[y][x][j]
    BY <1>3, <1>7, <1>15
  <2>3. Order(x, y)'
    <3>1. Order(x, y)
      BY DEF CoverInv, Ordered
    <3>2. (NoneQueued(x, y)' <=> NoneQueued(x, y)) /\ (NoneServed(x, y)' <=> NoneServed(x, y))
      BY <2>2 DEF NoneQueued, NoneServed
    <3>3. \A j \in Servers(y, x) : Serves(x, y, j)' <=> Serves(x, y, j)
      BY <2>2 DEF Serves
    <3>4. \A a, b \in 1 .. Len(ctl'[x][y]) : Asks(x, y, a)' /\ a <= b => ctl'[x][y][b].kind # "Writeback"
      BY <2>2, <3>1 DEF Order, Asks
    <3> QED BY <2>2, <3>1, <3>2, <3>3, <3>4 DEF Order
  <2>4. HitWaits(x, y)'
    BY <1>3, <2>1, <2>2 DEF CoverInv, Ordered, HitWaits
  <2> QED BY <2>3, <2>4
<1>16. Ordered'
  BY <1>13, <1>14, <1>15 DEF Ordered
<1> QED BY <1>3, <1>8, <1>9, <1>10, <1>16, CoverServe

\* A request is answered: the asking node is registered.
LEMMA CoverReplied ==
  ASSUME TypeInv, ReplyInv, HomesBelow, CoverInv, NEW n \in Node, NEW p \in Node, NEW i \in Servers(n, p), Serves(p, n, i),
         NEW m, m = srv[n][p][i], SrvTo(n, p, i, Idle), Replied(n, p, m.blk), UNCHANGED <<pc, op, dlock>>,
         SameKeys, NoDrop, UNCHANGED ctl \/ (\E c : Sent(c) /\ c.kind = "Renew"),
         m.kind # "WriteRenew" => p \in dir'[m.blk]
  PROVE  CoverInv'
<1>1. PICK u \in Thread : u = dlock[p][n] /\ m.blk = op[u].blk /\ pc[u] = "wait" /\ Me(u) = p /\ Home[op[u].blk] = n
  BY DEF ReplyInv, Addressed, Holder, TypeInv
<1>2. Servers(n, p) = {i}
  <2>1. n <= p
    BY <1>1 DEF CoverInv, InProgram, HomesBelow, Me
  <2>2. n \in Nat /\ p \in Nat
    BY CacheAssumption
  <2>3. ~(p < n)
    BY <2>1, <2>2
  <2> QED BY <2>3 DEF Servers
<1>3. Idle.kind # "Writeback" /\ Idle.kind \notin Requests /\ Idle.kind \notin Hitting
  BY DEF Idle, None, Requests, Hitting
<1>4. \A x, y \in Node : \A j \in Servers(y, x) :
        srv'[y][x][j] = srv[y][x][j] \/ (x = p /\ y = n /\ srv'[y][x][j] = Idle)
  BY <1>2 DEF SrvTo
<1>5. \A x, y \in Node : x # n \/ y # p => reply'[x][y] = reply[x][y]
  BY DEF Replied
<1>6. \A w \in Thread : Waits(w)' <=> Waits(w)
  BY WaitsServe
<1>7. "Renew" # "Writeback" /\ "Renew" \notin Hitting
  BY DEF Hitting
<1>8. UnderFrom
  BY <1>3, <1>4, <1>7, UnderSent
<1>9. \A x, y \in Node : Order(x, y)'
  <2>1. NoneQueued(p, n)
    BY DEF CoverInv, Ordered, Order
  <2>2. NoneServed(p, n)'
    <3>1. srv'[n][p][i] = Idle
      BY DEF SrvTo
    <3> QED BY <1>2, <1>3, <3>1 DEF NoneServed
  <2>3. ASSUME NEW x \in Node, NEW y \in Node
        PROVE  Order(x, y)'
    <3>1. Order(x, y)
      BY DEF CoverInv, Ordered
    <3>2. \A j \in Servers(y, x) : srv'[y][x][j].kind = "Writeback" => srv[y][x][j].kind = "Writeback"
      BY <1>3, <1>4
    <3>3. \A j \in Servers(y, x) : Serves(x, y, j)' => Serves(x, y, j)
      BY <1>3, <1>4 DEF Serves
    <3>4. reply'[y][x] # <<>> => reply[y][x] # <<>> \/ (NoneQueued(x, y) /\ NoneServed(x, y)')
      <4>1. CASE x = p /\ y = n
        BY <2>1, <2>2, <4>1
      <4>2. CASE x # p \/ y # n
        BY <1>5, <4>2
      <4> QED BY <4>1, <4>2
    <3> QED BY <1>7, <3>1, <3>2, <3>3, <3>4, OrderSent
  <2> QED BY <2>3
<1>10. \A x, y \in Node : HitWaits(x, y)'
  BY <1>3, <1>4, <1>6, <1>7, HitWaitsKept DEF CoverInv, Ordered
<1>11. Covered'
  <2>1. ASSUME NEW v \in Thread, NEW x \in Node, NEW y \in Node, Waits(v), y = Me(v), x = Home[op[v].blk], reply'[x][y] # <<>>
        PROVE  reply[x][y] # <<>> \/ y \in dir'[op[v].blk]
    <3>1. CASE x = n /\ y = p
      <4>1. v = u
        BY <1>1, <2>1, <3>1 DEF Waits, ReplyInv, Waiter
      <4>2. m.kind \notin Hitting
        BY <1>1, <2>1, <4>1 DEF CoverInv, Ordered, HitWaits
      <4>3. p \in dir'[m.blk]
        BY <4>2 DEF Hitting
      <4> QED BY <1>1, <3>1, <4>1, <4>3
    <3>2. CASE x # n \/ y # p
      BY <1>5, <2>1, <3>2
    <3> QED BY <3>1, <3>2
  <2> QED BY <2>1, CoveredServe DEF CoverInv
<1> QED BY <1>8, <1>9, <1>10, <1>11, CoverServe DEF Ordered

\* A protocol thread is done with a message, or goes on with it, and nothing
\* else happens to what is covered.
LEMMA CoverQuiet ==
  ASSUME TypeInv, CoverInv, NEW n \in Node, NEW p \in Node, NEW i \in Servers(n, p), NEW v, SrvTo(n, p, i, v),
         v.kind # "Writeback", v.kind \in Requests => srv[n][p][i].kind \in Requests,
         v.kind \in Hitting => srv[n][p][i].kind \in Hitting, UNCHANGED <<pc, op, dlock, ctl, reply>>,
         SameKeys, Covered'
  PROVE  CoverInv'
<1>1. \A x, y \in Node : \A j \in Servers(y, x) :
        srv'[y][x][j] = srv[y][x][j] \/ (x = p /\ y = n /\ j = i /\ srv'[y][x][j] = v)
  BY DEF SrvTo
<1>2. \A u \in Thread : Waits(u)' <=> Waits(u)
  BY WaitsServe
<1>3. UnderFrom
  BY <1>1, UnderSent
<1>4. \A x, y \in Node : Order(x, y)'
  <2>1. ASSUME NEW x \in Node, NEW y \in Node
        PROVE  Order(x, y)'
    <3>1. Order(x, y)
      BY DEF CoverInv, Ordered
    <3>2. \A j \in Servers(y, x) : srv'[y][x][j].kind = "Writeback" => srv[y][x][j].kind = "Writeback"
      BY <1>1
    <3>3. \A j \in Servers(y, x) : Serves(x, y, j)' => Serves(x, y, j)
      BY <1>1 DEF Serves
    <3> QED BY <3>1, <3>2, <3>3, OrderSent
  <2> QED BY <2>1
<1>5. \A x, y \in Node : HitWaits(x, y)'
  BY <1>1, <1>2, HitWaitsKept DEF CoverInv, Ordered
<1> QED BY <1>3, <1>4, <1>5, CoverServe DEF Ordered

\* A write-back is handled: the node has no copy, and none is on its way to it.
LEMMA CoverDropped ==
  ASSUME TypeInv, CoverInv, NEW n \in Node, NEW p \in Node, NEW i \in Servers(n, p), ServerWriteback(n, p, i)
  PROVE  CoverInv'
<1>1. PICK m : m = srv[n][p][i]
  OBVIOUS
<1>2. m.kind = "Writeback" /\ SrvTo(n, p, i, Idle) /\ UNCHANGED <<slot, ctl, reply, dlock, pc, op>>
  BY <1>1, ServerWritebackEffect DEF local
<1>3. m.blk \in Block
  BY <1>1, <1>2, Handled, MessageFields DEF None
<1>4. PICK k \in Block : k = m.blk
  BY <1>3
<1>5. dir' = [dir EXCEPT ![k] = Dropped(@, p)]
  BY <1>1, <1>4, Zenon DEF ServerWriteback
<1>6. Drops(p, k)
  BY <1>5 DEF Drops, Dropped, TypeInv
<1>7. Under(p, n, m)
  BY <1>1 DEF Under
<1>8. Gone(p, n, m)
  BY <1>2, <1>7 DEF CoverInv, WritebacksGone
<1>9. SameKeys
  BY <1>2 DEF SameKeys
<1>10. KeyCovered'
  BY <1>2, <1>4, <1>6, <1>8 DEF KeyCovered, CoverInv, Covered, Drops, Gone, Keyless
<1>11. FilledCovered'
  <2>1. ASSUME NEW u \in Thread, pc[u] = "filled"
        PROVE  Me(u) \in dir'[op[u].blk]
    <3>1. Me(u) \in Node /\ op[u].blk \in Block /\ Me(u) \in dir[op[u].blk]
      BY <2>1, Here DEF CoverInv, Covered, FilledCovered
    <3>2. Me(u) = p => op[u].blk # k
      BY <1>4, <1>8, <2>1 DEF Gone
    <3> QED BY <1>6, <3>1, <3>2 DEF Drops
  <2> QED BY <1>2, <2>1 DEF FilledCovered
<1>12. ReplyCovered'
  <2>1. ASSUME NEW u \in Thread, Waits(u), reply[Home[op[u].blk]][Me(u)] # <<>>
        PROVE  Me(u) \in dir'[op[u].blk]
    <3>1. Me(u) \in Node /\ op[u].blk \in Block /\ Me(u) \in dir[op[u].blk]
      BY <2>1, Here DEF CoverInv, Covered, ReplyCovered, Waits
    <3>2. reply[n][p] = <<>>
      BY <1>1, <1>2 DEF CoverInv, Ordered, Order, NoneServed
    <3>3. n = Home[k]
      BY <1>4, <1>8 DEF Gone
    <3>4. ~(Me(u) = p /\ op[u].blk = k)
      BY <2>1, <3>2, <3>3
    <3> QED BY <1>6, <3>1, <3>4 DEF Drops
  <2> QED BY <1>2, <1>9, <2>1, WaitsServe DEF ReplyCovered
<1>13. Covered'
  BY <1>10, <1>11, <1>12 DEF Covered
<1>14. Idle.kind # "Writeback" /\ Idle.kind \notin Requests /\ Idle.kind \notin Hitting
  BY DEF Idle, None, Requests, Hitting
<1> QED BY <1>2, <1>9, <1>13, <1>14, CoverQuiet

\* A protocol thread handles a message.
LEMMA CoverProtocol ==
  ASSUME TypeInv, ReplyInv, HomesBelow, CoverInv, NEW n \in Node, NEW p \in Node, NEW i \in Servers(n, p), Protocol(n, p, i)
  PROVE  CoverInv'
<1>1. PICK m : m = srv[n][p][i]
  OBVIOUS
<1>2. Idle.kind # "Writeback" /\ Idle.kind \notin Requests /\ Idle.kind \notin Hitting
  BY DEF Idle, None, Requests, Hitting
<1>3. UNCHANGED slot => SameKeys
  BY DEF SameKeys
<1>4. \A k, ws, v : Renewed(k, ws, v) => SameKeys
  BY DEF Renewed, SameKeys
<1>5. ASSUME UNCHANGED <<dir, reply, pc, op>>, SameKeys
      PROVE  Covered'
  BY <1>5, Grown, CoveredServe DEF CoverInv
<1>6. CASE ServerReadMiss(n, p, i)
  <2>1. /\ m.kind = "ReadMiss" /\ m.blk \in Block /\ SrvTo(n, p, i, Idle) /\ Replied(n, p, m.blk)
        /\ UNCHANGED <<slot, ctl, dlock, pc, op>>
    BY <1>1, <1>6, ServerReadMissEffect DEF local
  <2>2. dir' = [dir EXCEPT ![m.blk] = Registered(@, p)]
    BY <1>1, <1>6, Zenon DEF ServerReadMiss
  <2>3. NoDrop /\ p \in dir'[m.blk]
    BY <2>1, <2>2, Grown
  <2>4. Serves(p, n, i)
    BY <1>1, <2>1 DEF Serves, Requests
  <2> QED BY <1>1, <1>3, <2>1, <2>3, <2>4, CoverReplied
<1>7. CASE ServerRenew(n, p, i)
  <2>1. SrvTo(n, p, i, Idle) /\ UNCHANGED <<dir, ctl, reply, dlock, pc, op>> /\ SameKeys
    BY <1>4, <1>7, ServerRenewEffect
  <2> QED BY <1>2, <1>5, <2>1, CoverQuiet
<1>8. CASE ServerPut(n, p, i)
  <2>1. m.kind \in {"Write", "WriteMiss"} /\ UNCHANGED <<slot, dir, ctl, reply, dlock, pc, op>>
    BY <1>1, <1>8, ServerPutEffect DEF local
  <2>2. m \in Messages
    BY <1>1, <2>1, Handled, MessageFields DEF None
  <2>3. PICK v : v = [m EXCEPT !.kind = IF m.kind = "Write" THEN "WriteRenew" ELSE "MissRenew"]
    OBVIOUS
  <2>4. v \in Messages /\ v.kind = IF m.kind = "Write" THEN "WriteRenew" ELSE "MissRenew"
    BY <2>1, <2>2, <2>3 DEF Messages
  <2>5. srv' = [srv EXCEPT ![n][p][i] = v]
    <3>1. srv' = [srv EXCEPT ![n][p][i].kind = IF @ = "Write" THEN "WriteRenew" ELSE "MissRenew"]
      BY <1>8, Zenon DEF ServerPut
    <3> QED BY <1>1, <2>3, <3>1, Zenon
  <2>6. SrvTo(n, p, i, v)
    BY <2>4, <2>5, SrvSet
  <2>7. v.kind # "Writeback" /\ m.kind \in Requests /\ (v.kind \in Hitting => m.kind \in Hitting)
    BY <2>1, <2>4 DEF Requests, Hitting
  <2> QED BY <1>1, <1>3, <1>5, <2>1, <2>6, <2>7, CoverQuiet
<1>9. CASE ServerAnswer(n, p, i)
  <2>1. /\ m.kind \in {"WriteRenew", "MissRenew"} /\ m.blk \in Block /\ SrvTo(n, p, i, Idle) /\ Replied(n, p, m.blk)
        /\ Renewed(m.blk, m.words, m.val) /\ UNCHANGED <<dlock, pc, op>>
    BY <1>1, <1>9, ServerAnswerEffect
  <2>2. \E c : Sent(c) /\ c.kind = "Renew"
    BY <1>1, <1>9, ServerAnswerEffect
  <2>3. dir' = IF m.kind = "MissRenew" THEN [dir EXCEPT ![m.blk] = Registered(@, p)] ELSE dir
    BY <1>1, <1>9, Zenon DEF ServerAnswer
  <2>4. NoDrop /\ (m.kind = "MissRenew" => p \in dir'[m.blk])
    BY <2>1, <2>3, Grown
  <2>5. Serves(p, n, i)
    BY <1>1, <2>1 DEF Serves, Requests
  <2> QED BY <1>1, <1>4, <2>1, <2>2, <2>4, <2>5, CoverReplied
<1> QED BY <1>6, <1>7, <1>8, <1>9, CoverReceive, CoverDropped DEF Protocol

\* Every step leaves the copies registered.
LEMMA CoverStep ==
  ASSUME TypeInv, SlotInv, ReplyInv, OneThread, HomesBelow, CoverInv, [Next]_vars
  PROVE  CoverInv'
<1>1. ASSUME NEW t \in Thread, Work(t)
      PROVE  CoverInv'
  BY <1>1, CoverLook, CoverWriteback, CoverFill, CoverMissRenew, CoverAnswered, CoverFilled, CoverWrite DEF Work
<1>2. CASE UNCHANGED vars
  <2>1. UNCHANGED <<dir, slot, ctl, reply, dlock, srv, pc, op>>
    BY <1>2 DEF vars
  <2>2. SameKeys /\ NoDrop /\ UnderFrom
    BY <2>1, Grown DEF SameKeys, UnderFrom, Under
  <2>3. Covered'
    BY <2>1, <2>2, CoveredServe DEF CoverInv
  <2>4. \A x, y \in Node : Order(x, y)'
    BY <2>1, OrderSent DEF CoverInv, Ordered, Serves
  <2>5. \A x, y \in Node : HitWaits(x, y)'
    BY <2>1, <2>2, WaitsServe, HitWaitsKept DEF CoverInv, Ordered
  <2> QED BY <2>1, <2>2, <2>3, <2>4, <2>5, CoverServe DEF Ordered
<1> QED BY <1>1, <1>2, CoverStart, CoverProtocol DEF Next

\* A node with a copy of a block is registered for it, so that the next write
\* is sent to it: a block that is evicted and fetched again is not dropped from
\* the directory by the late write-back.  It holds with one thread on a node,
\* which only uses blocks whose home is not above it: a node has two threads
\* receiving from a lower peer, which may handle the write-back after the
\* request that follows it.
THEOREM DirectoryCoversHolds ==
  ASSUME OneThread, HomesBelow
  PROVE  Spec => []DirectoryCovers
<1> DEFINE Inv == TypeInv /\ SlotInv /\ ReplyInv /\ CoverInv
<1>1. Init => Inv
  BY TypeInit, SlotInit, ReplyInit, CoverInit
<1>2. Inv /\ [Next]_vars => Inv'
  BY TypeStep, SlotStep, ReplyStep, CoverStep
<1>3. Inv => DirectoryCovers
  BY DEF CoverInv, Covered, KeyCovered, DirectoryCovers, HasCopy
<1> QED BY <1>1, <1>2, <1>3, PTL DEF Spec
=============================================================================
