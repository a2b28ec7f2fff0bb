-------------------------- MODULE MapReduceProofs ---------------------------
(***************************************************************************)
(* Proofs about the data sockets that DAddAccumulator and DMapReduce       *)
(* share, for every number of nodes and users, every length of the vector  *)
(* and every size of a block: a packet lies within the buffer of the node  *)
(* it is sent to.                                                          *)
(***************************************************************************)
EXTENDS MapReduce, TLAPS

Place == {"new", "idle", "local", "send", "wait", "map", "mapend", "reduce"}

\* What a data socket carries, for both objects.
AccPacket == [kind : {"Accumulate"}, thread : User, lo : Int, hi : Int, last : BOOLEAN, add : Nat]
MapPacket == [kind : {"Map"}, pairs : SUBSET (User \X Nat \X Int), last : BOOLEAN]
MapLast == [kind : {"Map"}, pairs : SUBSET (User \X Nat \X Int), last : BOOLEAN, thread : User]
Msg == AccPacket \cup MapPacket \cup MapLast \cup [kind : {"PartialDone", "LocalReduce", "MapPartialDone"}]

\* Packet m lies within the buffer of node b.
Fits(b, m) == m.kind = "Accumulate" /\ m.lo < m.hi => Base(b) <= m.lo /\ m.hi <= Base(b) + Size(b)

\* The socket q to node b holds packets that fit.
Queue(b, q) == q \in Seq(Msg) /\ \A i \in DOMAIN q : Fits(b, q[i])
Sockets(d) ==
  /\ d \in [Node -> [Node -> Seq(Msg)]]
  /\ \A a, b \in Node : Queue(b, d[a][b])

MRType ==
  /\ pc \in [User -> Place]
  /\ round \in [User -> 0 .. MaxRounds]
  /\ maps \in [User -> Nat]
  /\ next \in [User -> [Node -> Int]]

\* A call that sends is begun, and has not gone back before the part of a node.
Cutting ==
  \A u \in User : pc[u] \in {"local", "send"} =>
    /\ round[u] > 0
    /\ \A i \in Node \ {NodeOf[u]} : Lo(i) <= next[u][i]

\* A user that tells the nodes of the end of its input has one to tell.
Telling ==
  /\ turns = [u \in User |-> turns[u]]
  /\ \A u \in User : pc[u] = "mapend" => turns[u] \in Node

SocketInv == MRType /\ Cutting /\ Telling /\ Sockets(data)
-----------------------------------------------------------------------------
(* The split of the vector.                                                *)

\* Division and remainder of natural numbers are natural numbers.
LEMMA DivNat == \A a \in Nat, b \in Nat \ {0} : a \div b \in Nat /\ a % b \in Nat
  OBVIOUS

\* A rounded-up quotient is a natural number.
LEMMA CeilDivNat == ASSUME NEW a \in Nat, NEW b \in Nat \ {0} PROVE CeilDiv(a, b) \in Nat
  BY DivNat DEF CeilDiv

\* Every node gets a whole number of blocks.
LEMMA BlocksNat == Blocks \in Nat
<1>1. CeilDiv(VecLen, BlockSize) \in Nat
  BY CeilDivNat, AccumulatorAssumption
<1> QED
  BY <1>1, CeilDivNat, AccumulatorAssumption DEF Blocks

\* The products of the sender and of the receiver are the same.
LEMMA Products ==
  ASSUME NEW b \in Nat, NEW z \in Nat, NEW i \in Nat
  PROVE  /\ i * b * z \in Nat /\ b * z \in Nat
         /\ b * i * z = i * b * z
         /\ b * z * (i + 1) = i * b * z + b * z
  OBVIOUS

\* Numbers of the split are integers.
LEMMA SplitInt ==
  ASSUME NEW i \in Node
  PROVE  Lo(i) \in Nat /\ Hi(i) \in Int /\ Base(i) \in Nat /\ Size(i) \in Nat
<1>1. i \in Nat /\ VecLen \in Nat /\ BlockSize \in Nat
  BY AccumulatorAssumption DEF Node
<1>2. /\ i * Blocks * BlockSize \in Nat /\ Blocks * BlockSize \in Nat
      /\ Blocks * i * BlockSize = i * Blocks * BlockSize
      /\ Blocks * BlockSize * (i + 1) = i * Blocks * BlockSize + Blocks * BlockSize
  BY <1>1, BlocksNat, Products
<1> QED
  BY <1>1, <1>2 DEF Lo, Hi, Base, Size

\* A packet cut from the sender's part of node i fits into the buffer of node i,
\* which i has allocated by other formulas.
LEMMA CutFits ==
  ASSUME NEW i \in Node, NEW lo \in Int, NEW hi \in Int, Lo(i) <= lo, lo < hi, hi <= Hi(i)
  PROVE  Base(i) <= lo /\ hi <= Base(i) + Size(i)
<1>1. i \in Nat /\ VecLen \in Nat /\ BlockSize \in Nat
  BY AccumulatorAssumption DEF Node
<1>2. /\ i * Blocks * BlockSize \in Nat /\ Blocks * BlockSize \in Nat
      /\ Blocks * i * BlockSize = i * Blocks * BlockSize
      /\ Blocks * BlockSize * (i + 1) = i * Blocks * BlockSize + Blocks * BlockSize
  BY <1>1, BlocksNat, Products
<1> QED
  BY <1>1, <1>2 DEF Lo, Hi, Base, Size
-----------------------------------------------------------------------------
(* Packets are taken from a socket and put into it.                        *)

\* A packet is put into a socket.
LEMMA QueueAppend ==
  ASSUME NEW b, NEW q, Queue(b, q), NEW m \in Msg, Fits(b, m)
  PROVE  Queue(b, Append(q, m))
<1>1. q \in Seq(Msg)
  BY DEF Queue
<1>2. Append(q, m) \in Seq(Msg)
  BY <1>1
<1>3. ASSUME NEW i \in DOMAIN Append(q, m) PROVE Fits(b, Append(q, m)[i])
  <2>1. i \in 1 .. Len(q) + 1
    BY <1>1, <1>3
  <2>2. CASE i = Len(q) + 1
    <3>1. Append(q, m)[i] = m
      BY <1>1, <2>2
    <3> QED
      BY <3>1
  <2>3. CASE i # Len(q) + 1
    <3>1. i \in DOMAIN q /\ Append(q, m)[i] = q[i]
      BY <1>1, <2>1, <2>3
    <3> QED
      BY <3>1 DEF Queue
  <2> QED
    BY <2>2, <2>3
<1> QED
  BY <1>2, <1>3 DEF Queue

\* A packet is taken from a socket.
LEMMA QueueTail ==
  ASSUME NEW b, NEW q, Queue(b, q), q # <<>>
  PROVE  Queue(b, Tail(q))
<1>1. q \in Seq(Msg)
  BY DEF Queue
<1>2. Tail(q) \in Seq(Msg) /\ Len(Tail(q)) = Len(q) - 1 /\ Len(q) \in Nat
  BY <1>1
<1>3. ASSUME NEW i \in DOMAIN Tail(q) PROVE Fits(b, Tail(q)[i])
  <2>1. i + 1 \in DOMAIN q /\ Tail(q)[i] = q[i + 1]
    BY <1>1, <1>2, <1>3
  <2> QED
    BY <2>1 DEF Queue
<1> QED
  BY <1>2, <1>3 DEF Queue

\* Taking a packet keeps the sockets.
LEMMA SocketsTail ==
  ASSUME NEW d, Sockets(d), NEW a \in Node, NEW b \in Node, d[a][b] # <<>>
  PROVE  Sockets([d EXCEPT ![a][b] = Tail(@)])
<1>1. d \in [Node -> [Node -> Seq(Msg)]] /\ Queue(b, Tail(d[a][b]))
  BY QueueTail DEF Sockets
<1>2. Tail(d[a][b]) \in Seq(Msg)
  BY <1>1 DEF Queue
<1>3. [d EXCEPT ![a][b] = Tail(@)] \in [Node -> [Node -> Seq(Msg)]]
  BY <1>1, <1>2
<1>4. ASSUME NEW x \in Node, NEW y \in Node
      PROVE  Queue(y, [d EXCEPT ![a][b] = Tail(@)][x][y])
  <2>1. Queue(y, d[x][y])
    BY DEF Sockets
  <2>2. [d EXCEPT ![a][b] = Tail(@)][x][y] = IF x = a /\ y = b THEN Tail(d[a][b]) ELSE d[x][y]
    BY <1>1
  <2> QED
    BY <1>1, <2>1, <2>2
<1> QED
  BY <1>3, <1>4 DEF Sockets

\* Putting a packet that fits keeps the sockets.
LEMMA SocketsAppend ==
  ASSUME NEW d, Sockets(d), NEW a \in Node, NEW b \in Node, NEW m \in Msg, Fits(b, m)
  PROVE  Sockets([d EXCEPT ![a][b] = Append(@, m)])
<1>1. d \in [Node -> [Node -> Seq(Msg)]] /\ Queue(b, Append(d[a][b], m))
  BY QueueAppend DEF Sockets
<1>2. Append(d[a][b], m) \in Seq(Msg)
  BY <1>1 DEF Queue
<1>3. [d EXCEPT ![a][b] = Append(@, m)] \in [Node -> [Node -> Seq(Msg)]]
  BY <1>1, <1>2
<1>4. ASSUME NEW x \in Node, NEW y \in Node
      PROVE  Queue(y, [d EXCEPT ![a][b] = Append(@, m)][x][y])
  <2>1. Queue(y, d[x][y])
    BY DEF Sockets
  <2>2. [d EXCEPT ![a][b] = Append(@, m)][x][y] = IF x = a /\ y = b THEN Append(d[a][b], m) ELSE d[x][y]
    BY <1>1
  <2> QED
    BY <1>1, <2>1, <2>2
<1> QED
  BY <1>3, <1>4 DEF Sockets

\* A node sends to several others at once: the sockets of node a become row.
LEMMA SocketsRow ==
  ASSUME NEW d, Sockets(d), NEW a \in Node, NEW row,
         row = [i \in Node |-> row[i]],
         \A i \in Node : \/ row[i] = d[a][i]
                         \/ \E m \in Msg : Fits(i, m) /\ row[i] = Append(d[a][i], m)
  PROVE  Sockets([d EXCEPT ![a] = row])
<1>1. d \in [Node -> [Node -> Seq(Msg)]]
  BY DEF Sockets
<1>2. ASSUME NEW i \in Node PROVE Queue(i, row[i])
  <2>1. Queue(i, d[a][i])
    BY DEF Sockets
  <2>2. CASE row[i] = d[a][i]
    BY <2>1, <2>2
  <2>3. CASE \E m \in Msg : Fits(i, m) /\ row[i] = Append(d[a][i], m)
    <3>1. PICK m \in Msg : Fits(i, m) /\ row[i] = Append(d[a][i], m)
      BY <2>3
    <3>2. Queue(i, Append(d[a][i], m))
      BY <2>1, <3>1, QueueAppend
    <3> QED
      BY <3>1, <3>2
  <2> QED
    BY <2>2, <2>3
<1>3. row \in [Node -> Seq(Msg)]
  BY <1>2, Zenon DEF Queue
<1>4. [d EXCEPT ![a] = row] \in [Node -> [Node -> Seq(Msg)]]
  BY <1>1, <1>3
<1>5. ASSUME NEW x \in Node, NEW y \in Node PROVE Queue(y, [d EXCEPT ![a] = row][x][y])
  <2>1. Queue(y, d[x][y]) /\ Queue(y, row[y])
    BY <1>2 DEF Sockets
  <2>2. [d EXCEPT ![a] = row][x][y] = IF x = a THEN row[y] ELSE d[x][y]
    BY <1>1
  <2> QED
    BY <2>1, <2>2
<1> QED
  BY <1>4, <1>5 DEF Sockets
-----------------------------------------------------------------------------
(* What the listeners and the handlers send.                               *)

\* Reports of a node carry no data.
LEMMA ReportsFit ==
  ASSUME NEW b
  PROVE  /\ PartialDone \in Msg /\ Fits(b, PartialDone)
         /\ MapPartialDone \in Msg /\ Fits(b, MapPartialDone)
         /\ LocalReduce \in Msg /\ Fits(b, LocalReduce)
<1>1. PartialDone \in Msg /\ MapPartialDone \in Msg /\ LocalReduce \in Msg
  BY DEF PartialDone, MapPartialDone, LocalReduce, Msg
<1>2. PartialDone.kind = "PartialDone" /\ MapPartialDone.kind = "MapPartialDone" /\ LocalReduce.kind = "LocalReduce"
  BY DEF PartialDone, MapPartialDone, LocalReduce
<1> QED
  BY <1>1, <1>2 DEF Fits

\* The master is a node.
LEMMA MasterNode == 0 \in Node
  BY AccumulatorAssumption DEF Node

\* Accumulating a packet leaves the sockets as they are given, but for a report.
LEMMA AccumulateMsgSends ==
  ASSUME NEW n \in Node, NEW m, NEW d, Sockets(d), AccumulateMsg(n, m, d)
  PROVE  Sockets(data')
<1>1. data' = d \/ data' = [d EXCEPT ![n][0] = Append(@, PartialDone)]
  BY DEF AccumulateMsg
<1>2. PartialDone \in Msg /\ Fits(0, PartialDone)
  BY ReportsFit
<1>3. Sockets([d EXCEPT ![n][0] = Append(@, PartialDone)])
  BY <1>2, SocketsAppend, MasterNode
<1> QED
  BY <1>1, <1>3

\* So does the report of a node on Map or Reduce.
LEMMA ReportDoneSends ==
  ASSUME NEW n \in Node, NEW ws, NEW d, Sockets(d), ReportDone(n, ws, d)
  PROVE  Sockets(data')
<1>1. data' = d \/ data' = [d EXCEPT ![n][0] = Append(@, MapPartialDone)]
  BY DEF ReportDone
<1>2. MapPartialDone \in Msg /\ Fits(0, MapPartialDone)
  BY ReportsFit
<1>3. Sockets([d EXCEPT ![n][0] = Append(@, MapPartialDone)])
  BY <1>2, SocketsAppend, MasterNode
<1> QED
  BY <1>1, <1>3

\* So does mapping a packet.
LEMMA MapMsgSends ==
  ASSUME NEW n \in Node, NEW m, NEW d, Sockets(d), MapMsg(n, m, d)
  PROVE  Sockets(data')
<1>1. data' = d \/ \E ws : ReportDone(n, ws, d)
  BY DEF MapMsg
<1> QED
  BY <1>1, ReportDoneSends

\* What a listener of the accumulator does with the next packet.
LEMMA ListenDataSends ==
  ASSUME NEW a \in Node, NEW b \in Node, Sockets(data), ListenData(a, b)
  PROVE  Sockets(data')
<1>1. PICK d : d = [data EXCEPT ![a][b] = Tail(@)]
  OBVIOUS
<1>2. Sockets(d)
  BY <1>1, SocketsTail DEF ListenData
<1>3. data' = d \/ AccumulateMsg(b, Head(data[a][b]), d)
  BY <1>1 DEF ListenData
<1> QED
  BY <1>2, <1>3, AccumulateMsgSends

\* What a listener of the MapReduce object does with the next packet.
LEMMA ListenMapSends ==
  ASSUME NEW a \in Node, NEW b \in Node, Sockets(data), ListenMap(a, b)
  PROVE  Sockets(data')
<1>1. PICK d : d = [data EXCEPT ![a][b] = Tail(@)]
  OBVIOUS
<1>2. Sockets(d)
  BY <1>1, SocketsTail DEF ListenMap
<1>3. data' = d \/ MapMsg(b, Head(data[a][b]), d) \/ ReportDone(b, mwaits, d)
  BY <1>1 DEF ListenMap, LocalReduceMsg
<1> QED
  BY <1>2, <1>3, MapMsgSends, ReportDoneSends
-----------------------------------------------------------------------------
(* What the users send.                                                    *)

\* A packet with words of the own vector.
LEMMA PacketFits ==
  ASSUME MRType, NEW u \in User, round[u] > 0, NEW i \in Node, NEW lo \in Int, NEW hi \in Int,
         NEW l \in BOOLEAN, lo < hi => Lo(i) <= lo /\ hi <= Hi(i)
  PROVE  Packet(u, lo, hi, l) \in Msg /\ Fits(i, Packet(u, lo, hi, l))
<1>1. round[u] \in 1 .. MaxRounds
  BY AccumulatorAssumption DEF MRType
<1>2. In[u][round[u]] \in Nat
  BY <1>1, AccumulatorAssumption
<1>3. Packet(u, lo, hi, l) \in AccPacket
  BY <1>2 DEF Packet, AccPacket
<1>4. Packet(u, lo, hi, l).lo = lo /\ Packet(u, lo, hi, l).hi = hi
  BY DEF Packet
<1>5. lo < hi => Base(i) <= lo /\ hi <= Base(i) + Size(i)
  BY CutFits
<1> QED
  BY <1>3, <1>4, <1>5 DEF Msg, Fits

\* An empty packet.
LEMMA EmptyFits ==
  ASSUME NEW u \in User, NEW i \in Node
  PROVE  EmptyPacket(u, i) \in Msg /\ Fits(i, EmptyPacket(u, i))
<1>1. Lo(i) \in Nat
  BY SplitInt
<1>2. EmptyPacket(u, i) \in AccPacket
  BY <1>1 DEF EmptyPacket, AccPacket
<1>3. EmptyPacket(u, i).lo = Lo(i) /\ EmptyPacket(u, i).hi = Lo(i)
  BY DEF EmptyPacket
<1> QED
  BY <1>1, <1>2, <1>3 DEF Msg, Fits

\* The packets of Map.
LEMMA MapFits ==
  ASSUME MRType, NEW u \in User, NEW b
  PROVE  /\ \A k, n : MapData(PairsOf(u, k, n)) \in Msg /\ Fits(b, MapData(PairsOf(u, k, n)))
         /\ MapEnd(u) \in Msg /\ Fits(b, MapEnd(u))
<1>1. ASSUME NEW k, NEW n
      PROVE  MapData(PairsOf(u, k, n)) \in Msg /\ Fits(b, MapData(PairsOf(u, k, n)))
  <2>1. PairsOf(u, k, n) \in SUBSET (User \X Nat \X Int)
    BY DEF PairsOf, MRType
  <2>2. MapData(PairsOf(u, k, n)) \in MapPacket /\ MapData(PairsOf(u, k, n)).kind = "Map"
    BY <2>1 DEF MapData, MapPacket
  <2> QED
    BY <2>2 DEF Msg, Fits
<1>2. MapEnd(u) \in MapLast /\ MapEnd(u).kind = "Map"
  BY DEF MapEnd, MapLast
<1>3. MapEnd(u) \in Msg /\ Fits(b, MapEnd(u))
  BY <1>2 DEF Msg, Fits
<1> QED
  BY <1>1, <1>3

\* A call of the accumulator begins.
LEMMA StartSends ==
  ASSUME Sockets(data), NEW u \in User, Start(u)
  PROVE  Sockets(data')
<1>0. NodeOf[u] \in Node
  BY AccumulatorAssumption
<1>1. PICK row : row = [i \in Node |-> IF i # NodeOf[u] /\ EmptyPart(i)
                                       THEN Append(data[NodeOf[u]][i], EmptyPacket(u, i))
                                       ELSE data[NodeOf[u]][i]]
  OBVIOUS
<1>2. row = [i \in Node |-> row[i]]
  BY <1>1
<1>3. \A i \in Node : \/ row[i] = data[NodeOf[u]][i]
                      \/ \E m \in Msg : Fits(i, m) /\ row[i] = Append(data[NodeOf[u]][i], m)
  BY <1>1, EmptyFits
<1>4. Sockets([data EXCEPT ![NodeOf[u]] = row])
  BY <1>0, <1>2, <1>3, SocketsRow
<1>5. data' = [data EXCEPT ![NodeOf[u]] = row]
  BY <1>1 DEF Start
<1> QED
  BY <1>4, <1>5

\* A turn of the sending loop.
LEMMA SendPartsSends ==
  ASSUME MRType, Cutting, Sockets(data), NEW u \in User, SendParts(u)
  PROVE  Sockets(data')
<1>0. NodeOf[u] \in Node /\ pc[u] = "send" /\ round[u] > 0
  BY AccumulatorAssumption DEF SendParts, Cutting
<1>1. PICK W \in SUBSET Unsent(u) \ {{}} :
      \E end \in [W -> UNION {next[u][i] + 1 .. Hi(i) : i \in W}] :
       /\ \A i \in W : next[u][i] < end[i] /\ end[i] <= Hi(i)
       /\ data' = [data EXCEPT ![NodeOf[u]] = [i \in Node |->
                     IF i \in W
                     THEN Append(data[NodeOf[u]][i], Packet(u, next[u][i], end[i], end[i] = Hi(i)))
                     ELSE data[NodeOf[u]][i]]]
       /\ next' = [next EXCEPT ![u] = [i \in Node |-> IF i \in W THEN end[i] ELSE @[i]]]
  BY DEF SendParts
<1>2. PICK end \in [W -> UNION {next[u][i] + 1 .. Hi(i) : i \in W}] :
       /\ \A i \in W : next[u][i] < end[i] /\ end[i] <= Hi(i)
       /\ data' = [data EXCEPT ![NodeOf[u]] = [i \in Node |->
                     IF i \in W
                     THEN Append(data[NodeOf[u]][i], Packet(u, next[u][i], end[i], end[i] = Hi(i)))
                     ELSE data[NodeOf[u]][i]]]
       /\ next' = [next EXCEPT ![u] = [i \in Node |-> IF i \in W THEN end[i] ELSE @[i]]]
  BY <1>1
<1>3. \A i \in W : i \in Node /\ i # NodeOf[u] /\ end[i] \in Int
  BY <1>1, <1>2 DEF Unsent
<1>4. \A i \in W : next[u][i] \in Int /\ Lo(i) <= next[u][i]
  BY <1>0, <1>3 DEF Cutting, MRType
<1>5. ASSUME NEW i \in W
      PROVE  Packet(u, next[u][i], end[i], end[i] = Hi(i)) \in Msg /\ Fits(i, Packet(u, next[u][i], end[i], end[i] = Hi(i)))
  BY <1>0, <1>2, <1>3, <1>4, PacketFits
<1>6. PICK row : row = [i \in Node |->
                     IF i \in W
                     THEN Append(data[NodeOf[u]][i], Packet(u, next[u][i], end[i], end[i] = Hi(i)))
                     ELSE data[NodeOf[u]][i]]
  OBVIOUS
<1>7. row = [i \in Node |-> row[i]]
  BY <1>6
<1>8. \A i \in Node : \/ row[i] = data[NodeOf[u]][i]
                      \/ \E m \in Msg : Fits(i, m) /\ row[i] = Append(data[NodeOf[u]][i], m)
  BY <1>5, <1>6
<1>9. Sockets([data EXCEPT ![NodeOf[u]] = row])
  BY <1>0, <1>7, <1>8, SocketsRow
<1>10. Sockets(data')
  BY <1>2, <1>6, <1>9
<1> QED
  BY <1>10
\* A turn of _Map.
LEMMA MapSendSends ==
  ASSUME MRType, Sockets(data), NEW u \in User, MapSend(u)
  PROVE  Sockets(data')
<1>0. NodeOf[u] \in Node
  BY AccumulatorAssumption
<1>1. PICK W \in SUBSET (Node \ {NodeOf[u]}) \ {{}} :
        data' = [data EXCEPT ![NodeOf[u]] = [i \in Node |->
                   IF i \in W
                   THEN LET k == TakenBefore(itr[u], W, i)
                        IN Append(data[NodeOf[u]][i], MapData(PairsOf(u, k, Taken(k))))
                   ELSE data[NodeOf[u]][i]]]
  BY DEF MapSend
<1>2. PICK row : row = [i \in Node |->
                   IF i \in W
                   THEN LET k == TakenBefore(itr[u], W, i)
                        IN Append(data[NodeOf[u]][i], MapData(PairsOf(u, k, Taken(k))))
                   ELSE data[NodeOf[u]][i]]
  OBVIOUS
<1>3. row = [i \in Node |-> row[i]]
  BY <1>2
<1>4. ASSUME NEW i \in Node
      PROVE  \/ row[i] = data[NodeOf[u]][i]
             \/ \E m \in Msg : Fits(i, m) /\ row[i] = Append(data[NodeOf[u]][i], m)
  <2>1. PICK k, n : k = TakenBefore(itr[u], W, i) /\ n = Taken(k)
    OBVIOUS
  <2>2. row[i] = data[NodeOf[u]][i] \/ row[i] = Append(data[NodeOf[u]][i], MapData(PairsOf(u, k, n)))
    BY <1>2, <2>1
  <2>3. MapData(PairsOf(u, k, n)) \in Msg /\ Fits(i, MapData(PairsOf(u, k, n)))
    BY MapFits
  <2> QED
    BY <2>2, <2>3
<1>5. Sockets([data EXCEPT ![NodeOf[u]] = row])
  BY <1>0, <1>3, <1>4, SocketsRow
<1> QED
  BY <1>1, <1>2, <1>5

\* The end of Map.
LEMMA TellEndSends ==
  ASSUME MRType, Sockets(data), NEW u \in User, TellEnd(u), turns[u] \in Node
  PROVE  Sockets(data')
<1>0. NodeOf[u] \in Node
  BY AccumulatorAssumption
<1>1. CASE MapMsg(NodeOf[u], MapEnd(u), data)
  BY <1>0, <1>1, MapMsgSends
<1>2. CASE data' = [data EXCEPT ![NodeOf[u]][turns[u]] = Append(@, MapEnd(u))]
  <2>1. MapEnd(u) \in Msg /\ Fits(turns[u], MapEnd(u))
    BY MapFits
  <2>2. Sockets([data EXCEPT ![NodeOf[u]][turns[u]] = Append(@, MapEnd(u))])
    BY <1>0, <2>1, SocketsAppend
  <2> QED
    BY <1>2, <2>2
<1> QED
  BY <1>1, <1>2 DEF TellEnd

\* The order to reduce.
LEMMA ReduceSends ==
  ASSUME Sockets(data), NEW u \in User, Reduce(u)
  PROVE  Sockets(data')
<1>1. PICK row : row = [i \in Node |-> IF i = 0 THEN data[0][i] ELSE Append(data[0][i], LocalReduce)]
  OBVIOUS
<1>2. row = [i \in Node |-> row[i]]
  BY <1>1
<1>3. \A i \in Node : LocalReduce \in Msg /\ Fits(i, LocalReduce)
  BY ReportsFit
<1>4. \A i \in Node : \/ row[i] = data[0][i]
                      \/ \E m \in Msg : Fits(i, m) /\ row[i] = Append(data[0][i], m)
  BY <1>1, <1>3
<1>5. PICK d : d = [data EXCEPT ![0] = row]
  OBVIOUS
<1>6. Sockets(d)
  BY <1>2, <1>4, <1>5, MasterNode, SocketsRow
<1>7. ReportDone(0, Append(mwaits, u), d)
  BY <1>1, <1>5 DEF Reduce, LocalReduceMsg
<1> QED
  BY <1>6, <1>7, MasterNode, ReportDoneSends
-----------------------------------------------------------------------------
(* The invariant.                                                          *)

\* It holds when all begin.
LEMMA SocketInvInit == MRInit => SocketInv
<1> SUFFICES ASSUME MRInit PROVE SocketInv
  OBVIOUS
<1>1. MRType
  BY AccumulatorAssumption DEF MRInit, Init, MRType, Place
<1>2. Cutting
  BY DEF MRInit, Init, Cutting
<1>3. Telling
  BY DEF MRInit, Init, Telling
<1>4. \A a, b \in Node : data[a][b] = <<>>
  BY DEF MRInit, Init
<1>5. data \in [Node -> [Node -> Seq(Msg)]]
  BY DEF MRInit, Init
<1>6. Sockets(data)
  BY <1>4, <1>5 DEF Sockets, Queue
<1> QED
  BY <1>1, <1>2, <1>3, <1>6 DEF SocketInv

\* A step of the accumulator keeps it.
LEMMA AccStepKeeps ==
  ASSUME SocketInv, NEW u \in User, AccStep(u)
  PROVE  SocketInv'
<1>0. NodeOf[u] \in Node /\ MRType /\ Cutting /\ Telling /\ Sockets(data)
  BY AccumulatorAssumption DEF SocketInv
<1>u. UNCHANGED <<maps, turns>> /\ UserStep(u)
  BY DEF AccStep, mrVars
<1>1. ASSUME PrepareNewThread(u) \/ WaitForRemoteEvent(u) \/ Return(u) PROVE SocketInv'
  <2>1. PICK l \in {"idle", "wait"} : pc' = [pc EXCEPT ![u] = l]
    BY <1>1 DEF PrepareNewThread, WaitForRemoteEvent, Return
  <2>2. UNCHANGED <<round, next, data>>
    BY <1>1 DEF PrepareNewThread, WaitForRemoteEvent, Return
  <2>3. MRType'
    BY <1>0, <1>u, <2>1, <2>2 DEF MRType, Place
  <2>4. Cutting'
    BY <1>0, <2>1, <2>2 DEF MRType, Cutting
  <2>5. Telling'
    BY <1>0, <1>u, <2>1 DEF MRType, Telling
  <2> QED
    BY <1>0, <2>2, <2>3, <2>4, <2>5 DEF SocketInv
<1>2. ASSUME Start(u) PROVE SocketInv'
  <2>1. Sockets(data')
    BY <1>0, <1>2, StartSends
  <2>2. \A i \in Node : Lo(i) \in Nat
    BY SplitInt
  <2>3. PICK nx : nx = [i \in Node |-> Lo(i)]
    OBVIOUS
  <2>4. nx \in [Node -> Int] /\ next' = [next EXCEPT ![u] = nx]
    BY <1>2, <2>2, <2>3 DEF Start
  <2>5. /\ pc' = [pc EXCEPT ![u] = "local"] /\ round' = [round EXCEPT ![u] = @ + 1]
        /\ round[u] < MaxRounds
    BY <1>2 DEF Start
  <2>6. MRType'
    BY <1>0, <1>u, <2>4, <2>5, AccumulatorAssumption DEF MRType, Place
  <2>7. \A v \in User : v # u => pc'[v] = pc[v] /\ next'[v] = next[v] /\ round'[v] = round[v]
    BY <1>0, <2>4, <2>5 DEF MRType
  <2>8. round'[u] > 0 /\ \A i \in Node : Lo(i) <= next'[u][i]
    BY <1>0, <2>2, <2>3, <2>4, <2>5, AccumulatorAssumption DEF MRType
  <2>9. Cutting'
    BY <1>0, <2>7, <2>8 DEF Cutting
  <2>10. Telling'
    BY <1>0, <1>u, <2>5 DEF MRType, Telling
  <2> QED
    BY <2>1, <2>6, <2>9, <2>10 DEF SocketInv
<1>3. ASSUME Local(u) PROVE SocketInv'
  <2>1. AccumulateMsg(NodeOf[u], Packet(u, Lo(NodeOf[u]), Hi(NodeOf[u]), TRUE), data)
    BY <1>3 DEF Local
  <2>2. Sockets(data')
    BY <1>0, <2>1, AccumulateMsgSends
  <2>3. Hi(NodeOf[u]) \in Int
    BY <1>0, SplitInt
  <2>4. /\ pc[u] = "local" /\ pc' = [pc EXCEPT ![u] = "send"] /\ round' = round
        /\ next' = [next EXCEPT ![u][NodeOf[u]] = Hi(NodeOf[u])]
    BY <1>3 DEF Local
  <2>5. MRType'
    BY <1>0, <1>u, <2>3, <2>4 DEF MRType, Place
  <2>6. \A v \in User, i \in Node : i # NodeOf[v] => next'[v][i] = next[v][i]
    BY <1>0, <2>4 DEF MRType
  <2>7. \A v \in User : pc'[v] \in {"local", "send"} => pc[v] \in {"local", "send"}
    BY <1>0, <2>4 DEF MRType
  <2>8. Cutting'
    BY <1>0, <2>4, <2>6, <2>7 DEF Cutting
  <2>9. Telling'
    BY <1>0, <1>u, <2>4 DEF MRType, Telling
  <2> QED
    BY <2>2, <2>5, <2>8, <2>9 DEF SocketInv
<1>4. ASSUME SendParts(u) PROVE SocketInv'
  <2>1. Sockets(data')
    BY <1>0, <1>4, SendPartsSends
  <2>2. pc[u] = "send" /\ UNCHANGED <<pc, round>>
    BY <1>4 DEF SendParts
  <2>3. PICK nx : /\ nx = [i \in Node |-> nx[i]] /\ next' = [next EXCEPT ![u] = nx]
                  /\ \A i \in Node : nx[i] = next[u][i] \/ (nx[i] \in Int /\ next[u][i] < nx[i])
    <3>1. PICK W \in SUBSET Unsent(u) \ {{}} :
          \E end \in [W -> UNION {next[u][i] + 1 .. Hi(i) : i \in W}] :
            /\ \A i \in W : next[u][i] < end[i]
            /\ next' = [next EXCEPT ![u] = [i \in Node |-> IF i \in W THEN end[i] ELSE @[i]]]
      BY <1>4 DEF SendParts
    <3>2. PICK end \in [W -> UNION {next[u][i] + 1 .. Hi(i) : i \in W}] :
            /\ \A i \in W : next[u][i] < end[i]
            /\ next' = [next EXCEPT ![u] = [i \in Node |-> IF i \in W THEN end[i] ELSE @[i]]]
      BY <3>1
    <3>3. \A i \in W : end[i] \in Int
      BY <3>2
    <3>4. PICK nx : nx = [i \in Node |-> IF i \in W THEN end[i] ELSE next[u][i]]
      OBVIOUS
    <3>5. next' = [next EXCEPT ![u] = nx]
      BY <3>2, <3>4
    <3>6. \A i \in Node : nx[i] = next[u][i] \/ (nx[i] \in Int /\ next[u][i] < nx[i])
      BY <3>2, <3>3, <3>4
    <3>7. nx = [i \in Node |-> nx[i]]
      BY <3>4
    <3> QED
      BY <3>5, <3>6, <3>7
  <2>4. nx \in [Node -> Int]
    BY <1>0, <2>3 DEF MRType
  <2>5. MRType'
    BY <1>0, <1>u, <2>2, <2>3, <2>4 DEF MRType
  <2>6. \A v \in User, i \in Node : next[v][i] <= next'[v][i] /\ next[v][i] \in Int /\ next'[v][i] \in Int
    BY <1>0, <2>3, <2>4 DEF MRType
  <2>7. \A i \in Node : Lo(i) \in Nat
    BY SplitInt
  <2>8. \A v \in User, i \in Node : Lo(i) <= next[v][i] => Lo(i) <= next'[v][i]
    BY <2>6, <2>7
  <2>9. Cutting'
    BY <1>0, <2>2, <2>8 DEF Cutting
  <2>10. Telling'
    BY <1>0, <1>u, <2>2 DEF Telling
  <2> QED
    BY <2>1, <2>5, <2>9, <2>10 DEF SocketInv
<1> QED
  BY <1>u, <1>1, <1>2, <1>3, <1>4 DEF UserStep

\* Steps of Map and Reduce go to places where the accumulator sends nothing.
LEMMA OtherPlacesKeep ==
  ASSUME SocketInv, NEW u \in User, NEW l \in {"map", "mapend", "reduce", "wait"},
         pc' = [pc EXCEPT ![u] = l], UNCHANGED <<round, next>>, maps' \in [User -> Nat],
         Telling', Sockets(data')
  PROVE  SocketInv'
<1>0. MRType /\ Cutting
  BY DEF SocketInv
<1>1. MRType'
  BY <1>0 DEF MRType, Place
<1>2. Cutting'
  BY <1>0 DEF MRType, Cutting
<1> QED
  BY <1>1, <1>2 DEF SocketInv

\* A step of Map or Reduce keeps it.
LEMMA MapReduceKeeps ==
  ASSUME SocketInv, NEW u \in User, MapStep(u) \/ ReduceStep(u)
  PROVE  SocketInv'
<1>0. NodeOf[u] \in Node /\ MRType /\ Cutting /\ Telling /\ Sockets(data)
  BY AccumulatorAssumption DEF SocketInv
<1>1. ASSUME StartMap(u) PROVE SocketInv'
  <2>1. /\ pc' = [pc EXCEPT ![u] = "map"] /\ UNCHANGED <<round, next, data>>
        /\ maps' = [maps EXCEPT ![u] = @ + 1] /\ turns' = [turns EXCEPT ![u] = 0]
    BY <1>1 DEF StartMap, accVars
  <2>2. maps' \in [User -> Nat] /\ Sockets(data')
    BY <1>0, <2>1 DEF MRType
  <2>3. Telling'
    BY <1>0, <2>1 DEF MRType, Telling
  <2> QED
    BY <2>1, <2>2, <2>3, OtherPlacesKeep
<1>2. ASSUME MapLocal(u) PROVE SocketInv'
  <2>1. /\ UNCHANGED <<pc, round, next, maps>> /\ turns' = [turns EXCEPT ![u] = @ + 1]
        /\ pc[u] = "map" /\ \E m : MapMsg(NodeOf[u], m, data)
    BY <1>2 DEF MapLocal, accVars, HasMore
  <2>2. Sockets(data')
    BY <1>0, <2>1, MapMsgSends
  <2>3. Telling'
    BY <1>0, <2>1 DEF Telling
  <2>4. MRType' /\ Cutting'
    BY <1>0, <2>1 DEF MRType, Cutting
  <2> QED
    BY <2>2, <2>3, <2>4 DEF SocketInv
<1>3. ASSUME MapSend(u) PROVE SocketInv'
  <2>1. /\ UNCHANGED <<pc, round, next, maps>> /\ pc[u] = "map"
        /\ \E W \in SUBSET (Node \ {NodeOf[u]}) : turns' = [turns EXCEPT ![u] = @ + Cardinality(W)]
    BY <1>3 DEF MapSend, accVars, HasMore
  <2>2. Sockets(data')
    BY <1>0, <1>3, MapSendSends
  <2>3. Telling'
    BY <1>0, <2>1 DEF Telling
  <2>4. MRType' /\ Cutting'
    BY <1>0, <2>1 DEF MRType, Cutting
  <2> QED
    BY <2>2, <2>3, <2>4 DEF SocketInv
<1>4. ASSUME InputEnds(u) PROVE SocketInv'
  <2>1. /\ pc' = [pc EXCEPT ![u] = "mapend"] /\ UNCHANGED <<round, next, data, maps>>
        /\ turns' = [turns EXCEPT ![u] = 0]
    BY <1>4 DEF InputEnds, accVars
  <2>2. maps' \in [User -> Nat] /\ Sockets(data')
    BY <1>0, <2>1 DEF MRType
  <2>3. Telling'
    BY <1>0, <2>1, MasterNode DEF MRType, Telling
  <2> QED
    BY <2>1, <2>2, <2>3, OtherPlacesKeep
<1>5. ASSUME TellEnd(u) PROVE SocketInv'
  <2>1. PICK l \in {"wait", "mapend"} :
          l = (IF turns[u] = N - 1 THEN "wait" ELSE "mapend") /\ pc' = [pc EXCEPT ![u] = l]
    BY <1>5 DEF TellEnd
  <2>2. /\ pc[u] = "mapend" /\ UNCHANGED <<round, next, maps>>
        /\ turns' = [turns EXCEPT ![u] = @ + 1]
    BY <1>5 DEF TellEnd, accVars
  <2>3. turns[u] \in Node
    BY <1>0, <2>2 DEF Telling
  <2>4. maps' \in [User -> Nat] /\ Sockets(data')
    BY <1>0, <1>5, <2>2, <2>3, TellEndSends DEF MRType
  <2>5. turns[u] # N - 1 => turns[u] + 1 \in Node
    BY <2>3, AccumulatorAssumption DEF Node
  <2>6. turns' = [v \in User |-> turns'[v]]
    BY <1>0, <2>2 DEF Telling
  <2>7. ASSUME NEW v \in User, pc'[v] = "mapend" PROVE turns'[v] \in Node
    <3>1. CASE v = u
      BY <1>0, <2>1, <2>2, <2>5, <2>7, <3>1 DEF MRType, Telling
    <3>2. CASE v # u
      BY <1>0, <2>1, <2>2, <2>7, <3>2 DEF MRType, Telling
    <3> QED
      BY <3>1, <3>2
  <2>8. Telling'
    BY <2>6, <2>7 DEF Telling
  <2> QED
    BY <2>1, <2>2, <2>4, <2>8, OtherPlacesKeep
<1>6. ASSUME RefuseReduce(u) PROVE SocketInv'
  <2>1. UNCHANGED <<pc, round, next, data, maps, turns>>
    BY <1>6 DEF RefuseReduce, vars
  <2> QED
    BY <1>0, <2>1 DEF SocketInv, MRType, Cutting, Telling
<1>7. ASSUME StartReduce(u) PROVE SocketInv'
  <2>1. pc' = [pc EXCEPT ![u] = "reduce"] /\ UNCHANGED <<round, next, data, maps, turns>>
    BY <1>7 DEF StartReduce, accVars
  <2>2. maps' \in [User -> Nat] /\ Sockets(data')
    BY <1>0, <2>1 DEF MRType
  <2>3. Telling'
    BY <1>0, <2>1 DEF MRType, Telling
  <2> QED
    BY <2>1, <2>2, <2>3, OtherPlacesKeep
<1>8. ASSUME Reduce(u) PROVE SocketInv'
  <2>1. pc' = [pc EXCEPT ![u] = "wait"] /\ UNCHANGED <<round, next, maps, turns>>
    BY <1>8 DEF Reduce, accVars
  <2>2. maps' \in [User -> Nat] /\ Sockets(data')
    BY <1>0, <1>8, <2>1, ReduceSends DEF MRType
  <2>3. Telling'
    BY <1>0, <2>1 DEF MRType, Telling
  <2> QED
    BY <2>1, <2>2, <2>3, OtherPlacesKeep
<1> QED
  BY <1>1, <1>2, <1>3, <1>4, <1>5, <1>6, <1>7, <1>8 DEF MapStep, ReduceStep

\* A wake-up or the next packet of a socket keeps it.
LEMMA ListenKeeps ==
  ASSUME SocketInv, \/ \E u \in User : Woken(u)
                    \/ \E a, b \in Node : Listen(a, b)
  PROVE  SocketInv'
<1>0. MRType /\ Cutting /\ Telling /\ Sockets(data)
  BY DEF SocketInv
<1>1. UNCHANGED <<pc, round, next, maps, turns>>
  BY DEF Woken, SlaveWake, Listen, ListenData, ListenMap, mrVars, accVars
<1>2. Sockets(data')
  <2>1. CASE \E u \in User : Woken(u)
    <3>1. data' = data
      BY <2>1 DEF Woken, SlaveWake
    <3> QED
      BY <1>0, <3>1
  <2>2. CASE \E a, b \in Node : Listen(a, b)
    BY <1>0, <2>2, ListenDataSends, ListenMapSends DEF Listen
  <2> QED
    BY <2>1, <2>2
<1> QED
  BY <1>0, <1>1, <1>2 DEF SocketInv, MRType, Cutting, Telling

\* The packets that DAddAccumulator sends lie within the buffers of the nodes
\* they are sent to, as DoAccumulateDense and DoAccumulateSparse assert: however
\* the vector is split and cut, beside any calls of DMapReduce.
THEOREM PacketsFitHolds == MRSpec => []PacketsFit
<1>1. SocketInv /\ [MRNext]_allVars => SocketInv'
  <2> SUFFICES ASSUME SocketInv, [MRNext]_allVars PROVE SocketInv'
    OBVIOUS
  <2>1. CASE \E u \in User : Step(u)
    BY <2>1, AccStepKeeps, MapReduceKeeps DEF Step
  <2>2. CASE (\E u \in User : Woken(u)) \/ \E a, b \in Node : Listen(a, b)
    BY <2>2, ListenKeeps
  <2>3. CASE UNCHANGED allVars
    <3>1. UNCHANGED <<pc, round, next, maps, turns, data>>
      BY <2>3 DEF allVars, vars, mrVars
    <3> QED
      BY <3>1 DEF SocketInv, MRType, Cutting, Telling
  <2> QED
    BY <2>1, <2>2, <2>3 DEF MRNext
<1>2. SocketInv => PacketsFit
  BY DEF SocketInv, Sockets, Queue, Fits, PacketsFit
<1> QED
  BY <1>1, <1>2, SocketInvInit, PTL DEF MRSpec
=============================================================================
