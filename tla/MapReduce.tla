----------------------------- MODULE MapReduce ------------------------------
(***************************************************************************)
(* DMapReduce beside DAddAccumulator: two objects that share the data      *)
(* sockets, the listeners and the local Event of every thread, each with a *)
(* DataSyncNode of its own on every node (MR below is the second one).     *)
(*                                                                         *)
(* Map deals the pairs of its input out to the nodes, which collect what   *)
(* they map to; Reduce, called on the master, has every node reduce what   *)
(* it has collected.  A key is not moved between nodes: a node reduces the *)
(* values it has.  A pair is its user, the number of the Map call and its  *)
(* place in the input; every pair maps to one value.  DoGlobalReduce,      *)
(* which DMapReduce leaves empty, is left out.                             *)
(***************************************************************************)
EXTENDS Accumulator

CONSTANTS
  Programs,     \* what the users may run: for each user a sequence of "acc", "map", "reduce"
  Count,        \* pairs in the input of a Map
  PairsPerBuf   \* pairs that fit in a packet of BD_DATA_PROCESS_SIZE

ASSUME MapReduceAssumption ==
  /\ Count \in Nat /\ PairsPerBuf \in Nat \ {0}
  /\ \A p \in Programs : \A u \in User : \A i \in DOMAIN p[u] : p[u][i] \in {"acc", "map", "reduce"}

VARIABLES
  prog,      \* the programs of the users
  maps,      \* per user, Map calls begun
  reduces,   \* per user, Reduce calls begun
  itr,       \* per user, pairs of its input already taken
  turns,     \* per user, turns of _Map; then the node to be told of the end
  mval,      \* per node, users whose Map has ended
  mymap,     \* per node, the values collected
  mdoneCnt,  \* master: done_node_cnt
  mwaits,    \* master: waitlist
  reduced    \* how often the value of each pair was given to DoReduce

mrVars == <<prog, maps, reduces, itr, turns, mval, mymap, mdoneCnt, mwaits, reduced>>
allVars == <<vars, mrVars>>
accVars == <<round, next, done, val, buf, doneCnt, waits, out>>

MR == INSTANCE Accumulator WITH val <- mval, doneCnt <- mdoneCnt, waits <- mwaits

MaxCalls(what) == Max({Cardinality({i \in DOMAIN p[u] : p[u][i] = what}) : p \in Programs, u \in User})
Pair == User \X (1 .. MaxCalls("map")) \X (1 .. Count)
None == [p \in Pair |-> 0]
-----------------------------------------------------------------------------
(* A node's side.                                                          *)

MapData(P) == [kind |-> "Map", pairs |-> P, last |-> FALSE]
MapEnd(u) == [kind |-> "Map", pairs |-> {}, last |-> TRUE, thread |-> u]
LocalReduce == [kind |-> "LocalReduce"]
MapPartialDone == [kind |-> "MapPartialDone"]

\* BaseDoAccumulateDense: DoMap of every pair of a packet.
Mapped(b, P) == [p \in Pair |-> IF p \in P THEN b[p] + 1 ELSE b[p]]

\* AcDataAccumulatePartialDone from node n, with wait list ws.
ReportDone(n, ws, ch) ==
  \/ n = 0 /\ MR!AccumulatePartialDone(ws) /\ data' = ch
  \/ /\ n # 0
     /\ data' = [ch EXCEPT ![n][0] = Append(@, MapPartialDone)]
     /\ UNCHANGED <<mdoneCnt, mwaits, ready, wakes>>

MapEndedFirst(n) == TRUE                \* mutant: the users are not counted
MapEnded(n) == MR!LastUser(mval[n] + 1)

\* AcAccumulateMsg for the MapReduce object; its size is 0, so nothing is stored.
MapMsg(n, m, ch) ==
  /\ mymap' = [mymap EXCEPT ![n] = Mapped(@, m.pairs)]
  /\ LET ws == IF n = 0 THEN Append(mwaits, m.thread) ELSE mwaits IN
     \/ /\ ~m.last
        /\ data' = ch
        /\ UNCHANGED <<mval, mdoneCnt, mwaits, ready, wakes>>
     \/ /\ m.last /\ ~MapEnded(n)
        /\ mval' = [mval EXCEPT ![n] = @ + 1]
        /\ mwaits' = ws
        /\ data' = ch
        /\ UNCHANGED <<mdoneCnt, ready, wakes>>
     \/ /\ m.last /\ MapEnded(n)
        /\ mval' = [mval EXCEPT ![n] = 0]
        /\ ReportDone(n, ws, ch)
  /\ UNCHANGED reduced

ClearedNot(n) == mymap                  \* mutant: the map is kept
Cleared(n) == [mymap EXCEPT ![n] = None]

\* AcLocalReduceMsg, with BaseDoReduce, and wait list ws.
LocalReduceMsg(n, ws, ch) ==
  /\ reduced' = [p \in Pair |-> reduced[p] + mymap[n][p]]
  /\ mymap' = Cleared(n)
  /\ ReportDone(n, ws, ch)
  /\ UNCHANGED mval

\* AcListenData of node b, for the messages of the MapReduce object.
ListenMap(a, b) ==
  LET m == Head(data[a][b])
      ch == [data EXCEPT ![a][b] = Tail(@)] IN
  /\ data[a][b] # <<>>
  /\ \/ m.kind = "Map" /\ MapMsg(b, m, ch)
     \/ m.kind = "LocalReduce" /\ LocalReduceMsg(b, mwaits, ch)
     \/ /\ m.kind = "MapPartialDone"
        /\ MR!AccumulatePartialDone(mwaits)
        /\ data' = ch
        /\ UNCHANGED <<mval, mymap, reduced>>
  /\ UNCHANGED <<pc, accVars, prog, maps, reduces, itr, turns>>
-----------------------------------------------------------------------------
(* A user's side.                                                          *)

Calls(u) == round[u] + maps[u] + reduces[u]
Does(u, what) ==
  /\ pc[u] = "idle"
  /\ Calls(u) < Len(prog[u])
  /\ prog[u][Calls(u) + 1] = what

\* PrepareBuf: how many pairs the next packet takes after k were taken.
Taken(k) == Min({Count - k, PairsPerBuf, Count \div N + 1})
PairsOf(u, k, n) == {<<u, maps[u], i>> : i \in k + 1 .. k + n}

StartMap(u) ==
  /\ Does(u, "map")
  /\ pc' = [pc EXCEPT ![u] = "map"]
  /\ ready' = [ready EXCEPT ![u] = FALSE]
  /\ maps' = [maps EXCEPT ![u] = @ + 1]
  /\ itr' = [itr EXCEPT ![u] = 0]
  /\ turns' = [turns EXCEPT ![u] = 0]
  /\ UNCHANGED <<accVars, wakes, data, prog, reduces, mval, mymap, mdoneCnt, mwaits, reduced>>

HasMore(u) == pc[u] = "map" /\ itr[u] < Count
MyTurn(u) == turns[u] % N = NodeOf[u]

\* Every N-th turn is the own node's.
MapLocal(u) ==
  /\ HasMore(u) /\ MyTurn(u)
  /\ MapMsg(NodeOf[u], MapData(PairsOf(u, itr[u], Taken(itr[u]))), data)
  /\ itr' = [itr EXCEPT ![u] = @ + Taken(@)]
  /\ turns' = [turns EXCEPT ![u] = @ + 1]
  /\ UNCHANGED <<pc, accVars, prog, maps, reduces>>

\* Pairs taken by the packets to the nodes of W below i, in their order; once
\* the input is used up the packets are empty.
TakenBefore(k, W, i) ==
  LET before == {j \in W : j < i}
      after[n \in 0 .. N] == IF n = 0 THEN k ELSE after[n - 1] + Taken(after[n - 1])
  IN after[Cardinality(before)]

\* A turn of the loop: a packet to each of the writable sockets.
MapSend(u) ==
  LET me == NodeOf[u] IN
  /\ HasMore(u) /\ ~MyTurn(u)
  /\ \E W \in SUBSET (Node \ {me}) \ {{}} :
       /\ data' = [data EXCEPT ![me] = [i \in Node |->
                     IF i \in W
                     THEN LET k == TakenBefore(itr[u], W, i)
                          IN Append(data[me][i], MapData(PairsOf(u, k, Taken(k))))
                     ELSE data[me][i]]]
       /\ itr' = [itr EXCEPT ![u] = TakenBefore(@, W, N)]
       /\ turns' = [turns EXCEPT ![u] = @ + Cardinality(W)]
  /\ UNCHANGED <<pc, accVars, ready, wakes, prog, maps, reduces, mval, mymap, mdoneCnt, mwaits, reduced>>

InputEnds(u) ==
  /\ pc[u] = "map" /\ itr[u] = Count
  /\ pc' = [pc EXCEPT ![u] = "mapend"]
  /\ turns' = [turns EXCEPT ![u] = 0]
  /\ UNCHANGED <<accVars, ready, wakes, data, prog, maps, reduces, itr, mval, mymap, mdoneCnt, mwaits, reduced>>

\* The nodes are told one after the other that this user's input is used up.
TellEnd(u) ==
  LET me == NodeOf[u]
      i == turns[u] IN
  /\ pc[u] = "mapend"
  /\ \/ i = me /\ MapMsg(me, MapEnd(u), data)
     \/ /\ i # me
        /\ data' = [data EXCEPT ![me][i] = Append(@, MapEnd(u))]
        /\ UNCHANGED <<mval, mymap, mdoneCnt, mwaits, ready, wakes, reduced>>
  /\ turns' = [turns EXCEPT ![u] = @ + 1]
  /\ pc' = [pc EXCEPT ![u] = IF i = N - 1 THEN "wait" ELSE "mapend"]
  /\ UNCHANGED <<accVars, prog, maps, reduces, itr>>

\* _Reduce refuses a caller on a slave.
RefuseReduce(u) ==
  /\ Does(u, "reduce") /\ NodeOf[u] # 0
  /\ reduces' = [reduces EXCEPT ![u] = @ + 1]
  /\ UNCHANGED <<vars, prog, maps, itr, turns, mval, mymap, mdoneCnt, mwaits, reduced>>

StartReduce(u) ==
  /\ Does(u, "reduce") /\ NodeOf[u] = 0
  /\ reduces' = [reduces EXCEPT ![u] = @ + 1]
  /\ ready' = [ready EXCEPT ![u] = FALSE]
  /\ pc' = [pc EXCEPT ![u] = "reduce"]
  /\ UNCHANGED <<accVars, wakes, data, prog, maps, itr, turns, mval, mymap, mdoneCnt, mwaits, reduced>>

\* Under the manager's lock: the caller waits, the slaves are told, the master
\* reduces what it has.
Reduce(u) ==
  /\ pc[u] = "reduce"
  /\ pc' = [pc EXCEPT ![u] = "wait"]
  /\ LET ch == [data EXCEPT ![0] = [i \in Node |->
                  IF i = 0 THEN data[0][i] ELSE Append(data[0][i], LocalReduce)]]
     IN LocalReduceMsg(0, Append(mwaits, u), ch)
  /\ UNCHANGED <<accVars, prog, maps, reduces, itr, turns>>
-----------------------------------------------------------------------------
MRInit ==
  /\ Init
  /\ prog \in Programs
  /\ maps = [u \in User |-> 0]
  /\ reduces = [u \in User |-> 0]
  /\ itr = [u \in User |-> 0]
  /\ turns = [u \in User |-> 0]
  /\ mval = [n \in Node |-> 0]
  /\ mymap = [n \in Node |-> None]
  /\ mdoneCnt = 0
  /\ mwaits = <<>>
  /\ reduced = None

\* A step of the accumulator; a call of it begins where the program has one.
AccStep(u) == /\ pc[u] = "idle" => Does(u, "acc")
              /\ UserStep(u)
              /\ UNCHANGED mrVars
MapStep(u) == StartMap(u) \/ MapLocal(u) \/ MapSend(u) \/ InputEnds(u) \/ TellEnd(u)
ReduceStep(u) == RefuseReduce(u) \/ StartReduce(u) \/ Reduce(u)
Step(u) == AccStep(u) \/ MapStep(u) \/ ReduceStep(u)
Woken(u) == SlaveWake(u) /\ UNCHANGED mrVars
Listen(a, b) == \/ ListenData(a, b) /\ UNCHANGED mrVars
                \/ ListenMap(a, b)

MRNext ==
  \/ \E u \in User : Step(u) \/ Woken(u)
  \/ \E a, b \in Node : Listen(a, b)

MRSpec == MRInit /\ [][MRNext]_allVars

\* As in Accumulator: threads run and packets are delivered.
MRFairSpec ==
  /\ MRSpec
  /\ \A u \in User : WF_allVars(Step(u)) /\ WF_allVars(Woken(u))
  /\ \A a, b \in Node : WF_allVars(Listen(a, b))
-----------------------------------------------------------------------------
(* Properties.                                                             *)

Collected(p) == MapThenSumSet(LAMBDA n : mymap[n][p], Node)

\* No value is collected or reduced twice, though packets of the next Map may
\* arrive before and after the master's order to reduce; and when Reduce has
\* returned for the r-th time, the pairs of the first r Maps of all users are
\* reduced: the order overtakes no packet that was sent before it.
PairsOnce ==
  /\ \A p \in Pair : reduced[p] + Collected(p) <= 1
  /\ \A u \in User : NodeOf[u] = 0 /\ pc[u] = "idle" =>
       \A p \in Pair : p[2] <= reduces[u] => reduced[p] = 1

\* A program in which every Map follows an accumulation: nobody is in the next
\* Map while Reduce runs.
Lockstep ==
  \A u \in User : \A i \in DOMAIN prog[u] : prog[u][i] = "map" => i > 1 /\ prog[u][i - 1] = "acc"

\* When Map has returned for the r-th time, the pairs of the r-th Map of every
\* user have been collected or reduced: the wake-up comes after the last packet
\* of the last user, on all nodes.  Holds for programs in lockstep only, as Map
\* and Reduce of one object share done_node_cnt and the wait list.
MapComplete ==
  Lockstep => \A u \in User : pc[u] = "idle" =>
    \A p \in Pair : p[2] <= maps[u] => reduced[p] + Collected(p) = 1

\* Accumulations, Maps and Reduces in one program: no wake-up of one object is
\* taken for, or lost to, a call of the other, and every program ends.
ProgramsEnd == \A u \in User : <>(pc[u] = "idle" /\ Calls(u) = Len(prog[u]))
=============================================================================
