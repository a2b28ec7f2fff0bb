------------------------- MODULE SyncManagerProofs -------------------------
(***************************************************************************)
(* Proofs about SyncManager, for any threads, nodes, objects and programs: *)
(* types and signalled events; then, when no call is made with a timeout,  *)
(* that nobody is lost or woken twice, and that the calls of DBarrier,     *)
(* DSemaphore and DEvent return only when those classes let them.          *)
(***************************************************************************)
EXTENDS SyncManager, FiniteSetTheorems, SequenceTheorems, TLAPS
(***************************************************************************)
(* Types.                                                                  *)
(***************************************************************************)

\* A thread inside a blocking call knows which one: Send and Return use it.
CallKnown == \A t \in Thread : pc[t] \in {"send", "wait"} => call[t] \in BlockingCall

TypeInv == TypeOK /\ CallKnown

\* A well-formed request names an operation of its object's class.
LEMMA RequestType ==
  ASSUME NEW t \in Thread, NEW c \in Call
  PROVE  /\ Request(t, c) \in Requests
         /\ c[2] \in Object
         /\ Request(t, c).thread = t
         /\ Request(t, c).obj = c[2]
         /\ Request(t, c).op = c[1]
  BY DEF Request, Requests, Call, BlockingCall, PostingCall, Object

\* The fields of a request, by operation (RcMasterListen's switch).
LEMMA RequestFields ==
  ASSUME NEW m \in Requests
  PROVE  /\ m.thread \in Thread
         /\ m.obj \in Object
         /\ m.op \in {"Enter", "Acquire", "Release", "Wait", "Set", "Reset"}
         /\ m.op = "Enter" => m.obj \in Barrier
         /\ m.op \in {"Acquire", "Release"} => m.obj \in Semaphore
         /\ m.op \in {"Wait", "Set", "Reset"} => m.obj \in Event
  BY DEF Request, Requests, Call, BlockingCall, PostingCall, Object

\* The node a handler works on has the type of a SyncNode.
LEMMA SyncNodeType ==
  ASSUME TypeOK, NEW o \in Object
  PROVE  SyncNode(o) \in SyncNodes
<1>1. CASE sync[o].made
  BY <1>1 DEF SyncNode, TypeOK
<1>2. CASE ~sync[o].made
  BY <1>2, FieldAssumption DEF SyncNode, FreshNode, SignalField, SyncNodes, Object
<1> QED BY <1>1, <1>2

\* The number of times a thread is in a wait list.
LEMMA TimesType ==
  ASSUME NEW ts \in Seq(Thread), NEW t
  PROVE  Times(ts, t) \in Nat
<1>1. IsFiniteSet(1 .. Len(ts))
  BY FS_Interval
<1>2. IsFiniteSet({i \in DOMAIN ts : ts[i] = t})
  BY <1>1, FS_Subset
<1> QED BY <1>2, FS_CardinalityType DEF Times

\* Waking threads keeps the types of what it changes.
LEMMA WakeType ==
  ASSUME TypeOK, NEW ts \in Seq(Thread), Wake(ts)
  PROVE  /\ ready' \in [Thread -> BOOLEAN]
         /\ wakes' \in [Thread -> Nat]
         /\ crashed' \subseteq {0} \cup Slave
<1>1. ready' \in [Thread -> BOOLEAN]
  BY DEF Wake, TypeOK
<1>2. wakes' \in [Thread -> Nat]
  BY TimesType DEF Wake, TypeOK
<1>3. crashed' \subseteq {0} \cup Slave
  BY DEF Wake, TypeOK
<1> QED BY <1>1, <1>2, <1>3

\* A handler that wakes nobody.
LEMMA WakeNoneType ==
  ASSUME TypeOK, WakeNone
  PROVE  /\ ready' \in [Thread -> BOOLEAN]
         /\ wakes' \in [Thread -> Nat]
         /\ crashed' \subseteq {0} \cup Slave
  BY DEF WakeNone, TypeOK

\* Updating the value or the wait list of a SyncNode gives a SyncNode.
LEMMA NodeUpdate ==
  ASSUME NEW n \in SyncNodes, NEW v \in Int, NEW w \in Seq(Thread)
  PROVE  /\ [n EXCEPT !.val = v] \in SyncNodes
         /\ [n EXCEPT !.waits = w] \in SyncNodes
         /\ [n EXCEPT !.val = v, !.waits = w] \in SyncNodes
<1>1. [n EXCEPT !.val = v] \in SyncNodes
  BY DEF SyncNodes
<1>2. [n EXCEPT !.waits = w] \in SyncNodes
  BY DEF SyncNodes
<1>3. [n EXCEPT !.val = v, !.waits = w] \in SyncNodes
  BY DEF SyncNodes
<1> QED BY <1>1, <1>2, <1>3

\* What the handlers make of a SyncNode is a SyncNode, and what they wake is a
\* list of threads.
LEMMA HandlerNodes ==
  ASSUME NEW n \in SyncNodes, NEW t \in Thread
  PROVE  /\ Reopen(n) \in SyncNodes
         /\ Drained(n) \in SyncNodes
         /\ Consumed(n) \in SyncNodes
         /\ [n EXCEPT !.val = @ + 1] \in SyncNodes
         /\ [n EXCEPT !.val = @ - 1] \in SyncNodes
         /\ [n EXCEPT !.val = 0] \in SyncNodes
         /\ [n EXCEPT !.val = 1] \in SyncNodes
         /\ [n EXCEPT !.waits = Append(@, t)] \in SyncNodes
         /\ [n EXCEPT !.val = @ + 1, !.waits = Append(@, t)] \in SyncNodes
         /\ [n EXCEPT !.val = @ - 1, !.waits = Append(@, t)] \in SyncNodes
         /\ Released(n, t) \in Seq(Thread)
         /\ <<t>> \in Seq(Thread)
         /\ n.waits \in Seq(Thread)
<1>1. n.val \in Int /\ n.waits \in Seq(Thread) /\ <<t>> \in Seq(Thread)
  BY DEF SyncNodes
<1>2. /\ n.val + 1 \in Int /\ n.val - 1 \in Int
      /\ (IF n.data # 0 THEN 0 ELSE n.val) \in Int
      /\ 0 \in Int /\ 1 \in Int
  BY <1>1
<1>3. Append(n.waits, t) \in Seq(Thread) /\ << >> \in Seq(Thread)
  BY <1>1
<1>4. Released(n, t) \in Seq(Thread)
  BY <1>1 DEF Released
<1>v. \A v \in Int : [n EXCEPT !.val = v] \in SyncNodes
  BY <1>1, NodeUpdate
<1>w. \A w \in Seq(Thread) : [n EXCEPT !.waits = w] \in SyncNodes
  BY <1>1, NodeUpdate
<1>b. \A v \in Int, w \in Seq(Thread) : [n EXCEPT !.val = v, !.waits = w] \in SyncNodes
  BY NodeUpdate
<1>5. /\ [n EXCEPT !.val = n.val + 1] \in SyncNodes
      /\ [n EXCEPT !.val = n.val - 1] \in SyncNodes
      /\ [n EXCEPT !.val = 0] \in SyncNodes
      /\ [n EXCEPT !.val = 1] \in SyncNodes
      /\ [n EXCEPT !.val = IF n.data # 0 THEN 0 ELSE n.val] \in SyncNodes
  BY <1>2, <1>v
<1>6. /\ [n EXCEPT !.waits = Append(n.waits, t)] \in SyncNodes
      /\ [n EXCEPT !.val = n.val + 1, !.waits = Append(n.waits, t)] \in SyncNodes
      /\ [n EXCEPT !.val = n.val - 1, !.waits = Append(n.waits, t)] \in SyncNodes
      /\ [n EXCEPT !.val = 0, !.waits = <<>>] \in SyncNodes
      /\ [n EXCEPT !.val = 1, !.waits = <<>>] \in SyncNodes
  BY <1>2, <1>3, <1>w, <1>b, Zenon
<1> QED BY <1>1, <1>4, <1>5, <1>6 DEF Reopen, Drained, Consumed

\* The same when the first waiter leaves the list.
LEMMA HandlerNodesTail ==
  ASSUME NEW n \in SyncNodes, n.waits # <<>>
  PROVE  /\ HandedOn(n) \in SyncNodes
         /\ [n EXCEPT !.val = @ + 1, !.waits = Tail(@)] \in SyncNodes
         /\ <<Head(n.waits)>> \in Seq(Thread)
         /\ Head(n.waits) \in Thread
<1>1. n.val \in Int /\ n.waits \in Seq(Thread)
  BY DEF SyncNodes
<1>2. Tail(n.waits) \in Seq(Thread) /\ Head(n.waits) \in Thread
  BY <1>1
<1>3. n.val + 1 \in Int /\ 0 \in Int
  BY <1>1
<1>4. /\ [n EXCEPT !.val = 0, !.waits = Tail(n.waits)] \in SyncNodes
      /\ [n EXCEPT !.val = n.val + 1, !.waits = Tail(n.waits)] \in SyncNodes
  BY <1>2, <1>3, NodeUpdate
<1> QED BY <1>2, <1>4 DEF HandedOn

\* Every handler keeps the types of the master's state.
LEMMA HandleType ==
  ASSUME TypeOK, NEW m \in Requests, Handle(m)
  PROVE  /\ ready' \in [Thread -> BOOLEAN]
         /\ wakes' \in [Thread -> Nat]
         /\ crashed' \subseteq {0} \cup Slave
         /\ sync' \in [Object -> SyncNodes]
         /\ freed' \in [Object -> Nat]
<1> DEFINE o == m.obj
           n == SyncNode(o)
<1>0. /\ m.thread \in Thread /\ o \in Object
      /\ n \in SyncNodes /\ sync[o] \in SyncNodes
  BY RequestFields, SyncNodeType DEF TypeOK
<1>f. freed' \in [Object -> Nat]
  BY <1>0 DEF Handle, TypeOK
<1>w. \A ts \in Seq(Thread) : Wake(ts) => /\ ready' \in [Thread -> BOOLEAN]
                                         /\ wakes' \in [Thread -> Nat]
                                         /\ crashed' \subseteq {0} \cup Slave
  BY WakeType
<1>n. \A v \in SyncNodes : sync' = [sync EXCEPT ![o] = v] => sync' \in [Object -> SyncNodes]
  BY <1>0 DEF TypeOK
<1>1. CASE BarrierMsg(o, m.thread)
  BY <1>0, <1>1, <1>f, <1>w, <1>n, HandlerNodes, WakeNoneType DEF BarrierMsg
<1>2. CASE SemaphoreMsg(o, m.thread)
  BY <1>0, <1>2, <1>f, <1>w, <1>n, HandlerNodes, WakeNoneType DEF SemaphoreMsg
<1>3. CASE SemaphoreLeaveMsg(o)
  <2> DEFINE k == sync[o]
  <2>1. CASE ~k.made
    BY <1>3, <1>f, <2>1 DEF SemaphoreLeaveMsg, TypeOK
  <2>2. CASE k.made /\ PassesOn(k)
    BY <1>0, <1>3, <1>f, <1>w, <1>n, <2>2, HandlerNodesTail DEF SemaphoreLeaveMsg, PassesOn
  <2>3. CASE k.made /\ ~PassesOn(k)
    BY <1>0, <1>3, <1>f, <1>n, <2>3, HandlerNodes, WakeNoneType DEF SemaphoreLeaveMsg
  <2> QED BY <2>1, <2>2, <2>3
<1>4. CASE EventWaitMsg(o, m.thread)
  BY <1>0, <1>4, <1>f, <1>w, <1>n, HandlerNodes, WakeNoneType DEF EventWaitMsg
<1>5. CASE SetEventMsg(o)
  BY <1>0, <1>5, <1>f, <1>w, <1>n, HandlerNodes, HandlerNodesTail, WakeNoneType
     DEF SetEventMsg
<1>6. CASE ResetEventMsg(o)
  BY <1>0, <1>6, <1>f, <1>n, HandlerNodes, WakeNoneType DEF ResetEventMsg
<1> QED BY <1>1, <1>2, <1>3, <1>4, <1>5, <1>6 DEF Handle

\* Counting one more call of thread t on object o.
LEMMA Bump ==
  ASSUME NEW f \in [Thread -> [Object -> Nat]], NEW t \in Thread, NEW o \in Object
  PROVE  /\ [f EXCEPT ![t][o] = @ + 1] \in [Thread -> [Object -> Nat]]
         /\ \A u \in Thread, p \in Object :
              [f EXCEPT ![t][o] = @ + 1][u][p] = IF u = t /\ p = o THEN f[u][p] + 1 ELSE f[u][p]
<1>1. f[t] \in [Object -> Nat] /\ f[t][o] + 1 \in Nat
  OBVIOUS
<1>2. [f[t] EXCEPT ![o] = f[t][o] + 1] \in [Object -> Nat]
  BY <1>1
<1> QED BY <1>1, <1>2

\* Handing a request over keeps the types, on the master and on a slave.
LEMMA PostType ==
  ASSUME TypeOK, NEW m \in Requests, Post(m)
  PROVE  /\ ready' \in [Thread -> BOOLEAN]
         /\ wakes' \in [Thread -> Nat]
         /\ crashed' \subseteq {0} \cup Slave
         /\ sync' \in [Object -> SyncNodes]
         /\ freed' \in [Object -> Nat]
         /\ toMaster' \in [Slave -> Seq(Requests)]
<1>1. CASE NodeOf[m.thread] = 0
  BY <1>1, HandleType DEF Post, TypeOK
<1>2. CASE NodeOf[m.thread] # 0
  <2>1. NodeOf[m.thread] \in Slave
    BY <1>2, RequestFields DEF Slave
  <2>2. Append(toMaster[NodeOf[m.thread]], m) \in Seq(Requests)
    BY <2>1 DEF TypeOK
  <2> QED BY <1>2, <2>1, <2>2 DEF Post, TypeOK
<1> QED BY <1>1, <1>2

\* The initial state is well typed.
LEMMA InitType == Init => TypeInv
<1>1. Zero \in [Object -> Nat]
  BY DEF Zero
<1>2. \A o \in Object : [made |-> FALSE, val |-> 0, data |-> 0, waits |-> <<>>] \in SyncNodes
  BY DEF SyncNodes
<1> QED BY <1>1, <1>2 DEF Init, TypeInv, TypeOK, CallKnown

\* Every step keeps the types.
LEMMA NextType == TypeInv /\ [Next]_vars => TypeInv'
<1> SUFFICES ASSUME TypeInv, [Next]_vars PROVE TypeInv'
  OBVIOUS
<1> USE DEF TypeInv
<1>1. ASSUME NEW t \in Thread, Begin(t) PROVE TypeInv'
  <2>1. PICK c \in Uses[t] \cap BlockingCall :
             /\ call' = [call EXCEPT ![t] = c]
             /\ began' = [began EXCEPT ![t][c[2]] = @ + 1]
    BY <1>1 DEF Begin
  <2>2. c \in BlockingCall /\ c[2] \in Object
    BY <2>1 DEF BlockingCall, Object
  <2>3. began' \in [Thread -> [Object -> Nat]] /\ call' \in [Thread -> BlockingCall \cup {NoCall}]
    BY <2>1, <2>2, Bump DEF TypeOK
  <2>4. TypeOK'
    BY <1>1, <2>3 DEF Begin, ResetLocal, TypeOK, mem
  <2>5. CallKnown'
    BY <1>1, <2>1, <2>2 DEF Begin, CallKnown, TypeOK
  <2> QED BY <2>4, <2>5
<1>2. ASSUME NEW t \in Thread, Send(t) PROVE TypeInv'
  <2>1. call[t] \in Call
    BY <1>2 DEF Send, CallKnown, Call
  <2>2. Request(t, call[t]) \in Requests
    BY <2>1, RequestType
  <2>3. TypeOK'
    BY <1>2, <2>2, PostType DEF Send, TypeOK
  <2> QED BY <1>2, <2>3 DEF Send, CallKnown, TypeOK
<1>3. ASSUME NEW t \in Thread, Return(t) PROVE TypeInv'
  <2>1. call[t][2] \in Object
    BY <1>3 DEF Return, CallKnown, BlockingCall, Object
  <2>2. ended' \in [Thread -> [Object -> Nat]]
    BY <1>3, <2>1, Bump DEF Return, TypeOK
  <2>3. taken' \in [Object -> Nat]
    BY <1>3, <2>1 DEF Return, TypeOK
  <2> QED BY <1>3, <2>2, <2>3 DEF Return, CallKnown, TypeOK, mem
<1>4. ASSUME NEW t \in Thread, PostCall(t) PROVE TypeInv'
  <2>1. PICK c \in Uses[t] \cap PostingCall :
             /\ Post(Request(t, c))
             /\ posted' = [posted EXCEPT ![t][c[2]] = @ + 1]
    BY <1>4 DEF PostCall
  <2>2. c \in Call
    BY <2>1 DEF Call
  <2>3. Request(t, c) \in Requests /\ c[2] \in Object
    BY <2>2, RequestType
  <2>4. posted' \in [Thread -> [Object -> Nat]]
    BY <2>1, <2>3, Bump DEF TypeOK
  <2>5. TypeOK'
    BY <1>4, <2>1, <2>3, <2>4, PostType DEF PostCall, TypeOK
  <2> QED BY <1>4, <2>5 DEF PostCall, CallKnown
<1>5. ASSUME NEW t \in Thread, Exit(t) PROVE TypeInv'
  BY <1>5 DEF Exit, CallKnown, TypeOK, mem, hist
<1>6. ASSUME NEW t \in Thread, TimeOut(t) PROVE TypeInv'
  BY <1>6 DEF TimeOut, CallKnown, TypeOK, mem, hist
<1>7. ASSUME NEW t \in Thread, SlaveWake(t) PROVE TypeInv'
  <2>0. wakes[t] \in Nat /\ wakes[t] > 0 /\ wakes' = [wakes EXCEPT ![t] = wakes[t] - 1]
    BY <1>7 DEF SlaveWake, Received, TypeOK
  <2>1. wakes' \in [Thread -> Nat]
    BY <2>0 DEF TypeOK
  <2>2. NodeOf[t] \in {0} \cup Slave
    BY DEF Slave
  <2>3. ready' \in [Thread -> BOOLEAN] /\ crashed' \subseteq {0} \cup Slave
    <3>1. CASE pc[t] # "dead"
      BY <1>7, <3>1 DEF SlaveWake, TypeOK
    <3>2. CASE pc[t] = "dead"
      BY <1>7, <2>2, <3>2 DEF SlaveWake, TypeOK
    <3> QED BY <3>1, <3>2
  <2> QED BY <1>7, <2>1, <2>3 DEF SlaveWake, CallKnown, TypeOK, hist
<1>8. ASSUME NEW n \in Slave, MasterListen(n) PROVE TypeInv'
  <2>1. Head(toMaster[n]) \in Requests /\ Tail(toMaster[n]) \in Seq(Requests)
    BY <1>8 DEF MasterListen, TypeOK
  <2>2. toMaster' \in [Slave -> Seq(Requests)]
    BY <1>8, <2>1 DEF MasterListen, TypeOK
  <2> QED BY <1>8, <2>1, <2>2, HandleType DEF MasterListen, CallKnown, TypeOK
<1>9. ASSUME NEW n \in Slave, ListenFails(n) PROVE TypeInv'
  BY <1>9 DEF ListenFails, CallKnown, TypeOK, hist
<1>10. CASE UNCHANGED vars
  BY <1>10 DEF vars, mem, hist, CallKnown, TypeOK
<1> QED BY <1>1, <1>2, <1>3, <1>4, <1>5, <1>6, <1>7, <1>8, <1>9, <1>10 DEF Next, ThreadStep

\* Type correctness: every reachable state of the sync layer is well typed.
THEOREM TypeCorrect == Spec => []TypeOK
<1>1. Spec => []TypeInv
  BY InitType, NextType, PTL DEF Spec
<1>2. TypeInv => TypeOK
  BY DEF TypeInv
<1> QED BY <1>1, <1>2, PTL

(***************************************************************************)
(* Events: a signalled event has no waiter.                                *)
(***************************************************************************)

\* A handler changes no node but the one of its request's object.
LEMMA HandleOther ==
  ASSUME TypeOK, NEW m \in Requests, Handle(m), NEW p \in Object, p # m.obj
  PROVE  sync'[p] = sync[p]
<1>1. sync \in [Object -> SyncNodes]
  BY DEF TypeOK
<1>2. \A v : sync' = [sync EXCEPT ![m.obj] = v] => sync'[p] = sync[p]
  BY <1>1
<1> QED BY <1>2 DEF Handle, BarrierMsg, SemaphoreMsg, SemaphoreLeaveMsg,
                    EventWaitMsg, SetEventMsg, ResetEventMsg

\* No handler leaves a waiter at a signalled event.
LEMMA HandleNoSignalledWaiter ==
  ASSUME TypeOK, NoSignalledWaiter, NEW m \in Requests, Handle(m)
  PROVE  NoSignalledWaiter'
<1> SUFFICES ASSUME NEW e \in Event
             PROVE  sync'[e].val # 0 => sync'[e].waits = <<>>
  BY DEF NoSignalledWaiter
<1>0. e \in Object /\ sync \in [Object -> SyncNodes]
  BY DEF Object, TypeOK
<1>1. CASE e # m.obj
  BY <1>0, <1>1, HandleOther DEF NoSignalledWaiter
<1>2. CASE e = m.obj
  <2> DEFINE n == SyncNode(e)
  <2>1. n \in SyncNodes /\ m.thread \in Thread
    BY <1>0, SyncNodeType, RequestFields
  <2>2. n.val # 0 => n.waits = <<>>
    BY <1>0, ObjectAssumption DEF SyncNode, FreshNode, NoSignalledWaiter
  <2>3. m.op \in {"Wait", "Set", "Reset"}
    BY <1>2, RequestFields, ObjectAssumption
  <2>4. \A v : sync' = [sync EXCEPT ![e] = v] => sync'[e] = v
    BY <1>0
  <2>5. CASE EventWaitMsg(e, m.thread)
    BY <2>1, <2>2, <2>4, <2>5 DEF EventWaitMsg, Consumed, SyncNodes
  <2>6. CASE SetEventMsg(e)
    BY <2>1, <2>4, <2>6 DEF SetEventMsg, HandedOn, Drained, SyncNodes
  <2>7. CASE ResetEventMsg(e)
    BY <2>1, <2>4, <2>7 DEF ResetEventMsg, SyncNodes
  <2> QED BY <1>2, <2>3, <2>5, <2>6, <2>7 DEF Handle
<1> QED BY <1>1, <1>2

\* Whatever Set, Reset and Wait requests cross, time out or are lost in a
\* crash, no thread is left waiting for an event that is signalled.
THEOREM NoSignalledWaiterHolds == Spec => []NoSignalledWaiter
<1>1. Init => NoSignalledWaiter
  BY DEF Init, NoSignalledWaiter, Object
<1>2. TypeInv /\ NoSignalledWaiter /\ [Next]_vars => NoSignalledWaiter'
  <2> SUFFICES ASSUME TypeInv, NoSignalledWaiter, [Next]_vars PROVE NoSignalledWaiter'
    OBVIOUS
  <2> USE DEF TypeInv
  <2>1. CASE UNCHANGED sync
    BY <2>1 DEF NoSignalledWaiter
  <2>2. ASSUME NEW m \in Requests, Post(m) PROVE NoSignalledWaiter'
    BY <2>1, <2>2, HandleNoSignalledWaiter DEF Post
  <2>3. ASSUME NEW t \in Thread, Send(t) PROVE NoSignalledWaiter'
    <3>1. Request(t, call[t]) \in Requests
      BY <2>3, RequestType DEF Send, CallKnown, Call
    <3> QED BY <2>2, <2>3, <3>1 DEF Send
  <2>4. ASSUME NEW t \in Thread, PostCall(t) PROVE NoSignalledWaiter'
    <3>1. PICK c \in PostingCall : Post(Request(t, c))
      BY <2>4 DEF PostCall
    <3> QED BY <2>2, <3>1, RequestType DEF Call
  <2>5. ASSUME NEW n \in Slave, MasterListen(n) PROVE NoSignalledWaiter'
    <3>1. Head(toMaster[n]) \in Requests
      BY <2>5 DEF MasterListen, TypeOK
    <3> QED BY <2>5, <3>1, HandleNoSignalledWaiter DEF MasterListen
  <2>6. ASSUME NEW t \in Thread, Begin(t) \/ Return(t) \/ Exit(t) \/ TimeOut(t) \/ SlaveWake(t)
        PROVE  UNCHANGED sync
    BY <2>6 DEF Begin, Return, Exit, TimeOut, SlaveWake, mem
  <2>7. ASSUME NEW n \in Slave, ListenFails(n) PROVE UNCHANGED sync
    BY <2>7 DEF ListenFails
  <2>8. CASE UNCHANGED vars
    BY <2>1, <2>8 DEF vars, mem
  <2> QED BY <2>1, <2>3, <2>4, <2>5, <2>6, <2>7, <2>8 DEF Next, ThreadStep
<1>3. Spec => []TypeInv
  BY InitType, NextType, PTL DEF Spec
<1> QED BY <1>1, <1>2, <1>3, PTL DEF Spec

(***************************************************************************)
(* Wait lists.                                                             *)
(***************************************************************************)

\* No thread is in the list twice.
OneEach(ts) == \A i, j \in DOMAIN ts : ts[i] = ts[j] => i = j

\* In a list without repetitions a thread is there once or not at all.
LEMMA TimesOnce ==
  ASSUME NEW ts \in Seq(Thread), OneEach(ts), NEW t
  PROVE  Times(ts, t) = IF t \in Threads(ts) THEN 1 ELSE 0
<1> DEFINE I == {i \in DOMAIN ts : ts[i] = t}
<1>1. CASE t \in Threads(ts)
  <2>1. PICK i \in DOMAIN ts : ts[i] = t
    BY <1>1 DEF Threads
  <2>2. I = {i}
    BY <2>1 DEF OneEach
  <2> QED BY <1>1, <2>2, FS_Singleton DEF Times
<1>2. CASE t \notin Threads(ts)
  <2>1. I = {}
    BY <1>2 DEF Threads
  <2> QED BY <1>2, <2>1, FS_EmptySet DEF Times
<1> QED BY <1>1, <1>2

\* push_back of a thread that is not in the list.
LEMMA ListAppend ==
  ASSUME NEW ts \in Seq(Thread), NEW t \in Thread, OneEach(ts), t \notin Threads(ts)
  PROVE  /\ OneEach(Append(ts, t))
         /\ Threads(Append(ts, t)) = Threads(ts) \cup {t}
         /\ Len(Append(ts, t)) = Len(ts) + 1
<1>1. /\ Len(Append(ts, t)) = Len(ts) + 1
      /\ DOMAIN Append(ts, t) = 1 .. Len(ts) + 1
      /\ DOMAIN ts = 1 .. Len(ts)
      /\ \A i \in 1 .. Len(ts) : Append(ts, t)[i] = ts[i]
      /\ Append(ts, t)[Len(ts) + 1] = t
      /\ Len(ts) \in Nat
  OBVIOUS
<1>2. OneEach(Append(ts, t))
  BY <1>1 DEF OneEach, Threads
<1>3. Threads(Append(ts, t)) = Threads(ts) \cup {t}
  <2>1. ASSUME NEW x \in Threads(Append(ts, t)) PROVE x \in Threads(ts) \cup {t}
    BY <1>1 DEF Threads
  <2>2. ASSUME NEW x \in Threads(ts) PROVE x \in Threads(Append(ts, t))
    BY <1>1 DEF Threads
  <2>3. t \in Threads(Append(ts, t))
    BY <1>1 DEF Threads
  <2> QED BY <2>1, <2>2, <2>3
<1> QED BY <1>1, <1>2, <1>3

\* The caller before those who wait (BarrierMsg's order of wake-ups).
LEMMA ListFront ==
  ASSUME NEW ts \in Seq(Thread), NEW t \in Thread, OneEach(ts), t \notin Threads(ts)
  PROVE  /\ OneEach(<<t>> \o ts)
         /\ Threads(<<t>> \o ts) = Threads(ts) \cup {t}
         /\ <<t>> \o ts \in Seq(Thread)
<1> DEFINE us == <<t>> \o ts
<1>1. /\ us \in Seq(Thread)
      /\ Len(us) = Len(ts) + 1
      /\ DOMAIN us = 1 .. Len(ts) + 1
      /\ DOMAIN ts = 1 .. Len(ts)
      /\ us[1] = t
      /\ \A i \in 2 .. Len(ts) + 1 : us[i] = ts[i - 1]
      /\ Len(ts) \in Nat
  OBVIOUS
<1> HIDE DEF us
<1>i. ASSUME NEW i \in DOMAIN us
      PROVE  \/ i = 1 /\ us[i] = t
             \/ i # 1 /\ i - 1 \in DOMAIN ts /\ us[i] = ts[i - 1] /\ us[i] # t
  BY <1>1 DEF Threads
<1>2. OneEach(us)
  <2> SUFFICES ASSUME NEW i \in DOMAIN us, NEW j \in DOMAIN us, us[i] = us[j] PROVE i = j
    BY DEF OneEach
  <2>1. i = 1 <=> j = 1
    BY <1>i
  <2>2. CASE i # 1
    BY <1>1, <1>i, <2>1, <2>2 DEF OneEach
  <2> QED BY <2>1, <2>2
<1>3. Threads(us) = Threads(ts) \cup {t}
  <2>1. ASSUME NEW x \in Threads(us) PROVE x \in Threads(ts) \cup {t}
    BY <1>i, <2>1 DEF Threads
  <2>2. ASSUME NEW x \in Threads(ts) PROVE x \in Threads(us)
    <3>1. PICK i \in 1 .. Len(ts) : ts[i] = x
      BY <1>1, <2>2 DEF Threads
    <3>2. i + 1 \in DOMAIN us /\ us[i + 1] = x
      BY <1>1, <3>1
    <3> QED BY <3>2 DEF Threads
  <2>3. t \in Threads(us)
    BY <1>1 DEF Threads
  <2> QED BY <2>1, <2>2, <2>3
<1> QED BY <1>1, <1>2, <1>3 DEF us

\* pop_front.
LEMMA ListTail ==
  ASSUME NEW ts \in Seq(Thread), OneEach(ts), ts # <<>>
  PROVE  /\ OneEach(Tail(ts))
         /\ Head(ts) \in Threads(ts)
         /\ Threads(Tail(ts)) = Threads(ts) \ {Head(ts)}
         /\ Len(Tail(ts)) = Len(ts) - 1
<1> DEFINE us == Tail(ts)
<1>1. /\ Len(ts) \in Nat /\ Len(ts) > 0
      /\ Len(us) = Len(ts) - 1
      /\ DOMAIN us = 1 .. Len(ts) - 1
      /\ DOMAIN ts = 1 .. Len(ts)
      /\ Head(ts) = ts[1]
      /\ \A i \in 1 .. Len(ts) - 1 : us[i] = ts[i + 1]
  OBVIOUS
<1> HIDE DEF us
<1>2. OneEach(us)
  BY <1>1 DEF OneEach
<1>3. Head(ts) \in Threads(ts)
  BY <1>1 DEF Threads
<1>4. ASSUME NEW x \in Threads(us) PROVE x \in Threads(ts) /\ x # Head(ts)
  <2>1. PICK i \in 1 .. Len(ts) - 1 : us[i] = x
    BY <1>1, <1>4 DEF Threads
  <2>2. i + 1 \in DOMAIN ts /\ ts[i + 1] = x /\ 1 \in DOMAIN ts /\ i + 1 # 1
    BY <1>1, <2>1
  <2> QED BY <1>1, <2>2 DEF Threads, OneEach
<1>5. ASSUME NEW x \in Threads(ts), x # Head(ts) PROVE x \in Threads(us)
  <2>1. PICK i \in 1 .. Len(ts) : ts[i] = x
    BY <1>1, <1>5 DEF Threads
  <2>2. i # 1
    BY <1>1, <1>5, <2>1
  <2>3. i - 1 \in 1 .. Len(ts) - 1 /\ us[i - 1] = x
    BY <1>1, <2>1, <2>2
  <2> QED BY <1>1, <2>3 DEF Threads
<1> QED BY <1>1, <1>2, <1>3, <1>4, <1>5 DEF us

\* A list of one, and the empty list.
LEMMA ListSmall ==
  ASSUME NEW t
  PROVE  /\ OneEach(<<t>>) /\ Threads(<<t>>) = {t}
         /\ OneEach(<<>>) /\ Threads(<<>>) = {}
  BY DEF OneEach, Threads

\* A list without repetitions is as long as the set of its threads is large.
LEMMA ListLength ==
  ASSUME NEW ts \in Seq(Thread), OneEach(ts)
  PROVE  IsFiniteSet(Threads(ts)) /\ Cardinality(Threads(ts)) = Len(ts)
<1>1. ts \in Bijection(1 .. Len(ts), Threads(ts))
  <2>1. DOMAIN ts = 1 .. Len(ts) /\ \A i \in 1 .. Len(ts) : ts[i] \in Threads(ts)
    BY DEF Threads
  <2>2. ts \in [1 .. Len(ts) -> Threads(ts)]
    BY <2>1
  <2>3. \A u \in Threads(ts) : \E i \in 1 .. Len(ts) : ts[i] = u
    BY <2>1 DEF Threads
  <2> QED BY <2>1, <2>2, <2>3 DEF Bijection, Injection, Surjection, IsInjective, OneEach
<1>0. 1 \in Int /\ Len(ts) \in Int /\ Len(ts) >= 0
  OBVIOUS
<1>2. IsFiniteSet(1 .. Len(ts)) /\ Cardinality(1 .. Len(ts)) = Len(ts)
  <2>1. Cardinality(1 .. Len(ts)) = IF 1 > Len(ts) THEN 0 ELSE Len(ts) - 1 + 1
    BY <1>0, FS_Interval
  <2> QED BY <1>0, <2>1, FS_Interval
<1> QED BY <1>1, <1>2, FS_Bijection DEF ExistsBijection

(***************************************************************************)
(* Where a blocked thread is.                                              *)
(***************************************************************************)

Asks(m) == <<m.op, m.obj>> \in BlockingCall
Line(o) == Threads(sync[o].waits)
Woken(t) == wakes[t] = 1 \/ ready[t]

\* A socket carries the requests of its own node's threads; a blocked thread
\* has at most one there, the one of the call it is in.
Sockets ==
  \A n \in Slave : \A i \in DOMAIN toMaster[n] :
    LET m == toMaster[n][i] IN
    /\ NodeOf[m.thread] = n
    /\ Asks(m) =>
         /\ pc[m.thread] = "wait" /\ call[m.thread] = <<m.op, m.obj>>
         /\ wakes[m.thread] = 0 /\ ~ready[m.thread]
         /\ \A o \in Object : m.thread \notin Line(o)
         /\ \A j \in DOMAIN toMaster[n] :
              Asks(toMaster[n][j]) /\ toMaster[n][j].thread = m.thread => j = i

\* Whoever is in a wait list is blocked in a call on that object, is there once
\* and has not been woken.
Lines ==
  \A o \in Object :
    /\ ~sync[o].made => sync[o].waits = <<>>
    /\ OneEach(sync[o].waits)
    /\ \A t \in Line(o) :
         pc[t] = "wait" /\ call[t][2] = o /\ wakes[t] = 0 /\ ~ready[t]

\* A wake-up is for a blocked thread, comes once and finds the local event reset.
Wakings ==
  \A t \in Thread :
    /\ wakes[t] # 0 => wakes[t] = 1 /\ pc[t] = "wait" /\ ~ready[t]
    /\ pc[t] = "send" => ~ready[t]

\* No blocked thread is forgotten.
NoneLost ==
  \A t \in Thread :
    pc[t] = "wait" => InFlight(t) \/ t \in Line(call[t][2]) \/ Woken(t)

Placed == Sockets /\ Lines /\ Wakings /\ NoneLost

(***************************************************************************)
(* What a handler does, whatever the request: it wakes the threads W.      *)
(***************************************************************************)

\* The thread that blocks on the request, if it is one of a blocking call.
Caller(m) == IF Asks(m) THEN {m.thread} ELSE {}

\* The threads of W, and no others, are woken once.
Woke(W) ==
  /\ ready' = [t \in Thread |-> IF t \in W /\ NodeOf[t] = 0 THEN TRUE ELSE ready[t]]
  /\ wakes' = [t \in Thread |-> IF t \in W /\ NodeOf[t] # 0 THEN wakes[t] + 1 ELSE wakes[t]]

\* Threads of W leave the line, or never enter it, and are woken.
Moves(m, W) ==
  /\ W \subseteq Line(m.obj) \cup Caller(m)
  /\ Threads(sync'[m.obj].waits) = (Line(m.obj) \cup Caller(m)) \ W
  /\ OneEach(sync'[m.obj].waits)
  /\ ~sync'[m.obj].made => sync'[m.obj].waits = <<>>
  /\ Woke(W)

\* Who is woken, and what becomes of the node's value.
Outcome(m, W) ==
  LET n == SyncNode(m.obj)
      k == sync'[m.obj]
  IN
  /\ k.made => k.data = n.data
  /\ m.op = "Enter" =>
       \/ W = {} /\ k.val = n.val + 1 /\ Len(k.waits) = Len(n.waits) + 1
       \/ W = Line(m.obj) \cup {m.thread} /\ n.val + 1 >= n.data /\ k.val = 0 /\ k.waits = <<>>
  /\ m.op = "Acquire" => k.made /\
       \/ W = {m.thread} /\ n.val >= 1 /\ k.val = n.val - 1 /\ Len(k.waits) = Len(n.waits)
       \/ W = {} /\ k.val = n.val - 1 /\ Len(k.waits) = Len(n.waits) + 1
  /\ m.op = "Release" =>
       \/ W = {} /\ sync' = sync
       \/ k.made /\ W = {} /\ k.val = n.val + 1 /\ Len(k.waits) = Len(n.waits)
       \/ k.made /\ (\E u \in Line(m.obj) : W = {u}) /\ k.val = n.val + 1 /\ Len(k.waits) = Len(n.waits) - 1
  /\ m.op = "Wait" => k.made /\
       \/ W = {m.thread} /\ n.val # 0 /\ k.val = (IF n.data # 0 THEN 0 ELSE n.val)
       \/ W = {} /\ k.val = n.val
  /\ m.op = "Set" => k.made /\
       \/ n.data # 0 /\ (\E u \in Line(m.obj) : W = {u}) /\ k.val = 0
       \/ n.data # 0 /\ W = {} /\ k.val = 1
       \/ n.data = 0 /\ W = Line(m.obj) /\ k.val = 1
  /\ m.op = "Reset" => k.made /\ W = {} /\ k.val = 0

\* RcWakeRemoteThread for a list without repetitions, none of whose threads
\* has exited.
LEMMA WakeEffect ==
  ASSUME TypeOK, NEW ts \in Seq(Thread), OneEach(ts),
         \A t \in Threads(ts) : pc[t] # "dead", Wake(ts)
  PROVE  Woke(Threads(ts))
<1> DEFINE W == Threads(ts)
<1>1. ready' = [t \in Thread |-> IF t \in W /\ NodeOf[t] = 0 THEN TRUE ELSE ready[t]]
  BY DEF Wake
<1>2. \A t \in Thread : (IF NodeOf[t] = 0 THEN wakes[t] ELSE wakes[t] + Times(ts, t))
                        = (IF t \in W /\ NodeOf[t] # 0 THEN wakes[t] + 1 ELSE wakes[t])
  <2> TAKE t \in Thread
  <2>1. Times(ts, t) = IF t \in W THEN 1 ELSE 0
    BY TimesOnce
  <2> QED BY <2>1 DEF TypeOK
<1>3. wakes' = [t \in Thread |-> IF t \in W /\ NodeOf[t] # 0 THEN wakes[t] + 1 ELSE wakes[t]]
  BY <1>2 DEF Wake
<1> QED BY <1>1, <1>3 DEF Woke

\* Nobody is woken.
LEMMA WakeNoneEffect ==
  ASSUME TypeOK, UNCHANGED <<ready, wakes>>
  PROVE  Woke({})
  BY DEF Woke, TypeOK

\* The node a handler starts from has the line of the object.
LEMMA NodeLine ==
  ASSUME TypeOK, Lines, NEW o \in Object
  PROVE  /\ SyncNode(o).waits = sync[o].waits
         /\ SyncNode(o) \in SyncNodes
         /\ SyncNode(o).made
         /\ SyncNode(o).waits \in Seq(Thread)
         /\ OneEach(SyncNode(o).waits)
         /\ Threads(SyncNode(o).waits) = Line(o)
<1>1. SyncNode(o) \in SyncNodes /\ OneEach(sync[o].waits)
  BY SyncNodeType DEF Lines
<1>2. SyncNode(o).waits = sync[o].waits /\ SyncNode(o).made
  BY DEF Lines, SyncNode, FreshNode
<1> QED BY <1>1, <1>2 DEF Line, SyncNodes

\* Every handler, in a state where the caller is not in the line yet.
LEMMA HandleEffect ==
  ASSUME TypeOK, Lines, NEW m \in Requests, Handle(m),
         Asks(m) => m.thread \notin Line(m.obj) /\ pc[m.thread] # "dead"
  PROVE  \E W \in SUBSET Thread : Moves(m, W) /\ Outcome(m, W)
<1> DEFINE o == m.obj
           t == m.thread
           n == SyncNode(o)
<1>0. /\ t \in Thread /\ o \in Object
      /\ m.op \in {"Enter", "Acquire", "Release", "Wait", "Set", "Reset"}
      /\ m.op = "Enter" => o \in Barrier
      /\ m.op \in {"Acquire", "Release"} => o \in Semaphore
      /\ m.op \in {"Wait", "Set", "Reset"} => o \in Event
  BY RequestFields
<1>1. /\ n.waits = sync[o].waits /\ n \in SyncNodes /\ n.made /\ n.waits \in Seq(Thread)
      /\ OneEach(n.waits) /\ Threads(n.waits) = Line(o)
  BY <1>0, NodeLine
<1>2. Line(o) \subseteq Thread /\ \A u \in Line(o) : pc[u] # "dead"
  BY <1>0, <1>1 DEF Lines, Threads
<1>3. /\ m.op \in {"Enter", "Acquire", "Wait"} => Caller(m) = {t} /\ Asks(m)
      /\ m.op \in {"Release", "Set", "Reset"} => Caller(m) = {}
  BY <1>0 DEF Caller, Asks, BlockingCall
<1>4. \A v : sync' = [sync EXCEPT ![o] = v] => sync'[o] = v
  BY <1>0 DEF TypeOK
<1>f. /\ n.val \in Int /\ n.data \in Int
      /\ \A v, w : /\ [n EXCEPT !.val = v].val = v /\ [n EXCEPT !.val = v].waits = n.waits
                   /\ [n EXCEPT !.val = v].made /\ [n EXCEPT !.val = v].data = n.data
                   /\ [n EXCEPT !.waits = w].waits = w /\ [n EXCEPT !.waits = w].val = n.val
                   /\ [n EXCEPT !.waits = w].made /\ [n EXCEPT !.waits = w].data = n.data
                   /\ [n EXCEPT !.val = v, !.waits = w].val = v
                   /\ [n EXCEPT !.val = v, !.waits = w].waits = w
                   /\ [n EXCEPT !.val = v, !.waits = w].made
                   /\ [n EXCEPT !.val = v, !.waits = w].data = n.data
  BY <1>1 DEF SyncNodes
<1>a. Asks(m) =>
      /\ OneEach(Append(n.waits, t))
      /\ Threads(Append(n.waits, t)) = Line(o) \cup {t}
      /\ Len(Append(n.waits, t)) = Len(n.waits) + 1
  BY <1>0, <1>1, ListAppend
<1>s. /\ OneEach(<<t>>) /\ Threads(<<t>>) = {t} /\ <<t>> \in Seq(Thread)
      /\ OneEach(<<>>) /\ Threads(<<>>) = {}
  BY <1>0, ListSmall
<1>b. Asks(m) =>
      /\ OneEach(Released(n, t)) /\ Released(n, t) \in Seq(Thread)
      /\ Threads(Released(n, t)) = Line(o) \cup {t}
  BY <1>0, <1>1, ListFront DEF Released
<1>h. n.waits # <<>> =>
        /\ OneEach(Tail(n.waits))
        /\ Head(n.waits) \in Line(o)
        /\ Threads(Tail(n.waits)) = Line(o) \ {Head(n.waits)}
        /\ Len(Tail(n.waits)) = Len(n.waits) - 1
        /\ OneEach(<<Head(n.waits)>>) /\ Threads(<<Head(n.waits)>>) = {Head(n.waits)}
        /\ <<Head(n.waits)>> \in Seq(Thread)
  BY <1>1, <1>2, ListTail, ListSmall
<1>w. \A ts \in Seq(Thread) :
        OneEach(ts) /\ (\A u \in Threads(ts) : pc[u] # "dead") /\ Wake(ts) => Woke(Threads(ts))
  BY WakeEffect
<1>n. WakeNone \/ UNCHANGED <<ready, wakes>> => Woke({})
  BY WakeNoneEffect DEF WakeNone
<1> HIDE DEF n
<1>5. CASE m.op = "Enter"
  <2>0. BarrierMsg(o, t) /\ Caller(m) = {t} /\ Asks(m)
    BY <1>3, <1>5 DEF Handle
  <2>1. CASE LastArrival(n)
    <3>1. sync'[o] = Reopen(n) /\ Wake(Released(n, t))
      BY <1>4, <2>0, <2>1 DEF BarrierMsg, n
    <3>w. Woke(Line(o) \cup {t})
      BY <1>b, <1>w, <1>2, <2>0, <3>1
    <3>2. Moves(m, Line(o) \cup {t})
      BY <1>f, <1>s, <2>0, <3>1, <3>w DEF Moves, Reopen
    <3>3. Outcome(m, Line(o) \cup {t})
      BY <1>5, <1>f, <2>1, <3>1 DEF Outcome, Reopen, LastArrival, n
    <3> QED BY <1>0, <1>2, <3>2, <3>3
  <2>2. CASE ~LastArrival(n)
    <3>1. sync'[o] = [n EXCEPT !.val = n.val + 1, !.waits = Append(n.waits, t)] /\ WakeNone
      BY <1>4, <2>0, <2>2 DEF BarrierMsg, n
    <3>2. Moves(m, {})
      BY <1>a, <1>f, <1>n, <2>0, <3>1 DEF Moves
    <3>3. Outcome(m, {})
      BY <1>5, <1>a, <1>f, <2>0, <3>1 DEF Outcome, n
    <3> QED BY <3>2, <3>3
  <2> QED BY <2>1, <2>2
<1>6. CASE m.op = "Acquire"
  <2>0. SemaphoreMsg(o, t) /\ Caller(m) = {t} /\ Asks(m)
    BY <1>3, <1>6 DEF Handle
  <2>1. CASE HasUnit(n)
    <3>1. sync'[o] = [n EXCEPT !.val = n.val - 1] /\ Wake(<<t>>)
      BY <1>4, <2>0, <2>1 DEF SemaphoreMsg, n
    <3>w. Woke({t})
      BY <1>s, <1>w, <2>0, <3>1
    <3>2. Moves(m, {t})
      BY <1>1, <1>f, <2>0, <3>1, <3>w DEF Moves
    <3>3. Outcome(m, {t})
      BY <1>6, <1>f, <2>1, <3>1 DEF Outcome, HasUnit, n
    <3> QED BY <1>0, <3>2, <3>3
  <2>2. CASE ~HasUnit(n)
    <3>1. sync'[o] = [n EXCEPT !.val = n.val - 1, !.waits = Append(n.waits, t)] /\ WakeNone
      BY <1>4, <2>0, <2>2 DEF SemaphoreMsg, n
    <3>2. Moves(m, {})
      BY <1>a, <1>f, <1>n, <2>0, <3>1 DEF Moves
    <3>3. Outcome(m, {})
      BY <1>6, <1>a, <1>f, <2>0, <3>1 DEF Outcome, n
    <3> QED BY <3>2, <3>3
  <2> QED BY <2>1, <2>2
<1>7. CASE m.op = "Release"
  <2>0. SemaphoreLeaveMsg(o) /\ Caller(m) = {}
    BY <1>3, <1>7 DEF Handle
  <2>1. CASE ~sync[o].made
    <3>1. sync' = sync /\ UNCHANGED <<ready, wakes>>
      BY <2>0, <2>1 DEF SemaphoreLeaveMsg
    <3>2. Moves(m, {})
      BY <1>0, <1>n, <2>0, <3>1 DEF Moves, Lines, Line
    <3>3. Outcome(m, {})
      BY <1>7, <2>1, <3>1 DEF Outcome
    <3> QED BY <3>2, <3>3
  <2>2. CASE sync[o].made /\ PassesOn(sync[o])
    <3>0. sync[o] = n /\ n.waits # <<>>
      BY <2>2 DEF SyncNode, PassesOn, n
    <3>1. /\ sync'[o] = [n EXCEPT !.val = n.val + 1, !.waits = Tail(n.waits)]
          /\ Wake(<<Head(n.waits)>>)
      BY <1>4, <2>0, <2>2, <3>0 DEF SemaphoreLeaveMsg
    <3>w. Woke({Head(n.waits)})
      BY <1>2, <1>h, <1>w, <3>0, <3>1
    <3>2. Moves(m, {Head(n.waits)})
      BY <1>h, <1>f, <2>0, <3>0, <3>1, <3>w DEF Moves
    <3>3. Outcome(m, {Head(n.waits)})
      BY <1>7, <1>f, <1>h, <3>0, <3>1 DEF Outcome, n
    <3> QED BY <1>2, <1>h, <3>0, <3>2, <3>3
  <2>3. CASE sync[o].made /\ ~PassesOn(sync[o])
    <3>0. sync[o] = n
      BY <2>3 DEF SyncNode, n
    <3>1. sync'[o] = [n EXCEPT !.val = n.val + 1] /\ WakeNone
      BY <1>4, <2>0, <2>3, <3>0 DEF SemaphoreLeaveMsg
    <3>2. Moves(m, {})
      BY <1>1, <1>n, <1>f, <2>0, <3>1 DEF Moves
    <3>3. Outcome(m, {})
      BY <1>7, <1>f, <3>1 DEF Outcome, n
    <3> QED BY <3>2, <3>3
  <2> QED BY <2>1, <2>2, <2>3
<1>8. CASE m.op = "Wait"
  <2>0. EventWaitMsg(o, t) /\ Caller(m) = {t} /\ Asks(m)
    BY <1>3, <1>8 DEF Handle
  <2>1. CASE n.val # 0
    <3>1. sync'[o] = [n EXCEPT !.val = IF n.data # 0 THEN 0 ELSE n.val] /\ Wake(<<t>>)
      BY <1>4, <2>0, <2>1 DEF EventWaitMsg, Consumed, n
    <3>w. Woke({t})
      BY <1>s, <1>w, <2>0, <3>1
    <3>2. Moves(m, {t})
      BY <1>1, <1>f, <2>0, <3>1, <3>w DEF Moves
    <3>3. Outcome(m, {t})
      BY <1>8, <1>f, <2>1, <3>1 DEF Outcome, n
    <3> QED BY <1>0, <3>2, <3>3
  <2>2. CASE n.val = 0
    <3>1. sync'[o] = [n EXCEPT !.waits = Append(n.waits, t)] /\ WakeNone
      BY <1>4, <2>0, <2>2 DEF EventWaitMsg, n
    <3>2. Moves(m, {})
      BY <1>a, <1>f, <1>n, <2>0, <3>1 DEF Moves
    <3>3. Outcome(m, {})
      BY <1>8, <1>f, <3>1 DEF Outcome, n
    <3> QED BY <3>2, <3>3
  <2> QED BY <2>1, <2>2
<1>9. CASE m.op = "Set"
  <2>0. SetEventMsg(o) /\ Caller(m) = {}
    BY <1>3, <1>9 DEF Handle
  <2>1. CASE WakesOne(n) /\ n.waits # <<>>
    <3>1. /\ sync'[o] = [n EXCEPT !.val = 0, !.waits = Tail(n.waits)]
          /\ Wake(<<Head(n.waits)>>)
      BY <1>4, <2>0, <2>1 DEF SetEventMsg, HandedOn, n
    <3>w. Woke({Head(n.waits)})
      BY <1>2, <1>h, <1>w, <2>1, <3>1
    <3>2. Moves(m, {Head(n.waits)})
      BY <1>h, <1>f, <2>0, <2>1, <3>1, <3>w DEF Moves
    <3>3. Outcome(m, {Head(n.waits)})
      BY <1>9, <1>f, <1>h, <2>1, <3>1 DEF Outcome, WakesOne, n
    <3> QED BY <1>2, <1>h, <2>1, <3>2, <3>3
  <2>2. CASE WakesOne(n) /\ n.waits = <<>>
    <3>1. sync'[o] = [n EXCEPT !.val = 1] /\ WakeNone
      BY <1>4, <2>0, <2>2 DEF SetEventMsg, n
    <3>2. Moves(m, {})
      BY <1>1, <1>n, <1>f, <2>0, <3>1 DEF Moves
    <3>3. Outcome(m, {})
      BY <1>9, <1>f, <2>2, <3>1 DEF Outcome, WakesOne, n
    <3> QED BY <3>2, <3>3
  <2>3. CASE ~WakesOne(n)
    <3>1. sync'[o] = [n EXCEPT !.val = 1, !.waits = <<>>] /\ Wake(n.waits)
      BY <1>4, <2>0, <2>3 DEF SetEventMsg, Drained, n
    <3>w. Woke(Line(o))
      BY <1>1, <1>2, <1>w, <3>1
    <3>2. Moves(m, Line(o))
      BY <1>s, <1>f, <2>0, <3>1, <3>w DEF Moves
    <3>3. Outcome(m, Line(o))
      BY <1>9, <1>f, <2>3, <3>1 DEF Outcome, WakesOne, n
    <3> QED BY <1>2, <3>2, <3>3
  <2> QED BY <2>1, <2>2, <2>3
<1>10. CASE m.op = "Reset"
  <2>0. ResetEventMsg(o) /\ Caller(m) = {}
    BY <1>3, <1>10 DEF Handle
  <2>1. sync'[o] = [n EXCEPT !.val = 0] /\ WakeNone
    BY <1>4, <2>0 DEF ResetEventMsg, n
  <2>2. Moves(m, {})
    BY <1>1, <1>n, <1>f, <2>0, <2>1 DEF Moves
  <2>3. Outcome(m, {})
    BY <1>10, <1>f, <2>1 DEF Outcome, n
  <2> QED BY <2>2, <2>3
<1> QED BY <1>0, <1>5, <1>6, <1>7, <1>8, <1>9, <1>10

(***************************************************************************)
(* Placed is an invariant.                                                 *)
(***************************************************************************)

\* The sockets after the request m has been taken from one of them (d is 1
\* there) or was never in one.
TakenFrom(m, d) ==
  \A n \in Slave :
    /\ \A i \in DOMAIN toMaster'[n] :
         i + d[n] \in DOMAIN toMaster[n] /\ toMaster'[n][i] = toMaster[n][i + d[n]]
    /\ \A i \in DOMAIN toMaster[n] :
         \/ i - d[n] \in DOMAIN toMaster'[n] /\ toMaster'[n][i - d[n]] = toMaster[n][i]
         \/ toMaster[n][i] = m

\* The caller of the request that is served: it waits for that call, and
\* nothing else is on its way to it.
CallerReady(m) ==
  Asks(m) =>
    /\ pc'[m.thread] = "wait" /\ call'[m.thread] = <<m.op, m.obj>>
    /\ wakes[m.thread] = 0 /\ ~ready[m.thread]
    /\ \A o \in Object : m.thread \notin Line(o)
    /\ \A n \in Slave : \A i \in DOMAIN toMaster'[n] :
         Asks(toMaster'[n][i]) => toMaster'[n][i].thread # m.thread

\* The step serves the request m and wakes W.
Serves(m, W) ==
  /\ Handle(m)
  /\ Moves(m, W) /\ Outcome(m, W)
  /\ \A p \in Object \ {m.obj} : sync'[p] = sync[p]
  /\ \A u \in Thread \ Caller(m) : pc'[u] = pc[u] /\ call'[u] = call[u]
  /\ CallerReady(m)

\* What Sockets says of one request.
LEMMA OfSocket ==
  ASSUME Sockets, NEW n \in Slave, NEW l \in DOMAIN toMaster[n]
  PROVE  LET k == toMaster[n][l] IN
         /\ NodeOf[k.thread] = n
         /\ Asks(k) =>
              /\ pc[k.thread] = "wait" /\ call[k.thread] = <<k.op, k.obj>>
              /\ wakes[k.thread] = 0 /\ ~ready[k.thread]
              /\ \A p \in Object : k.thread \notin Line(p)
              /\ \A j \in DOMAIN toMaster[n] :
                   Asks(toMaster[n][j]) /\ toMaster[n][j].thread = k.thread => j = l
  BY Zenon DEF Sockets

\* A handler that takes a request leaves every thread in one place.
LEMMA ServePlaced ==
  ASSUME TypeInv, TypeOK', Placed,
         NEW m \in Requests, NEW W \in SUBSET Thread, Serves(m, W),
         NEW d \in [Slave -> {0, 1}], TakenFrom(m, d)
  PROVE  Placed'
<1> DEFINE o == m.obj
           t == m.thread
<1> USE DEF TypeInv
<1>s. /\ Moves(m, W) /\ CallerReady(m)
      /\ \A p \in Object \ {m.obj} : sync'[p] = sync[p]
      /\ \A u \in Thread \ Caller(m) : pc'[u] = pc[u] /\ call'[u] = call[u]
  BY DEF Serves
<1> USE <1>s
<1>0. t \in Thread /\ o \in Object
  BY RequestFields
<1>1. /\ \A u \in Thread : ready'[u] = IF u \in W /\ NodeOf[u] = 0 THEN TRUE ELSE ready[u]
      /\ \A u \in Thread : wakes'[u] = IF u \in W /\ NodeOf[u] # 0 THEN wakes[u] + 1 ELSE wakes[u]
  BY DEF Moves, Woke
<1>2. /\ Line(o)' = (Line(o) \cup Caller(m)) \ W
      /\ \A p \in Object \ {o} : Line(p)' = Line(p)
      /\ \A p \in Object : Line(p) \subseteq Thread
      /\ Caller(m) \subseteq {t}
      /\ W \subseteq Line(o) \cup Caller(m)
  <2>1. Line(o)' = (Line(o) \cup Caller(m)) \ W /\ W \subseteq Line(o) \cup Caller(m)
    BY DEF Moves, Line
  <2>2. \A p \in Object \ {o} : Line(p)' = Line(p)
    BY DEF Line
  <2>3. ASSUME NEW p \in Object PROVE Line(p) \subseteq Thread
    <3>1. sync[p].waits \in Seq(Thread)
      BY DEF TypeOK, SyncNodes
    <3> QED BY <3>1 DEF Line, Threads
  <2>4. Caller(m) \subseteq {t}
    BY DEF Caller
  <2> QED BY <2>1, <2>2, <2>3, <2>4
<1>c. \A u \in Caller(m) : /\ u = t /\ Asks(m)
                           /\ pc'[u] = "wait" /\ call'[u] = <<m.op, o>> /\ call'[u][2] = o
                           /\ wakes[u] = 0 /\ ~ready[u] /\ \A p \in Object : u \notin Line(p)
  BY DEF Caller, CallerReady
<1>l. \A p \in Object : \A u \in Line(p) :
        pc[u] = "wait" /\ call[u][2] = p /\ wakes[u] = 0 /\ ~ready[u] /\ u \notin Caller(m)
  BY <1>c DEF Placed, Lines
<1>x. ASSUME NEW u \in W
      PROVE  /\ u \in Thread /\ pc'[u] = "wait" /\ call'[u][2] = o /\ wakes[u] = 0 /\ ~ready[u]
             /\ \A p \in Object : u \notin Line(p)'
             /\ (wakes'[u] = 1 /\ ~ready'[u]) \/ (wakes'[u] = 0 /\ ready'[u])
  <2>1. u \in Caller(m) \/ u \in Line(o)
    BY <1>2
  <2>2. /\ u \in Thread /\ pc'[u] = "wait" /\ call'[u][2] = o /\ wakes[u] = 0 /\ ~ready[u]
    BY <1>0, <1>2, <1>c, <1>l, <2>1
  <2>3. \A p \in Object : u \notin Line(p)'
    BY <1>0, <1>2, <1>c, <1>l, <2>1
  <2>4. (wakes'[u] = 1 /\ ~ready'[u]) \/ (wakes'[u] = 0 /\ ready'[u])
    <3>1. CASE NodeOf[u] = 0
      BY <1>1, <2>2, <3>1
    <3>2. CASE NodeOf[u] # 0
      <4>1. wakes'[u] = wakes[u] + 1
        BY <1>1, <2>2, <3>2
      <4>2. ~ready'[u]
        BY <1>1, <2>2, <3>2, Zenon
      <4> QED BY <2>2, <4>1, <4>2
    <3> QED BY <3>1, <3>2
  <2> QED BY <2>2, <2>3, <2>4
<1>y. ASSUME NEW u \in Thread, u \notin W
      PROVE  wakes'[u] = wakes[u] /\ (ready'[u] <=> ready[u])
  BY <1>1, <1>y DEF TypeOK
<1>3. Lines'
  <2> SUFFICES ASSUME NEW p \in Object
               PROVE  /\ ~sync'[p].made => sync'[p].waits = <<>>
                      /\ OneEach(sync'[p].waits)
                      /\ \A u \in Line(p)' : /\ pc'[u] = "wait" /\ call'[u][2] = p
                                             /\ wakes'[u] = 0 /\ ~ready'[u]
    BY DEF Lines
  <2>1. CASE p = o
    <3>1. \A u \in Line(o)' : u \notin W /\ (u \in Line(o) \/ u \in Caller(m)) /\ u \in Thread
      BY <1>0, <1>2, <1>c
    <3>2. \A u \in Line(o)' : pc'[u] = "wait" /\ call'[u][2] = o /\ wakes[u] = 0 /\ ~ready[u]
      BY <1>0, <1>c, <1>l, <3>1
    <3> QED BY <1>y, <2>1, <3>1, <3>2 DEF Moves
  <2>2. CASE p # o
    <3>1. sync'[p] = sync[p] /\ Line(p)' = Line(p)
      BY <1>2, <2>2
    <3>2. \A u \in Line(p) : u \notin W /\ u \in Thread
      BY <1>0, <1>2, <1>l, <2>2, <1>c
    <3>3. \A u \in Line(p) : pc'[u] = "wait" /\ call'[u][2] = p /\ wakes[u] = 0 /\ ~ready[u]
      BY <1>l, <3>2
    <3> QED BY <1>y, <3>1, <3>2, <3>3 DEF Placed, Lines
  <2> QED BY <2>1, <2>2
<1>4. Wakings'
  <2> SUFFICES ASSUME NEW u \in Thread
               PROVE  /\ wakes'[u] # 0 => wakes'[u] = 1 /\ pc'[u] = "wait" /\ ~ready'[u]
                      /\ pc'[u] = "send" => ~ready'[u]
    BY DEF Wakings
  <2>1. CASE u \in W
    BY <1>x, <2>1
  <2>2. CASE u \notin W /\ u \in Caller(m)
    BY <1>c, <1>y, <2>2
  <2>3. CASE u \notin W /\ u \notin Caller(m)
    BY <1>y, <2>3 DEF Placed, Wakings
  <2> QED BY <2>1, <2>2, <2>3
<1>5. Sockets'
  <2> SUFFICES ASSUME NEW n \in Slave, NEW i \in DOMAIN toMaster'[n]
               PROVE  LET k == toMaster'[n][i] IN
                      /\ NodeOf[k.thread] = n
                      /\ Asks(k) =>
                           /\ pc'[k.thread] = "wait" /\ call'[k.thread] = <<k.op, k.obj>>
                           /\ wakes'[k.thread] = 0 /\ ~ready'[k.thread]
                           /\ \A p \in Object : k.thread \notin Line(p)'
                           /\ \A j \in DOMAIN toMaster'[n] :
                                Asks(toMaster'[n][j]) /\ toMaster'[n][j].thread = k.thread => j = i
    BY DEF Sockets
  <2> DEFINE k == toMaster'[n][i]
  <2>1. i + d[n] \in DOMAIN toMaster[n] /\ k = toMaster[n][i + d[n]]
    BY DEF TakenFrom
  <2>2. k \in Requests /\ k.thread \in Thread
    <3>1. k \in Requests
      BY DEF TypeOK
    <3> QED BY <3>1, RequestFields
  <2>3. NodeOf[k.thread] = n
    BY <2>1 DEF Placed, Sockets
  <2>4. CASE Asks(k)
    <3>1. /\ pc[k.thread] = "wait" /\ call[k.thread] = <<k.op, k.obj>>
          /\ wakes[k.thread] = 0 /\ ~ready[k.thread]
          /\ \A p \in Object : k.thread \notin Line(p)
          /\ \A j \in DOMAIN toMaster[n] :
               Asks(toMaster[n][j]) /\ toMaster[n][j].thread = k.thread => j = i + d[n]
      <4> DEFINE l == i + d[n]
      <4>1. l \in DOMAIN toMaster[n] /\ k = toMaster[n][l]
        BY <2>1
      <4> HIDE DEF l, k
      <4>2. /\ pc[k.thread] = "wait" /\ call[k.thread] = <<k.op, k.obj>>
            /\ wakes[k.thread] = 0 /\ ~ready[k.thread]
            /\ \A p \in Object : k.thread \notin Line(p)
            /\ \A j \in DOMAIN toMaster[n] :
                 Asks(toMaster[n][j]) /\ toMaster[n][j].thread = k.thread => j = l
        BY <2>4, <4>1, OfSocket DEF Placed
      <4> QED BY <4>2 DEF l
    <3>2. k.thread \notin Caller(m)
      BY <2>4 DEF CallerReady, Caller
    <3>3. k.thread \notin W
      BY <1>0, <1>2, <3>1, <3>2
    <3>4. /\ pc'[k.thread] = "wait" /\ call'[k.thread] = <<k.op, k.obj>>
          /\ wakes'[k.thread] = 0 /\ ~ready'[k.thread]
      BY <1>y, <2>2, <3>1, <3>2, <3>3
    <3>5. \A p \in Object : k.thread \notin Line(p)'
      BY <1>2, <3>1, <3>2
    <3>6. ASSUME NEW j \in DOMAIN toMaster'[n],
                 Asks(toMaster'[n][j]), toMaster'[n][j].thread = k.thread
          PROVE  j = i
      <4>1. j + d[n] \in DOMAIN toMaster[n] /\ toMaster'[n][j] = toMaster[n][j + d[n]]
        BY DEF TakenFrom
      <4>2. j + d[n] = i + d[n]
        BY <3>1, <3>6, <4>1
      <4>3. i \in Int /\ j \in Int /\ d[n] \in Int
        BY DEF TypeOK
      <4> QED BY <4>2, <4>3
    <3> QED BY <2>3, <3>4, <3>5, <3>6
  <2> QED BY <2>3, <2>4
<1>6. NoneLost'
  <2> SUFFICES ASSUME NEW u \in Thread, pc'[u] = "wait"
               PROVE  \/ InFlight(u)' \/ wakes'[u] = 1 \/ ready'[u]
                      \/ \E p \in Object : p = call'[u][2] /\ u \in Line(p)'
    BY DEF NoneLost, Woken, Line
  <2>1. CASE u \in W
    BY <1>x, <2>1
  <2>2. CASE u \notin W /\ u \in Caller(m)
    <3>1. u \in Line(o)' /\ call'[u][2] = o
      BY <1>2, <1>c, <2>2
    <3> QED BY <1>0, <3>1
  <2>3. CASE u \notin W /\ u \notin Caller(m)
    <3>1. pc[u] = "wait" /\ call'[u] = call[u]
      BY <2>3
    <3>2. CASE InFlight(u)
      <4> DEFINE n == NodeOf[u]
      <4>1. PICK i \in DOMAIN toMaster[n] : toMaster[n][i].thread = u /\ Asks(toMaster[n][i])
        BY <3>2 DEF InFlight, Asks
      <4>2. n # 0 /\ n \in Slave
        BY <3>2 DEF InFlight, Slave
      <4>3. toMaster[n][i] # m
        BY <2>3, <4>1 DEF Caller
      <4>4. i - d[n] \in DOMAIN toMaster'[n] /\ toMaster'[n][i - d[n]] = toMaster[n][i]
        BY <4>2, <4>3 DEF TakenFrom
      <4>5. InFlight(u)'
        BY <4>1, <4>2, <4>4 DEF InFlight, Asks
      <4> QED BY <4>5
    <3>3. CASE u \in Line(call[u][2])
      <4>1. CASE call[u][2] = o
        BY <1>0, <1>2, <2>3, <3>1, <3>3, <4>1
      <4>2. CASE call[u][2] # o
        <5>1. call[u][2] \in Object
          BY <3>1 DEF CallKnown, BlockingCall, Object
        <5> QED BY <1>2, <3>1, <3>3, <4>2, <5>1
      <4> QED BY <4>1, <4>2
    <3>4. CASE wakes[u] = 1 \/ ready[u]
      BY <1>y, <2>3, <3>4
    <3> QED BY <3>1, <3>2, <3>3, <3>4 DEF Placed, NoneLost, Woken
  <2> QED BY <2>1, <2>2, <2>3
<1> QED BY <1>3, <1>4, <1>5, <1>6 DEF Placed

\* The requests of posting calls block nobody.
LEMMA AskingCalls ==
  ASSUME NEW t \in Thread
  PROVE  /\ \A c \in BlockingCall : Asks(Request(t, c))
         /\ \A c \in PostingCall : ~Asks(Request(t, c))
         /\ \A c \in Call : <<Request(t, c).op, Request(t, c).obj>> = c
<1>1. \A c \in Call : <<c[1], c[2]>> = c
  BY DEF Call, BlockingCall, PostingCall
<1>2. \A c \in Call : <<Request(t, c).op, Request(t, c).obj>> = c
  BY <1>1 DEF Request
<1>3. \A c \in PostingCall : c \notin BlockingCall
  BY ObjectAssumption DEF PostingCall, BlockingCall
<1> QED BY <1>2, <1>3 DEF Asks, Call

\* A request of a thread of the master is served in the call.
LEMMA DirectServes ==
  ASSUME TypeInv, TypeOK', Placed, NEW t \in Thread, NodeOf[t] = 0,
         NEW c \in Call, Handle(Request(t, c)), UNCHANGED <<toMaster, call>>,
         pc[t] # "dead", \A o \in Object : t \notin Line(o),
         c \in BlockingCall => /\ pc[t] = "send" /\ pc' = [pc EXCEPT ![t] = "wait"]
                              /\ call[t] = c,
         c \in PostingCall => UNCHANGED pc
  PROVE  \E W \in SUBSET Thread : Serves(Request(t, c), W)
<1> DEFINE m == Request(t, c)
<1>1. m \in Requests /\ m.thread = t /\ m.obj = c[2] /\ m.obj \in Object
  BY RequestType
<1>2. PICK W \in SUBSET Thread : Moves(m, W) /\ Outcome(m, W)
  BY <1>1, HandleEffect DEF TypeInv, Placed
<1>3. \A p \in Object \ {m.obj} : sync'[p] = sync[p]
  BY <1>1, HandleOther DEF TypeInv
<1>5. \A n \in Slave : \A i \in DOMAIN toMaster[n] : toMaster[n][i].thread # t
  <2> SUFFICES ASSUME NEW n \in Slave, NEW i \in DOMAIN toMaster[n], toMaster[n][i].thread = t
               PROVE  FALSE
    OBVIOUS
  <2>1. NodeOf[t] = n
    BY OfSocket DEF Placed
  <2> QED BY <2>1 DEF Slave
<1>6. CASE c \in BlockingCall
  <2>1. Asks(m) /\ <<m.op, m.obj>> = c
    BY <1>6, AskingCalls
  <2>2. Caller(m) = {t}
    BY <1>1, <2>1 DEF Caller
  <2>3. \A u \in Thread \ Caller(m) : pc'[u] = pc[u] /\ call'[u] = call[u]
    BY <1>6, <2>2 DEF TypeInv, TypeOK
  <2>4. wakes[t] = 0 /\ ~ready[t]
    BY <1>6 DEF Placed, Wakings
  <2>5. pc'[t] = "wait" /\ call'[t] = <<m.op, m.obj>>
    BY <1>6, <2>1 DEF TypeInv, TypeOK
  <2>6. CallerReady(m)
    BY <1>1, <1>5, <2>4, <2>5 DEF CallerReady
  <2> HIDE DEF m
  <2>7. Handle(m)
    BY DEF m
  <2> QED BY <1>2, <1>3, <2>3, <2>6, <2>7 DEF Serves, m
<1>7. CASE c \in PostingCall
  <2>1. ~Asks(m)
    BY <1>7, AskingCalls
  <2>2. Caller(m) = {} /\ CallerReady(m)
    BY <2>1 DEF Caller, CallerReady
  <2>3. \A u \in Thread \ Caller(m) : pc'[u] = pc[u] /\ call'[u] = call[u]
    BY <1>7
  <2> HIDE DEF m
  <2>4. Handle(m)
    BY DEF m
  <2> QED BY <1>2, <1>3, <2>2, <2>3, <2>4 DEF Serves, m
<1> QED BY <1>6, <1>7 DEF Call

\* Such a step leaves the sockets alone.
LEMMA DirectPlaced ==
  ASSUME TypeInv, TypeOK', Placed, NEW m \in Requests, NEW W \in SUBSET Thread,
         Serves(m, W), UNCHANGED toMaster
  PROVE  Placed'
<1> DEFINE d == [n \in Slave |-> 0]
<1>1. toMaster \in [Slave -> Seq(Requests)] /\ d \in [Slave -> {0, 1}]
  BY DEF TypeInv, TypeOK
<1>2. \A n \in Slave : \A i \in DOMAIN toMaster[n] : i + d[n] = i /\ i - d[n] = i
  BY <1>1
<1>3. toMaster' = toMaster
  OBVIOUS
<1> HIDE DEF d
<1>4. TakenFrom(m, d)
  BY <1>2, <1>3 DEF TakenFrom
<1> QED BY <1>1, <1>4, ServePlaced

\* A request of a thread of a slave goes to the end of the socket.
LEMMA SocketPlaced ==
  ASSUME TypeInv, TypeOK', Placed, NEW t \in Thread, NodeOf[t] # 0, NEW c \in Call,
         toMaster' = [toMaster EXCEPT ![NodeOf[t]] = Append(@, Request(t, c))],
         UNCHANGED <<ready, wakes, sync, call>>,
         c \in BlockingCall => /\ pc[t] = "send" /\ pc' = [pc EXCEPT ![t] = "wait"]
                              /\ call[t] = c,
         c \in PostingCall => UNCHANGED pc
  PROVE  Placed'
<1> DEFINE m == Request(t, c)
           N == NodeOf[t]
<1> USE DEF TypeInv
<1>0. N \in Slave /\ toMaster \in [Slave -> Seq(Requests)]
  BY DEF Slave, TypeOK
<1>1. m \in Requests /\ m.thread = t /\ m.obj = c[2] /\ m.obj \in Object
  BY RequestType
<1>2. /\ \A n \in Slave \ {N} : toMaster'[n] = toMaster[n]
      /\ Len(toMaster[N]) \in Nat
      /\ DOMAIN toMaster[N] = 1 .. Len(toMaster[N])
      /\ DOMAIN toMaster'[N] = 1 .. Len(toMaster[N]) + 1
      /\ \A i \in DOMAIN toMaster[N] : toMaster'[N][i] = toMaster[N][i]
      /\ toMaster'[N][Len(toMaster[N]) + 1] = m
  BY <1>0, <1>1
<1> HIDE DEF m
<1>3. \A p \in Object : Line(p)' = Line(p)
  BY DEF Line
<1>4. \A u \in Thread \ {t} : pc'[u] = pc[u]
  BY DEF TypeOK, Call
<1>5. Asks(m) <=> c \in BlockingCall
  BY AskingCalls DEF m, Call
<1>6. c \in BlockingCall => <<m.op, m.obj>> = c
  BY AskingCalls DEF m, Call
<1>7. \A n \in Slave : \A i \in DOMAIN toMaster'[n] :
        \/ i \in DOMAIN toMaster[n] /\ toMaster'[n][i] = toMaster[n][i]
        \/ n = N /\ i = Len(toMaster[N]) + 1 /\ toMaster'[n][i] = m
  BY <1>0, <1>2
<1>8. Asks(m) =>
        /\ pc[t] = "send" /\ pc'[t] = "wait" /\ call'[t] = <<m.op, m.obj>>
        /\ wakes[t] = 0 /\ ~ready[t] /\ \A p \in Object : t \notin Line(p)
  BY <1>5, <1>6 DEF Placed, Lines, Wakings, TypeOK
<1>9. Asks(m) => \A n \in Slave : \A i \in DOMAIN toMaster[n] :
                   Asks(toMaster[n][i]) => toMaster[n][i].thread # t
  BY <1>8, OfSocket DEF Placed
<1>10. \A u \in Thread : u # t \/ ~Asks(m) => pc'[u] = pc[u]
  BY <1>5 DEF TypeOK, Call
<1>11. Lines'
  <2> SUFFICES ASSUME NEW p \in Object, NEW u \in Line(p)
               PROVE  pc'[u] = "wait" /\ call[u][2] = p /\ wakes[u] = 0 /\ ~ready[u]
    BY <1>3 DEF Placed, Lines
  <2>1. sync[p].waits \in Seq(Thread)
    BY DEF TypeOK, SyncNodes
  <2>2. u \in Thread
    BY <2>1 DEF Line, Threads
  <2>3. pc[u] = "wait" /\ call[u][2] = p /\ wakes[u] = 0 /\ ~ready[u]
    BY DEF Placed, Lines
  <2> QED BY <1>8, <1>10, <2>2, <2>3
<1>12. Wakings'
  BY <1>8, <1>10 DEF Placed, Wakings
<1>13. Sockets'
  <2> SUFFICES ASSUME NEW n \in Slave, NEW i \in DOMAIN toMaster'[n]
               PROVE  LET k == toMaster'[n][i] IN
                      /\ NodeOf[k.thread] = n
                      /\ Asks(k) =>
                           /\ pc'[k.thread] = "wait" /\ call'[k.thread] = <<k.op, k.obj>>
                           /\ wakes'[k.thread] = 0 /\ ~ready'[k.thread]
                           /\ \A p \in Object : k.thread \notin Line(p)'
                           /\ \A j \in DOMAIN toMaster'[n] :
                                Asks(toMaster'[n][j]) /\ toMaster'[n][j].thread = k.thread => j = i
    BY DEF Sockets
  <2>1. CASE i \in DOMAIN toMaster[n] /\ toMaster'[n][i] = toMaster[n][i]
    <3> DEFINE k == toMaster[n][i]
    <3>1. /\ NodeOf[k.thread] = n
          /\ Asks(k) =>
               /\ pc[k.thread] = "wait" /\ call[k.thread] = <<k.op, k.obj>>
               /\ wakes[k.thread] = 0 /\ ~ready[k.thread]
               /\ \A p \in Object : k.thread \notin Line(p)
               /\ \A j \in DOMAIN toMaster[n] :
                    Asks(toMaster[n][j]) /\ toMaster[n][j].thread = k.thread => j = i
      BY <2>1, OfSocket DEF Placed
    <3>2. k.thread \in Thread
      BY <1>0, <2>1, RequestFields
    <3>3. Asks(k) => k.thread # t \/ ~Asks(m)
      BY <1>9, <2>1
    <3> HIDE DEF k
    <3>4. Asks(k) => \A j \in DOMAIN toMaster'[n] :
                       Asks(toMaster'[n][j]) /\ toMaster'[n][j].thread = k.thread => j = i
      BY <1>1, <1>7, <3>1, <3>3
    <3> QED BY <1>3, <1>10, <2>1, <3>1, <3>2, <3>3, <3>4 DEF k
  <2>2. CASE n = N /\ i = Len(toMaster[N]) + 1 /\ toMaster'[n][i] = m
    <3>1. Asks(m) => \A j \in DOMAIN toMaster'[n] :
                       Asks(toMaster'[n][j]) /\ toMaster'[n][j].thread = t => j = i
      BY <1>7, <1>9, <2>2
    <3> QED BY <1>1, <1>3, <1>8, <2>2, <3>1
  <2> QED BY <1>7, <2>1, <2>2
<1>14. NoneLost'
  <2> SUFFICES ASSUME NEW u \in Thread, pc'[u] = "wait"
               PROVE  InFlight(u)' \/ u \in Line(call[u][2]) \/ Woken(u)
    BY DEF NoneLost, Line, Woken
  <2>1. CASE u = t /\ Asks(m)
    <3>1. Len(toMaster[N]) + 1 \in DOMAIN toMaster'[N]
      BY <1>2
    <3>2. InFlight(u)'
      BY <1>1, <1>2, <2>1, <3>1 DEF InFlight, Asks
    <3> QED BY <3>2
  <2>2. CASE u # t \/ ~Asks(m)
    <3>1. pc[u] = "wait"
      BY <1>10, <2>2
    <3>2. CASE InFlight(u)
      <4>1. PICK i \in DOMAIN toMaster[NodeOf[u]] :
                 toMaster[NodeOf[u]][i].thread = u /\ Asks(toMaster[NodeOf[u]][i])
        BY <3>2 DEF InFlight, Asks
      <4>2. NodeOf[u] # 0 /\ NodeOf[u] \in Slave
        BY <3>2 DEF InFlight, Slave
      <4>3. i \in DOMAIN toMaster'[NodeOf[u]] /\ toMaster'[NodeOf[u]][i] = toMaster[NodeOf[u]][i]
        BY <1>2, <4>2
      <4> QED BY <4>1, <4>2, <4>3 DEF InFlight, Asks
    <3> QED BY <3>1, <3>2 DEF Placed, NoneLost
  <2> QED BY <2>1, <2>2
<1> QED BY <1>11, <1>12, <1>13, <1>14 DEF Placed

\* The listener of the master serves the first request of a socket.
LEMMA ListenServes ==
  ASSUME TypeInv, Placed, NEW n \in Slave, MasterListen(n)
  PROVE  \E m \in Requests, W \in SUBSET Thread, d \in [Slave -> {0, 1}] :
           Serves(m, W) /\ TakenFrom(m, d)
<1> USE DEF TypeInv
<1> DEFINE m == Head(toMaster[n])
           d == [k \in Slave |-> IF k = n THEN 1 ELSE 0]
<1>0. /\ toMaster \in [Slave -> Seq(Requests)] /\ toMaster[n] # <<>> /\ Handle(m)
      /\ toMaster' = [toMaster EXCEPT ![n] = Tail(@)] /\ UNCHANGED <<pc, call>>
  BY DEF MasterListen, TypeOK
<1>1. /\ m = toMaster[n][1] /\ 1 \in DOMAIN toMaster[n] /\ m \in Requests
      /\ toMaster'[n] = Tail(toMaster[n])
      /\ \A k \in Slave \ {n} : toMaster'[k] = toMaster[k]
      /\ \A i \in DOMAIN Tail(toMaster[n]) :
           i \in Nat /\ i + 1 \in DOMAIN toMaster[n] /\ i + 1 # 1
           /\ Tail(toMaster[n])[i] = toMaster[n][i + 1]
      /\ \A i \in DOMAIN toMaster[n] :
           i = 1 \/ (i - 1 \in DOMAIN Tail(toMaster[n]) /\ Tail(toMaster[n])[i - 1] = toMaster[n][i])
  BY <1>0
<1>2. d \in [Slave -> {0, 1}] /\ d[n] = 1 /\ \A k \in Slave \ {n} : d[k] = 0
  OBVIOUS
<1>3. \A k \in Slave : \A i \in DOMAIN toMaster[k] : i + 0 = i /\ i - 0 = i
  BY <1>0
<1>4. m.thread \in Thread /\ m.obj \in Object
  BY <1>1, RequestFields
<1> HIDE DEF m, d
<1>5. TakenFrom(m, d)
  <2> SUFFICES ASSUME NEW k \in Slave
               PROVE  /\ \A i \in DOMAIN toMaster'[k] :
                           /\ i + d[k] \in DOMAIN toMaster[k]
                           /\ toMaster'[k][i] = toMaster[k][i + d[k]]
                      /\ \A i \in DOMAIN toMaster[k] :
                           \/ /\ i - d[k] \in DOMAIN toMaster'[k]
                              /\ toMaster'[k][i - d[k]] = toMaster[k][i]
                           \/ toMaster[k][i] = m
    BY DEF TakenFrom
  <2>1. CASE k = n
    BY <1>1, <1>2, <2>1
  <2>2. CASE k # n
    BY <1>1, <1>2, <1>3, <2>2
  <2> QED BY <2>1, <2>2
<1>6. Asks(m) => /\ pc[m.thread] = "wait" /\ call[m.thread] = <<m.op, m.obj>>
                 /\ wakes[m.thread] = 0 /\ ~ready[m.thread]
                 /\ \A o \in Object : m.thread \notin Line(o)
                 /\ \A j \in DOMAIN toMaster[n] :
                      Asks(toMaster[n][j]) /\ toMaster[n][j].thread = m.thread => j = 1
  BY <1>1, OfSocket DEF Placed
<1>7. CallerReady(m)
  <2> SUFFICES ASSUME Asks(m), NEW k \in Slave, NEW i \in DOMAIN toMaster'[k],
                      Asks(toMaster'[k][i]), toMaster'[k][i].thread = m.thread
               PROVE  FALSE
    BY <1>0, <1>6 DEF CallerReady
  <2>1. NodeOf[m.thread] = n
    BY <1>1, OfSocket DEF Placed
  <2>2. CASE k = n
    <3>1. /\ i + 1 \in DOMAIN toMaster[n] /\ i + 1 # 1
          /\ toMaster'[k][i] = toMaster[n][i + 1]
      BY <1>1, <2>2
    <3> QED BY <1>6, <3>1
  <2>3. CASE k # n
    <3>1. i \in DOMAIN toMaster[k] /\ toMaster[k][i].thread = m.thread
      BY <1>1, <2>3
    <3>2. NodeOf[toMaster[k][i].thread] = k
      BY <3>1, OfSocket DEF Placed
    <3> QED BY <2>1, <2>3, <3>1, <3>2
  <2> QED BY <2>2, <2>3
<1>8. \A p \in Object \ {m.obj} : sync'[p] = sync[p]
  BY <1>0, <1>1, HandleOther
<1>9. \A u \in Thread \ Caller(m) : pc'[u] = pc[u] /\ call'[u] = call[u]
  BY <1>0
<1>10. PICK W \in SUBSET Thread : Moves(m, W) /\ Outcome(m, W)
  BY <1>0, <1>1, <1>4, <1>6, HandleEffect DEF Placed
<1> QED BY <1>0, <1>1, <1>2, <1>5, <1>7, <1>8, <1>9, <1>10 DEF Serves

\* The initial state.
LEMMA InitPlaced == Init => Placed
<1> SUFFICES ASSUME Init PROVE Placed
  OBVIOUS
<1>1. \A o \in Object : ~sync[o].made /\ sync[o].waits = <<>> /\ Line(o) = {}
  BY ListSmall DEF Init, Line
<1>2. Lines
  BY <1>1, ListSmall DEF Lines
<1>3. Sockets
  BY DEF Init, Sockets
<1>4. Wakings /\ NoneLost
  BY DEF Init, Wakings, NoneLost
<1> QED BY <1>2, <1>3, <1>4 DEF Placed

\* Steps that send and serve nothing and change at most pc, call and ready of a
\* thread that nothing is on its way to.
LEMMA LocalPlaced ==
  ASSUME TypeInv, TypeOK', Placed, NEW t \in Thread,
         UNCHANGED <<toMaster, wakes, sync>>,
         \A u \in Thread \ {t} : pc'[u] = pc[u] /\ call'[u] = call[u] /\ ready'[u] = ready[u],
         ~InFlight(t), \A o \in Object : t \notin Line(o), wakes[t] = 0,
         pc'[t] # "wait", pc'[t] = "send" => ~ready'[t]
  PROVE  Placed'
<1> USE DEF TypeInv
<1>1. \A p \in Object : Line(p)' = Line(p) /\ Line(p) \subseteq Thread \ {t}
  BY DEF Line, Threads, TypeOK, SyncNodes
<1>2. Lines'
  BY <1>1 DEF Placed, Lines
<1>3. Wakings'
  BY DEF Placed, Wakings
<1>4. Sockets'
  <2> SUFFICES ASSUME NEW n \in Slave, NEW i \in DOMAIN toMaster[n]
               PROVE  LET k == toMaster[n][i] IN
                      /\ NodeOf[k.thread] = n
                      /\ Asks(k) =>
                           /\ pc'[k.thread] = "wait" /\ call'[k.thread] = <<k.op, k.obj>>
                           /\ wakes[k.thread] = 0 /\ ~ready'[k.thread]
                           /\ \A p \in Object : k.thread \notin Line(p)'
                           /\ \A j \in DOMAIN toMaster[n] :
                                Asks(toMaster[n][j]) /\ toMaster[n][j].thread = k.thread => j = i
    BY DEF Sockets
  <2> DEFINE k == toMaster[n][i]
  <2>1. k.thread \in Thread
    BY RequestFields DEF TypeOK
  <2>2. NodeOf[k.thread] = n /\ n # 0
    BY OfSocket DEF Placed, Slave
  <2>3. Asks(k) => k.thread # t
    BY <2>2 DEF InFlight, Asks
  <2>4. Asks(k) =>
          /\ pc[k.thread] = "wait" /\ call[k.thread] = <<k.op, k.obj>>
          /\ wakes[k.thread] = 0 /\ ~ready[k.thread]
          /\ \A p \in Object : k.thread \notin Line(p)
          /\ \A j \in DOMAIN toMaster[n] :
               Asks(toMaster[n][j]) /\ toMaster[n][j].thread = k.thread => j = i
    BY OfSocket DEF Placed
  <2> HIDE DEF k
  <2> QED BY <1>1, <2>1, <2>2, <2>3, <2>4 DEF k
<1>5. NoneLost'
  <2> SUFFICES ASSUME NEW u \in Thread, u # t, pc[u] = "wait"
               PROVE  InFlight(u)' \/ u \in Line(call[u][2]) \/ Woken(u)
    BY DEF NoneLost, Line, Woken
  <2> QED BY DEF InFlight, Placed, NoneLost
<1> QED BY <1>2, <1>3, <1>4, <1>5 DEF Placed

\* Every step without timeouts keeps Placed.
LEMMA NextPlaced ==
  ASSUME ~MayTimeOut, TypeInv, TypeInv', Placed, [Next]_vars
  PROVE  Placed'
<1> USE DEF TypeInv
<1>i. ASSUME NEW t \in Thread, pc[t] # "wait" \/ ready[t]
      PROVE  ~InFlight(t) /\ (\A o \in Object : t \notin Line(o)) /\ wakes[t] = 0
  <2>1. ~InFlight(t)
    <3> SUFFICES ASSUME InFlight(t) PROVE FALSE
      OBVIOUS
    <3>1. PICK i \in DOMAIN toMaster[NodeOf[t]] :
               toMaster[NodeOf[t]][i].thread = t /\ Asks(toMaster[NodeOf[t]][i])
      BY DEF InFlight, Asks
    <3>2. NodeOf[t] \in Slave
      BY DEF InFlight, Slave
    <3> QED BY <1>i, <3>1, <3>2, OfSocket DEF Placed
  <2>2. \A o \in Object : t \notin Line(o)
    BY <1>i DEF Placed, Lines
  <2>3. wakes[t] = 0
    BY <1>i DEF Placed, Wakings
  <2> QED BY <2>1, <2>2, <2>3
<1>1. ASSUME NEW t \in Thread, Begin(t) PROVE Placed'
  <2>1. PICK c : call' = [call EXCEPT ![t] = c]
    BY <1>1 DEF Begin
  <2>2. /\ \A u \in Thread \ {t} : pc'[u] = pc[u] /\ call'[u] = call[u] /\ ready'[u] = ready[u]
        /\ pc[t] = "idle" /\ pc'[t] = "send" /\ ~ready'[t]
        /\ UNCHANGED <<toMaster, wakes, sync>>
    BY <1>1, <2>1 DEF Begin, ResetLocal, mem, TypeOK
  <2> QED BY <1>i, <2>2, LocalPlaced
<1>2. ASSUME NEW t \in Thread, Return(t) PROVE Placed'
  <2>1. /\ \A u \in Thread \ {t} : pc'[u] = pc[u] /\ call'[u] = call[u] /\ ready'[u] = ready[u]
        /\ ready[t] /\ pc'[t] = "idle"
        /\ UNCHANGED <<toMaster, wakes, sync>>
    BY <1>2 DEF Return, mem, TypeOK
  <2> QED BY <1>i, <2>1, LocalPlaced
<1>3. ASSUME NEW t \in Thread, Exit(t) PROVE Placed'
  <2>1. /\ \A u \in Thread \ {t} : pc'[u] = pc[u] /\ call'[u] = call[u] /\ ready'[u] = ready[u]
        /\ pc[t] = "idle" /\ pc'[t] = "dead"
        /\ UNCHANGED <<toMaster, wakes, sync>>
    BY <1>3 DEF Exit, mem, TypeOK
  <2> QED BY <1>i, <2>1, LocalPlaced
<1>4. ASSUME NEW t \in Thread, Send(t) PROVE Placed'
  <2>1. /\ pc[t] = "send" /\ pc' = [pc EXCEPT ![t] = "wait"] /\ UNCHANGED call
        /\ Post(Request(t, call[t])) /\ call[t] \in BlockingCall /\ call[t] \in Call
    BY <1>4 DEF Send, CallKnown, Call
  <2>2. Request(t, call[t]).thread = t /\ call[t] \notin PostingCall
    BY <2>1, RequestType, ObjectAssumption DEF PostingCall, BlockingCall
  <2>3. CASE NodeOf[t] = 0
    <3>1. Handle(Request(t, call[t])) /\ UNCHANGED toMaster
      BY <2>1, <2>2, <2>3 DEF Post
    <3>2. PICK W \in SUBSET Thread : Serves(Request(t, call[t]), W)
      BY <1>i, <2>1, <2>2, <2>3, <3>1, DirectServes
    <3> QED BY <2>1, <3>1, <3>2, DirectPlaced, RequestType
  <2>4. CASE NodeOf[t] # 0
    <3>1. /\ toMaster' = [toMaster EXCEPT ![NodeOf[t]] = Append(@, Request(t, call[t]))]
          /\ UNCHANGED <<ready, wakes, sync>>
      BY <2>1, <2>2, <2>4 DEF Post
    <3> QED BY <2>1, <2>2, <2>4, <3>1, SocketPlaced
  <2> QED BY <2>3, <2>4
<1>5. ASSUME NEW t \in Thread, PostCall(t) PROVE Placed'
  <2>1. PICK c \in PostingCall : Post(Request(t, c))
    BY <1>5 DEF PostCall
  <2>2. /\ pc[t] = "idle" /\ UNCHANGED <<pc, call>> /\ c \in Call /\ c \notin BlockingCall
        /\ Request(t, c).thread = t
    BY <1>5, <2>1, RequestType, ObjectAssumption DEF PostCall, Call, PostingCall, BlockingCall
  <2>3. CASE NodeOf[t] = 0
    <3>1. Handle(Request(t, c)) /\ UNCHANGED toMaster
      BY <2>1, <2>2, <2>3 DEF Post
    <3>2. PICK W \in SUBSET Thread : Serves(Request(t, c), W)
      BY <1>i, <2>2, <2>3, <3>1, DirectServes
    <3> QED BY <2>2, <3>1, <3>2, DirectPlaced, RequestType
  <2>4. CASE NodeOf[t] # 0
    <3>1. /\ toMaster' = [toMaster EXCEPT ![NodeOf[t]] = Append(@, Request(t, c))]
          /\ UNCHANGED <<ready, wakes, sync>>
      BY <2>1, <2>2, <2>4 DEF Post
    <3> QED BY <2>2, <2>4, <3>1, SocketPlaced
  <2> QED BY <2>3, <2>4
<1>6. ASSUME NEW t \in Thread, SlaveWake(t) PROVE Placed'
  <2>1. /\ wakes[t] = 1 /\ pc[t] = "wait" /\ ~ready[t]
        /\ wakes' = [wakes EXCEPT ![t] = @ - 1]
    BY <1>6 DEF SlaveWake, Received, Placed, Wakings, TypeOK
  <2>2. /\ wakes'[t] = 0 /\ ready' = [ready EXCEPT ![t] = TRUE] /\ ready'[t]
        /\ UNCHANGED <<pc, call, toMaster, sync>>
        /\ \A u \in Thread \ {t} : wakes'[u] = wakes[u] /\ ready'[u] = ready[u]
    BY <1>6, <2>1 DEF SlaveWake, TypeOK
  <2>3. \A p \in Object : Line(p)' = Line(p) /\ Line(p) \subseteq Thread \ {t}
    <3>1. \A p \in Object : t \notin Line(p)
      BY <2>1 DEF Placed, Lines
    <3> QED BY <2>2, <3>1 DEF Line, Threads, TypeOK, SyncNodes
  <2>4. Lines'
    BY <2>2, <2>3 DEF Placed, Lines
  <2>5. Wakings'
    BY <2>1, <2>2 DEF Placed, Wakings
  <2>6. Sockets'
    <3> SUFFICES ASSUME NEW n \in Slave, NEW i \in DOMAIN toMaster[n]
                 PROVE  LET k == toMaster[n][i] IN
                        /\ NodeOf[k.thread] = n
                        /\ Asks(k) =>
                             /\ pc[k.thread] = "wait" /\ call[k.thread] = <<k.op, k.obj>>
                             /\ wakes'[k.thread] = 0 /\ ~ready'[k.thread]
                             /\ \A p \in Object : k.thread \notin Line(p)'
                             /\ \A j \in DOMAIN toMaster[n] :
                                  Asks(toMaster[n][j]) /\ toMaster[n][j].thread = k.thread => j = i
      BY <2>2 DEF Sockets
    <3> DEFINE k == toMaster[n][i]
    <3>1. k.thread \in Thread
      BY RequestFields DEF TypeOK
    <3>2. Asks(k) => k.thread # t
      BY <2>1, OfSocket DEF Placed
    <3> QED BY <2>2, <2>3, <3>1, <3>2, OfSocket DEF Placed
  <2>7. NoneLost'
    <3> SUFFICES ASSUME NEW u \in Thread, u # t, pc[u] = "wait"
                 PROVE  InFlight(u)' \/ u \in Line(call[u][2]) \/ Woken(u)
      BY <2>2 DEF NoneLost, Line, Woken
    <3> QED BY <2>2 DEF InFlight, Placed, NoneLost
  <2> QED BY <2>4, <2>5, <2>6, <2>7 DEF Placed
<1>7. ASSUME NEW n \in Slave, MasterListen(n) PROVE Placed'
  BY <1>7, ListenServes, ServePlaced
<1>8. CASE UNCHANGED <<pc, call, ready, toMaster, wakes, sync>>
  <2>1. Lines' /\ Wakings'
    BY <1>8 DEF Placed, Lines, Wakings, Line
  <2>2. Sockets'
    BY <1>8 DEF Placed, Sockets, Line
  <2>3. NoneLost'
    BY <1>8 DEF Placed, NoneLost, Woken, InFlight, Line
  <2> QED BY <2>1, <2>2, <2>3 DEF Placed
<1>9. ASSUME NEW n \in Slave, ListenFails(n) PROVE Placed'
  BY <1>8, <1>9 DEF ListenFails
<1>10. CASE UNCHANGED vars
  BY <1>8, <1>10 DEF vars, mem
<1> QED BY <1>1, <1>2, <1>3, <1>4, <1>5, <1>6, <1>7, <1>9, <1>10 DEF Next, ThreadStep, TimeOut

(***************************************************************************)
(* A blocked thread waits for exactly one thing.                           *)
(***************************************************************************)

\* Placed says where a blocked thread is in the terms of Accounted.
LEMMA PlacedAccounted ==
  ASSUME TypeInv, Placed
  PROVE  Accounted
<1> USE DEF TypeInv
<1> SUFFICES ASSUME NEW t \in Thread
             PROVE  /\ pc[t] # "wait" => ~InFlight(t) /\ ~Queued(t) /\ wakes[t] = 0
                    /\ pc[t] = "wait" =>
                         \/ InFlight(t) /\ ~Queued(t) /\ wakes[t] = 0 /\ ~ready[t]
                         \/ /\ ~InFlight(t) /\ wakes[t] = 0 /\ ~ready[t]
                            /\ Times(sync[call[t][2]].waits, t) = 1
                            /\ \A o \in Object \ {call[t][2]} : t \notin Threads(sync[o].waits)
                         \/ ~InFlight(t) /\ ~Queued(t) /\ wakes[t] = 1 /\ ~ready[t]
                         \/ ~InFlight(t) /\ ~Queued(t) /\ wakes[t] = 0 /\ ready[t]
  BY DEF Accounted
<1> DEFINE o == call[t][2]
<1>1. ASSUME InFlight(t)
      PROVE  pc[t] = "wait" /\ wakes[t] = 0 /\ ~ready[t] /\ \A p \in Object : t \notin Line(p)
  <2>1. PICK i \in DOMAIN toMaster[NodeOf[t]] :
             toMaster[NodeOf[t]][i].thread = t /\ Asks(toMaster[NodeOf[t]][i])
    BY <1>1 DEF InFlight, Asks
  <2>2. NodeOf[t] \in Slave
    BY <1>1 DEF InFlight, Slave
  <2> QED BY <2>1, <2>2, OfSocket DEF Placed
<1>2. ASSUME NEW p \in Object, t \in Line(p)
      PROVE  /\ pc[t] = "wait" /\ o = p /\ wakes[t] = 0 /\ ~ready[t]
             /\ Times(sync[p].waits, t) = 1
  <2>1. pc[t] = "wait" /\ o = p /\ wakes[t] = 0 /\ ~ready[t] /\ OneEach(sync[p].waits)
    BY <1>2 DEF Placed, Lines
  <2>2. sync[p].waits \in Seq(Thread)
    BY DEF TypeOK, SyncNodes
  <2>3. Times(sync[p].waits, t) = 1
    BY <1>2, <2>1, <2>2, TimesOnce DEF Line
  <2> QED BY <2>1, <2>3
<1>3. Queued(t) <=> \E p \in Object : t \in Line(p)
  BY DEF Queued, Line
<1>4. wakes[t] # 0 => wakes[t] = 1 /\ pc[t] = "wait" /\ ~ready[t]
  BY DEF Placed, Wakings
<1>5. pc[t] = "wait" => InFlight(t) \/ t \in Line(o) \/ wakes[t] = 1 \/ ready[t]
  BY DEF Placed, NoneLost, Woken
<1>6. pc[t] = "wait" => o \in Object
  BY DEF CallKnown, BlockingCall, Object
<1>7. CASE pc[t] # "wait"
  BY <1>1, <1>2, <1>3, <1>4, <1>7
<1>8. CASE pc[t] = "wait" /\ InFlight(t)
  BY <1>1, <1>3, <1>8
<1>9. CASE pc[t] = "wait" /\ ~InFlight(t) /\ t \in Line(o)
  <2>1. Times(sync[o].waits, t) = 1 /\ wakes[t] = 0 /\ ~ready[t]
    BY <1>2, <1>6, <1>9
  <2>2. \A p \in Object \ {o} : t \notin Threads(sync[p].waits)
    BY <1>2 DEF Line
  <2> QED BY <1>9, <2>1, <2>2
<1>10. CASE pc[t] = "wait" /\ ~InFlight(t) /\ t \notin Line(o)
  <2>1. ~Queued(t)
    BY <1>2, <1>3, <1>10
  <2> QED BY <1>4, <1>5, <1>10, <2>1
<1> QED BY <1>7, <1>8, <1>9, <1>10

\* Without timeouts a blocked thread is in a socket, in one wait list, about
\* to be woken or woken, never two of them and never none: no handler of the
\* SyncManager loses a thread or wakes it twice, whatever the threads, the
\* sockets and the objects, and although processes may die.
THEOREM AccountedHolds ==
  ASSUME ~MayTimeOut
  PROVE  Spec => []Accounted
<1>1. Init => TypeInv /\ Placed
  BY InitType, InitPlaced
<1>2. (TypeInv /\ Placed) /\ [Next]_vars => (TypeInv /\ Placed)'
  BY NextType, NextPlaced
<1>3. TypeInv /\ Placed => Accounted
  BY PlacedAccounted
<1> QED BY <1>1, <1>2, <1>3, PTL DEF Spec

(***************************************************************************)
(* What a call has been granted.                                           *)
(***************************************************************************)

\* The thread is in a call on o that has been let through.
Granted(o) == {t \in Thread : pc[t] = "wait" /\ call[t][2] = o /\ Woken(t)}

\* The calls of a thread are those of its program, and it has begun one more
\* than it has ended exactly on the object it is blocked at.
Calls ==
  \A t \in Thread :
    /\ pc[t] \in {"send", "wait"} => call[t] \in Uses[t]
    /\ \A o \in Object :
         began[t][o] = ended[t][o] + (IF pc[t] \in {"send", "wait"} /\ call[t][2] = o THEN 1 ELSE 0)

\* A SyncNode keeps the DSM field it was made from.
Fields ==
  \A o \in Object : sync[o].made => sync[o].data = FreshNode(o).data

\* How often t has been let through barrier b.
Passed(t, b) == ended[t][b] + (IF t \in Granted(b) THEN 1 ELSE 0)

\* A barrier lets all its parties through at once, and counts those who wait.
Rounds ==
  \A b \in Barrier :
    /\ sync[b].val = Len(sync[b].waits)
    /\ \A t, u \in Parties(b) : Passed(t, b) = Passed(u, b)

\* A semaphore's units are with callers that returned or may return, or still
\* with the master; a waiter has taken one in advance.
Units ==
  \A s \in Semaphore :
    LET n == SyncNode(s) IN
    /\ n.val + Len(n.waits) >= 0
    /\ taken[s] + Cardinality(Granted(s)) + n.val + Len(n.waits) <= Count[s] + freed[s]

\* The signals of an event.
Signals ==
  \A e \in Event :
    LET n == SyncNode(e) IN
    /\ n.val \in {0, 1}
    /\ AutoReset[e] = 1 => taken[e] + Cardinality(Granted(e)) + n.val <= IsSignal[e] + freed[e]
    /\ AutoReset[e] = 0 /\ (n.val = 1 \/ Granted(e) # {}) => IsSignal[e] = 1 \/ freed[e] > 0

SyncInv == Placed /\ Calls /\ Fields /\ Units /\ Signals

\* A thread that has been let through is a thread.
LEMMA GrantedFinite ==
  ASSUME NEW o
  PROVE  /\ Granted(o) \subseteq Thread
         /\ IsFiniteSet(Granted(o))
         /\ Cardinality(Granted(o)) \in Nat
<1>1. Granted(o) \subseteq Thread
  BY DEF Granted
<1>2. IsFiniteSet(Granted(o))
  BY <1>1, ThreadAssumption, FS_Subset
<1> QED BY <1>1, <1>2, FS_CardinalityType

\* The class of the object of a blocking call decides its operation.
LEMMA CallShape ==
  ASSUME TypeInv, NEW t \in Thread, pc[t] \in {"send", "wait"}
  PROVE  /\ call[t][2] \in Object
         /\ call[t][2] \in Barrier => call[t] = <<"Enter", call[t][2]>>
<1>1. call[t] \in BlockingCall
  BY DEF TypeInv, CallKnown
<1> QED BY <1>1, ObjectAssumption DEF BlockingCall, Object

\* A served request lets exactly W through, on its own object.
LEMMA ServeGranted ==
  ASSUME TypeInv, TypeOK', Placed,
         NEW m \in Requests, NEW W \in SUBSET Thread, Serves(m, W)
  PROVE  /\ W \cap Granted(m.obj) = {}
         /\ Granted(m.obj)' = Granted(m.obj) \cup W
         /\ \A p \in Object \ {m.obj} : Granted(p)' = Granted(p)
         /\ \A u \in W : pc'[u] = "wait" /\ call'[u][2] = m.obj
<1> DEFINE o == m.obj
           t == m.thread
<1>0. t \in Thread /\ o \in Object
  BY RequestFields
<1>1. /\ \A u \in Thread : ready'[u] = IF u \in W /\ NodeOf[u] = 0 THEN TRUE ELSE ready[u]
      /\ \A u \in Thread : wakes'[u] = IF u \in W /\ NodeOf[u] # 0 THEN wakes[u] + 1 ELSE wakes[u]
      /\ W \subseteq Line(o) \cup Caller(m)
  BY DEF Serves, Moves, Woke
<1>2. \A u \in Line(o) : pc[u] = "wait" /\ call[u][2] = o /\ wakes[u] = 0 /\ ~ready[u]
  BY <1>0 DEF Placed, Lines
<1>3. \A u \in Caller(m) :
        /\ pc'[u] = "wait" /\ call'[u][2] = o
        /\ wakes[u] = 0 /\ ~ready[u] /\ u \notin Line(o)
  BY <1>0 DEF Serves, CallerReady, Caller
<1>4. \A u \in Thread \ Caller(m) : pc'[u] = pc[u] /\ call'[u] = call[u]
  BY DEF Serves
<1>5. \A u \in W : /\ pc'[u] = "wait" /\ call'[u][2] = o
                   /\ wakes[u] = 0 /\ ~ready[u]
  BY <1>1, <1>2, <1>3, <1>4
<1>6. ASSUME NEW u \in W PROVE ~Woken(u) /\ Woken(u)'
  <2>1. ~Woken(u)
    BY <1>5 DEF Woken
  <2>a. NodeOf[u] = 0 => ready'[u]
    BY <1>1, Zenon
  <2>b. NodeOf[u] # 0 => wakes'[u] = 1
    BY <1>1, <1>5
  <2>2. wakes'[u] = 1 \/ ready'[u]
    BY <2>a, <2>b
  <2> QED BY <2>1, <2>2 DEF Woken
<1>7. \A u \in Thread \ W : Woken(u)' <=> Woken(u)
  BY <1>1 DEF Woken
<1>8. \A u \in Caller(m) : ~Woken(u)
  BY <1>3 DEF Woken
<1>9. W \cap Granted(o) = {}
  BY <1>6 DEF Granted
<1>10. ASSUME NEW p \in Object, NEW u \in Thread \ W
       PROVE  u \in Granted(p)' <=> u \in Granted(p)
  BY <1>4, <1>7, <1>8 DEF Granted
<1>11. Granted(o)' = Granted(o) \cup W
  <2>1. Granted(o)' \subseteq Thread /\ Granted(o) \subseteq Thread
    BY DEF Granted
  <2>2. \A u \in W : u \in Granted(o)'
    BY <1>5, <1>6 DEF Granted
  <2> QED BY <1>0, <1>10, <2>1, <2>2
<1>12. ASSUME NEW p \in Object \ {o} PROVE Granted(p)' = Granted(p)
  <2>1. Granted(p)' \subseteq Thread /\ Granted(p) \subseteq Thread
    BY DEF Granted
  <2>2. \A u \in W : u \notin Granted(p)' /\ u \notin Granted(p)
    BY <1>5, <1>6, <1>12 DEF Granted
  <2> QED BY <1>10, <2>1, <2>2
<1> QED BY <1>5, <1>9, <1>11, <1>12

\* The node the next request will find: the one the handler left.
LEMMA ServeNode ==
  ASSUME TypeInv, TypeOK', Placed, Placed', Fields,
         NEW m \in Requests, NEW W \in SUBSET Thread, Serves(m, W), NEW o \in Object
  PROVE  /\ o # m.obj => SyncNode(o)' = SyncNode(o)
         /\ o = m.obj => \/ sync'[o].made /\ SyncNode(o)' = sync'[o]
                         \/ ~sync'[o].made /\ m.op = "Release" /\ SyncNode(o)' = SyncNode(o)
                         \/ ~sync'[o].made /\ m.op = "Enter"
         /\ SyncNode(o).data = FreshNode(o).data
         /\ SyncNode(o) \in SyncNodes
         /\ SyncNode(o).waits = sync[o].waits
         /\ SyncNode(o).waits \in Seq(Thread)
<1>1. o # m.obj => sync'[o] = sync[o]
  BY DEF Serves
<1>2. o # m.obj => SyncNode(o)' = SyncNode(o)
  BY <1>1 DEF SyncNode
<1>3. SyncNode(o).data = FreshNode(o).data
  BY DEF SyncNode, Fields
<1>4. ASSUME o = m.obj, ~sync'[o].made
      PROVE  m.op = "Enter" \/ (m.op = "Release" /\ SyncNode(o)' = SyncNode(o))
  <2>1. Outcome(m, W)
    BY DEF Serves
  <2>2. m.op = "Release" => sync' = sync
    BY <1>4, <2>1 DEF Outcome
  <2>3. m.op \notin {"Acquire", "Wait", "Set", "Reset"}
    BY <1>4, <2>1 DEF Outcome
  <2> QED BY <2>2, <2>3, RequestFields DEF SyncNode
<1>5. sync'[o].made => SyncNode(o)' = sync'[o]
  BY DEF SyncNode
<1> QED BY <1>2, <1>3, <1>4, <1>5, NodeLine DEF TypeInv, Placed

\* A SyncNode keeps its field.
LEMMA ServeFields ==
  ASSUME TypeInv, TypeOK', Placed, Placed', Fields,
         NEW m \in Requests, NEW W \in SUBSET Thread, Serves(m, W)
  PROVE  Fields'
<1> SUFFICES ASSUME NEW o \in Object, sync'[o].made
             PROVE  sync'[o].data = FreshNode(o).data
  BY DEF Fields, FreshNode, SignalField
<1>1. CASE o # m.obj
  BY <1>1 DEF Serves, Fields
<1>2. CASE o = m.obj
  <2>1. sync'[o].data = SyncNode(o).data
    BY <1>2 DEF Serves, Outcome
  <2> QED BY <2>1, ServeNode
<1> QED BY <1>1, <1>2

\* Every barrier is entered by as many threads as it counts, or fewer.
Covered == \A b \in Barrier : Cardinality(Parties(b)) <= Count[b]

\* A barrier whose last party arrives lets all its parties through, and no
\* other arrival lets anybody through.
LEMMA ServeRounds ==
  ASSUME Covered, TypeInv, TypeInv', Placed, Placed', Calls', Fields, Rounds,
         NEW m \in Requests, NEW W \in SUBSET Thread, Serves(m, W), UNCHANGED ended
  PROVE  Rounds'
<1> SUFFICES ASSUME NEW b \in Barrier
             PROVE  /\ sync'[b].val = Len(sync'[b].waits)
                    /\ \A t, u \in Parties(b) : Passed(t, b)' = Passed(u, b)'
  BY DEF Rounds, Parties
<1>0. b \in Object
  BY DEF Object
<1>g. /\ W \cap Granted(m.obj) = {}
      /\ Granted(m.obj)' = Granted(m.obj) \cup W
      /\ \A p \in Object \ {m.obj} : Granted(p)' = Granted(p)
      /\ \A u \in W : pc'[u] = "wait" /\ call'[u][2] = m.obj
  BY ServeGranted DEF TypeInv
<1>p. \A t, u \in Parties(b) : Passed(t, b) = Passed(u, b)
  BY DEF Rounds
<1>s. ASSUME Granted(b)' = Granted(b)
      PROVE  \A t, u \in Parties(b) : Passed(t, b)' = Passed(u, b)'
  <2>1. \A t : Passed(t, b)' = Passed(t, b)
    BY <1>s DEF Passed
  <2> QED BY <1>p, <2>1
<1>1. CASE b # m.obj
  <2>1. Granted(b)' = Granted(b)
    BY <1>0, <1>1, <1>g
  <2>2. sync'[b] = sync[b]
    BY <1>0, <1>1 DEF Serves
  <2> QED BY <1>s, <2>1, <2>2 DEF Rounds
<1>2. CASE b = m.obj
  <2> DEFINE n == SyncNode(b)
             k == sync'[b]
  <2>1. n \in SyncNodes /\ n.waits = sync[b].waits /\ n.waits \in Seq(Thread) /\ n.data = Count[b]
    BY <1>0, ServeNode DEF FreshNode, TypeInv
  <2>2. n.val = Len(n.waits)
    BY <2>1 DEF Rounds, SyncNode, FreshNode
  <2>3. m.op = "Enter" /\ m.thread \in Thread
    BY <1>2, RequestFields, ObjectAssumption
  <2>4. \/ W = {} /\ k.val = n.val + 1 /\ Len(k.waits) = Len(n.waits) + 1
        \/ W = Line(b) \cup {m.thread} /\ n.val + 1 >= n.data /\ k.val = 0 /\ k.waits = <<>>
    BY <1>2, <2>3 DEF Serves, Outcome
  <2> HIDE DEF n, k
  <2>5. CASE W = {} /\ k.val = n.val + 1 /\ Len(k.waits) = Len(n.waits) + 1
    <3>1. Granted(b)' = Granted(b)
      BY <1>2, <1>g, <2>5
    <3>2. k.val = Len(k.waits)
      BY <2>2, <2>5
    <3> QED BY <1>s, <3>1, <3>2 DEF k
  <2>6. CASE W = Line(b) \cup {m.thread} /\ n.val + 1 >= n.data /\ k.val = 0 /\ k.waits = <<>>
    <3>1. k.val = Len(k.waits)
      BY <2>6
    <3>2. W \subseteq Parties(b)
      <4> SUFFICES ASSUME NEW u \in W PROVE <<"Enter", b>> \in Uses[u]
        BY DEF Parties
      <4>1. pc'[u] = "wait" /\ call'[u][2] = b /\ call'[u] \in BlockingCall
        BY <1>2, <1>g DEF TypeInv, CallKnown
      <4>2. call'[u] = <<"Enter", b>>
        BY <4>1, ObjectAssumption DEF BlockingCall
      <4> QED BY <4>1, <4>2 DEF Calls
    <3>3. Line(b) = Threads(n.waits) /\ OneEach(n.waits)
      BY <1>0, <2>1 DEF Placed, Lines, Line
    <3>4. IsFiniteSet(Line(b)) /\ Cardinality(Line(b)) = Len(n.waits)
      BY <2>1, <3>3, ListLength
    <3>5. m.thread \notin Line(b)
      <4>1. Asks(m)
        BY <1>2, <2>3 DEF Asks, BlockingCall
      <4> QED BY <1>0, <4>1 DEF Serves, CallerReady
    <3>6. Cardinality(W) = Len(n.waits) + 1
      BY <2>6, <3>4, <3>5, FS_AddElement
    <3>7. IsFiniteSet(Parties(b)) /\ Cardinality(Parties(b)) \in Nat
      BY ThreadAssumption, FS_Subset, FS_CardinalityType DEF Parties
    <3>8. Cardinality(W) <= Cardinality(Parties(b))
      BY <3>2, <3>7, FS_Subset
    <3>9. Cardinality(W) >= Cardinality(Parties(b))
      <4>1. Count[b] \in Nat /\ Len(n.waits) \in Nat /\ Cardinality(Parties(b)) <= Count[b]
        BY <2>1, FieldAssumption DEF Covered
      <4> QED BY <2>1, <2>2, <2>6, <3>6, <3>7, <4>1
    <3>10. W = Parties(b)
      <4>1. Cardinality(W) = Cardinality(Parties(b))
        BY <3>6, <3>7, <3>8, <3>9, <2>1
      <4> QED BY <3>2, <3>7, <4>1, FS_Subset
    <3>11. \A u \in Parties(b) : Passed(u, b) = ended[u][b] + 0 /\ Passed(u, b)' = ended[u][b] + 1
      BY <1>2, <1>g, <3>10 DEF Passed
    <3>12. \A u \in Parties(b) : ended[u][b] \in Nat
      BY <1>0 DEF Parties, TypeInv, TypeOK
    <3> QED BY <1>p, <3>1, <3>11, <3>12 DEF k
  <2> QED BY <2>4, <2>5, <2>6
<1> QED BY <1>1, <1>2

\* How the counters of an object change when a request is served.
LEMMA ServeCounts ==
  ASSUME TypeInv, TypeOK', Placed,
         NEW m \in Requests, NEW W \in SUBSET Thread, Serves(m, W), NEW o \in Object
  PROVE  /\ o # m.obj => freed'[o] = freed[o] /\ Granted(o)' = Granted(o)
         /\ o = m.obj => /\ freed'[o] = freed[o] + (IF m.op \in {"Release", "Set"} THEN 1 ELSE 0)
                         /\ W = {} => Granted(o)' = Granted(o)
                         /\ \A u : W = {u} => /\ Cardinality(Granted(o))' = Cardinality(Granted(o)) + 1
                                              /\ Granted(o)' # {}
<1>1. /\ W \cap Granted(m.obj) = {}
      /\ Granted(m.obj)' = Granted(m.obj) \cup W
      /\ \A p \in Object \ {m.obj} : Granted(p)' = Granted(p)
  BY ServeGranted
<1>2. /\ o # m.obj => freed'[o] = freed[o]
      /\ o = m.obj => freed'[o] = freed[o] + (IF m.op \in {"Release", "Set"} THEN 1 ELSE 0)
  <2>1. freed \in [Object -> Nat]
    BY DEF TypeInv, TypeOK
  <2>2. freed' = IF m.op \in {"Release", "Set"} THEN [freed EXCEPT ![m.obj] = @ + 1] ELSE freed
    BY DEF Serves, Handle
  <2> QED BY <2>1, <2>2
<1>3. ASSUME o = m.obj, NEW u, W = {u}
      PROVE  Cardinality(Granted(o))' = Cardinality(Granted(o)) + 1 /\ Granted(o)' # {}
  <2>1. Granted(o)' = Granted(o) \cup {u} /\ u \notin Granted(o)
    BY <1>1, <1>3
  <2>2. Cardinality(Granted(o) \cup {u}) = Cardinality(Granted(o)) + 1
    BY <2>1, GrantedFinite, FS_AddElement
  <2> QED BY <2>1, <2>2
<1> QED BY <1>1, <1>2, <1>3

\* The units of a semaphore.
LEMMA ServeUnits ==
  ASSUME TypeInv, TypeInv', Placed, Placed', Fields, Units,
         NEW m \in Requests, NEW W \in SUBSET Thread, Serves(m, W), UNCHANGED taken
  PROVE  Units'
<1> SUFFICES ASSUME NEW s \in Semaphore
             PROVE  /\ SyncNode(s)'.val + Len(SyncNode(s)'.waits) >= 0
                    /\ taken[s] + Cardinality(Granted(s))' + SyncNode(s)'.val + Len(SyncNode(s)'.waits)
                         <= Count[s] + freed'[s]
  BY DEF Units
<1> DEFINE n == SyncNode(s)
           k == SyncNode(s)'
           g == Cardinality(Granted(s))
<1>0. s \in Object /\ TypeOK'
  BY DEF Object, TypeInv
<1>1. n.val + Len(n.waits) >= 0 /\ taken[s] + g + n.val + Len(n.waits) <= Count[s] + freed[s]
  BY DEF Units
<1>2. /\ n.val \in Int /\ Len(n.waits) \in Nat /\ taken[s] \in Nat /\ g \in Nat
      /\ Count[s] \in Nat /\ freed[s] \in Nat
  <2>1. n \in SyncNodes /\ n.waits \in Seq(Thread)
    BY <1>0, ServeNode
  <2>2. taken[s] \in Nat /\ freed[s] \in Nat /\ Count[s] \in Nat
    BY <1>0, FieldAssumption DEF TypeInv, TypeOK
  <2>3. g \in Nat
    BY GrantedFinite
  <2> QED BY <2>1, <2>2, <2>3 DEF SyncNodes
<1>3. CASE s # m.obj
  <2>1. k = n /\ freed'[s] = freed[s] /\ Cardinality(Granted(s))' = g
    BY <1>0, <1>3, ServeNode, ServeCounts
  <2> QED BY <1>1, <2>1
<1>4. CASE s = m.obj
  <2>1. m.op \in {"Acquire", "Release"}
    BY <1>4, RequestFields, ObjectAssumption
  <2>2. /\ freed'[s] = freed[s] + (IF m.op = "Release" THEN 1 ELSE 0)
        /\ W = {} => Cardinality(Granted(s))' = g
        /\ \A u : W = {u} => Cardinality(Granted(s))' = g + 1
    BY <1>0, <1>4, <2>1, ServeCounts
  <2>3. \/ sync'[s].made /\ k = sync'[s]
        \/ ~sync'[s].made /\ m.op = "Release" /\ k = n
    BY <1>0, <1>4, <2>1, ServeNode
  <2>4. Outcome(m, W)
    BY DEF Serves
  <2> DEFINE g1 == Cardinality(Granted(s))'
             f1 == freed'[s]
  <2>5. \/ k.val = n.val - 1 /\ Len(k.waits) = Len(n.waits) /\ n.val >= 1 /\ g1 = g + 1 /\ f1 = freed[s]
        \/ k.val = n.val - 1 /\ Len(k.waits) = Len(n.waits) + 1 /\ g1 = g /\ f1 = freed[s]
        \/ k.val = n.val /\ Len(k.waits) = Len(n.waits) /\ g1 = g /\ f1 = freed[s] + 1
        \/ k.val = n.val + 1 /\ Len(k.waits) = Len(n.waits) /\ g1 = g /\ f1 = freed[s] + 1
        \/ k.val = n.val + 1 /\ Len(k.waits) = Len(n.waits) - 1 /\ g1 = g + 1 /\ f1 = freed[s] + 1
    <3>1. CASE m.op = "Acquire"
      <4>1. k = sync'[s] /\ f1 = freed[s]
        BY <1>2, <2>2, <2>3, <3>1
      <4>2. \/ W = {m.thread} /\ n.val >= 1 /\ k.val = n.val - 1 /\ Len(k.waits) = Len(n.waits)
            \/ W = {} /\ k.val = n.val - 1 /\ Len(k.waits) = Len(n.waits) + 1
        BY <1>4, <2>4, <3>1, <4>1 DEF Outcome
      <4> HIDE DEF k, n, g
      <4> QED BY <2>2, <4>1, <4>2
    <3>2. CASE m.op = "Release"
      <4>1. f1 = freed[s] + 1
        BY <2>2, <3>2
      <4>2. \/ W = {} /\ sync' = sync
            \/ k.val = n.val + 1 /\ Len(k.waits) = Len(n.waits) /\ W = {}
            \/ k.val = n.val + 1 /\ Len(k.waits) = Len(n.waits) - 1 /\ \E u : W = {u}
        BY <1>4, <2>3, <2>4, <3>2 DEF Outcome
      <4>3. sync' = sync => k = n
        BY DEF SyncNode
      <4> HIDE DEF k, n, g
      <4> QED BY <2>2, <4>1, <4>2, <4>3
    <3> QED BY <2>1, <3>1, <3>2
  <2> DEFINE kv == k.val
             kl == Len(k.waits)
             nv == n.val
             nl == Len(n.waits)
  <2> HIDE DEF k, n, g, g1, f1, kv, kl, nv, nl
  <2>6. /\ k.val + Len(k.waits) >= 0
        /\ taken[s] + g1 + k.val + Len(k.waits) <= Count[s] + f1
    <3>1. nv \in Int /\ nl \in Nat /\ nv + nl >= 0 /\ taken[s] + g + nv + nl <= Count[s] + freed[s]
      BY <1>1, <1>2 DEF nv, nl
    <3>2. \/ kv = nv - 1 /\ kl = nl /\ nv >= 1 /\ g1 = g + 1 /\ f1 = freed[s]
          \/ kv = nv - 1 /\ kl = nl + 1 /\ g1 = g /\ f1 = freed[s]
          \/ kv = nv /\ kl = nl /\ g1 = g /\ f1 = freed[s] + 1
          \/ kv = nv + 1 /\ kl = nl /\ g1 = g /\ f1 = freed[s] + 1
          \/ kv = nv + 1 /\ kl = nl - 1 /\ g1 = g + 1 /\ f1 = freed[s] + 1
      BY <2>5 DEF kv, kl, nv, nl
    <3>3. kv + kl >= 0 /\ taken[s] + g1 + kv + kl <= Count[s] + f1
      <4>0. /\ taken[s] \in Nat /\ g \in Nat /\ Count[s] \in Nat /\ freed[s] \in Nat
        BY <1>2
      <4>1. CASE kv = nv - 1 /\ kl = nl /\ nv >= 1 /\ g1 = g + 1 /\ f1 = freed[s]
        BY <3>1, <4>0, <4>1
      <4>2. CASE kv = nv - 1 /\ kl = nl + 1 /\ g1 = g /\ f1 = freed[s]
        BY <3>1, <4>0, <4>2
      <4>3. CASE kv = nv /\ kl = nl /\ g1 = g /\ f1 = freed[s] + 1
        BY <3>1, <4>0, <4>3
      <4>4. CASE kv = nv + 1 /\ kl = nl /\ g1 = g /\ f1 = freed[s] + 1
        BY <3>1, <4>0, <4>4
      <4>5. CASE kv = nv + 1 /\ kl = nl - 1 /\ g1 = g + 1 /\ f1 = freed[s] + 1
        BY <3>1, <4>0, <4>5
      <4> QED BY <3>2, <4>1, <4>2, <4>3, <4>4, <4>5
    <3> QED BY <3>3 DEF kv, kl
  <2> QED BY <2>6 DEF k, n, g, g1, f1
<1> QED BY <1>3, <1>4

\* The signals of an event.
LEMMA ServeSignals ==
  ASSUME TypeInv, TypeInv', Placed, Placed', Fields, Signals,
         NEW m \in Requests, NEW W \in SUBSET Thread, Serves(m, W), UNCHANGED taken
  PROVE  Signals'
<1> SUFFICES ASSUME NEW e \in Event
             PROVE  /\ SyncNode(e)'.val \in {0, 1}
                    /\ AutoReset[e] = 1 =>
                         taken[e] + Cardinality(Granted(e))' + SyncNode(e)'.val <= IsSignal[e] + freed'[e]
                    /\ AutoReset[e] = 0 /\ (SyncNode(e)'.val = 1 \/ Granted(e)' # {}) =>
                         IsSignal[e] = 1 \/ freed'[e] > 0
  BY DEF Signals
<1> DEFINE n == SyncNode(e)
           k == SyncNode(e)'
           g == Cardinality(Granted(e))
           g1 == Cardinality(Granted(e))'
<1>0. e \in Object /\ TypeOK'
  BY DEF Object, TypeInv
<1>1. /\ n.val \in {0, 1}
      /\ AutoReset[e] = 1 => taken[e] + g + n.val <= IsSignal[e] + freed[e]
      /\ AutoReset[e] = 0 /\ (n.val = 1 \/ Granted(e) # {}) => IsSignal[e] = 1 \/ freed[e] > 0
  BY DEF Signals
<1>2. /\ taken[e] \in Nat /\ freed[e] \in Nat /\ g \in Nat
      /\ AutoReset[e] \in {0, 1} /\ IsSignal[e] \in {0, 1}
  BY <1>0, GrantedFinite, FieldAssumption DEF TypeInv, TypeOK
<1>3. CASE e # m.obj
  <2>1. k = n /\ freed'[e] = freed[e] /\ Granted(e)' = Granted(e)
    BY <1>0, <1>3, ServeNode, ServeCounts
  <2> QED BY <1>1, <2>1
<1>4. CASE e = m.obj
  <2>1. m.op \in {"Wait", "Set", "Reset"}
    BY <1>4, RequestFields, ObjectAssumption
  <2>2. /\ freed'[e] = freed[e] + (IF m.op = "Set" THEN 1 ELSE 0)
        /\ W = {} => Granted(e)' = Granted(e)
        /\ \A u : W = {u} => g1 = g + 1 /\ Granted(e)' # {}
    BY <1>0, <1>4, <2>1, ServeCounts
  <2>3. k = sync'[e]
    BY <1>0, <1>4, <2>1, ServeNode
  <2>4. Outcome(m, W)
    BY DEF Serves
  <2>5. n.data = AutoReset[e]
    <3>1. n.data = FreshNode(e).data
      BY <1>0, ServeNode
    <3> QED BY <3>1, ObjectAssumption DEF FreshNode
  <2>6. W = {} => g1 = g
    BY <2>2
  <2>7. CASE m.op = "Wait"
    <3>1. \/ W = {m.thread} /\ n.val # 0 /\ k.val = (IF n.data # 0 THEN 0 ELSE n.val)
          \/ W = {} /\ k.val = n.val
      BY <1>4, <2>3, <2>4, <2>7 DEF Outcome
    <3>2. freed'[e] = freed[e]
      BY <1>2, <2>2, <2>7
    <3> HIDE DEF n, k, g, g1
    <3>3. CASE W = {m.thread} /\ n.val # 0 /\ k.val = (IF n.data # 0 THEN 0 ELSE n.val)
      <4>1. n.val = 1 /\ g1 = g + 1
        BY <1>1, <2>2, <3>3
      <4>2. k.val = IF AutoReset[e] = 1 THEN 0 ELSE 1
        BY <1>2, <2>5, <3>3, <4>1
      <4> QED BY <1>1, <1>2, <3>2, <4>1, <4>2 DEF k, g1
    <3>4. CASE W = {} /\ k.val = n.val
      BY <1>1, <2>2, <2>6, <3>2, <3>4 DEF k, g1
    <3> QED BY <3>1, <3>3, <3>4
  <2>8. CASE m.op = "Set"
    <3>1. \/ n.data # 0 /\ (\E u : W = {u}) /\ k.val = 0
          \/ n.data # 0 /\ W = {} /\ k.val = 1
          \/ n.data = 0 /\ k.val = 1
      BY <1>4, <2>3, <2>4, <2>8 DEF Outcome
    <3>2. freed'[e] = freed[e] + 1 /\ freed'[e] > 0
      BY <1>2, <2>2, <2>8
    <3> HIDE DEF n, k, g, g1
    <3>3. CASE n.data # 0 /\ (\E u : W = {u}) /\ k.val = 0
      <4>1. g1 = g + 1 /\ AutoReset[e] = 1
        BY <1>2, <2>2, <2>5, <3>3
      <4> QED BY <1>1, <1>2, <3>2, <3>3, <4>1 DEF k, g1
    <3>4. CASE n.data # 0 /\ W = {} /\ k.val = 1
      <4>1. g1 = g /\ AutoReset[e] = 1
        BY <1>2, <2>5, <2>6, <3>4
      <4> QED BY <1>1, <1>2, <3>2, <3>4, <4>1 DEF k, g1
    <3>5. CASE n.data = 0 /\ k.val = 1
      BY <2>5, <3>2, <3>5 DEF k
    <3> QED BY <3>1, <3>3, <3>4, <3>5
  <2>9. CASE m.op = "Reset"
    <3>1. W = {} /\ k.val = 0
      BY <1>4, <2>3, <2>4, <2>9 DEF Outcome
    <3>2. freed'[e] = freed[e]
      BY <1>2, <2>2, <2>9
    <3> HIDE DEF n, k, g, g1
    <3> QED BY <1>1, <1>2, <2>2, <2>6, <3>1, <3>2 DEF k, g1
  <2> QED BY <2>1, <2>7, <2>8, <2>9
<1> QED BY <1>3, <1>4

(***************************************************************************)
(* The steps.                                                              *)
(***************************************************************************)

\* Nothing of the books changes, nobody is let through and nobody returns.
Quiet ==
  /\ UNCHANGED <<sync, ended, freed, taken>>
  /\ \A o \in Object : Granted(o)' = Granted(o)

\* A step that grants nothing keeps the books.
LEMMA QuietBooks ==
  ASSUME Quiet, Fields, Units, Signals
  PROVE  Fields' /\ Units' /\ Signals' /\ (Rounds => Rounds')
<1>1. \A o \in Object : Granted(o)' = Granted(o) /\ SyncNode(o)' = SyncNode(o)
  BY DEF Quiet, SyncNode
<1>2. UNCHANGED <<sync, ended, freed, taken>>
  BY DEF Quiet
<1>3. Fields'
  BY <1>2 DEF Fields, FreshNode, SignalField
<1>4. Rounds => Rounds'
  <2>1. \A b \in Barrier : \A t : Passed(t, b)' = Passed(t, b)
    BY <1>1, <1>2 DEF Passed, Object
  <2> QED BY <1>2, <2>1 DEF Rounds, Parties
<1>5. Units'
  BY <1>1, <1>2 DEF Units, Object
<1>6. Signals'
  BY <1>1, <1>2 DEF Signals, Object
<1> QED BY <1>3, <1>4, <1>5, <1>6

\* A thread that begins a call has been let through none.
LEMMA BeginQuiet ==
  ASSUME TypeInv, TypeInv', NEW t \in Thread, Begin(t)
  PROVE  Quiet
<1>1. PICK c : call' = [call EXCEPT ![t] = c]
  BY DEF Begin
<1>2. /\ \A u \in Thread \ {t} : /\ pc'[u] = pc[u] /\ call'[u] = call[u]
                                 /\ ready'[u] = ready[u] /\ wakes'[u] = wakes[u]
      /\ pc[t] = "idle" /\ pc'[t] = "send"
      /\ UNCHANGED <<sync, ended, freed, taken>>
  BY <1>1 DEF Begin, ResetLocal, mem, TypeInv, TypeOK
<1>3. ASSUME NEW o \in Object PROVE Granted(o)' = Granted(o)
  BY <1>2 DEF Granted, Woken
<1> QED BY <1>2, <1>3 DEF Quiet

\* Every step serves a request, begins or ends a call, or leaves the books alone.
LEMMA StepKinds ==
  ASSUME ~MayTimeOut, TypeInv, TypeInv', Placed, [Next]_vars
  PROVE  \/ /\ \E m \in Requests, W \in SUBSET Thread : Serves(m, W)
            /\ UNCHANGED <<began, ended, taken>>
         \/ \E t \in Thread : Begin(t) \/ Return(t)
         \/ Quiet /\ UNCHANGED began
<1> USE DEF TypeInv
<1>1. ASSUME UNCHANGED <<pc, call, ready, wakes>> PROVE \A o \in Object : Granted(o)' = Granted(o)
  BY <1>1 DEF Granted, Woken
<1>2. ASSUME NEW t \in Thread, Send(t)
      PROVE  \/ \E m \in Requests, W \in SUBSET Thread : Serves(m, W)
             \/ Quiet
  <2>1. /\ pc[t] = "send" /\ pc' = [pc EXCEPT ![t] = "wait"] /\ UNCHANGED <<call, ended, taken>>
        /\ Post(Request(t, call[t])) /\ call[t] \in BlockingCall /\ call[t] \in Call
    BY <1>2 DEF Send, CallKnown, Call
  <2>2. Request(t, call[t]) \in Requests /\ Request(t, call[t]).thread = t /\ call[t] \notin PostingCall
    BY <2>1, RequestType, ObjectAssumption DEF PostingCall, BlockingCall
  <2>3. CASE NodeOf[t] = 0
    <3>1. Handle(Request(t, call[t])) /\ UNCHANGED toMaster
      BY <2>1, <2>2, <2>3 DEF Post
    <3>2. \A o \in Object : t \notin Line(o)
      BY <2>1 DEF Placed, Lines
    <3>3. \E W \in SUBSET Thread : Serves(Request(t, call[t]), W)
      BY <2>1, <2>2, <2>3, <3>1, <3>2, DirectServes
    <3> QED BY <2>2, <3>3
  <2>4. CASE NodeOf[t] # 0
    <3>1. UNCHANGED <<ready, wakes, sync, freed>>
      BY <2>1, <2>2, <2>4 DEF Post
    <3>2. wakes[t] = 0 /\ ~ready[t]
      BY <2>1 DEF Placed, Wakings
    <3>3. \A u \in Thread \ {t} : pc'[u] = pc[u]
      BY <2>1 DEF TypeOK
    <3>4. ASSUME NEW o \in Object PROVE Granted(o)' = Granted(o)
      BY <2>1, <3>1, <3>2, <3>3 DEF Granted, Woken
    <3> QED BY <2>1, <3>1, <3>4 DEF Quiet
  <2> QED BY <2>3, <2>4
<1>3. ASSUME NEW t \in Thread, PostCall(t)
      PROVE  \/ \E m \in Requests, W \in SUBSET Thread : Serves(m, W)
             \/ Quiet
  <2>1. PICK c \in PostingCall : Post(Request(t, c))
    BY <1>3 DEF PostCall
  <2>2. /\ pc[t] = "idle" /\ UNCHANGED <<pc, call, ended, taken>> /\ c \in Call /\ c \notin BlockingCall
        /\ Request(t, c).thread = t /\ Request(t, c) \in Requests
    BY <1>3, <2>1, RequestType, ObjectAssumption DEF PostCall, Call, PostingCall, BlockingCall
  <2>3. CASE NodeOf[t] = 0
    <3>1. Handle(Request(t, c)) /\ UNCHANGED toMaster
      BY <2>1, <2>2, <2>3 DEF Post
    <3>2. \A o \in Object : t \notin Line(o)
      BY <2>2 DEF Placed, Lines
    <3>3. \E W \in SUBSET Thread : Serves(Request(t, c), W)
      BY <2>2, <2>3, <3>1, <3>2, DirectServes
    <3> QED BY <2>2, <3>3
  <2>4. CASE NodeOf[t] # 0
    <3>1. UNCHANGED <<ready, wakes, sync, freed>>
      BY <2>1, <2>2, <2>4 DEF Post
    <3> QED BY <1>1, <2>2, <3>1 DEF Quiet
  <2> QED BY <2>3, <2>4
<1>4. ASSUME NEW t \in Thread, SlaveWake(t) PROVE Quiet
  <2>1. wakes[t] = 1 /\ pc[t] = "wait" /\ ~ready[t]
    BY <1>4 DEF SlaveWake, Received, Placed, Wakings, TypeOK
  <2>2. ready'[t] /\ \A u \in Thread \ {t} : wakes'[u] = wakes[u] /\ ready'[u] = ready[u]
    BY <1>4, <2>1 DEF SlaveWake, TypeOK
  <2>3. UNCHANGED <<pc, call, sync, ended, freed, taken>>
    BY <1>4 DEF SlaveWake, hist
  <2>4. ASSUME NEW o \in Object PROVE Granted(o)' = Granted(o)
    BY <2>1, <2>2, <2>3 DEF Granted, Woken
  <2> QED BY <2>3, <2>4 DEF Quiet
<1>5. ASSUME NEW t \in Thread, Exit(t) PROVE Quiet
  <2>1. /\ pc[t] = "idle" /\ pc'[t] = "dead" /\ \A u \in Thread \ {t} : pc'[u] = pc[u]
        /\ UNCHANGED <<call, ready, wakes, sync, ended, freed, taken>>
    BY <1>5 DEF Exit, mem, hist, TypeOK
  <2>2. ASSUME NEW o \in Object PROVE Granted(o)' = Granted(o)
    BY <2>1 DEF Granted, Woken
  <2> QED BY <2>1, <2>2 DEF Quiet
<1>6. ASSUME NEW n \in Slave, ListenFails(n) PROVE Quiet
  BY <1>1, <1>6 DEF ListenFails, hist, Quiet
<1>7. CASE UNCHANGED vars
  BY <1>1, <1>7 DEF vars, mem, hist, Quiet
<1>8. ASSUME NEW n \in Slave, MasterListen(n)
      PROVE  \E m \in Requests, W \in SUBSET Thread : Serves(m, W)
  BY <1>8, ListenServes
<1>9. ASSUME NEW t \in Thread, Send(t) \/ PostCall(t) PROVE UNCHANGED <<began, ended, taken>>
  BY <1>9 DEF Send, PostCall
<1>10. ASSUME NEW t \in Thread, SlaveWake(t) \/ Exit(t) PROVE UNCHANGED began
  BY <1>10 DEF SlaveWake, Exit, hist
<1>11. ASSUME NEW n \in Slave, MasterListen(n) PROVE UNCHANGED <<began, ended, taken>>
  BY <1>11 DEF MasterListen
<1>12. ASSUME NEW n \in Slave, ListenFails(n) PROVE UNCHANGED began
  BY <1>12 DEF ListenFails, hist
<1>13. CASE \E t \in Thread : ThreadStep(t) \/ TimeOut(t) \/ SlaveWake(t)
  BY <1>2, <1>3, <1>4, <1>5, <1>9, <1>10, <1>13 DEF ThreadStep, TimeOut
<1>14. CASE \E n \in Slave : MasterListen(n) \/ ListenFails(n)
  BY <1>6, <1>8, <1>11, <1>12, <1>14
<1>15. UNCHANGED vars => UNCHANGED began
  BY DEF vars, hist
<1> QED BY <1>7, <1>13, <1>14, <1>15 DEF Next

\* A call that returns takes the thread out of those let through.
LEMMA ReturnGranted ==
  ASSUME TypeInv, TypeInv', NEW t \in Thread, Return(t)
  PROVE  \E o \in Object :
         /\ o = call[t][2] /\ t \in Granted(o)
         /\ Granted(o)' = Granted(o) \ {t}
         /\ Cardinality(Granted(o))' = Cardinality(Granted(o)) - 1
         /\ \A p \in Object \ {o} : Granted(p)' = Granted(p)
         /\ ended'[t][o] = ended[t][o] + 1 /\ taken'[o] = taken[o] + 1
         /\ \A u \in Thread, p \in Object : u # t \/ p # o => ended'[u][p] = ended[u][p]
         /\ \A p \in Object \ {o} : taken'[p] = taken[p]
<1> USE DEF TypeInv
<1>1. /\ pc[t] = "wait" /\ ready[t] /\ pc'[t] = "idle"
      /\ \A u \in Thread \ {t} : pc'[u] = pc[u]
      /\ UNCHANGED <<call, ready, wakes>>
  BY DEF Return, mem, TypeOK
<1>2. PICK o \in Object : o = call[t][2]
  BY <1>1, CallShape
<1>3. /\ ended' = [ended EXCEPT ![t][o] = @ + 1] /\ taken' = [taken EXCEPT ![o] = @ + 1]
      /\ ended \in [Thread -> [Object -> Nat]] /\ taken \in [Object -> Nat]
  BY <1>2 DEF Return, TypeOK
<1>4. t \in Granted(o)
  BY <1>1, <1>2 DEF Granted, Woken
<1>5. Granted(o)' = Granted(o) \ {t}
  BY <1>1, <1>2 DEF Granted, Woken
<1>6. Cardinality(Granted(o))' = Cardinality(Granted(o)) - 1
  BY <1>4, <1>5, GrantedFinite, FS_RemoveElement
<1>7. ASSUME NEW p \in Object \ {o} PROVE Granted(p)' = Granted(p)
  BY <1>1, <1>2 DEF Granted, Woken
<1>8. /\ ended'[t][o] = ended[t][o] + 1 /\ taken'[o] = taken[o] + 1
      /\ \A u \in Thread, p \in Object : u # t \/ p # o => ended'[u][p] = ended[u][p]
      /\ \A p \in Object \ {o} : taken'[p] = taken[p]
  BY <1>2, <1>3
<1> QED BY <1>2, <1>4, <1>5, <1>6, <1>7, <1>8

\* A call that returns takes what it was granted.
LEMMA ReturnBooks ==
  ASSUME TypeInv, TypeInv', NEW t \in Thread, Return(t), Fields, Units, Signals
  PROVE  Fields' /\ Units' /\ Signals' /\ (Rounds => Rounds')
<1>1. PICK o \in Object :
      /\ t \in Granted(o)
      /\ Granted(o)' = Granted(o) \ {t}
      /\ Cardinality(Granted(o))' = Cardinality(Granted(o)) - 1
      /\ \A p \in Object \ {o} : Granted(p)' = Granted(p)
      /\ ended'[t][o] = ended[t][o] + 1 /\ taken'[o] = taken[o] + 1
      /\ \A u \in Thread, p \in Object : u # t \/ p # o => ended'[u][p] = ended[u][p]
      /\ \A p \in Object \ {o} : taken'[p] = taken[p]
  BY ReturnGranted
<1>2. UNCHANGED <<sync, freed>>
  BY DEF Return, mem
<1>3. \A p \in Object : /\ Cardinality(Granted(p)) \in Nat /\ taken[p] \in Nat
                        /\ taken'[p] + Cardinality(Granted(p))' = taken[p] + Cardinality(Granted(p))
                        /\ SyncNode(p)' = SyncNode(p)
  <2>1. \A p \in Object : Cardinality(Granted(p)) \in Nat /\ taken[p] \in Nat
    BY GrantedFinite DEF TypeInv, TypeOK
  <2>2. \A p \in Object : SyncNode(p)' = SyncNode(p)
    BY <1>2 DEF SyncNode
  <2>3. ASSUME NEW p \in Object
        PROVE  taken'[p] + Cardinality(Granted(p))' = taken[p] + Cardinality(Granted(p))
    <3>1. CASE p = o
      <4>1. taken'[o] = taken[o] + 1 /\ Cardinality(Granted(o))' = Cardinality(Granted(o)) - 1
        BY <1>1
      <4> QED BY <2>1, <3>1, <4>1
    <3>2. CASE p # o
      BY <1>1, <3>2
    <3> QED BY <3>1, <3>2
  <2> QED BY <2>1, <2>2, <2>3
<1>4. Fields'
  BY <1>2 DEF Fields, FreshNode, SignalField
<1>5. Rounds => Rounds'
  <2>1. ASSUME NEW b \in Barrier, NEW u \in Parties(b) PROVE Passed(u, b)' = Passed(u, b)
    <3>0. b \in Object /\ u \in Thread /\ ended[u][b] \in Nat
      BY DEF Object, Parties, TypeInv, TypeOK
    <3>1. CASE u = t /\ b = o
      BY <1>1, <3>0, <3>1 DEF Passed
    <3>2. CASE ~(u = t /\ b = o)
      <4>1. u \in Granted(b)' <=> u \in Granted(b)
        BY <1>1, <3>0, <3>2
      <4>2. ended'[u][b] = ended[u][b]
        BY <1>1, <3>0, <3>2
      <4> QED BY <4>1, <4>2 DEF Passed
    <3> QED BY <3>1, <3>2
  <2> QED BY <1>2, <2>1 DEF Rounds, Parties
<1>6. Units'
  BY <1>2, <1>3 DEF Units, Object
<1>7. Signals'
  <2> SUFFICES ASSUME NEW e \in Event
               PROVE  /\ SyncNode(e)'.val \in {0, 1}
                      /\ AutoReset[e] = 1 =>
                           taken'[e] + Cardinality(Granted(e))' + SyncNode(e)'.val <= IsSignal[e] + freed[e]
                      /\ AutoReset[e] = 0 /\ (SyncNode(e)'.val = 1 \/ Granted(e)' # {}) =>
                           IsSignal[e] = 1 \/ freed[e] > 0
    BY <1>2 DEF Signals
  <2>1. e \in Object
    BY DEF Object
  <2>2. Granted(e)' \subseteq Granted(e)
    BY <1>1, <2>1
  <2> QED BY <1>3, <2>1, <2>2 DEF Signals
<1> QED BY <1>4, <1>5, <1>6, <1>7

\* The calls of the threads: only Begin and Return change what they count.
LEMMA NextCalls ==
  ASSUME ~MayTimeOut, TypeInv, TypeInv', Calls, [Next]_vars
  PROVE  Calls'
<1> USE DEF TypeInv
<1>1. ASSUME UNCHANGED <<call, began, ended>>,
             \A t \in Thread : pc'[t] \in {"send", "wait"} <=> pc[t] \in {"send", "wait"}
      PROVE  Calls'
  BY <1>1 DEF Calls
<1>2. ASSUME NEW t \in Thread, Begin(t) PROVE Calls'
  <2>1. PICK c \in Uses[t] \cap BlockingCall :
             call' = [call EXCEPT ![t] = c] /\ began' = [began EXCEPT ![t][c[2]] = @ + 1]
    BY <1>2 DEF Begin
  <2>2. /\ pc[t] = "idle" /\ pc'[t] = "send" /\ UNCHANGED ended
        /\ \A u \in Thread \ {t} : pc'[u] = pc[u] /\ call'[u] = call[u] /\ began'[u] = began[u]
        /\ call'[t] = c /\ c[2] \in Object
    BY <1>2, <2>1 DEF Begin, TypeOK, BlockingCall, Object
  <2>3. \A o \in Object : began'[t][o] = began[t][o] + (IF c[2] = o THEN 1 ELSE 0)
    <3>1. began \in [Thread -> [Object -> Nat]] /\ began' = [began EXCEPT ![t][c[2]] = @ + 1]
      BY <2>1 DEF TypeOK
    <3>2. \A o \in Object : began[t][o] \in Nat /\ began'[t][o] = IF o = c[2] THEN began[t][o] + 1 ELSE began[t][o]
      BY <2>2, <3>1
    <3> QED BY <3>2
  <2>4. ASSUME NEW o \in Object PROVE began[t][o] = ended[t][o] /\ ended[t][o] \in Nat
    <3>1. ended[t][o] \in Nat
      BY DEF TypeOK
    <3>2. began[t][o] = ended[t][o] + 0
      BY <2>2 DEF Calls
    <3> QED BY <3>1, <3>2
  <2>5. ASSUME NEW u \in Thread
        PROVE  /\ pc'[u] \in {"send", "wait"} => call'[u] \in Uses[u]
               /\ \A o \in Object : began'[u][o] = ended'[u][o]
                    + (IF pc'[u] \in {"send", "wait"} /\ call'[u][2] = o THEN 1 ELSE 0)
    <3>1. CASE u = t
      BY <2>1, <2>2, <2>3, <2>4, <3>1
    <3>2. CASE u # t
      BY <2>2, <3>2 DEF Calls
    <3> QED BY <3>1, <3>2
  <2> QED BY <2>5 DEF Calls
<1>3. ASSUME NEW t \in Thread, Return(t) PROVE Calls'
  <2>1. /\ pc[t] = "wait" /\ pc'[t] = "idle" /\ UNCHANGED <<call, began>>
        /\ \A u \in Thread \ {t} : pc'[u] = pc[u]
    BY <1>3 DEF Return, mem, TypeOK
  <2>2. /\ \A o \in Object : ended'[t][o] = ended[t][o] + (IF call[t][2] = o THEN 1 ELSE 0)
        /\ \A u \in Thread \ {t} : \A o \in Object : ended'[u][o] = ended[u][o]
        /\ \A o \in Object : ended[t][o] \in Nat
    <3>1. PICK q \in Object :
               /\ q = call[t][2] /\ ended'[t][q] = ended[t][q] + 1
               /\ \A u \in Thread, p \in Object : u # t \/ p # q => ended'[u][p] = ended[u][p]
      BY <1>3, ReturnGranted
    <3>2. \A o \in Object : ended[t][o] \in Nat
      BY DEF TypeOK
    <3> QED BY <3>1, <3>2
  <2>3. ASSUME NEW u \in Thread
        PROVE  /\ pc'[u] \in {"send", "wait"} => call[u] \in Uses[u]
               /\ \A o \in Object : began[u][o] = ended'[u][o]
                    + (IF pc'[u] \in {"send", "wait"} /\ call[u][2] = o THEN 1 ELSE 0)
    <3>1. CASE u = t
      <4>1. \A o \in Object : began[t][o] = ended[t][o] + (IF call[t][2] = o THEN 1 ELSE 0)
        BY <2>1 DEF Calls
      <4>2. \A o \in Object : began[t][o] = ended'[t][o] /\ ended'[t][o] + 0 = ended'[t][o]
        BY <2>2, <4>1
      <4> QED BY <2>1, <3>1, <4>2
    <3>2. CASE u # t
      BY <2>1, <2>2, <3>2 DEF Calls
    <3> QED BY <3>1, <3>2
  <2> QED BY <2>1, <2>3 DEF Calls
<1>4. ASSUME NEW t \in Thread, Send(t) \/ PostCall(t) \/ Exit(t) \/ SlaveWake(t) PROVE Calls'
  <2>1. UNCHANGED <<call, began, ended>>
    BY <1>4 DEF Send, PostCall, Exit, SlaveWake, hist
  <2>2. \A u \in Thread : pc'[u] \in {"send", "wait"} <=> pc[u] \in {"send", "wait"}
    BY <1>4 DEF Send, PostCall, Exit, SlaveWake, TypeOK
  <2> QED BY <1>1, <2>1, <2>2
<1>5. ASSUME NEW n \in Slave, MasterListen(n) \/ ListenFails(n) PROVE Calls'
  BY <1>1, <1>5 DEF MasterListen, ListenFails, hist
<1>6. CASE UNCHANGED vars
  BY <1>1, <1>6 DEF vars, hist
<1> QED BY <1>2, <1>3, <1>4, <1>5, <1>6 DEF Next, ThreadStep, TimeOut

(***************************************************************************)
(* SyncInv is an invariant.                                                *)
(***************************************************************************)

\* Initially nothing is granted.
LEMMA InitSync == Init => SyncInv /\ Rounds
<1> SUFFICES ASSUME Init PROVE SyncInv /\ Rounds
  OBVIOUS
<1>1. /\ \A t \in Thread : pc[t] = "idle"
      /\ \A o \in Object : sync[o] = [made |-> FALSE, val |-> 0, data |-> 0, waits |-> <<>>]
      /\ \A o \in Object : freed[o] = 0 /\ taken[o] = 0
      /\ \A t \in Thread, o \in Object : began[t][o] = 0 /\ ended[t][o] = 0
  BY DEF Init, Zero
<1>2. \A o : Granted(o) = {} /\ Cardinality(Granted(o)) = 0
  BY <1>1, FS_EmptySet DEF Granted
<1>3. \A o \in Object : ~sync[o].made /\ sync[o].val = Len(sync[o].waits) /\ SyncNode(o) = FreshNode(o)
  BY <1>1 DEF SyncNode
<1>4. Calls
  BY <1>1 DEF Calls
<1>5. Fields
  BY <1>3 DEF Fields
<1>6. Rounds
  BY <1>1, <1>2, <1>3 DEF Rounds, Passed, Parties, Object
<1>7. Units
  <2> SUFFICES ASSUME NEW s \in Semaphore
               PROVE  /\ SyncNode(s).val + Len(SyncNode(s).waits) >= 0
                      /\ taken[s] + Cardinality(Granted(s)) + SyncNode(s).val + Len(SyncNode(s).waits)
                           <= Count[s] + freed[s]
    BY DEF Units
  <2>1. s \in Object /\ s \notin Barrier
    BY ObjectAssumption DEF Object
  <2>2. SyncNode(s).val = Count[s] /\ SyncNode(s).waits = <<>> /\ Count[s] \in Nat
    BY <1>3, <2>1, FieldAssumption DEF FreshNode
  <2> QED BY <1>1, <1>2, <2>1, <2>2
<1>8. Signals
  <2> SUFFICES ASSUME NEW e \in Event
               PROVE  /\ SyncNode(e).val \in {0, 1}
                      /\ AutoReset[e] = 1 => taken[e] + Cardinality(Granted(e)) + SyncNode(e).val
                                             <= IsSignal[e] + freed[e]
                      /\ AutoReset[e] = 0 /\ (SyncNode(e).val = 1 \/ Granted(e) # {}) =>
                           IsSignal[e] = 1 \/ freed[e] > 0
    BY DEF Signals
  <2>1. e \in Object /\ e \notin Barrier /\ e \notin Semaphore
    BY ObjectAssumption DEF Object
  <2>2. SyncNode(e).val = IsSignal[e] /\ IsSignal[e] \in {0, 1}
    BY <1>3, <2>1, FieldAssumption DEF FreshNode, SignalField
  <2> QED BY <1>1, <1>2, <2>1, <2>2
<1> QED BY <1>4, <1>5, <1>6, <1>7, <1>8, InitPlaced DEF SyncInv

\* The books balance after every step; the rounds of a barrier are kept when
\* no more threads use it than it counts.
LEMMA NextSync ==
  ASSUME ~MayTimeOut, TypeInv, TypeInv', SyncInv, [Next]_vars
  PROVE  SyncInv' /\ (Covered /\ Rounds => Rounds')
<1> USE DEF SyncInv
<1> DEFINE Kept == Fields' /\ Units' /\ Signals' /\ (Covered /\ Rounds => Rounds')
<1>1. Placed' /\ Calls'
  BY NextPlaced, NextCalls
<1>2. ASSUME NEW m \in Requests, NEW W \in SUBSET Thread, Serves(m, W), UNCHANGED <<began, ended, taken>>
      PROVE  Kept
  <2>1. Fields'
    BY <1>1, <1>2, ServeFields DEF TypeInv
  <2>2. Covered /\ Rounds => Rounds'
    BY <1>1, <1>2, ServeRounds
  <2>3. Units'
    BY <1>1, <1>2, ServeUnits
  <2>4. Signals'
    BY <1>1, <1>2, ServeSignals
  <2> QED BY <2>1, <2>2, <2>3, <2>4
<1>3. ASSUME NEW t \in Thread, Begin(t) PROVE Kept
  BY <1>3, BeginQuiet, QuietBooks
<1>4. ASSUME NEW t \in Thread, Return(t) PROVE Kept
  BY <1>4, ReturnBooks
<1>5. ASSUME Quiet PROVE Kept
  BY <1>5, QuietBooks
<1> HIDE DEF Kept
<1>6. Kept
  <2>1. \/ /\ \E m \in Requests, W \in SUBSET Thread : Serves(m, W)
           /\ UNCHANGED <<began, ended, taken>>
        \/ \E t \in Thread : Begin(t) \/ Return(t)
        \/ Quiet
    BY StepKinds
  <2> QED BY <1>2, <1>3, <1>4, <1>5, <2>1
<1> QED BY <1>1, <1>6 DEF Kept

\* What holds of the books in every reachable state.
LEMMA SyncInvariant ==
  ASSUME ~MayTimeOut
  PROVE  Spec => [](TypeInv /\ SyncInv)
<1>1. Init => TypeInv /\ SyncInv
  BY InitType, InitSync
<1>2. (TypeInv /\ SyncInv) /\ [Next]_vars => (TypeInv /\ SyncInv)'
  BY NextType, NextSync
<1> QED BY <1>1, <1>2, PTL DEF Spec

\* A barrier that counts its parties moves them on together.
LEMMA RoundsInvariant ==
  ASSUME ~MayTimeOut, Covered
  PROVE  Spec => []Rounds
<1>1. Init => Rounds
  BY InitSync
<1>2. (TypeInv /\ SyncInv) /\ (TypeInv /\ SyncInv)' /\ Rounds /\ [Next]_vars => Rounds'
  BY NextSync
<1> QED BY <1>1, <1>2, SyncInvariant, PTL DEF Spec

(***************************************************************************)
(* The properties.                                                         *)
(***************************************************************************)

\* Nobody leaves DBarrier::Enter for the k-th time before every party has
\* entered it k times, for any number of threads, nodes and barriers, when a
\* barrier counts at least the threads that use it and no Enter times out.
THEOREM BarrierPaceHolds ==
  ASSUME ~MayTimeOut, Covered
  PROVE  Spec => []BarrierPace
<1>1. (TypeInv /\ SyncInv) /\ Rounds => BarrierPace
  <2> SUFFICES ASSUME TypeInv, SyncInv, Rounds, NEW b \in Barrier, NEW t \in Parties(b), NEW u \in Parties(b)
               PROVE  ended[t][b] <= began[u][b]
    BY DEF BarrierPace
  <2>1. t \in Thread /\ u \in Thread /\ b \in Object
    BY DEF Parties, Object
  <2>2. ended[t][b] \in Nat /\ ended[u][b] \in Nat /\ began[u][b] \in Nat
    BY <2>1 DEF TypeInv, TypeOK
  <2>3. Passed(t, b) = Passed(u, b)
    BY DEF Rounds
  <2>4. began[u][b] = ended[u][b] + (IF pc[u] \in {"send", "wait"} /\ call[u][2] = b THEN 1 ELSE 0)
    BY <2>1 DEF SyncInv, Calls
  <2>5. ended[t][b] <= Passed(t, b)
    BY <2>2 DEF Passed
  <2>6. Passed(u, b) <= began[u][b]
    BY <2>2, <2>4 DEF Passed, Granted
  <2>7. Passed(u, b) \in Nat
    BY <2>2 DEF Passed
  <2> QED BY <2>2, <2>3, <2>5, <2>6, <2>7
<1> QED BY <1>1, SyncInvariant, RoundsInvariant, PTL

\* An auto-reset DEvent lets at most one Wait through for each Set, and one
\* more when it was created signalled, whatever Sets, Waits and Resets cross.
THEOREM AutoResetSafeHolds ==
  ASSUME ~MayTimeOut
  PROVE  Spec => []AutoResetSafe
<1>1. TypeInv /\ SyncInv => AutoResetSafe
  <2> SUFFICES ASSUME TypeInv, SyncInv, NEW e \in Event, AutoReset[e] = 1
               PROVE  taken[e] <= IsSignal[e] + freed[e]
    BY DEF AutoResetSafe
  <2>1. /\ taken[e] \in Nat /\ freed[e] \in Nat /\ IsSignal[e] \in {0, 1}
        /\ Cardinality(Granted(e)) \in Nat
    BY GrantedFinite, FieldAssumption DEF TypeInv, TypeOK, Object
  <2>2. /\ SyncNode(e).val \in {0, 1}
        /\ taken[e] + Cardinality(Granted(e)) + SyncNode(e).val <= IsSignal[e] + freed[e]
    BY DEF SyncInv, Signals
  <2> QED BY <2>1, <2>2
<1> QED BY <1>1, SyncInvariant, PTL

(***************************************************************************)
(* The refinement of SyncSpec.                                             *)
(***************************************************************************)

\* Beginning a call.
LEMMA BeginRefines ==
  ASSUME TypeInv, SyncInv, NEW t \in Thread, Begin(t)
  PROVE  \E o \in Object : S!Begin(t, o)
<1>1. PICK c \in Uses[t] \cap BlockingCall : began' = [began EXCEPT ![t][c[2]] = @ + 1]
  BY DEF Begin
<1>2. PICK o \in Object : o = c[2]
  BY <1>1 DEF BlockingCall, Object
<1>3. pc[t] = "idle" /\ UNCHANGED <<ended, freed, taken>>
  BY DEF Begin
<1>4. began[t][o] = ended[t][o] + 0 /\ ended[t][o] \in Nat
  BY <1>3 DEF SyncInv, Calls, TypeInv, TypeOK
<1>5. began[t][o] = ended[t][o] /\ began' = [began EXCEPT ![t][o] = @ + 1]
  BY <1>1, <1>2, <1>4
<1> QED BY <1>3, <1>5 DEF S!Begin

\* When a call returns, the object was open to it.
LEMMA ReturnOpen ==
  ASSUME TypeInv, SyncInv, Rounds, NEW t \in Thread, NEW o \in Object, t \in Granted(o)
  PROVE  S!Open(t, o)
<1>0. pc[t] = "wait" /\ call[t][2] = o /\ call[t] \in Uses[t]
  BY DEF Granted, SyncInv, Calls
<1>g. Cardinality(Granted(o)) >= 1 /\ Cardinality(Granted(o)) \in Nat
  <2>1. Cardinality(Granted(o)) # 0
    BY GrantedFinite, FS_EmptySet
  <2> QED BY <2>1, GrantedFinite
<1>t. taken[o] \in Nat /\ freed[o] \in Nat
  BY DEF TypeInv, TypeOK
<1>1. CASE o \in Barrier
  <2>1. t \in Parties(o)
    BY <1>0, <1>1, CallShape DEF Parties
  <2>2. ASSUME NEW u \in Parties(o) PROVE ended[t][o] < began[u][o]
    <3>1. u \in Thread /\ ended[t][o] \in Nat /\ ended[u][o] \in Nat /\ began[u][o] \in Nat
      BY DEF Parties, TypeInv, TypeOK
    <3>2. Passed(t, o) = Passed(u, o)
      BY <1>1, <2>1 DEF Rounds
    <3>3. Passed(t, o) = ended[t][o] + 1
      BY DEF Passed
    <3>4. began[u][o] = ended[u][o] + (IF pc[u] \in {"send", "wait"} /\ call[u][2] = o THEN 1 ELSE 0)
      BY <3>1 DEF SyncInv, Calls
    <3>5. Passed(u, o) <= began[u][o]
      BY <3>1, <3>4 DEF Passed, Granted
    <3> QED BY <3>1, <3>2, <3>3, <3>5
  <2> QED BY <1>1, <2>2 DEF S!Open
<1>2. CASE o \in Semaphore
  <2> DEFINE n == SyncNode(o)
             v == n.val + Len(n.waits)
  <2>1. n.val \in Int /\ Len(n.waits) \in Nat
    <3>1. n \in SyncNodes
      BY SyncNodeType DEF TypeInv
    <3> QED BY <3>1 DEF SyncNodes
  <2>2. v >= 0 /\ taken[o] + Cardinality(Granted(o)) + n.val + Len(n.waits) <= Count[o] + freed[o]
    BY <1>2 DEF SyncInv, Units
  <2>3. Count[o] \in Nat
    BY <1>2, FieldAssumption
  <2> HIDE DEF n
  <2>4. taken[o] < Count[o] + freed[o]
    BY <1>g, <1>t, <2>1, <2>2, <2>3
  <2> QED BY <1>2, <2>4 DEF S!Open
<1>3. CASE o \in Event
  <2>1. /\ SyncNode(o).val \in {0, 1}
        /\ AutoReset[o] = 1 => taken[o] + Cardinality(Granted(o)) + SyncNode(o).val <= IsSignal[o] + freed[o]
        /\ AutoReset[o] = 0 => IsSignal[o] = 1 \/ freed[o] > 0
    BY <1>3 DEF SyncInv, Signals
  <2>2. AutoReset[o] \in {0, 1} /\ IsSignal[o] \in {0, 1}
    BY <1>3, FieldAssumption
  <2>3. AutoReset[o] = 1 => taken[o] < IsSignal[o] + freed[o]
    BY <1>g, <1>t, <2>1, <2>2
  <2> QED BY <1>3, <2>1, <2>2, <2>3 DEF S!Open
<1> QED BY <1>1, <1>2, <1>3 DEF Object

\* Returning from a call.
LEMMA ReturnRefines ==
  ASSUME TypeInv, TypeInv', SyncInv, Rounds, NEW t \in Thread, Return(t)
  PROVE  \E o \in Object : S!Return(t, o)
<1>1. PICK o \in Object : o = call[t][2] /\ t \in Granted(o)
  BY ReturnGranted
<1>2. /\ pc[t] = "wait" /\ UNCHANGED <<began, freed>>
      /\ ended' = [ended EXCEPT ![t][o] = @ + 1] /\ taken' = [taken EXCEPT ![o] = @ + 1]
  BY <1>1 DEF Return
<1>3. ended[t][o] < began[t][o]
  <2>1. began[t][o] = ended[t][o] + 1 /\ ended[t][o] \in Nat
    BY <1>1, <1>2 DEF SyncInv, Calls, TypeInv, TypeOK
  <2> QED BY <2>1
<1>4. S!Open(t, o)
  BY <1>1, ReturnOpen
<1> QED BY <1>2, <1>3, <1>4 DEF S!Return

\* The calls of DBarrier, DSemaphore and DEvent return only when the promise of
\* those classes lets them: SyncManager with its sockets, local Events and wait
\* lists implements SyncSpec, for any threads, nodes, objects and programs
\* whose calls do not time out and whose barriers count all their parties.
THEOREM ImplementsHolds ==
  ASSUME ~MayTimeOut, Covered
  PROVE  Spec => Implements
<1>1. Init => S!Init
  BY DEF Init, S!Init, Zero, S!Zero, Object, S!Object
<1>2. (TypeInv /\ SyncInv) /\ (TypeInv /\ SyncInv)' /\ Rounds /\ [Next]_vars => [S!Next]_S!vars
  <2> SUFFICES ASSUME TypeInv, SyncInv, TypeInv', Rounds, [Next]_vars PROVE [S!Next]_S!vars
    OBVIOUS
  <2>0. S!Object = Object
    BY DEF Object, S!Object
  <2>1. ASSUME NEW t \in Thread, Begin(t) PROVE S!Next
    BY <2>0, <2>1, BeginRefines DEF S!Next
  <2>2. ASSUME NEW t \in Thread, Return(t) PROVE S!Next
    BY <2>0, <2>2, ReturnRefines DEF S!Next
  <2>3. ASSUME NEW m \in Requests, NEW W \in SUBSET Thread, Serves(m, W), UNCHANGED <<began, ended, taken>>
        PROVE  S!Next \/ UNCHANGED S!vars
    <3>1. freed' = IF m.op \in {"Release", "Set"} THEN [freed EXCEPT ![m.obj] = @ + 1] ELSE freed
      BY <2>3 DEF Serves, Handle
    <3>2. CASE m.op \in {"Release", "Set"}
      <4>1. m.obj \in Object /\ m.obj \in Semaphore \cup Event
        BY <3>2, RequestFields
      <4>2. S!Free(m.obj)
        BY <2>3, <3>1, <3>2, <4>1 DEF S!Free
      <4> QED BY <2>0, <4>1, <4>2 DEF S!Next
    <3>3. CASE m.op \notin {"Release", "Set"}
      BY <2>3, <3>1, <3>3 DEF S!vars
    <3> QED BY <3>2, <3>3
  <2>4. ASSUME Quiet, UNCHANGED began PROVE UNCHANGED S!vars
    BY <2>4 DEF Quiet, S!vars
  <2>5. \/ /\ \E m \in Requests, W \in SUBSET Thread : Serves(m, W)
           /\ UNCHANGED <<began, ended, taken>>
        \/ \E t \in Thread : Begin(t) \/ Return(t)
        \/ Quiet /\ UNCHANGED began
    BY StepKinds DEF SyncInv
  <2> QED BY <2>1, <2>2, <2>3, <2>4, <2>5
<1> QED BY <1>1, <1>2, SyncInvariant, RoundsInvariant, PTL DEF Spec, Implements, S!Spec
=============================================================================
