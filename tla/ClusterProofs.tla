---------------------------- MODULE ClusterProofs ----------------------------
(***************************************************************************)
(* Cluster for any number of nodes, with and without a cache and           *)
(* checkpoints, under crashes at any moment: the data sockets, the first   *)
(* commands and the remote threads.                                        *)
(***************************************************************************)
EXTENDS Cluster, FiniteSetTheorems, TLAPS

Process ==
  [at : Nat, tries : Nat, lpc : {"none", "run", "gone", "ok"}, sock : [Slots -> Node \cup {NoSock}],
   const : {"unloaded", "old", "new"}, tpc : {"none", "start", "run", "set"}]
Zone ==
  [listening : BOOLEAN, manager : {"none", "live", "deleted"}, age : [Slave -> Nat],
   alarm : SUBSET {"alive", "listen"}, locked : BOOLEAN, closing : BOOLEAN,
   signal : [Slave -> BOOLEAN]]
Place == {"off", "connect", "hello", "accept", "info", "mesh", "listen", "manager", "data", "ready",
          "main", "loop", "closed", "dead", "exec"}
Order == {"Alive", "Restart", "Close", "CreateThread"}
Report == {"Request", "Alive", "Set"}

TypeOK ==
  /\ cache \in BOOLEAN /\ ckpt \in BOOLEAN /\ assigned \in BOOLEAN
  /\ pc \in [Node -> Place]
  /\ proc \in [Node -> Process]
  /\ zone \in Zone
  /\ dial \in [Node -> [Node -> {"none", "hello", "taken"}]]
  /\ toSlave \in [Slave -> Seq(Order)]
  /\ toMaster \in [Slave -> Seq(Report)]
  /\ tstate \in [Slave -> {"none", "creating", "running", "stopped"}]

\* Slaves are nodes, and the master is none of them.
LEMMA Nodes ==
  /\ 0 \in Node /\ 0 \notin Slave /\ Slave \subseteq Node /\ Node = Slave \cup {0}
  /\ N \in Nat /\ \A n \in Node : n \in Nat /\ n < N
  /\ \A n \in Node : n # 0 => n \in Slave
BY ClusterAssumption DEF Node, Slave

\* The order of the steps of RcMaster.
LEMMA StepOrder ==
  /\ MasterSteps[1] = "listen"
  /\ StepAfter("listen") = "manager" /\ StepAfter("manager") = "data" /\ StepAfter("data") = "ready"
<1>1. /\ MasterSteps[1] = "listen" /\ MasterSteps[2] = "manager" /\ MasterSteps[3] = "data"
      /\ MasterSteps[4] = "ready"
  BY DEF MasterSteps
<1> HIDE DEF MasterSteps
<1>2. /\ \A i \in 1 .. 3 : MasterSteps[i] = "listen" => i = 1
      /\ \A i \in 1 .. 3 : MasterSteps[i] = "manager" => i = 2
      /\ \A i \in 1 .. 3 : MasterSteps[i] = "data" => i = 3
  BY <1>1
<1>3. /\ (CHOOSE i \in 1 .. 3 : MasterSteps[i] = "listen") = 1
      /\ (CHOOSE i \in 1 .. 3 : MasterSteps[i] = "manager") = 2
      /\ (CHOOSE i \in 1 .. 3 : MasterSteps[i] = "data") = 3
  BY <1>1, <1>2
<1> QED BY <1>1, <1>3 DEF StepAfter

\* A new process and a new zone have their types.
LEMMA NewTypes == NewProcess \in Process /\ NewZone \in Zone
<1>1. [i \in Slots |-> NoSock] \in [Slots -> Node \cup {NoSock}]
  OBVIOUS
<1>2. NewProcess \in Process
  BY <1>1 DEF NewProcess, Process
<1>3. NewZone \in Zone
  BY DEF NewZone, Zone
<1> QED BY <1>2, <1>3

\* The initial state has its type.
LEMMA InitType == Init => TypeOK
<1> SUFFICES ASSUME Init PROVE TypeOK
  OBVIOUS
<1>1. cache \in BOOLEAN /\ ckpt \in BOOLEAN
  BY ClusterAssumption DEF Init
<1>2. [NewProcess EXCEPT !.at = 1] \in Process
  <2>1. NewProcess.sock \in [Slots -> Node \cup {NoSock}]
    BY DEF NewProcess
  <2>2. [NewProcess EXCEPT !.at = 1]
          = [at |-> 1, tries |-> 0, lpc |-> "none", sock |-> NewProcess.sock, const |-> "unloaded", tpc |-> "none"]
    BY DEF NewProcess
  <2> QED BY <2>1, <2>2 DEF Process
<1>3. proc \in [Node -> Process]
  BY <1>2, NewTypes DEF Init
<1>4. pc \in [Node -> Place] /\ dial \in [Node -> [Node -> {"none", "hello", "taken"}]]
  BY DEF Init, Place
<1>5. /\ toSlave \in [Slave -> Seq(Order)] /\ toMaster \in [Slave -> Seq(Report)]
      /\ tstate \in [Slave -> {"none", "creating", "running", "stopped"}]
  BY DEF Init
<1>6. assigned \in BOOLEAN
  BY DEF Init
<1> QED BY <1>1, <1>3, <1>4, <1>5, <1>6, NewTypes DEF Init, TypeOK

\* The slot where a node looks for another one is its own.
LEMMA SlotOfNode ==
  ASSUME NEW n \in Node, NEW k \in Node, n # k
  PROVE  /\ nodeid2idx(n, k) \in Slots
         /\ idx2nodeid(n, nodeid2idx(n, k)) = k
         /\ \A j \in Node \ {n, k} : nodeid2idx(n, j) # nodeid2idx(n, k)
BY ClusterAssumption DEF Node, Slots, nodeid2idx, idx2nodeid

\* The commands that are sent keep their types.
LEMMA SentType ==
  ASSUME TypeOK, NEW c \in Order
  PROVE  Sent(c) \in [Slave -> Seq(Order)]
BY DEF TypeOK, Sent

\* A report to the master.
LEMMA ToMasterType ==
  ASSUME TypeOK, NEW n \in Slave, NEW c \in Report
  PROVE  ToMaster(n, c) \in [Slave -> Seq(Report)]
BY DEF TypeOK, ToMaster

\* A process that ends.
LEMMA EndType ==
  ASSUME TypeOK, NEW n \in Node, End(n), UNCHANGED <<config, dial, assigned, tstate>>
  PROVE  TypeOK'
<1>1. pc' \in [Node -> Place]
  BY DEF End, Goto, TypeOK, Place
<1>2. proc' \in [Node -> Process] /\ zone' \in Zone
  BY NewTypes DEF End, TypeOK
<1>3. toSlave' \in [Slave -> Seq(Order)] /\ toMaster' \in [Slave -> Seq(Report)]
  BY DEF End, TypeOK
<1> QED BY <1>1, <1>2, <1>3 DEF TypeOK, config

\* A process after an assignment to one of its fields.
LEMMA ProcessFields ==
  ASSUME NEW p \in Process
  PROVE  /\ \A a \in Nat : [p EXCEPT !.at = a] \in Process
         /\ \A a \in Nat : [p EXCEPT !.tries = a] \in Process
         /\ \A l \in {"none", "run", "gone", "ok"} : [p EXCEPT !.lpc = l] \in Process
         /\ \A s \in [Slots -> Node \cup {NoSock}] : [p EXCEPT !.sock = s] \in Process
         /\ \A v \in {"unloaded", "old", "new"} : [p EXCEPT !.const = v] \in Process
         /\ \A l \in {"none", "start", "run", "set"} : [p EXCEPT !.tpc = l] \in Process
<1>1. /\ p.at \in Nat /\ p.tries \in Nat /\ p.lpc \in {"none", "run", "gone", "ok"}
      /\ p.sock \in [Slots -> Node \cup {NoSock}] /\ p.const \in {"unloaded", "old", "new"}
      /\ p.tpc \in {"none", "start", "run", "set"}
      /\ p = [at |-> p.at, tries |-> p.tries, lpc |-> p.lpc, sock |-> p.sock, const |-> p.const, tpc |-> p.tpc]
  BY DEF Process
<1>2. ASSUME NEW a \in Nat PROVE [p EXCEPT !.at = a] \in Process /\ [p EXCEPT !.tries = a] \in Process
  BY <1>1 DEF Process
<1>3. ASSUME NEW l \in {"none", "run", "gone", "ok"} PROVE [p EXCEPT !.lpc = l] \in Process
  BY <1>1 DEF Process
<1>4. ASSUME NEW s \in [Slots -> Node \cup {NoSock}] PROVE [p EXCEPT !.sock = s] \in Process
  BY <1>1 DEF Process
<1>5. ASSUME NEW v \in {"unloaded", "old", "new"} PROVE [p EXCEPT !.const = v] \in Process
  BY <1>1 DEF Process
<1>6. ASSUME NEW l \in {"none", "start", "run", "set"} PROVE [p EXCEPT !.tpc = l] \in Process
  BY <1>1 DEF Process
<1> QED BY <1>2, <1>3, <1>4, <1>5, <1>6

\* What a step leaves alone in a process: InitStorage.
LEMMA InitStorageType ==
  ASSUME TypeOK, NEW n \in Node, InitStorage(n)
  PROVE  pc' \in [Node -> Place] /\ proc' \in [Node -> Process]
<1>1. pc' \in [Node -> Place]
  BY StepOrder DEF InitStorage, Goto, TypeOK, Place
<1>2. proc[n] \in Process
  BY DEF TypeOK
<1>3. (IF cache THEN n + 1 ELSE 0) \in Nat
  BY Nodes
<1>4. (IF cache \/ n = 0 THEN "none" ELSE "run") \in {"none", "run", "gone", "ok"}
  OBVIOUS
<1>5. [[proc[n] EXCEPT !.at = IF cache THEN n + 1 ELSE 0] EXCEPT !.lpc = IF cache \/ n = 0 THEN "none" ELSE "run"]
        \in Process
  BY <1>2, <1>3, <1>4, ProcessFields
<1>6. proc' = [proc EXCEPT ![n] = [[proc[n] EXCEPT !.at = IF cache THEN n + 1 ELSE 0]
                                     EXCEPT !.lpc = IF cache \/ n = 0 THEN "none" ELSE "run"]]
  BY DEF InitStorage, TypeOK
<1> QED BY <1>1, <1>5, <1>6 DEF TypeOK

\* Start-up keeps the types.
LEMMA StartType ==
  ASSUME TypeOK, NEW n \in Node,
         \/ n \in Slave /\ SlaveStart(n)
         \/ n = 0 /\ (Connect \/ MasterHello \/ MasterStep)
         \/ n # 0 /\ (Accept(n) \/ ReadHello(n) \/ DataDial(n) \/ DataDialled(n))
         \/ CacheDial(n) \/ CacheReady(n) \/ WaitForReady(n) \/ Listener(n)
  PROVE  TypeOK'
<1>t. /\ n \in Nat /\ N \in Nat /\ proc[n] \in Process /\ proc[n].at \in Nat /\ proc[n].tries \in Nat
      /\ proc[n].sock \in [Slots -> Node \cup {NoSock}] /\ proc \in [Node -> Process]
  BY Nodes DEF TypeOK, Process
<1>u. proc[n].at + 1 \in Nat /\ proc[n].tries + 1 \in Nat /\ 0 \in Nat
  BY <1>t
<1>1. CASE SlaveStart(n) \/ Connect \/ Accept(n) \/ DataDialled(n)
  <2>1. pc' \in [Node -> Place]
    BY <1>1 DEF SlaveStart, Connect, Accept, DataDialled, Goto, TypeOK, Place
  <2>2. UNCHANGED <<config, proc, zone, dial, cmdVars, assigned, tstate>>
    BY <1>1 DEF SlaveStart, Connect, Accept, DataDialled, sockVars
  <2> QED BY <2>1, <2>2 DEF TypeOK, config, cmdVars
<1>2. CASE MasterHello
  <2>1. UNCHANGED <<config, zone, dial, cmdVars, assigned, tstate>>
    BY <1>2 DEF MasterHello
  <2>2. pc' \in [Node -> Place] /\ proc' \in [Node -> Process]
    <3>1. CASE InitStorage(0)
      BY <3>1, InitStorageType, Nodes
    <3>2. CASE proc' = [proc EXCEPT ![0].at = proc[0].at + 1] /\ Goto(0, "connect")
      <4>1. proc[0] \in Process /\ proc[0].at + 1 \in Nat
        BY Nodes DEF TypeOK, Process
      <4>2. [proc[0] EXCEPT !.at = proc[0].at + 1] \in Process
        BY <4>1, ProcessFields
      <4>3. proc' = [proc EXCEPT ![0] = [proc[0] EXCEPT !.at = proc[0].at + 1]]
        BY <3>2
      <4>4. pc' \in [Node -> Place]
        BY <3>2 DEF Goto, TypeOK, Place
      <4> QED BY <4>2, <4>3, <4>4 DEF TypeOK
    <3> QED BY <1>2, <3>1, <3>2 DEF MasterHello
  <2> QED BY <2>1, <2>2 DEF TypeOK, config, cmdVars
<1>3. CASE MasterStep
  <2>1. UNCHANGED <<config, dial, cmdVars, assigned, tstate>>
    BY <1>3 DEF MasterStep, sockVars
  <2>2. pc' \in [Node -> Place]
    BY <1>3, StepOrder DEF MasterStep, Goto, TypeOK, Place
  <2>3. zone' \in Zone
    BY <1>3 DEF MasterStep, TypeOK, Zone
  <2>4. proc' \in [Node -> Process]
    <3>1. [proc[0] EXCEPT !.lpc = "run"] \in Process
      BY Nodes, ProcessFields DEF TypeOK
    <3>2. proc' = proc \/ proc' = [proc EXCEPT ![0] = [proc[0] EXCEPT !.lpc = "run"]]
      BY <1>3 DEF MasterStep
    <3> QED BY <1>t, <3>1, <3>2
  <2> QED BY <2>1, <2>2, <2>3, <2>4 DEF TypeOK, config, cmdVars
<1>4. CASE n # 0 /\ ReadHello(n)
  <2>1. UNCHANGED <<config, zone, dial, cmdVars, assigned, tstate>> /\ InitStorage(n)
    BY <1>4 DEF ReadHello, sockVars
  <2> QED BY <2>1, InitStorageType DEF TypeOK, config, cmdVars
<1>5. CASE DataDial(n)
  <2>1. UNCHANGED <<config, pc, zone, cmdVars, assigned, tstate>>
    BY <1>5 DEF DataDial
  <2>2. PICK k \in Node : k = proc[n].at /\ k # n
    BY <1>5, <1>t, Nodes DEF DataDial, Node
  <2>3. dial' \in [Node -> [Node -> {"none", "hello", "taken"}]]
    <3>1. dial' = [dial EXCEPT ![n][k] = "hello"] \/ dial' = dial
      BY <1>5, <2>2 DEF DataDial
    <3>2. dial \in [Node -> [Node -> {"none", "hello", "taken"}]]
      BY DEF TypeOK
    <3>3. CASE dial' = [dial EXCEPT ![n][k] = "hello"]
      BY <3>2, <3>3
    <3> QED BY <3>1, <3>2, <3>3
  <2>4. CASE proc' = [proc EXCEPT ![n].sock[nodeid2idx(n, k)] = k, ![n].at = k + 1, ![n].tries = 0]
    <3>1. [proc[n].sock EXCEPT ![nodeid2idx(n, k)] = k] \in [Slots -> Node \cup {NoSock}]
      BY <1>t, <2>2, SlotOfNode
    <3>2. [[[proc[n] EXCEPT !.sock = [proc[n].sock EXCEPT ![nodeid2idx(n, k)] = k]] EXCEPT !.at = k + 1]
             EXCEPT !.tries = 0] \in Process
      <4>1. k + 1 \in Nat /\ 0 \in Nat
        BY <2>2, Nodes
      <4> QED BY <1>t, <3>1, <4>1, ProcessFields
    <3>3. proc' = [proc EXCEPT ![n] =
             [[[proc[n] EXCEPT !.sock = [proc[n].sock EXCEPT ![nodeid2idx(n, k)] = k]] EXCEPT !.at = k + 1]
             EXCEPT !.tries = 0]]
      BY <1>t, <2>4
    <3>4. proc' \in [Node -> Process]
      BY <1>t, <3>2, <3>3
    <3> QED BY <2>1, <2>3, <3>4 DEF TypeOK, config, cmdVars
  <2>5. CASE proc' = [proc EXCEPT ![n].tries = @ + 1]
    <3>1. [proc[n] EXCEPT !.tries = proc[n].tries + 1] \in Process
      BY <1>t, <1>u, ProcessFields, Zenon
    <3>2. proc' = [proc EXCEPT ![n] = [proc[n] EXCEPT !.tries = proc[n].tries + 1]]
      BY <1>t, <2>5
    <3>3. proc' \in [Node -> Process]
      BY <1>t, <3>1, <3>2
    <3> QED BY <2>1, <2>3, <3>3 DEF TypeOK, config, cmdVars
  <2> QED BY <1>5, <2>2, <2>4, <2>5 DEF DataDial
<1>6. CASE CacheDial(n)
  <2>1. UNCHANGED <<config, pc, zone, dial, cmdVars, assigned, tstate>>
    BY <1>6 DEF CacheDial
  <2>2. \/ proc' = [proc EXCEPT ![n].tries = 0] \/ proc' = [proc EXCEPT ![n].tries = @ + 1]
        \/ proc' = [proc EXCEPT ![n].at = proc[n].at + 1]
    BY <1>6 DEF CacheDial
  <2>3. /\ [proc[n] EXCEPT !.tries = 0] \in Process
        /\ [proc[n] EXCEPT !.tries = proc[n].tries + 1] \in Process
        /\ [proc[n] EXCEPT !.at = proc[n].at + 1] \in Process
    BY <1>t, <1>u, ProcessFields, Zenon
  <2>4. \/ proc' = [proc EXCEPT ![n] = [proc[n] EXCEPT !.tries = 0]]
        \/ proc' = [proc EXCEPT ![n] = [proc[n] EXCEPT !.tries = proc[n].tries + 1]]
        \/ proc' = [proc EXCEPT ![n] = [proc[n] EXCEPT !.at = proc[n].at + 1]]
    BY <1>t, <2>2
  <2>5. proc' \in [Node -> Process]
    BY <1>t, <2>3, <2>4
  <2> QED BY <2>1, <2>5 DEF TypeOK, config, cmdVars
<1>7. CASE CacheReady(n)
  <2>1. UNCHANGED <<config, zone, dial, cmdVars, assigned, tstate>>
    BY <1>7 DEF CacheReady, sockVars
  <2>2. pc' \in [Node -> Place]
    BY <1>7, StepOrder DEF CacheReady, Goto, TypeOK, Place
  <2>3. [[proc[n] EXCEPT !.at = 0] EXCEPT !.lpc = IF n = 0 THEN "none" ELSE "run"] \in Process
    BY <1>t, ProcessFields
  <2>4. proc' = [proc EXCEPT ![n] = [[proc[n] EXCEPT !.at = 0] EXCEPT !.lpc = IF n = 0 THEN "none" ELSE "run"]]
    BY <1>7, <1>t DEF CacheReady
  <2>5. proc' \in [Node -> Process]
    BY <1>t, <2>3, <2>4
  <2> QED BY <2>1, <2>2, <2>5 DEF TypeOK, config, cmdVars
<1>8. CASE WaitForReady(n)
  <2>1. UNCHANGED <<config, proc, zone, dial, toSlave, assigned, tstate>>
    BY <1>8 DEF WaitForReady, sockVars
  <2>2. pc' \in [Node -> Place]
    BY <1>8 DEF WaitForReady, Goto, TypeOK, Place
  <2>3. toMaster' \in [Slave -> Seq(Report)]
    <3>1. n \in Workers => n \in Slave /\ ToMaster(n, "Request") \in [Slave -> Seq(Report)]
      BY ToMasterType, ClusterAssumption DEF Report
    <3> QED BY <1>8, <3>1 DEF WaitForReady, TypeOK
  <2> QED BY <2>1, <2>2, <2>3 DEF TypeOK, config
<1>9. CASE CacheListen(n)
  BY <1>9 DEF CacheListen, TypeOK, config, cmdVars
<1>10. CASE DataListenOk(n)
  <2>1. UNCHANGED <<config, pc, zone, dial, cmdVars, assigned, tstate>>
    BY <1>10 DEF DataListenOk, sockVars
  <2>2. [proc[n] EXCEPT !.lpc = "ok"] \in Process
    BY <1>t, ProcessFields
  <2>3. proc' = [proc EXCEPT ![n] = [proc[n] EXCEPT !.lpc = "ok"]]
    BY <1>10, <1>t DEF DataListenOk
  <2>4. proc' \in [Node -> Process]
    BY <1>t, <2>2, <2>3
  <2> QED BY <2>1, <2>4 DEF TypeOK, config, cmdVars
<1>11. ASSUME NEW k \in Slave, DataAccept(n, k) PROVE TypeOK'
  <2>1. UNCHANGED <<config, pc, zone, cmdVars, assigned, tstate>>
    BY <1>11 DEF DataAccept
  <2>2. dial' \in [Node -> [Node -> {"none", "hello", "taken"}]]
    BY <1>11, Nodes DEF DataAccept, TypeOK
  <2>3. /\ [proc[n] EXCEPT !.lpc = "gone"] \in Process
        /\ [proc[n] EXCEPT !.sock = [proc[n].sock EXCEPT ![nodeid2idx(n, k)] = k]] \in Process
    <3>1. [proc[n].sock EXCEPT ![nodeid2idx(n, k)] = k] \in [Slots -> Node \cup {NoSock}]
      BY <1>t, Nodes
    <3> QED BY <1>t, <3>1, ProcessFields
  <2>4. \/ proc' = [proc EXCEPT ![n] = [proc[n] EXCEPT !.lpc = "gone"]]
        \/ proc' = [proc EXCEPT ![n] = [proc[n] EXCEPT !.sock = [proc[n].sock EXCEPT ![nodeid2idx(n, k)] = k]]]
    BY <1>11, <1>t DEF DataAccept
  <2>5. proc' \in [Node -> Process]
    BY <1>t, <2>3, <2>4
  <2> QED BY <2>1, <2>2, <2>5 DEF TypeOK, config, cmdVars
<1> QED BY <1>1, <1>2, <1>3, <1>4, <1>5, <1>6, <1>7, <1>8, <1>9, <1>10, <1>11 DEF Listener

\* So do the threads of the master and its program.
LEMMA MasterType ==
  ASSUME TypeOK, MasterListener \/ AliveRound \/ Restart \/ Program
  PROVE  TypeOK'
<1>t. /\ toSlave \in [Slave -> Seq(Order)] /\ toMaster \in [Slave -> Seq(Report)] /\ zone \in Zone
      /\ tstate \in [Slave -> {"none", "creating", "running", "stopped"}]
  BY DEF TypeOK
<1>1. ASSUME NEW n \in Slave, MasterListen(n) PROVE TypeOK'
  <2>1. UNCHANGED <<config, pc, proc, dial, toSlave, assigned, tstate>>
    BY <1>1 DEF MasterListen, sockVars
  <2>2. toMaster' \in [Slave -> Seq(Report)]
    <3>1. toMaster[n] # <<>> /\ toMaster[n] \in Seq(Report)
      BY <1>1, <1>t DEF MasterListen
    <3>2. Tail(toMaster[n]) \in Seq(Report)
      BY <3>1
    <3> QED BY <1>1, <1>t, <3>2 DEF MasterListen
  <2>3. zone' \in Zone
    <3>1. zone' = zone \/ zone' = [zone EXCEPT !.age[n] = 0] \/ zone' = [zone EXCEPT !.signal[n] = TRUE]
      BY <1>1 DEF MasterListen
    <3>2. [zone EXCEPT !.age[n] = 0] \in Zone /\ [zone EXCEPT !.signal[n] = TRUE] \in Zone
      BY <1>t DEF Zone
    <3> QED BY <1>t, <3>1, <3>2
  <2> QED BY <2>1, <2>2, <2>3 DEF TypeOK, config
<1>2. ASSUME NEW n \in Slave, ListenFails(n) PROVE TypeOK'
  <2>1. UNCHANGED <<config, pc, proc, dial, cmdVars, assigned, tstate>>
    BY <1>2 DEF ListenFails, sockVars
  <2>2. Raised("listen") \in SUBSET {"alive", "listen"}
    BY <1>t DEF Raised, Zone
  <2>3. zone' \in Zone
    BY <1>2, <1>t, <2>2 DEF ListenFails, Zone
  <2> QED BY <2>1, <2>3 DEF TypeOK, config, cmdVars
<1>3. CASE AliveRound
  <2>1. UNCHANGED <<config, pc, proc, dial, toMaster, assigned, tstate>> /\ toSlave' = Sent("Alive")
    BY <1>3 DEF AliveRound, sockVars
  <2>2. toSlave' \in [Slave -> Seq(Order)]
    BY <2>1, SentType DEF Order
  <2>3. zone' \in Zone
    <3>1. Raised("alive") \in SUBSET {"alive", "listen"}
      BY <1>t DEF Raised, Zone
    <3>2. zone.age \in [Slave -> Nat] /\ zone.alarm \in SUBSET {"alive", "listen"}
      BY <1>t DEF Zone
    <3>3. [n \in Slave |-> IF Late(n) THEN zone.age[n] ELSE zone.age[n] + 1] \in [Slave -> Nat]
      BY <3>2
    <3>4. (IF \E n \in Slave : Late(n) THEN Raised("alive") ELSE zone.alarm) \in SUBSET {"alive", "listen"}
      BY <3>1, <3>2
    <3>5. zone' = [[zone EXCEPT !.age = [n \in Slave |-> IF Late(n) THEN zone.age[n] ELSE zone.age[n] + 1]]
                      EXCEPT !.alarm = IF \E n \in Slave : Late(n) THEN Raised("alive") ELSE zone.alarm]
      BY <1>3, <1>t DEF AliveRound, Zone
    <3>6. ASSUME NEW a \in [Slave -> Nat], NEW s \in SUBSET {"alive", "listen"}
          PROVE  [[zone EXCEPT !.age = a] EXCEPT !.alarm = s] \in Zone
      BY <1>t DEF Zone
    <3> QED BY <3>3, <3>4, <3>5, <3>6
  <2> QED BY <2>1, <2>2, <2>3 DEF TypeOK, config
<1>4. ASSUME NEW th \in {"alive", "listen"}, RestartCluster(th) PROVE TypeOK'
  <2>1. UNCHANGED <<config, pc, proc, dial, toMaster, assigned, tstate>>
    BY <1>4 DEF RestartCluster, sockVars
  <2>2. toSlave' \in [Slave -> Seq(Order)]
    BY <1>4, <1>t, SentType DEF RestartCluster, Order
  <2>3. zone' \in Zone
    BY <1>4, <1>t DEF RestartCluster, Zone
  <2> QED BY <2>1, <2>2, <2>3 DEF TypeOK, config
<1>5. CASE RestartCurrentProcess
  <2>1. UNCHANGED <<config, proc, dial, assigned, tstate>> /\ zone' = NewZone /\ toSlave' = Sent("Close")
    BY <1>5 DEF RestartCurrentProcess, sockVars
  <2>2. toSlave' \in [Slave -> Seq(Order)]
    BY <2>1, SentType DEF Order
  <2>3. pc' \in [Node -> Place]
    BY <1>5 DEF RestartCurrentProcess, Goto, Place, TypeOK
  <2>4. toMaster' \in [Slave -> Seq(Report)]
    <3>1. <<>> \in Seq(Report) /\ toMaster' = [n \in Slave |-> <<>>]
      BY <1>5 DEF RestartCurrentProcess
    <3> QED BY <3>1
  <2> QED BY <2>1, <2>2, <2>3, <2>4, NewTypes DEF TypeOK, config
<1>6. CASE AssignConst
  <2>1. UNCHANGED <<config, pc, proc, zone, dial, cmdVars, tstate>> /\ assigned' = TRUE
    BY <1>6 DEF AssignConst, sockVars
  <2> QED BY <2>1, Zenon DEF TypeOK, config, cmdVars
<1>7. ASSUME NEW n \in Workers, CreateThread(n) PROVE TypeOK'
  <2>1. UNCHANGED <<config, pc, proc, zone, dial, toMaster, assigned>> /\ n \in Slave
    BY <1>7, ClusterAssumption DEF CreateThread, sockVars
  <2>2. tstate' \in [Slave -> {"none", "creating", "running", "stopped"}]
    BY <1>7, <1>t DEF CreateThread
  <2>3. toSlave' \in [Slave -> Seq(Order)]
    <3>1. toSlave' = [toSlave EXCEPT ![n] = IF pc[n] = "dead" THEN @ ELSE Append(@, "CreateThread")]
      BY <1>7 DEF CreateThread
    <3>2. toSlave[n] \in Seq(Order) /\ Append(toSlave[n], "CreateThread") \in Seq(Order)
      BY <1>t, <2>1 DEF Order
    <3> QED BY <1>t, <3>1, <3>2
  <2> QED BY <2>1, <2>2, <2>3 DEF TypeOK, config
<1>8. CASE CloseCluster
  <2>1. UNCHANGED <<config, proc, dial, toMaster, assigned, tstate>> /\ toSlave' = Sent("Close")
    BY <1>8 DEF CloseCluster, sockVars
  <2>2. toSlave' \in [Slave -> Seq(Order)]
    BY <2>1, SentType DEF Order
  <2>3. pc' \in [Node -> Place]
    BY <1>8 DEF CloseCluster, Goto, Place, TypeOK
  <2>4. zone' \in Zone
    BY <1>8, <1>t DEF CloseCluster, Zone
  <2> QED BY <2>1, <2>2, <2>3, <2>4 DEF TypeOK, config
<1> QED BY <1>1, <1>2, <1>3, <1>4, <1>5, <1>6, <1>7, <1>8 DEF MasterListener, Restart, Program

\* And the slaves' main loop and threads.
LEMMA SlaveType ==
  ASSUME TypeOK, NEW n \in Slave, SlaveMainLoop(n) \/ RemoteThread(n)
  PROVE  TypeOK'
<1>t. /\ toSlave \in [Slave -> Seq(Order)] /\ toMaster \in [Slave -> Seq(Report)] /\ n \in Node
      /\ tstate \in [Slave -> {"none", "creating", "running", "stopped"}]
      /\ proc \in [Node -> Process] /\ proc[n] \in Process
  BY Nodes DEF TypeOK
<1>1. CASE SlaveMainLoop(n)
  <2>1. UNCHANGED <<config, pc, zone, dial, assigned, tstate>>
    BY <1>1 DEF SlaveMainLoop, sockVars
  <2>2. toSlave' \in [Slave -> Seq(Order)]
    <3>1. toSlave[n] # <<>> /\ toSlave[n] \in Seq(Order) /\ toSlave' = [toSlave EXCEPT ![n] = Tail(@)]
      BY <1>1, <1>t DEF SlaveMainLoop
    <3>2. Tail(toSlave[n]) \in Seq(Order)
      BY <3>1
    <3> QED BY <1>t, <3>1, <3>2
  <2>3. toMaster' \in [Slave -> Seq(Report)]
    BY <1>1, <1>t, ToMasterType DEF SlaveMainLoop, Report
  <2>4. proc' \in [Node -> Process]
    <3>1. PICK l \in {"none", "start", "run", "set"} :
            proc' = [proc EXCEPT ![n].const = InitSharedConst(n), ![n].tpc = l]
      <4>1. proc[n].tpc \in {"none", "start", "run", "set"}
        BY <1>t DEF Process
      <4>2. proc' = [proc EXCEPT ![n].const = InitSharedConst(n),
                                 ![n].tpc = IF Head(toSlave[n]) = "CreateThread" THEN "start" ELSE @]
        BY <1>1 DEF SlaveMainLoop
      <4>3. CASE Head(toSlave[n]) = "CreateThread"
        BY <4>2, <4>3
      <4>4. CASE Head(toSlave[n]) # "CreateThread"
        <5>1. proc' = [proc EXCEPT ![n].const = InitSharedConst(n), ![n].tpc = proc[n].tpc]
          BY <1>t, <4>2, <4>4 DEF Process
        <5> QED BY <4>1, <5>1
      <4> QED BY <4>3, <4>4
    <3>2. InitSharedConst(n) \in {"unloaded", "old", "new"}
      BY <1>t DEF InitSharedConst, Process
    <3>3. [[proc[n] EXCEPT !.const = InitSharedConst(n)] EXCEPT !.tpc = l] \in Process
      BY <1>t, <3>1, <3>2, ProcessFields
    <3>4. proc' = [proc EXCEPT ![n] = [[proc[n] EXCEPT !.const = InitSharedConst(n)] EXCEPT !.tpc = l]]
      BY <1>t, <3>1
    <3> QED BY <1>t, <3>3, <3>4
  <2> QED BY <2>1, <2>2, <2>3, <2>4 DEF TypeOK, config
<1>2. CASE RemoteThread(n)
  <2>1. UNCHANGED <<config, pc, zone, dial, toSlave, assigned>>
    BY <1>2 DEF RemoteThread, ThreadBegin, ThreadStop, ThreadSet, sockVars, cmdVars
  <2>2. tstate' \in [Slave -> {"none", "creating", "running", "stopped"}]
    BY <1>2, <1>t DEF RemoteThread, ThreadBegin, ThreadStop, ThreadSet
  <2>3. toMaster' \in [Slave -> Seq(Report)]
    BY <1>2, <1>t, ToMasterType DEF RemoteThread, ThreadBegin, ThreadStop, ThreadSet, cmdVars, Report
  <2>4. proc' \in [Node -> Process]
    <3>1. PICK l \in {"none", "start", "run", "set"} : proc' = [proc EXCEPT ![n].tpc = l]
      BY <1>2 DEF RemoteThread, ThreadBegin, ThreadStop, ThreadSet
    <3>2. [proc[n] EXCEPT !.tpc = l] \in Process
      BY <1>t, ProcessFields
    <3>3. proc' = [proc EXCEPT ![n] = [proc[n] EXCEPT !.tpc = l]]
      BY <1>t, <3>1
    <3> QED BY <1>t, <3>2, <3>3
  <2> QED BY <2>1, <2>2, <2>3, <2>4 DEF TypeOK, config
<1> QED BY <1>1, <1>2

\* The steps, sorted by what they do.
LEMMA Steps ==
  ASSUME Next
  PROVE  \/ \E n \in Node :
              \/ n \in Slave /\ SlaveStart(n)
              \/ n = 0 /\ (Connect \/ MasterHello \/ MasterStep)
              \/ n # 0 /\ (Accept(n) \/ ReadHello(n) \/ DataDial(n) \/ DataDialled(n))
              \/ CacheDial(n) \/ CacheReady(n) \/ WaitForReady(n) \/ Listener(n)
         \/ MasterListener \/ AliveRound \/ Restart \/ Program
         \/ \E n \in Slave : SlaveMainLoop(n) \/ (n \in Workers /\ RemoteThread(n))
         \/ \E n \in Node : End(n) /\ UNCHANGED <<config, sockVars, assigned, tstate>>
<1>1. \A n \in Workers : n \in Slave
  BY ClusterAssumption
<1>2. MasterStop => End(0) /\ UNCHANGED <<config, sockVars, assigned, tstate>>
  BY DEF MasterStop
<1>3. \A n \in Node : Stop(n) \/ Crash(n) => End(n) /\ UNCHANGED <<config, sockVars, assigned, tstate>>
  BY DEF Stop, Crash
<1> QED BY <1>1, <1>2, <1>3, Nodes DEF Next, MainThread

\* Every step keeps the type.
LEMMA NextType == TypeOK /\ [Next]_vars => TypeOK'
<1> SUFFICES ASSUME TypeOK, [Next]_vars PROVE TypeOK'
  OBVIOUS
<1>1. CASE Next
  <2>1. ASSUME NEW n \in Node, End(n), UNCHANGED <<config, sockVars, assigned, tstate>> PROVE TypeOK'
    <3>1. UNCHANGED <<config, dial, assigned, tstate>>
      BY <2>1 DEF sockVars
    <3> QED BY <2>1, <3>1, EndType
  <2> QED BY <1>1, <2>1, Steps, StartType, MasterType, SlaveType
<1>2. CASE UNCHANGED vars
  BY <1>2 DEF vars, config, sockVars, cmdVars, TypeOK
<1> QED BY <1>1, <1>2

-----------------------------------------------------------------------------
(* The data sockets.                                                       *)

\* Node n has not yet called AcInit.
Early(n) ==
  \/ pc[n] \in {"off", "connect", "hello", "accept", "info", "mesh", "listen", "manager"}
  \/ n = 0 /\ pc[n] = "data"

\* Only AcInit starts AcListenData, and only AcListenData accepts connections.
Quiet == \A n \in Node : Early(n) => proc[n].lpc = "none" /\ \A k \in Node : dial[k][n] # "taken"

\* A slot holds the node it is for, or nothing.
Slotted == \A n \in Node : \A k \in Node \ {n} : proc[n].sock[nodeid2idx(n, k)] \in {NoSock, k}

\* Connections are made to lower nodes.
Downward == \A k, n \in Node : dial[k][n] # "none" => n < k

\* As long as AcListenData runs, it has the socket of each connection it took.
Kept ==
  \A n \in Node : proc[n].lpc \in {"run", "ok"} =>
    \A k \in Node : dial[k][n] = "taken" => proc[n].sock[nodeid2idx(n, k)] = k

\* When it has set connection_ok, no slot is empty.
Full ==
  \A n \in Node : proc[n].lpc = "ok" => \A k \in Node \ {n} : proc[n].sock[nodeid2idx(n, k)] # NoSock

MeshInv == Quiet /\ Slotted /\ Downward /\ Kept /\ Full

\* Initially nobody is connected.
LEMMA MeshInit == Init => MeshInv
<1> SUFFICES ASSUME Init PROVE MeshInv
  OBVIOUS
<1>1. \A n \in Node : proc[n].lpc = "none" /\ proc[n].sock = [i \in Slots |-> NoSock]
  BY DEF Init, NewProcess
<1>2. \A k, n \in Node : dial[k][n] = "none"
  BY DEF Init
<1>3. \A n \in Node : \A k \in Node \ {n} : proc[n].sock[nodeid2idx(n, k)] = NoSock
  BY <1>1, SlotOfNode
<1> QED BY <1>1, <1>2, <1>3 DEF MeshInv, Quiet, Slotted, Downward, Kept, Full

\* A node that uses the data sockets has all of them.
LEMMA MeshGives == MeshInv => MeshComplete
BY SlotOfNode DEF MeshInv, Slotted, Full, MeshComplete

\* Steps that connect no sockets: AcInit may start AcListenData, and a process
\* may end.
LEMMA MeshFrame ==
  ASSUME MeshInv, UNCHANGED dial,
         \A m \in Node :
           \/ /\ proc'[m].sock = proc[m].sock
              /\ Early(m)' => Early(m) /\ proc'[m].lpc = proc[m].lpc
              /\ proc'[m].lpc = proc[m].lpc \/ (Early(m) /\ proc'[m].lpc = "run")
           \/ proc'[m] = NewProcess /\ pc'[m] = "dead"
  PROVE  MeshInv'
<1>n. \A m \in Node : proc'[m] = NewProcess =>
        /\ proc'[m].lpc = "none"
        /\ \A k \in Node \ {m} : proc'[m].sock[nodeid2idx(m, k)] = NoSock
  BY SlotOfNode DEF NewProcess
<1>d. \A m \in Node : pc'[m] = "dead" => ~(Early(m)')
  BY DEF Early
<1>1. Quiet'
  BY <1>n, <1>d DEF MeshInv, Quiet
<1>2. Slotted'
  BY <1>n DEF MeshInv, Slotted
<1>3. Downward'
  BY DEF MeshInv, Downward
<1>4. Kept'
  BY <1>n DEF MeshInv, Kept, Quiet
<1>5. Full'
  BY <1>n DEF MeshInv, Full
<1> QED BY <1>1, <1>2, <1>3, <1>4, <1>5 DEF MeshInv

\* The nodes a node accepts connections from are the higher ones; when their
\* number is reached, all of them are connected.
LEMMA AllTaken ==
  ASSUME TypeOK, MeshInv, NEW n \in Node, Cardinality(Taken(n)) = Connections(n)
  PROVE  \A k \in Node : n < k => dial[k][n] = "taken"
<1>1. Taken(n) \subseteq (n + 1) .. (N - 1)
  BY Nodes DEF Taken, MeshInv, Downward, Node
<1>2. IsFiniteSet((n + 1) .. (N - 1)) /\ Cardinality((n + 1) .. (N - 1)) = N - 1 - n
  <2>1. n \in Nat /\ N \in Nat /\ n < N
    BY Nodes
  <2>2. IsFiniteSet((n + 1) .. (N - 1))
        /\ Cardinality((n + 1) .. (N - 1)) = IF n + 1 > N - 1 THEN 0 ELSE (N - 1) - (n + 1) + 1
    BY <2>1, FS_Interval
  <2> QED BY <2>1, <2>2
<1>3. Cardinality(Taken(n)) = Cardinality((n + 1) .. (N - 1))
  BY <1>2 DEF Connections
<1>4. Taken(n) = (n + 1) .. (N - 1)
  BY <1>1, <1>2, <1>3, FS_Subset
<1>5. ASSUME NEW k \in Node, n < k PROVE k \in Taken(n)
  BY <1>4, <1>5, Nodes DEF Node
<1> QED BY <1>5 DEF Taken

\* The listener of a node takes a connection, or finds that it has them all.
LEMMA MeshAccept ==
  ASSUME TypeOK, MeshInv, NEW n \in Node, NEW k \in Node, DataAccept(n, k)
  PROVE  MeshInv'
<1>1. /\ pc' = pc /\ proc[n].lpc = "run" /\ dial[k][n] = "hello" /\ n < k
      /\ dial' = [dial EXCEPT ![k][n] = "taken"]
  BY DEF DataAccept, MeshInv, Downward
<1>2. /\ \A j, m \in Node : ~(j = k /\ m = n) => dial'[j][m] = dial[j][m]
      /\ dial'[k][n] = "taken"
  BY <1>1 DEF TypeOK
<1>3. /\ proc \in [Node -> Process] /\ proc[n].sock \in [Slots -> Node \cup {NoSock}]
      /\ nodeid2idx(n, k) \in Slots /\ n # k
  BY <1>1, SlotOfNode, Nodes DEF TypeOK, Process
<1>4. \A m \in Node \ {n} : proc'[m] = proc[m]
  BY <1>3 DEF DataAccept
<1>5. \/ proc'[n].lpc = "gone" /\ proc'[n].sock = proc[n].sock
      \/ proc'[n].lpc = "run" /\ proc'[n].sock = [proc[n].sock EXCEPT ![nodeid2idx(n, k)] = k]
  BY <1>1, <1>3 DEF DataAccept, Process
<1>6. \/ proc'[n].lpc = "gone" /\ \A j \in Node \ {n} : proc'[n].sock[nodeid2idx(n, j)] = proc[n].sock[nodeid2idx(n, j)]
      \/ /\ proc'[n].lpc = "run" /\ proc'[n].sock[nodeid2idx(n, k)] = k
         /\ \A j \in Node \ {n, k} : proc'[n].sock[nodeid2idx(n, j)] = proc[n].sock[nodeid2idx(n, j)]
  BY <1>3, <1>5, SlotOfNode
<1>7. \A m \in Node : Early(m)' = Early(m)
  BY <1>1 DEF Early
<1>8. Quiet'
  BY <1>1, <1>2, <1>4, <1>7 DEF MeshInv, Quiet
<1>9. Slotted'
  BY <1>4, <1>6 DEF MeshInv, Slotted
<1>10. Downward'
  BY <1>1, <1>2 DEF MeshInv, Downward
<1>11. Kept'
  <2>1. \A j \in Node : dial'[j][n] = "taken" => j # n
    BY <1>10, Nodes DEF Downward
  <2> QED BY <1>1, <1>2, <1>4, <1>6, <2>1 DEF MeshInv, Kept
<1>12. Full'
  BY <1>1, <1>4, <1>6 DEF MeshInv, Full
<1> QED BY <1>8, <1>9, <1>10, <1>11, <1>12 DEF MeshInv

\* A listener ends once it has all its sockets.
LEMMA MeshListenOk ==
  ASSUME TypeOK, MeshInv, NEW n \in Node, DataListenOk(n)
  PROVE  MeshInv'
<1>1. pc' = pc /\ dial' = dial /\ proc[n].lpc = "run" /\ Cardinality(Taken(n)) = Connections(n) /\ LowerSet(n)
  BY DEF DataListenOk, sockVars
<1>2. /\ \A m \in Node : proc'[m].sock = proc[m].sock
      /\ \A m \in Node \ {n} : proc'[m].lpc = proc[m].lpc
      /\ proc'[n].lpc = "ok"
  BY DEF DataListenOk, TypeOK, Process
<1>3. \A m \in Node : Early(m)' = Early(m)
  BY <1>1 DEF Early
<1>4. Quiet'
  BY <1>1, <1>2, <1>3 DEF MeshInv, Quiet
<1>5. Slotted' /\ Downward' /\ Kept'
  BY <1>1, <1>2 DEF MeshInv, Slotted, Downward, Kept
<1>6. Full'
  <2>1. \A k \in Node \ {n} : proc[n].sock[nodeid2idx(n, k)] # NoSock
    <3>1. ASSUME NEW k \in Node, n < k PROVE proc[n].sock[nodeid2idx(n, k)] # NoSock
      <4>1. dial[k][n] = "taken"
        BY <1>1, <3>1, AllTaken
      <4>2. proc[n].sock[nodeid2idx(n, k)] = k
        BY <1>1, <4>1 DEF MeshInv, Kept
      <4> QED BY <4>2, Nodes DEF NoSock
    <3>2. ASSUME NEW k \in Node, k < n PROVE proc[n].sock[nodeid2idx(n, k)] # NoSock
      BY <1>1, <3>2, Nodes DEF LowerSet
    <3> QED BY <3>1, <3>2, Nodes
  <2> QED BY <1>2, <2>1 DEF MeshInv, Full
<1> QED BY <1>4, <1>5, <1>6 DEF MeshInv

\* A slave connects to a lower node.
LEMMA MeshDial ==
  ASSUME TypeOK, MeshInv, NEW n \in Slave, DataDial(n)
  PROVE  MeshInv'
<1>t. n \in Node /\ proc \in [Node -> Process] /\ proc[n] \in Process /\ proc[n].at \in Nat
  BY Nodes DEF TypeOK, Process
<1>1. PICK k \in Node : k = proc[n].at /\ k < n
  BY <1>t, Nodes DEF DataDial, Node
<1>2. pc' = pc /\ \A m \in Node : Early(m)' = Early(m)
  BY DEF DataDial, Early
<1>3. CASE UNCHANGED dial /\ proc' = [proc EXCEPT ![n].tries = @ + 1]
  <2>1. \A m \in Node : proc'[m].sock = proc[m].sock /\ proc'[m].lpc = proc[m].lpc
    BY <1>3, <1>t DEF Process
  <2> QED BY <1>2, <1>3, <2>1, MeshFrame
<1>4. CASE /\ dial' = [dial EXCEPT ![n][k] = "hello"]
           /\ proc' = [proc EXCEPT ![n].sock[nodeid2idx(n, k)] = k, ![n].at = k + 1, ![n].tries = 0]
  <2>1. /\ \A j, m \in Node : ~(j = n /\ m = k) => dial'[j][m] = dial[j][m]
        /\ dial'[n][k] = "hello"
    BY <1>4, <1>t DEF TypeOK
  <2>2. proc[n].sock \in [Slots -> Node \cup {NoSock}] /\ nodeid2idx(n, k) \in Slots /\ n # k
    BY <1>1, <1>t, SlotOfNode, Nodes DEF Process
  <2>3. \A m \in Node \ {n} : proc'[m] = proc[m]
    BY <1>4, <1>t
  <2>4. proc'[n].lpc = proc[n].lpc /\ proc'[n].sock = [proc[n].sock EXCEPT ![nodeid2idx(n, k)] = k]
    BY <1>4, <1>t DEF Process
  <2>5. /\ proc'[n].sock[nodeid2idx(n, k)] = k
        /\ \A j \in Node \ {n, k} : proc'[n].sock[nodeid2idx(n, j)] = proc[n].sock[nodeid2idx(n, j)]
    BY <1>t, <2>2, <2>4, SlotOfNode
  <2>6. Quiet'
    BY <1>2, <2>1, <2>3, <2>4 DEF MeshInv, Quiet
  <2>7. Slotted'
    BY <2>3, <2>5 DEF MeshInv, Slotted
  <2>8. Downward'
    BY <1>1, <2>1 DEF MeshInv, Downward
  <2>9. Kept'
    <3>1. \A j \in Node : dial'[j][n] = "taken" => j # n /\ j # k
      BY <1>1, <1>t, <2>8, Nodes DEF Downward
    <3>2. ASSUME NEW m \in Node, proc'[m].lpc \in {"run", "ok"}, NEW j \in Node, dial'[j][m] = "taken"
          PROVE  proc'[m].sock[nodeid2idx(m, j)] = j
      <4>1. dial[j][m] = "taken" /\ proc[m].lpc \in {"run", "ok"}
        BY <1>1, <1>t, <2>1, <2>3, <2>4, <3>2
      <4>2. proc[m].sock[nodeid2idx(m, j)] = j
        BY <4>1 DEF MeshInv, Kept
      <4>3. CASE m = n
        BY <2>5, <3>1, <3>2, <4>2, <4>3
      <4>4. CASE m # n
        BY <2>3, <4>2, <4>4
      <4> QED BY <4>3, <4>4
    <3> QED BY <3>2 DEF Kept
  <2>10. Full'
    <3>1. k # NoSock
      BY <1>1, Nodes DEF NoSock
    <3>2. ASSUME NEW m \in Node, proc'[m].lpc = "ok", NEW j \in Node \ {m}
          PROVE  proc'[m].sock[nodeid2idx(m, j)] # NoSock
      <4>1. proc[m].lpc = "ok"
        BY <1>t, <2>3, <2>4, <3>2
      <4>2. proc[m].sock[nodeid2idx(m, j)] # NoSock
        BY <4>1 DEF MeshInv, Full
      <4>3. CASE m = n
        BY <2>5, <3>1, <4>2, <4>3
      <4>4. CASE m # n
        BY <2>3, <4>2, <4>4
      <4> QED BY <4>3, <4>4
    <3> QED BY <3>2 DEF Full
  <2> QED BY <2>6, <2>7, <2>8, <2>9, <2>10 DEF MeshInv
<1> QED BY <1>1, <1>3, <1>4 DEF DataDial

\* Where the main thread of node n goes, the other threads do not.
LEMMA GotoOnly ==
  ASSUME TypeOK, NEW n \in Node, NEW l, Goto(n, l)
  PROVE  /\ pc'[n] = l /\ \A m \in Node \ {n} : pc'[m] = pc[m]
         /\ \A m \in Node \ {n} : Early(m)' = Early(m)
<1>1. pc'[n] = l /\ \A m \in Node \ {n} : pc'[m] = pc[m]
  BY DEF TypeOK, Goto
<1> QED BY <1>1 DEF Early

\* InitStorage is called before AcInit, which a slave without a cache calls next.
LEMMA InitStorageMesh ==
  ASSUME TypeOK, MeshInv, NEW n \in Node, Early(n), InitStorage(n), UNCHANGED dial
  PROVE  MeshInv'
<1>1. /\ \A m \in Node : proc'[m].sock = proc[m].sock
      /\ \A m \in Node \ {n} : proc'[m].lpc = proc[m].lpc
      /\ proc'[n].lpc = IF cache \/ n = 0 THEN "none" ELSE "run"
  BY DEF InitStorage, TypeOK, Process
<1>2. proc[n].lpc = "none"
  BY DEF MeshInv, Quiet
<1>3. \A m \in Node \ {n} : Early(m)' = Early(m)
  BY GotoOnly DEF InitStorage
<1>4. Early(n)' => cache \/ n = 0
  <2>1. ~cache /\ n # 0 => pc'[n] = "data"
    BY GotoOnly DEF InitStorage
  <2> QED BY <2>1 DEF Early
<1>5. \A m \in Node : /\ Early(m)' => Early(m) /\ proc'[m].lpc = proc[m].lpc
                      /\ proc'[m].lpc = proc[m].lpc \/ (Early(m) /\ proc'[m].lpc = "run")
  BY <1>1, <1>2, <1>3, <1>4
<1> QED BY <1>1, <1>5, MeshFrame

\* The steps of start-up.
LEMMA StartMesh ==
  ASSUME TypeOK, MeshInv, NEW n \in Node,
         \/ n \in Slave /\ SlaveStart(n)
         \/ n = 0 /\ (Connect \/ MasterHello \/ MasterStep)
         \/ n # 0 /\ (Accept(n) \/ ReadHello(n) \/ DataDial(n) \/ DataDialled(n))
         \/ CacheDial(n) \/ CacheReady(n) \/ WaitForReady(n) \/ Listener(n)
  PROVE  MeshInv'
<1>t. proc \in [Node -> Process] /\ pc \in [Node -> Place]
  BY DEF TypeOK
<1>1. CASE SlaveStart(n) \/ (n = 0 /\ Connect) \/ Accept(n) \/ (n # 0 /\ DataDialled(n)) \/ WaitForReady(n)
  <2>1. UNCHANGED <<dial, proc>>
    BY <1>1 DEF SlaveStart, Connect, Accept, DataDialled, WaitForReady, sockVars
  <2>2. \A m \in Node : Early(m)' => Early(m)
    BY <1>1, <1>t DEF SlaveStart, Connect, Accept, DataDialled, WaitForReady, Goto, Early
  <2> QED BY <2>1, <2>2, MeshFrame
<1>2. CASE n = 0 /\ MasterHello
  <2>1. UNCHANGED dial /\ Early(n)
    BY <1>2 DEF MasterHello, Early
  <2>2. CASE InitStorage(0)
    BY <1>2, <2>1, <2>2, InitStorageMesh
  <2>3. CASE proc' = [proc EXCEPT ![0].at = proc[0].at + 1] /\ Goto(0, "connect")
    <3>1. \A m \in Node : proc'[m].sock = proc[m].sock /\ proc'[m].lpc = proc[m].lpc
      BY <2>3, <1>t DEF Process
    <3>2. \A m \in Node : Early(m)' => Early(m)
      BY <1>2, <2>1, <2>3, GotoOnly
    <3> QED BY <2>1, <3>1, <3>2, MeshFrame
  <2> QED BY <1>2, <2>2, <2>3 DEF MasterHello
<1>3. CASE n = 0 /\ MasterStep
  <2>1. UNCHANGED dial /\ Early(n) /\ Goto(n, StepAfter(pc[n]))
    BY <1>3 DEF MasterStep, sockVars, Early
  <2>2. /\ \A m \in Node : proc'[m].sock = proc[m].sock
        /\ \A m \in Node \ {n} : proc'[m].lpc = proc[m].lpc
        /\ proc'[n].lpc = IF pc[0] = "data" THEN "run" ELSE proc[n].lpc
    BY <1>3, <1>t DEF MasterStep, Process
  <2>3. pc[0] = "data" => ~(Early(n)')
    BY <1>3, <2>1, GotoOnly, StepOrder DEF Early
  <2>4. \A m \in Node \ {n} : Early(m)' = Early(m)
    BY <2>1, GotoOnly
  <2>5. \A m \in Node : /\ Early(m)' => Early(m) /\ proc'[m].lpc = proc[m].lpc
                        /\ proc'[m].lpc = proc[m].lpc \/ (Early(m) /\ proc'[m].lpc = "run")
    BY <2>1, <2>2, <2>3, <2>4
  <2> QED BY <2>1, <2>2, <2>5, MeshFrame
<1>4. CASE ReadHello(n)
  <2>1. UNCHANGED dial /\ Early(n) /\ InitStorage(n)
    BY <1>4 DEF ReadHello, Early, sockVars
  <2> QED BY <2>1, InitStorageMesh
<1>5. CASE n # 0 /\ DataDial(n)
  BY <1>5, MeshDial, Nodes
<1>6. CASE CacheDial(n)
  <2>1. UNCHANGED <<dial, pc>>
    BY <1>6 DEF CacheDial
  <2>2. \/ proc' = [proc EXCEPT ![n].tries = 0] \/ proc' = [proc EXCEPT ![n].tries = @ + 1]
        \/ proc' = [proc EXCEPT ![n].at = proc[n].at + 1]
    BY <1>6 DEF CacheDial
  <2>3. \A m \in Node : proc'[m].sock = proc[m].sock /\ proc'[m].lpc = proc[m].lpc
    BY <1>t, <2>2 DEF Process
  <2>4. \A m \in Node : Early(m)' = Early(m)
    BY <2>1 DEF Early
  <2> QED BY <2>1, <2>3, <2>4, MeshFrame
<1>7. CASE CacheReady(n)
  <2>1. UNCHANGED dial /\ Early(n) /\ Goto(n, IF n = 0 THEN MasterSteps[1] ELSE "data")
    BY <1>7 DEF CacheReady, sockVars, Early
  <2>2. /\ \A m \in Node : proc'[m].sock = proc[m].sock
        /\ \A m \in Node \ {n} : proc'[m].lpc = proc[m].lpc
        /\ proc'[n].lpc = IF n = 0 THEN "none" ELSE "run"
    BY <1>7, <1>t DEF CacheReady, Process
  <2>3. n # 0 => ~(Early(n)')
    BY <2>1, GotoOnly DEF Early
  <2>4. proc[n].lpc = "none" /\ \A m \in Node \ {n} : Early(m)' = Early(m)
    BY <2>1, GotoOnly DEF MeshInv, Quiet
  <2>5. \A m \in Node : /\ Early(m)' => Early(m) /\ proc'[m].lpc = proc[m].lpc
                        /\ proc'[m].lpc = proc[m].lpc \/ (Early(m) /\ proc'[m].lpc = "run")
    BY <2>1, <2>2, <2>3, <2>4
  <2> QED BY <2>1, <2>2, <2>5, MeshFrame
<1>8. CASE CacheListen(n)
  <2>1. UNCHANGED <<dial, pc, proc>>
    BY <1>8 DEF CacheListen
  <2>2. \A m \in Node : Early(m)' = Early(m)
    BY <2>1 DEF Early
  <2> QED BY <2>1, <2>2, MeshFrame
<1>9. CASE DataListenOk(n)
  BY <1>9, MeshListenOk
<1>10. ASSUME NEW k \in Slave, DataAccept(n, k) PROVE MeshInv'
  BY <1>10, MeshAccept, Nodes
<1> QED BY <1>1, <1>2, <1>3, <1>4, <1>5, <1>6, <1>7, <1>8, <1>9, <1>10 DEF Listener

\* The main loop of a slave and its threads change no other process, and of
\* their own only the cached constant and the place of the thread.
LEMMA RemoteFields ==
  ASSUME TypeOK, NEW n \in Slave, SlaveMainLoop(n) \/ RemoteThread(n)
  PROVE  /\ \A m \in Node \ {n} : proc'[m] = proc[m]
         /\ proc'[n].sock = proc[n].sock /\ proc'[n].lpc = proc[n].lpc /\ proc'[n].at = proc[n].at
<1>t. n \in Node /\ proc \in [Node -> Process]
  BY Nodes DEF TypeOK
<1>1. \/ \E c, l : proc' = [proc EXCEPT ![n].const = c, ![n].tpc = l]
      \/ \E l : proc' = [proc EXCEPT ![n].tpc = l]
  BY Zenon DEF SlaveMainLoop, RemoteThread, ThreadBegin, ThreadStop, ThreadSet
<1>2. ASSUME NEW c, NEW l, proc' = [proc EXCEPT ![n].const = c, ![n].tpc = l]
      PROVE  /\ \A m \in Node \ {n} : proc'[m] = proc[m]
             /\ proc'[n].sock = proc[n].sock /\ proc'[n].lpc = proc[n].lpc /\ proc'[n].at = proc[n].at
  BY <1>t, <1>2 DEF Process
<1>3. ASSUME NEW l, proc' = [proc EXCEPT ![n].tpc = l]
      PROVE  /\ \A m \in Node \ {n} : proc'[m] = proc[m]
             /\ proc'[n].sock = proc[n].sock /\ proc'[n].lpc = proc[n].lpc /\ proc'[n].at = proc[n].at
  BY <1>t, <1>3 DEF Process
<1> QED BY <1>1, <1>2, <1>3

\* The data sockets of every reachable state.
LEMMA NextMesh == TypeOK /\ MeshInv /\ [Next]_vars => MeshInv'
<1> SUFFICES ASSUME TypeOK, MeshInv, [Next]_vars PROVE MeshInv'
  OBVIOUS
<1>t. proc \in [Node -> Process] /\ pc \in [Node -> Place]
  BY DEF TypeOK
<1>1. CASE UNCHANGED vars
  <2>1. UNCHANGED <<dial, pc, proc>>
    BY <1>1 DEF vars, sockVars
  <2>2. \A m \in Node : Early(m)' = Early(m)
    BY <2>1 DEF Early
  <2> QED BY <2>1, <2>2, MeshFrame
<1>2. CASE MasterListener \/ AliveRound \/ Restart \/ Program
  <2>1. UNCHANGED <<dial, proc>>
    BY <1>2 DEF MasterListener, MasterListen, ListenFails, AliveRound, Restart, RestartCluster,
                RestartCurrentProcess, Program, AssignConst, CreateThread, CloseCluster, sockVars
  <2>2. pc' = pc \/ Goto(0, "exec") \/ Goto(0, "closed")
    BY <1>2 DEF MasterListener, MasterListen, ListenFails, AliveRound, Restart, RestartCluster,
                RestartCurrentProcess, Program, AssignConst, CreateThread, CloseCluster
  <2>3. \A m \in Node : Early(m)' => Early(m)
    BY <1>t, <2>2 DEF Goto, Early
  <2> QED BY <2>1, <2>3, MeshFrame
<1>3. ASSUME NEW n \in Slave, SlaveMainLoop(n) \/ RemoteThread(n) PROVE MeshInv'
  <2>1. UNCHANGED <<dial, pc>>
    BY <1>3 DEF SlaveMainLoop, RemoteThread, ThreadBegin, ThreadStop, ThreadSet, sockVars
  <2>2. \A m \in Node : proc'[m].sock = proc[m].sock /\ proc'[m].lpc = proc[m].lpc
    BY <1>3, <1>t, RemoteFields, Nodes
  <2>3. \A m \in Node : Early(m)' = Early(m)
    BY <2>1 DEF Early
  <2> QED BY <2>1, <2>2, <2>3, MeshFrame
<1>4. ASSUME NEW n \in Node, End(n), UNCHANGED <<config, sockVars, assigned, tstate>> PROVE MeshInv'
  <2>1. UNCHANGED dial /\ proc'[n] = NewProcess /\ pc'[n] = "dead"
    BY <1>4, <1>t DEF End, Goto, sockVars
  <2>2. \A m \in Node \ {n} : proc'[m] = proc[m] /\ Early(m)' = Early(m)
    BY <1>4, <1>t, GotoOnly DEF End
  <2> QED BY <2>1, <2>2, MeshFrame
<1> QED BY <1>1, <1>2, <1>3, <1>4, Steps, StartMesh

\* AcInit builds the whole mesh of data sockets, for every number of nodes and
\* every order of connections, hellos and deaths: a node whose AcListenData has
\* set connection_ok has a socket to every other node, in the slot where
\* nodeid2idx and idx2nodeid look for it.
THEOREM MeshCompleteHolds == Spec => []MeshComplete
<1>1. Init => TypeOK /\ MeshInv
  BY InitType, MeshInit
<1>2. (TypeOK /\ MeshInv) /\ [Next]_vars => (TypeOK /\ MeshInv)'
  BY NextType, NextMesh
<1> QED BY <1>1, <1>2, MeshGives, PTL DEF Spec

-----------------------------------------------------------------------------
(* The commands of the slaves.                                             *)

\* The master calls AcInit after it has made the SyncManager.
Managed == pc[0] \in {"data", "ready", "main", "loop", "closed"} => zone.manager # "none"

\* A slave that has connected to the master's data port finds it past AcInit.
Passed(n) == pc[n] \in {"ready", "loop"} \/ (pc[n] = "data" /\ proc[n].at > 0)
Behind == \A n \in Slave : Passed(n) => ~Early(0)

\* Remote threads run beside the main loop.
Hosted == \A n \in Slave : proc[n].tpc # "none" => pc[n] = "loop"

\* What is sent to the master is there as long as the master is.
Reported == \A n \in Slave : toMaster[n] # <<>> => Runs(0) /\ ~Early(0)

CommandInv == Managed /\ Behind /\ Hosted /\ Reported

\* Initially no command is under way.
LEMMA CommandInit == Init => CommandInv
<1> SUFFICES ASSUME Init PROVE CommandInv
  OBVIOUS
<1>1. \A n \in Slave : pc[n] = "off" /\ proc[n].tpc = "none" /\ toMaster[n] = <<>>
  BY Nodes DEF Init, NewProcess
<1>2. pc[0] = "connect"
  BY Nodes DEF Init
<1> QED BY <1>1, <1>2 DEF CommandInv, Managed, Passed, Behind, Hosted, Reported

\* No command can reach the master before the SyncManager.
LEMMA CommandGives == CommandInv /\ TypeOK => NoEarlyCommand
<1> SUFFICES ASSUME CommandInv, TypeOK, NEW n \in Slave, toMaster[n] # <<>> PROVE zone.manager # "none"
  BY DEF NoEarlyCommand
<1>1. Runs(0) /\ ~Early(0)
  BY DEF CommandInv, Reported
<1>2. pc[0] \in Place
  BY Nodes DEF TypeOK
<1> QED BY <1>1, <1>2 DEF CommandInv, Managed, Runs, Early, Place

\* Steps of a slave that is starting: only a connection to the master's data
\* port, and the first request, matter.
LEMMA SlaveCommands ==
  ASSUME TypeOK, MeshInv, CommandInv, NEW n \in Slave,
         \/ SlaveStart(n) \/ Accept(n) \/ ReadHello(n) \/ DataDial(n) \/ DataDialled(n)
         \/ CacheDial(n) \/ CacheReady(n) \/ WaitForReady(n)
  PROVE  CommandInv'
<1>t. /\ proc \in [Node -> Process] /\ pc \in [Node -> Place] /\ n \in Node /\ n # 0 /\ 0 \in Node
      /\ toMaster \in [Slave -> Seq(Report)] /\ n \in Nat /\ n > 0
  BY Nodes DEF TypeOK, Slave
<1>1. zone' = zone /\ pc'[0] = pc[0]
  BY <1>t DEF SlaveStart, Accept, ReadHello, DataDial, DataDialled, CacheDial, CacheReady, WaitForReady, InitStorage, Goto
<1>2. Early(0)' = Early(0) /\ Runs(0)' = Runs(0)
  BY <1>1 DEF Early, Runs
<1>3. \A m \in Slave \ {n} : proc'[m] = proc[m] /\ pc'[m] = pc[m]
  BY <1>t, Nodes DEF SlaveStart, Accept, ReadHello, DataDial, DataDialled, CacheDial, CacheReady, WaitForReady, InitStorage, Goto
<1>4. Passed(n)' => ~Early(0)
  <2>1. CASE SlaveStart(n) \/ Accept(n)
    BY <1>t, <2>1 DEF SlaveStart, Accept, Goto, Passed
  <2>2. CASE ReadHello(n) \/ CacheReady(n)
    <3>1. proc'[n].at = 0 \/ pc'[n] = "mesh"
      BY <1>t, <2>2 DEF ReadHello, CacheReady, InitStorage, Goto, Process
    <3>2. pc'[n] \in {"mesh", "data"}
      BY <1>t, <2>2 DEF ReadHello, CacheReady, InitStorage, Goto
    <3> QED BY <3>1, <3>2 DEF Passed
  <2>3. CASE CacheDial(n)
    BY <1>t, <2>3 DEF CacheDial, Passed
  <2>4. CASE DataDial(n)
    <3>1. proc[n].at \in Nat /\ pc[n] = "data"
      BY <1>t, <2>4 DEF DataDial, Process
    <3>2. CASE proc[n].at > 0
      BY <3>1, <3>2 DEF CommandInv, Behind, Passed
    <3>3. CASE proc[n].at = 0 /\ DataOpen(0)
      BY <1>t, <3>3 DEF DataOpen, MeshInv, Quiet
    <3>4. CASE proc[n].at = 0 /\ ~DataOpen(0)
      <4>1. proc' = [proc EXCEPT ![n].tries = @ + 1] /\ pc' = pc
        BY <2>4, <3>4 DEF DataDial
      <4>2. proc'[n].at = 0
        BY <1>t, <3>4, <4>1 DEF Process
      <4> QED BY <3>1, <4>1, <4>2 DEF Passed
    <3> QED BY <3>1, <3>2, <3>3, <3>4
  <2>5. CASE DataDialled(n) \/ WaitForReady(n)
    <3>1. Passed(n)
      BY <1>t, <2>5 DEF DataDialled, WaitForReady, Passed
    <3> QED BY <3>1 DEF CommandInv, Behind
  <2> QED BY <2>1, <2>2, <2>3, <2>4, <2>5
<1>5. Hosted'
  <2>1. pc[n] # "loop"
    BY DEF SlaveStart, Accept, ReadHello, DataDial, DataDialled, CacheDial, CacheReady, WaitForReady
  <2>2. proc[n].tpc = "none"
    BY <2>1 DEF CommandInv, Hosted
  <2>3. proc'[n].tpc = proc[n].tpc
    <3>1. CASE SlaveStart(n) \/ Accept(n) \/ DataDialled(n) \/ WaitForReady(n)
      BY <3>1 DEF SlaveStart, Accept, DataDialled, WaitForReady
    <3>2. CASE ReadHello(n) \/ CacheReady(n)
      BY <1>t, <3>2 DEF ReadHello, CacheReady, InitStorage, Process
    <3>3. CASE CacheDial(n)
      BY <1>t, <3>3 DEF CacheDial, Process
    <3>4. CASE DataDial(n)
      BY <1>t, <3>4 DEF DataDial, Process
    <3> QED BY <3>1, <3>2, <3>3, <3>4
  <2> QED BY <1>3, <2>2, <2>3 DEF CommandInv, Hosted
<1>6. Reported'
  <2>1. CASE toMaster' = toMaster
    BY <1>2, <2>1 DEF CommandInv, Reported
  <2>2. CASE toMaster' # toMaster
    <3>1. WaitForReady(n) /\ toMaster' = ToMaster(n, "Request")
      BY <2>2 DEF SlaveStart, Accept, ReadHello, DataDial, DataDialled, CacheDial, CacheReady, WaitForReady, cmdVars
    <3>2. Runs(0) /\ \A m \in Slave \ {n} : toMaster'[m] = toMaster[m]
      BY <1>t, <2>2, <3>1 DEF ToMaster
    <3>3. ~Early(0)
      BY <3>1 DEF WaitForReady, CommandInv, Behind, Passed
    <3> QED BY <1>2, <3>2, <3>3 DEF CommandInv, Reported
  <2> QED BY <2>1, <2>2
<1>7. Managed'
  BY <1>1 DEF CommandInv, Managed
<1>8. Behind'
  <2>1. \A m \in Slave \ {n} : Passed(m)' = Passed(m)
    BY <1>3 DEF Passed
  <2> QED BY <1>2, <1>4, <2>1 DEF CommandInv, Behind
<1> QED BY <1>5, <1>6, <1>7, <1>8 DEF CommandInv

\* Steps of the master and of its threads.
LEMMA MasterCommands ==
  ASSUME TypeOK, CommandInv,
         \/ Connect \/ MasterHello \/ MasterStep \/ CacheDial(0) \/ CacheReady(0) \/ WaitForReady(0)
         \/ MasterListener \/ AliveRound \/ Restart \/ Program
  PROVE  CommandInv'
<1>t. /\ proc \in [Node -> Process] /\ pc \in [Node -> Place] /\ 0 \in Node /\ zone \in Zone
      /\ toMaster \in [Slave -> Seq(Report)] /\ 0 \notin Slave /\ 0 \notin Workers /\ Slave \subseteq Node
  BY Nodes, ClusterAssumption DEF TypeOK
<1>1. \A m \in Slave : proc'[m] = proc[m] /\ pc'[m] = pc[m]
  <2>1. CASE Connect \/ MasterHello \/ MasterStep \/ CacheDial(0) \/ CacheReady(0) \/ WaitForReady(0)
    BY <1>t, <2>1 DEF Connect, MasterHello, MasterStep, CacheDial, CacheReady, WaitForReady, InitStorage, Goto
  <2>2. CASE MasterListener \/ AliveRound \/ Restart \/ Program
    BY <1>t, <2>2 DEF MasterListener, MasterListen, ListenFails, AliveRound, Restart, RestartCluster,
          RestartCurrentProcess, Program, AssignConst, CreateThread, CloseCluster, Goto
  <2> QED BY <2>1, <2>2
<1>2. ~Early(0) => ~(Early(0)')
  <2>1. CASE Connect \/ MasterHello \/ MasterStep \/ CacheDial(0) \/ CacheReady(0)
    BY <2>1 DEF Connect, MasterHello, MasterStep, CacheDial, CacheReady, Early
  <2>2. CASE WaitForReady(0)
    BY <1>t, <2>2 DEF WaitForReady, Goto, Early
  <2>3. CASE MasterListener \/ AliveRound \/ Restart \/ Program
    <3>1. pc' = pc \/ Goto(0, "exec") \/ Goto(0, "closed")
      BY <2>3 DEF MasterListener, MasterListen, ListenFails, AliveRound, Restart, RestartCluster,
          RestartCurrentProcess, Program, AssignConst, CreateThread, CloseCluster
    <3> QED BY <1>t, <3>1 DEF Goto, Early
  <2> QED BY <2>1, <2>2, <2>3
<1>3. Managed'
  <2>1. CASE Connect \/ MasterHello \/ CacheDial(0) \/ CacheReady(0)
    <3>1. pc'[0] \in {"connect", "hello", "mesh", "listen"}
      BY <1>t, <2>1, StepOrder DEF Connect, MasterHello, CacheDial, CacheReady, InitStorage, Goto
    <3> QED BY <3>1 DEF Managed
  <2>2. CASE MasterStep
    <3>1. CASE pc[0] = "listen"
      <4>1. pc'[0] = "manager"
        BY <1>t, <2>2, <3>1, StepOrder DEF MasterStep, Goto
      <4> QED BY <4>1 DEF Managed
    <3>2. CASE pc[0] = "manager"
      <4>1. zone' = [zone EXCEPT !.manager = "live"]
        BY <2>2, <3>2 DEF MasterStep
      <4>2. zone'.manager = "live"
        BY <1>t, <4>1 DEF Zone
      <4> QED BY <4>2 DEF Managed
    <3>3. CASE pc[0] = "data"
      BY <2>2, <3>3 DEF MasterStep, CommandInv, Managed
    <3> QED BY <2>2, <3>1, <3>2, <3>3 DEF MasterStep
  <2>3. CASE WaitForReady(0)
    BY <2>3 DEF WaitForReady, CommandInv, Managed
  <2>4. CASE MasterListener \/ AliveRound
    <3>1. pc' = pc
      BY <2>4 DEF MasterListener, MasterListen, ListenFails, AliveRound
    <3>2. zone'.manager = zone.manager
      <4>1. ASSUME NEW m \in Slave, MasterListen(m) PROVE zone'.manager = zone.manager
        BY <1>t, <4>1 DEF MasterListen, Zone
      <4>2. ASSUME NEW m \in Slave, ListenFails(m) PROVE zone'.manager = zone.manager
        BY <1>t, <4>2 DEF ListenFails, Zone
      <4>3. ASSUME AliveRound PROVE zone'.manager = zone.manager
        BY <1>t, <4>3 DEF AliveRound, Zone
      <4> QED BY <2>4, <4>1, <4>2, <4>3 DEF MasterListener
    <3> QED BY <3>1, <3>2 DEF CommandInv, Managed
  <2>5. CASE Restart
    <3>1. CASE RestartCurrentProcess
      BY <1>t, <3>1 DEF RestartCurrentProcess, Goto, Managed
    <3>2. ASSUME NEW th \in {"alive", "listen"}, RestartCluster(th) PROVE Managed'
      <4>1. pc' = pc /\ zone'.manager = zone.manager
        BY <1>t, <3>2 DEF RestartCluster, Zone
      <4> QED BY <4>1 DEF CommandInv, Managed
    <3> QED BY <2>5, <3>1, <3>2 DEF Restart
  <2>6. CASE Program
    <3>1. CASE CloseCluster
      <4>1. zone'.manager = "deleted"
        BY <1>t, <3>1 DEF CloseCluster, Zone
      <4> QED BY <4>1 DEF Managed
    <3>2. CASE AssignConst \/ \E n \in Workers : CreateThread(n)
      BY <3>2 DEF AssignConst, CreateThread, CommandInv, Managed
    <3> QED BY <2>6, <3>1, <3>2 DEF Program
  <2> QED BY <2>1, <2>2, <2>3, <2>4, <2>5, <2>6
<1>4. Behind' /\ Hosted'
  <2>1. \A m \in Slave : Passed(m)' = Passed(m)
    BY <1>1 DEF Passed
  <2> QED BY <1>1, <1>2, <2>1 DEF CommandInv, Behind, Hosted
<1>5. Reported'
  <2>1. CASE RestartCurrentProcess
    BY <2>1 DEF RestartCurrentProcess, Reported
  <2>2. CASE ~RestartCurrentProcess
    <3>1. \A m \in Slave : toMaster'[m] # <<>> => toMaster[m] # <<>>
      <4>1. CASE MasterListener
        <5>1. ASSUME NEW n \in Slave, MasterListen(n) PROVE \A m \in Slave : toMaster'[m] # <<>> => toMaster[m] # <<>>
          BY <1>t, <5>1 DEF MasterListen
        <5> QED BY <4>1, <5>1 DEF MasterListener, ListenFails, cmdVars
      <4>2. CASE ~MasterListener
        BY <1>t, <2>2, <4>2 DEF Connect, MasterHello, MasterStep, CacheDial, CacheReady, WaitForReady, AliveRound,
             Restart, RestartCluster, Program, AssignConst, CreateThread, CloseCluster, cmdVars
      <4> QED BY <4>1, <4>2
    <3>2. Runs(0) => Runs(0)'
      <4>1. CASE Connect \/ MasterHello \/ MasterStep \/ CacheDial(0) \/ CacheReady(0) \/ WaitForReady(0)
        BY <1>t, <4>1, StepOrder DEF Connect, MasterHello, MasterStep, CacheDial, CacheReady, WaitForReady, InitStorage, Goto, Runs
      <4>2. CASE MasterListener \/ AliveRound \/ Restart \/ Program
        <5>1. pc' = pc \/ Goto(0, "closed")
          BY <2>2, <4>2 DEF MasterListener, MasterListen, ListenFails, AliveRound, Restart, RestartCluster,
              Program, AssignConst, CreateThread, CloseCluster
        <5> QED BY <1>t, <5>1 DEF Goto, Runs
      <4> QED BY <4>1, <4>2
    <3> QED BY <1>2, <3>1, <3>2 DEF CommandInv, Reported
  <2> QED BY <2>1, <2>2
<1> QED BY <1>3, <1>4, <1>5 DEF CommandInv

\* The listeners, the slaves' main loop and threads, and the end of a process.
LEMMA NextCommand == TypeOK /\ MeshInv /\ CommandInv /\ [Next]_vars => CommandInv'
<1> SUFFICES ASSUME TypeOK, MeshInv, CommandInv, [Next]_vars PROVE CommandInv'
  OBVIOUS
<1>t. /\ proc \in [Node -> Process] /\ pc \in [Node -> Place] /\ 0 \in Node /\ Slave \subseteq Node
      /\ toMaster \in [Slave -> Seq(Report)] /\ 0 \notin Slave
  BY Nodes DEF TypeOK
<1>f. ASSUME zone' = zone, pc' = pc, \A m \in Slave : proc'[m].at = proc[m].at PROVE Managed' /\ Behind'
  <2>1. \A m \in Slave : Passed(m)' = Passed(m)
    BY <1>f DEF Passed
  <2>2. Early(0)' = Early(0)
    BY <1>f DEF Early
  <2> QED BY <1>f, <2>1, <2>2 DEF CommandInv, Managed, Behind
<1>r. pc' = pc => Early(0)' = Early(0) /\ Runs(0)' = Runs(0)
  BY DEF Early, Runs
<1>1. CASE UNCHANGED vars
  <2>1. UNCHANGED <<pc, proc, zone, toMaster>>
    BY <1>1 DEF vars, cmdVars
  <2> QED BY <1>f, <1>r, <2>1 DEF CommandInv, Hosted, Reported
<1>2. ASSUME NEW n \in Node, Listener(n) PROVE CommandInv'
  <2>1. UNCHANGED <<pc, zone, toMaster>>
    BY <1>2 DEF Listener, CacheListen, DataAccept, DataListenOk, cmdVars
  <2>2. \A m \in Slave : proc'[m].at = proc[m].at /\ proc'[m].tpc = proc[m].tpc
    <3>1. ASSUME NEW l, proc' = [proc EXCEPT ![n].lpc = l]
          PROVE  \A m \in Slave : proc'[m].at = proc[m].at /\ proc'[m].tpc = proc[m].tpc
      BY <1>t, <3>1 DEF Process
    <3>2. ASSUME NEW i, NEW k, proc' = [proc EXCEPT ![n].sock[i] = k]
          PROVE  \A m \in Slave : proc'[m].at = proc[m].at /\ proc'[m].tpc = proc[m].tpc
      BY <1>t, <3>2 DEF Process
    <3>3. \/ proc' = proc \/ \E l : proc' = [proc EXCEPT ![n].lpc = l]
          \/ \E i, k : proc' = [proc EXCEPT ![n].sock[i] = k]
      BY <1>2, Zenon DEF Listener, CacheListen, DataAccept, DataListenOk
    <3> QED BY <3>1, <3>2, <3>3
  <2> QED BY <1>f, <1>r, <2>1, <2>2 DEF CommandInv, Hosted, Reported
<1>3. ASSUME NEW n \in Slave, SlaveMainLoop(n) \/ RemoteThread(n) PROVE CommandInv'
  <2>1. pc' = pc /\ zone' = zone
    BY <1>3 DEF SlaveMainLoop, RemoteThread, ThreadBegin, ThreadStop, ThreadSet
  <2>2. /\ \A m \in Slave : proc'[m].at = proc[m].at
        /\ \A m \in Slave \ {n} : proc'[m] = proc[m]
    BY <1>3, <1>t, RemoteFields
  <2>3. pc[n] = "loop"
    BY <1>3 DEF SlaveMainLoop, RemoteThread, ThreadBegin, ThreadStop, ThreadSet, CommandInv, Hosted
  <2>4. Hosted'
    BY <2>1, <2>2, <2>3 DEF CommandInv, Hosted
  <2>5. Reported'
    <3>1. ~Early(0)
      BY <2>3 DEF CommandInv, Behind, Passed
    <3>2. CASE toMaster' = toMaster
      BY <1>r, <2>1, <3>2 DEF CommandInv, Reported
    <3>3. CASE toMaster' # toMaster
      <4>1. toMaster' = ToMaster(n, "Alive") \/ toMaster' = ToMaster(n, "Set")
        BY <1>3, <3>3 DEF SlaveMainLoop, RemoteThread, ThreadBegin, ThreadStop, ThreadSet, cmdVars
      <4>2. Runs(0) /\ \A m \in Slave \ {n} : toMaster'[m] = toMaster[m]
        BY <1>t, <3>3, <4>1 DEF ToMaster
      <4> QED BY <1>r, <2>1, <3>1, <4>2 DEF CommandInv, Reported
    <3> QED BY <3>2, <3>3
  <2> QED BY <1>f, <2>1, <2>2, <2>4, <2>5 DEF CommandInv
<1>4. ASSUME NEW n \in Node, End(n), UNCHANGED <<config, sockVars, assigned, tstate>> PROVE CommandInv'
  <2>1. pc'[n] = "dead" /\ \A m \in Node \ {n} : pc'[m] = pc[m] /\ proc'[m] = proc[m]
    BY <1>4, <1>t DEF End, Goto
  <2>2. proc'[n] = NewProcess /\ proc'[n].tpc = "none"
    BY <1>4, <1>t DEF End, NewProcess
  <2>3. ~Early(0) => ~(Early(0)')
    BY <1>t, <2>1 DEF Early
  <2>4. Managed'
    BY <1>4, <1>t, <2>1 DEF End, CommandInv, Managed
  <2>5. Behind'
    <3>1. \A m \in Slave : Passed(m)' => Passed(m)
      BY <1>t, <2>1 DEF Passed
    <3> QED BY <2>3, <3>1 DEF CommandInv, Behind
  <2>6. Hosted'
    BY <1>t, <2>1, <2>2 DEF CommandInv, Hosted
  <2>7. Reported'
    <3>1. CASE n = 0
      BY <1>4, <3>1 DEF End, Reported
    <3>2. CASE n # 0
      <4>1. toMaster' = toMaster /\ pc'[0] = pc[0]
        BY <1>4, <1>t, <2>1, <3>2 DEF End
      <4>2. Runs(0)' = Runs(0)
        BY <4>1 DEF Runs
      <4> QED BY <2>3, <4>1, <4>2 DEF CommandInv, Reported
    <3> QED BY <3>1, <3>2
  <2> QED BY <2>4, <2>5, <2>6, <2>7 DEF CommandInv
<1>5. ASSUME NEW n \in Node, CacheDial(n) \/ CacheReady(n) \/ WaitForReady(n) PROVE CommandInv'
  BY <1>5, SlaveCommands, MasterCommands, Nodes
<1>6. ASSUME NEW n \in Node, n # 0, Accept(n) \/ ReadHello(n) \/ DataDial(n) \/ DataDialled(n) PROVE CommandInv'
  BY <1>6, SlaveCommands, Nodes
<1> QED BY <1>1, <1>2, <1>3, <1>4, <1>5, <1>6, Steps, SlaveCommands, MasterCommands

\* RcMasterListen never meets a command before RcMaster has made the
\* SyncManager, although it is started first: a slave sends nothing until it has
\* connected to the master's data port, which AcInit opens afterwards.
THEOREM NoEarlyCommandHolds == Spec => []NoEarlyCommand
<1>1. Init => TypeOK /\ MeshInv /\ CommandInv
  BY InitType, MeshInit, CommandInit
<1>2. (TypeOK /\ MeshInv /\ CommandInv) /\ [Next]_vars => (TypeOK /\ MeshInv /\ CommandInv)'
  BY NextType, NextMesh, NextCommand
<1>3. TypeOK /\ MeshInv /\ CommandInv => NoEarlyCommand
  BY CommandGives
<1> QED BY <1>1, <1>2, <1>3, PTL DEF Spec

-----------------------------------------------------------------------------
(* Remote threads.                                                         *)

\* The command to create a thread is sent once, after the constants were
\* assigned, and is there before the thread is.
Ordered ==
  \A n \in Slave : \A i \in 1 .. Len(toSlave[n]) : toSlave[n][i] = "CreateThread" =>
    /\ assigned /\ tstate[n] = "creating" /\ proc[n].tpc = "none"
    /\ \A j \in 1 .. Len(toSlave[n]) : toSlave[n][j] = "CreateThread" => i = j

\* The state of a thread tells where it is.
Staged ==
  \A n \in Slave :
    /\ proc[n].tpc = "start" => tstate[n] = "creating"
    /\ proc[n].tpc = "run" => tstate[n] = "running"
    /\ proc[n].tpc = "set" => tstate[n] = "stopped"

\* The event of a thread is set when it has stopped.
Joined ==
  \A n \in Slave :
    /\ \A i \in 1 .. Len(toMaster[n]) : toMaster[n][i] = "Set" => tstate[n] = "stopped"
    /\ zone.signal[n] => tstate[n] = "stopped"

\* Without checkpoints the first command of a slave creates a thread.
Loaded ==
  \A n \in Slave :
    /\ proc[n].tpc # "none" => proc[n].const # "unloaded"
    /\ ~ckpt => proc[n].const # "old" /\ \A i \in 1 .. Len(toSlave[n]) : toSlave[n][i] # "Alive"

ThreadInv == Ordered /\ Staged /\ Joined /\ Loaded

\* Initially no thread is ordered.
LEMMA ThreadInit == Init => ThreadInv
<1> SUFFICES ASSUME Init PROVE ThreadInv
  OBVIOUS
<1>1. \A n \in Slave : /\ toSlave[n] = <<>> /\ toMaster[n] = <<>> /\ ~zone.signal[n]
                       /\ proc[n].tpc = "none" /\ proc[n].const = "unloaded"
  BY Nodes DEF Init, NewProcess, NewZone
<1> QED BY <1>1 DEF ThreadInv, Ordered, Staged, Joined, Loaded

\* What the theorem needs of the invariant.
LEMMA ThreadGives == TypeOK /\ ThreadInv => RemoteThreads
<1> SUFFICES ASSUME TypeOK, ThreadInv PROVE RemoteThreads
  OBVIOUS
<1>1. \A n \in Slave : proc[n].const \in {"unloaded", "old", "new"}
  BY Nodes DEF TypeOK, Process
<1> QED BY <1>1 DEF ThreadInv, Joined, Loaded, RemoteThreads

\* A step that starts no thread, moves none, and sends neither CreateThread nor Set.
LEMMA ThreadFrame ==
  ASSUME ThreadInv, UNCHANGED <<ckpt, tstate>>, assigned => assigned',
         \A m \in Slave :
           /\ proc'[m].tpc = proc[m].tpc /\ proc'[m].const = proc[m].const
           /\ zone'.signal[m] => zone.signal[m]
           /\ \A i \in 1 .. Len(toSlave'[m]) :
                /\ toSlave'[m][i] = "CreateThread" => i \in 1 .. Len(toSlave[m]) /\ toSlave[m][i] = "CreateThread"
                /\ ~ckpt /\ toSlave'[m][i] = "Alive" => i \in 1 .. Len(toSlave[m]) /\ toSlave[m][i] = "Alive"
           /\ \A i \in 1 .. Len(toMaster'[m]) : toMaster'[m][i] = "Set" =>
                \E j \in 1 .. Len(toMaster[m]) : toMaster[m][j] = "Set"
  PROVE  ThreadInv'
<1>1. Ordered'
  BY DEF ThreadInv, Ordered
<1>2. Staged'
  BY DEF ThreadInv, Staged
<1>3. Joined'
  BY DEF ThreadInv, Joined
<1>4. Loaded'
  BY DEF ThreadInv, Loaded
<1> QED BY <1>1, <1>2, <1>3, <1>4 DEF ThreadInv

\* A command at the end of a queue.
LEMMA AppendEntries ==
  ASSUME NEW S, NEW s \in Seq(S), NEW c \in S
  PROVE  /\ Len(Append(s, c)) = Len(s) + 1 /\ Len(s) \in Nat
         /\ \A i \in 1 .. Len(Append(s, c)) :
              \/ i \in 1 .. Len(s) /\ Append(s, c)[i] = s[i]
              \/ i = Len(s) + 1 /\ Append(s, c)[i] = c
<1>1. Len(Append(s, c)) = Len(s) + 1 /\ Len(s) \in Nat
  OBVIOUS
<1>2. ASSUME NEW i \in 1 .. Len(Append(s, c))
      PROVE  \/ i \in 1 .. Len(s) /\ Append(s, c)[i] = s[i]
             \/ i = Len(s) + 1 /\ Append(s, c)[i] = c
  <2>1. i \in 1 .. Len(s) \/ i = Len(s) + 1
    BY <1>1, <1>2
  <2>2. CASE i \in 1 .. Len(s)
    BY <2>2
  <2>3. CASE i = Len(s) + 1
    BY <1>1, <2>3
  <2> QED BY <2>1, <2>2, <2>3
<1> QED BY <1>1, <1>2

\* The first command of a queue is taken.
LEMMA TailEntries ==
  ASSUME NEW S, NEW s \in Seq(S), s # <<>>
  PROVE  /\ 1 \in 1 .. Len(s) /\ Head(s) = s[1]
         /\ \A i \in 1 .. Len(Tail(s)) : i + 1 \in 1 .. Len(s) /\ Tail(s)[i] = s[i + 1] /\ i + 1 # 1
OBVIOUS

\* The commands sent to all slaves.
LEMMA SentEntries ==
  ASSUME TypeOK, NEW c \in Order, NEW m \in Slave, NEW i \in 1 .. Len(Sent(c)[m]), Sent(c)[m][i] # c
  PROVE  i \in 1 .. Len(toSlave[m]) /\ Sent(c)[m][i] = toSlave[m][i]
<1>1. toSlave[m] \in Seq(Order)
  BY DEF TypeOK
<1>2. Sent(c)[m] = toSlave[m] \/ Sent(c)[m] = Append(toSlave[m], c)
  BY DEF Sent
<1> QED BY <1>1, <1>2, AppendEntries

\* What a slave reports.
LEMMA ToMasterEntries ==
  ASSUME TypeOK, NEW n \in Slave, NEW c \in Report, NEW m \in Slave, NEW i \in 1 .. Len(ToMaster(n, c)[m]),
         ToMaster(n, c)[m][i] = "Set"
  PROVE  (m = n /\ c = "Set") \/ \E j \in 1 .. Len(toMaster[m]) : toMaster[m][j] = "Set"
<1>1. toMaster \in [Slave -> Seq(Report)] /\ toMaster[m] \in Seq(Report)
  BY DEF TypeOK
<1>2. ToMaster(n, c)[m] = toMaster[m] \/ (m = n /\ ToMaster(n, c)[m] = Append(toMaster[m], c))
  BY <1>1 DEF ToMaster
<1>3. CASE ToMaster(n, c)[m] = toMaster[m]
  BY <1>3
<1>4. CASE m = n /\ ToMaster(n, c)[m] = Append(toMaster[m], c)
  <2>1. i \in 1 .. Len(Append(toMaster[m], c)) /\ Append(toMaster[m], c)[i] = "Set"
    BY <1>4
  <2>2. (i \in 1 .. Len(toMaster[m]) /\ toMaster[m][i] = "Set") \/ c = "Set"
    BY <1>1, <2>1, AppendEntries
  <2> QED BY <1>4, <2>2
<1> QED BY <1>2, <1>3, <1>4

\* Start-up moves no thread.
LEMMA StartFields ==
  ASSUME TypeOK, NEW n \in Node,
         \/ SlaveStart(n) \/ Connect \/ MasterHello \/ MasterStep
         \/ Accept(n) \/ ReadHello(n) \/ DataDial(n) \/ DataDialled(n)
         \/ CacheDial(n) \/ CacheReady(n) \/ WaitForReady(n) \/ Listener(n)
  PROVE  \A m \in Node : proc'[m].tpc = proc[m].tpc /\ proc'[m].const = proc[m].const
<1>t. proc \in [Node -> Process]
  BY DEF TypeOK
<1>1. ASSUME NEW x \in Node, NEW a, NEW l,
             \/ proc' = proc \/ proc' = [proc EXCEPT ![x].at = a] \/ proc' = [proc EXCEPT ![x].tries = a]
             \/ proc' = [proc EXCEPT ![x].lpc = l] \/ proc' = [proc EXCEPT ![x].at = a, ![x].lpc = l]
      PROVE  \A m \in Node : proc'[m].tpc = proc[m].tpc /\ proc'[m].const = proc[m].const
  BY <1>t, <1>1 DEF Process
<1>2. ASSUME NEW x \in Node, NEW i, NEW k, proc' = [proc EXCEPT ![x].sock[i] = k]
      PROVE  \A m \in Node : proc'[m].tpc = proc[m].tpc /\ proc'[m].const = proc[m].const
  BY <1>t, <1>2 DEF Process
<1>3. CASE SlaveStart(n) \/ Connect \/ Accept(n) \/ DataDialled(n) \/ WaitForReady(n)
  BY <1>3 DEF SlaveStart, Connect, Accept, DataDialled, WaitForReady
<1>4. CASE MasterHello \/ ReadHello(n)
  <2>1. \E x \in Node : \E a, l : proc' = [proc EXCEPT ![x].at = a] \/ proc' = [proc EXCEPT ![x].at = a, ![x].lpc = l]
    BY <1>4, Nodes, Zenon DEF MasterHello, ReadHello, InitStorage
  <2> QED BY <1>1, <2>1
<1>5. CASE MasterStep \/ CacheReady(n) \/ CacheDial(n)
  <2>1. \E x \in Node : \E a, l : \/ proc' = proc \/ proc' = [proc EXCEPT ![x].at = a]
                                  \/ proc' = [proc EXCEPT ![x].tries = a]
                                  \/ proc' = [proc EXCEPT ![x].lpc = l] \/ proc' = [proc EXCEPT ![x].at = a, ![x].lpc = l]
    <3>1. CASE MasterStep
      BY <3>1, Nodes DEF MasterStep
    <3>2. CASE CacheReady(n)
      BY <3>2, Zenon DEF CacheReady
    <3>3. CASE CacheDial(n)
      BY <3>3, Zenon DEF CacheDial
    <3> QED BY <1>5, <3>1, <3>2, <3>3
  <2> QED BY <1>1, <2>1
<1>6. CASE DataDial(n)
  <2>1. CASE proc' = [proc EXCEPT ![n].sock[nodeid2idx(n, proc[n].at)] = proc[n].at, ![n].at = proc[n].at + 1,
                                  ![n].tries = 0]
    BY <1>t, <2>1 DEF Process
  <2>2. CASE proc' = [proc EXCEPT ![n].tries = @ + 1]
    BY <1>t, <2>2 DEF Process
  <2> QED BY <1>6, <2>1, <2>2 DEF DataDial
<1>7. CASE Listener(n)
  <2>1. \E i, k, l : \/ proc' = [proc EXCEPT ![n].sock[i] = k] \/ proc' = proc
                     \/ proc' = [proc EXCEPT ![n].lpc = l]
    BY <1>7, Zenon DEF Listener, CacheListen, DataAccept, DataListenOk
  <2> QED BY <1>1, <1>2, <2>1
<1> QED BY <1>3, <1>4, <1>5, <1>6, <1>7

\* Start-up keeps what is known of the threads.
LEMMA StartThreads ==
  ASSUME TypeOK, ThreadInv, NEW n \in Node,
         \/ n \in Slave /\ SlaveStart(n)
         \/ n = 0 /\ (Connect \/ MasterHello \/ MasterStep)
         \/ n # 0 /\ (Accept(n) \/ ReadHello(n) \/ DataDial(n) \/ DataDialled(n))
         \/ CacheDial(n) \/ CacheReady(n) \/ WaitForReady(n) \/ Listener(n)
  PROVE  ThreadInv'
<1>1. UNCHANGED <<config, tstate, assigned, toSlave>>
  BY DEF SlaveStart, Connect, MasterHello, MasterStep, Accept, ReadHello, DataDial, DataDialled, CacheDial,
         CacheReady, WaitForReady, Listener, CacheListen, DataAccept, DataListenOk, cmdVars
<1>2. \A m \in Slave : proc'[m].tpc = proc[m].tpc /\ proc'[m].const = proc[m].const
  BY StartFields, Nodes
<1>3. zone'.signal = zone.signal
  <2>1. CASE MasterStep
    BY <2>1 DEF MasterStep, TypeOK, Zone
  <2>2. CASE ~MasterStep
    BY <2>2 DEF SlaveStart, Connect, MasterHello, Accept, ReadHello, DataDial, DataDialled, CacheDial,
         CacheReady, WaitForReady, Listener, CacheListen, DataAccept, DataListenOk
  <2> QED BY <2>1, <2>2
<1>4. \A m \in Slave : \A i \in 1 .. Len(toMaster'[m]) : toMaster'[m][i] = "Set" =>
        \E j \in 1 .. Len(toMaster[m]) : toMaster[m][j] = "Set"
  <2>1. toMaster' = toMaster \/ (n \in Slave /\ toMaster' = ToMaster(n, "Request"))
    BY ClusterAssumption DEF SlaveStart, Connect, MasterHello, MasterStep, Accept, ReadHello, DataDial, DataDialled, CacheDial,
         CacheReady, WaitForReady, Listener, CacheListen, DataAccept, DataListenOk, cmdVars
  <2>2. CASE n \in Slave /\ toMaster' = ToMaster(n, "Request")
    BY <2>2, ToMasterEntries DEF Report
  <2> QED BY <2>1, <2>2
<1> QED BY <1>1, <1>2, <1>3, <1>4, ThreadFrame DEF config

\* The threads of the master and its program.
LEMMA MasterThreads ==
  ASSUME TypeOK, ThreadInv, MasterListener \/ AliveRound \/ Restart \/ Program
  PROVE  ThreadInv'
<1>t. /\ toSlave \in [Slave -> Seq(Order)] /\ toMaster \in [Slave -> Seq(Report)] /\ zone \in Zone
      /\ tstate \in [Slave -> {"none", "creating", "running", "stopped"}] /\ zone.signal \in [Slave -> BOOLEAN]
  BY DEF TypeOK, Zone
<1>u. UNCHANGED <<proc, ckpt>>
  BY DEF MasterListener, MasterListen, ListenFails, AliveRound, Restart, RestartCluster,
         RestartCurrentProcess, Program, AssignConst, CreateThread, CloseCluster, config
<1>1. ASSUME NEW n \in Slave, MasterListen(n) PROVE ThreadInv'
  <2>1. UNCHANGED <<toSlave, tstate, assigned>> /\ toMaster[n] # <<>> /\ toMaster[n] \in Seq(Report)
    BY <1>1, <1>t DEF MasterListen
  <2>2. toMaster'[n] = Tail(toMaster[n]) /\ \A m \in Slave \ {n} : toMaster'[m] = toMaster[m]
    BY <1>1, <1>t DEF MasterListen
  <2>3. \A i \in 1 .. Len(toMaster'[n]) : i + 1 \in 1 .. Len(toMaster[n]) /\ toMaster'[n][i] = toMaster[n][i + 1]
    BY <2>1, <2>2, TailEntries
  <2>4. \A m \in Slave : zone'.signal[m] => zone.signal[m] \/ (m = n /\ Head(toMaster[n]) = "Set")
    <3>1. CASE Head(toMaster[n]) = "Set" /\ zone' = [zone EXCEPT !.signal[n] = TRUE]
      <4>1. zone'.signal = [zone.signal EXCEPT ![n] = TRUE]
        BY <1>t, <3>1 DEF Zone
      <4> QED BY <1>t, <3>1, <4>1
    <3>2. CASE zone' = zone \/ zone' = [zone EXCEPT !.age[n] = 0]
      <4>1. zone'.signal = zone.signal
        BY <1>t, <3>2 DEF Zone
      <4> QED BY <4>1
    <3> QED BY <1>1, <3>1, <3>2 DEF MasterListen
  <2>5. Head(toMaster[n]) = toMaster[n][1] /\ 1 \in 1 .. Len(toMaster[n])
    BY <2>1, TailEntries
  <2>6. Joined'
    <3>1. \A m \in Slave : \A i \in 1 .. Len(toMaster'[m]) : toMaster'[m][i] = "Set" => tstate[m] = "stopped"
      BY <2>2, <2>3 DEF ThreadInv, Joined
    <3>2. \A m \in Slave : zone'.signal[m] => tstate[m] = "stopped"
      BY <2>4, <2>5 DEF ThreadInv, Joined
    <3> QED BY <2>1, <3>1, <3>2 DEF Joined
  <2>7. Ordered' /\ Staged' /\ Loaded'
    BY <1>u, <2>1 DEF ThreadInv, Ordered, Staged, Loaded
  <2> QED BY <2>6, <2>7 DEF ThreadInv
<1>2. ASSUME NEW n \in Slave, ListenFails(n) PROVE ThreadInv'
  <2>1. UNCHANGED <<toSlave, toMaster, tstate, assigned>>
    BY <1>2 DEF ListenFails, cmdVars
  <2>2. zone'.signal = zone.signal
    BY <1>2, <1>t DEF ListenFails, Zone
  <2> QED BY <1>u, <2>1, <2>2, ThreadFrame
<1>3. CASE AliveRound
  <2>1. UNCHANGED <<toMaster, tstate, assigned>> /\ ckpt /\ toSlave' = Sent("Alive")
    BY <1>3 DEF AliveRound, AliveThread
  <2>2. zone'.signal = zone.signal
    BY <1>3, <1>t DEF AliveRound, Zone
  <2>3. \A m \in Slave : \A i \in 1 .. Len(toSlave'[m]) : toSlave'[m][i] = "CreateThread" =>
          i \in 1 .. Len(toSlave[m]) /\ toSlave[m][i] = "CreateThread"
    BY <2>1, SentEntries DEF Order
  <2> QED BY <1>u, <2>1, <2>2, <2>3, ThreadFrame
<1>4. CASE Restart \/ CloseCluster
  <2>1. UNCHANGED <<tstate, assigned>>
    BY <1>4 DEF Restart, RestartCluster, RestartCurrentProcess, CloseCluster
  <2>2. \A m \in Slave : zone'.signal[m] => zone.signal[m]
    <3>1. CASE RestartCurrentProcess
      BY <3>1 DEF RestartCurrentProcess, NewZone
    <3>2. ASSUME NEW th \in {"alive", "listen"}, RestartCluster(th) PROVE zone'.signal = zone.signal
      BY <1>t, <3>2 DEF RestartCluster, Zone
    <3>3. CASE CloseCluster
      BY <1>t, <3>3 DEF CloseCluster, Zone
    <3> QED BY <1>4, <3>1, <3>2, <3>3 DEF Restart
  <2>3. toMaster' = toMaster \/ toMaster' = [m \in Slave |-> <<>>]
    BY <1>4 DEF Restart, RestartCluster, RestartCurrentProcess, CloseCluster
  <2>4. \A m \in Slave : \A i \in 1 .. Len(toMaster'[m]) : toMaster'[m][i] = "Set" =>
          \E j \in 1 .. Len(toMaster[m]) : toMaster[m][j] = "Set"
    BY <2>3
  <2>5. toSlave' = toSlave \/ toSlave' = Sent("Restart") \/ toSlave' = Sent("Close")
    BY <1>4 DEF Restart, RestartCluster, RestartCurrentProcess, CloseCluster
  <2>6. \A m \in Slave : \A i \in 1 .. Len(toSlave'[m]) : toSlave'[m][i] \in {"CreateThread", "Alive"} =>
          i \in 1 .. Len(toSlave[m]) /\ toSlave[m][i] = toSlave'[m][i]
    <3>1. CASE toSlave' = Sent("Restart")
      BY <3>1, SentEntries DEF Order
    <3>2. CASE toSlave' = Sent("Close")
      BY <3>2, SentEntries DEF Order
    <3> QED BY <2>5, <3>1, <3>2
  <2> QED BY <1>u, <2>1, <2>2, <2>4, <2>6, ThreadFrame
<1>5. CASE AssignConst
  <2>1. UNCHANGED <<toSlave, toMaster, tstate, zone>> /\ assigned'
    BY <1>5 DEF AssignConst, cmdVars
  <2> QED BY <1>u, <2>1, ThreadFrame
<1>6. ASSUME NEW n \in Workers, CreateThread(n) PROVE ThreadInv'
  <2>1. UNCHANGED <<toMaster, assigned, zone>> /\ assigned /\ tstate[n] = "none" /\ n \in Slave
    BY <1>6, ClusterAssumption DEF CreateThread
  <2>2. tstate'[n] = "creating" /\ \A m \in Slave \ {n} : tstate'[m] = tstate[m] /\ toSlave'[m] = toSlave[m]
    BY <1>6, <1>t, <2>1 DEF CreateThread
  <2>3. toSlave'[n] = toSlave[n] \/ toSlave'[n] = Append(toSlave[n], "CreateThread")
    BY <1>6, <1>t, <2>1 DEF CreateThread
  <2>4. \A i \in 1 .. Len(toSlave[n]) : toSlave[n][i] # "CreateThread"
    BY <2>1 DEF ThreadInv, Ordered
  <2>5. \A i \in 1 .. Len(toSlave'[n]) :
          \/ i \in 1 .. Len(toSlave[n]) /\ toSlave'[n][i] = toSlave[n][i]
          \/ i = Len(toSlave[n]) + 1 /\ toSlave'[n][i] = "CreateThread"
    <3>1. toSlave[n] \in Seq(Order) /\ "CreateThread" \in Order
      BY <1>t, <2>1 DEF Order
    <3>2. CASE toSlave'[n] = Append(toSlave[n], "CreateThread")
      BY <3>1, <3>2, AppendEntries
    <3> QED BY <2>3, <3>2
  <2>7. proc[n].tpc = "none"
    <3>1. proc[n].tpc \in {"none", "start", "run", "set"}
      BY <2>1, Nodes DEF TypeOK, Process
    <3> QED BY <2>1, <3>1 DEF ThreadInv, Staged
  <2>8. Ordered'
    BY <1>u, <2>1, <2>2, <2>4, <2>5, <2>7 DEF ThreadInv, Ordered
  <2>9. Staged'
    BY <1>u, <2>2, <2>7 DEF ThreadInv, Staged
  <2>10. Joined'
    BY <2>1, <2>2 DEF ThreadInv, Joined
  <2>11. Loaded'
    BY <1>u, <2>2, <2>5, <2>1 DEF ThreadInv, Loaded
  <2> QED BY <2>8, <2>9, <2>10, <2>11 DEF ThreadInv
<1> QED BY <1>1, <1>2, <1>3, <1>4, <1>5, <1>6 DEF MasterListener, Program

\* The slaves' main loop, their threads, and the end of a process.
LEMMA NextThreads == TypeOK /\ ThreadInv /\ [Next]_vars => ThreadInv'
<1> SUFFICES ASSUME TypeOK, ThreadInv, [Next]_vars PROVE ThreadInv'
  OBVIOUS
<1>t. /\ proc \in [Node -> Process] /\ Slave \subseteq Node /\ 0 \notin Slave
      /\ toSlave \in [Slave -> Seq(Order)] /\ toMaster \in [Slave -> Seq(Report)]
      /\ tstate \in [Slave -> {"none", "creating", "running", "stopped"}]
  BY Nodes DEF TypeOK
<1>1. CASE UNCHANGED vars
  <2>1. UNCHANGED <<ckpt, proc, zone, toSlave, toMaster, tstate, assigned>>
    BY <1>1 DEF vars, config, cmdVars
  <2> QED BY <2>1, ThreadFrame
<1>2. ASSUME NEW n \in Slave, SlaveMainLoop(n) PROVE ThreadInv'
  <2> DEFINE c == Head(toSlave[n])
  <2>1. UNCHANGED <<ckpt, zone, tstate, assigned>> /\ toSlave[n] # <<>> /\ toSlave[n] \in Seq(Order)
        /\ c \in {"Alive", "CreateThread"}
    BY <1>2, <1>t DEF SlaveMainLoop, config
  <2>2. toSlave'[n] = Tail(toSlave[n]) /\ \A m \in Slave \ {n} : toSlave'[m] = toSlave[m]
    BY <1>2, <1>t DEF SlaveMainLoop
  <2>3. \A i \in 1 .. Len(toSlave'[n]) :
          i + 1 \in 1 .. Len(toSlave[n]) /\ toSlave'[n][i] = toSlave[n][i + 1] /\ i + 1 # 1
    BY <2>1, <2>2, TailEntries
  <2>4. c = toSlave[n][1] /\ 1 \in 1 .. Len(toSlave[n])
    BY <2>1, TailEntries
  <2>5. \A m \in Slave : \A i \in 1 .. Len(toMaster'[m]) : toMaster'[m][i] = "Set" =>
          \E j \in 1 .. Len(toMaster[m]) : toMaster[m][j] = "Set"
    <3>1. toMaster' = toMaster \/ toMaster' = ToMaster(n, "Alive")
      BY <1>2 DEF SlaveMainLoop
    <3>2. CASE toMaster' = ToMaster(n, "Alive")
      BY <3>2, ToMasterEntries DEF Report
    <3> QED BY <3>1, <3>2
  <2>6. /\ \A m \in Slave \ {n} : proc'[m] = proc[m]
        /\ proc'[n].const = InitSharedConst(n)
        /\ proc'[n].tpc = IF c = "CreateThread" THEN "start" ELSE proc[n].tpc
    BY <1>2, <1>t DEF SlaveMainLoop, Process
  <2> HIDE DEF c
  <2>7. Joined'
    BY <2>1, <2>5 DEF ThreadInv, Joined
  <2>8. Staged'
    BY <2>1, <2>4, <2>6 DEF ThreadInv, Staged, Ordered
  <2>9. Ordered'
    <3>1. ASSUME NEW i \in 1 .. Len(toSlave'[n]), toSlave'[n][i] = "CreateThread"
          PROVE  /\ assigned /\ tstate[n] = "creating" /\ proc[n].tpc = "none" /\ c # "CreateThread"
                 /\ \A j \in 1 .. Len(toSlave'[n]) : toSlave'[n][j] = "CreateThread" => i = j
      <4>1. /\ assigned /\ tstate[n] = "creating" /\ proc[n].tpc = "none"
            /\ \A j \in 1 .. Len(toSlave[n]) : toSlave[n][j] = "CreateThread" => i + 1 = j
        BY <2>3, <3>1 DEF ThreadInv, Ordered
      <4>2. c # "CreateThread"
        <5>1. i + 1 # 1
          BY <2>3
        <5> QED BY <2>4, <4>1, <5>1
      <4>3. Len(toSlave'[n]) \in Nat
        BY <2>1, <2>2
      <4>4. ASSUME NEW j \in 1 .. Len(toSlave'[n]), toSlave'[n][j] = "CreateThread" PROVE i = j
        <5>1. i + 1 = j + 1
          BY <2>3, <4>1, <4>4
        <5> QED BY <4>3, <5>1
      <4> QED BY <4>1, <4>2, <4>4
    <3>2. \A i \in 1 .. Len(toSlave'[n]) : toSlave'[n][i] = "CreateThread" =>
            /\ assigned' /\ tstate'[n] = "creating" /\ proc'[n].tpc = "none"
            /\ \A j \in 1 .. Len(toSlave'[n]) : toSlave'[n][j] = "CreateThread" => i = j
      BY <2>1, <2>6, <3>1
    <3>3. ASSUME NEW m \in Slave \ {n} PROVE
            \A i \in 1 .. Len(toSlave'[m]) : toSlave'[m][i] = "CreateThread" =>
              /\ assigned' /\ tstate'[m] = "creating" /\ proc'[m].tpc = "none"
              /\ \A j \in 1 .. Len(toSlave'[m]) : toSlave'[m][j] = "CreateThread" => i = j
      <4>1. toSlave'[m] = toSlave[m] /\ proc'[m] = proc[m] /\ tstate'[m] = tstate[m] /\ assigned' = assigned
        BY <2>1, <2>2, <2>6
      <4> QED BY <4>1 DEF ThreadInv, Ordered
    <3> QED BY <3>2, <3>3 DEF Ordered
  <2>10. Loaded'
    <3>1. ~ckpt => c # "Alive" /\ proc[n].const # "old"
      BY <2>4 DEF ThreadInv, Loaded
    <3>2. c = "CreateThread" => assigned
      BY <2>4 DEF ThreadInv, Ordered
    <3>3. proc'[n].const # "unloaded" /\ (~ckpt => proc'[n].const # "old")
      BY <2>1, <2>6, <3>1, <3>2 DEF InitSharedConst
    <3>4. ~ckpt => \A i \in 1 .. Len(toSlave'[n]) : toSlave'[n][i] # "Alive"
      BY <2>3 DEF ThreadInv, Loaded
    <3>5. ASSUME NEW m \in Slave \ {n} PROVE
            /\ proc'[m].tpc # "none" => proc'[m].const # "unloaded"
            /\ ~ckpt => proc'[m].const # "old" /\ \A i \in 1 .. Len(toSlave'[m]) : toSlave'[m][i] # "Alive"
      <4>1. toSlave'[m] = toSlave[m] /\ proc'[m] = proc[m]
        BY <2>2, <2>6
      <4> QED BY <4>1 DEF ThreadInv, Loaded
    <3> QED BY <2>1, <3>3, <3>4, <3>5 DEF Loaded
  <2> QED BY <2>7, <2>8, <2>9, <2>10 DEF ThreadInv
<1>3. ASSUME NEW n \in Slave, RemoteThread(n) PROVE ThreadInv'
  <2>1. UNCHANGED <<ckpt, zone, toSlave, assigned>> /\ proc[n].tpc # "none"
    BY <1>3 DEF RemoteThread, ThreadBegin, ThreadStop, ThreadSet, config, cmdVars
  <2>2. /\ \A m \in Slave \ {n} : proc'[m] = proc[m] /\ tstate'[m] = tstate[m]
        /\ proc'[n].const = proc[n].const
        /\ \/ proc[n].tpc = "start" /\ proc'[n].tpc = "run" /\ tstate'[n] = "running" /\ toMaster' = toMaster
           \/ proc[n].tpc = "run" /\ proc'[n].tpc = "set" /\ tstate'[n] = "stopped" /\ toMaster' = toMaster
           \/ /\ proc[n].tpc = "set" /\ proc'[n].tpc = "none" /\ tstate' = tstate
              /\ toMaster' = ToMaster(n, "Set")
    <3>1. CASE ThreadBegin(n)
      BY <1>t, <3>1 DEF ThreadBegin, Process, cmdVars
    <3>2. CASE ThreadStop(n)
      BY <1>t, <3>2 DEF ThreadStop, Process, cmdVars
    <3>3. CASE ThreadSet(n)
      BY <1>t, <3>3 DEF ThreadSet, Process
    <3> QED BY <1>3, <3>1, <3>2, <3>3 DEF RemoteThread
  <2>3. \A i \in 1 .. Len(toSlave[n]) : toSlave[n][i] # "CreateThread"
    BY <2>1 DEF ThreadInv, Ordered
  <2>4. Ordered'
    BY <2>1, <2>2, <2>3 DEF ThreadInv, Ordered
  <2>5. Staged'
    BY <2>2 DEF ThreadInv, Staged
  <2>6. Joined'
    <3>1. ASSUME NEW m \in Slave, NEW i \in 1 .. Len(toMaster'[m]), toMaster'[m][i] = "Set"
          PROVE  tstate[m] = "stopped"
      <4>1. CASE toMaster' = toMaster
        BY <3>1, <4>1 DEF ThreadInv, Joined
      <4>2. CASE toMaster' = ToMaster(n, "Set") /\ proc[n].tpc = "set"
        <5>1. m = n \/ \E j \in 1 .. Len(toMaster[m]) : toMaster[m][j] = "Set"
          BY <3>1, <4>2, ToMasterEntries DEF Report
        <5> QED BY <4>2, <5>1 DEF ThreadInv, Joined, Staged
      <4> QED BY <2>2, <4>1, <4>2
    <3>2. tstate[n] = "stopped" => tstate'[n] = "stopped"
      BY <2>2 DEF ThreadInv, Staged
    <3> QED BY <2>1, <2>2, <3>1, <3>2 DEF ThreadInv, Joined
  <2>7. Loaded'
    BY <2>1, <2>2 DEF ThreadInv, Loaded
  <2> QED BY <2>4, <2>5, <2>6, <2>7 DEF ThreadInv
<1>4. ASSUME NEW n \in Node, End(n), UNCHANGED <<config, sockVars, assigned, tstate>> PROVE ThreadInv'
  <2>1. UNCHANGED <<ckpt, assigned, tstate>>
    BY <1>4 DEF config
  <2>2. \A m \in Slave : /\ m # n => proc'[m] = proc[m] /\ toSlave'[m] = toSlave[m]
                         /\ m = n => proc'[m].tpc = "none" /\ proc'[m].const = "unloaded" /\ toSlave'[m] = <<>>
    BY <1>4, <1>t DEF End, NewProcess
  <2>3. \A m \in Slave : /\ toMaster'[m] = toMaster[m] \/ toMaster'[m] = <<>>
                         /\ zone'.signal[m] => zone.signal[m]
    BY <1>4, <1>t DEF End, NewZone
  <2>4. Ordered'
    BY <2>1, <2>2 DEF ThreadInv, Ordered
  <2>5. Staged'
    BY <2>1, <2>2 DEF ThreadInv, Staged
  <2>6. Joined'
    BY <2>1, <2>3 DEF ThreadInv, Joined
  <2>7. Loaded'
    BY <2>1, <2>2 DEF ThreadInv, Loaded
  <2> QED BY <2>4, <2>5, <2>6, <2>7 DEF ThreadInv
<1> QED BY <1>1, <1>2, <1>3, <1>4, Steps, StartThreads, MasterThreads

\* A remote thread of a program without checkpoints sees the constants assigned
\* before it was created, and DThread::Join returns only for a thread that has
\* stopped, whatever dies or restarts meanwhile.
THEOREM RemoteThreadsHolds == Spec => []RemoteThreads
<1>1. Init => TypeOK /\ ThreadInv
  BY InitType, ThreadInit
<1>2. (TypeOK /\ ThreadInv) /\ [Next]_vars => (TypeOK /\ ThreadInv)'
  BY NextType, NextThreads
<1> QED BY <1>1, <1>2, ThreadGives, PTL DEF Spec
=============================================================================
