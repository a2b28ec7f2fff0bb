------------------------------- MODULE Cluster -------------------------------
(***************************************************************************)
(* The life of a Dogee cluster: the handshake of the master with each      *)
(* slave, the mesh of cache sockets, the mesh of data sockets, shared      *)
(* constants, remote threads, failure detection, restart and shutdown.     *)
(*                                                                         *)
(* An attempt to connect fails when nobody listens; how many attempts fit  *)
(* into the time the other side needs is not known, so a node may use up   *)
(* its attempts at any moment.  Processes may be killed.  A restart is     *)
(* followed to the execv of the master; Checkpoint goes on from there.     *)
(***************************************************************************)
EXTENDS Integers, Sequences, FiniteSets

CONSTANTS
  N,           \* num_nodes; node 0 is the master
  Configs,     \* <<with a directory cache, with checkpoint classes>>
  Workers,     \* the slaves on which the program creates a thread
  MaxSilent,   \* rounds of RcMasterAliveListen a slave may be silent: those that
               \* fit into 5 s, two of the 2 s the thread sleeps, fewer on a slow node
  MaxChecks,   \* bound on the rounds of RcMasterAliveListen
  MaxCrashes   \* bound on processes that are killed

Node == 0 .. N - 1
Slave == 1 .. N - 1
Slots == 0 .. N - 2
NoSock == -1

ASSUME ClusterAssumption ==
  /\ N \in Nat \ {0, 1}
  /\ Configs \subseteq BOOLEAN \X BOOLEAN /\ Workers \subseteq Slave
  /\ MaxSilent \in Nat /\ MaxChecks \in Nat /\ MaxCrashes \in Nat

Tries == 3        \* attempts of RcTryConnect and of the cache's constructor

VARIABLES
  cache, ckpt,  \* what this cluster uses
  pc,           \* where the main thread of each node is
  proc,         \* per node, the memory of its process
  zone,         \* the variables of MasterZone
  link,         \* per slave, the command socket: how far the handshake is
  call,         \* call[x][y]: the cache handshake x began with y > x
  dial,         \* dial[x][y]: the data connection x made to y < x
  toSlave, toMaster,   \* per slave, the commands on the command socket
  checks,       \* alive rounds so far
  assigned,     \* the program has assigned its shared constant
  tstate,       \* per slave, the state field of its DThread
  crashes

config == <<cache, ckpt>>
sockVars == <<link, call, dial>>
cmdVars == <<toSlave, toMaster>>
history == <<checks, crashes>>
vars == <<config, pc, proc, zone, sockVars, cmdVars, history, assigned, tstate>>

\* at and tries: the peer the node is connecting to, and failed attempts there.
\* lpc and sock: where AcListenData is, and the peer behind each of its slots.
\* const: the cached shared constant.  tpc: where the remote thread is.
NewProcess ==
  [at |-> 0, tries |-> 0, lpc |-> "none", sock |-> [i \in Slots |-> NoSock],
   const |-> "unloaded", tpc |-> "none"]

\* listening: RcMasterListen runs.  manager: syncmanager is none, live or deleted.
\* age: per slave, alive rounds since its clock was set.  alarm: the threads
\* about to call RestartCluster.  locked: restart_lock.  signal: per slave, the
\* event of its DThread is set.
NewZone ==
  [listening |-> FALSE, manager |-> "none", age |-> [n \in Slave |-> 0], alarm |-> {},
   locked |-> FALSE, closing |-> FALSE, signal |-> [n \in Slave |-> FALSE]]

Goto(n, l) == pc' = [pc EXCEPT ![n] = l]
Runs(n) == pc[n] \notin {"off", "dead", "exec"}

\* What is sent to a process that has ended is lost.
Sent(c) == [n \in Slave |-> IF pc[n] = "dead" THEN toSlave[n] ELSE Append(toSlave[n], c)]
ToMaster(n, c) == IF Runs(0) THEN [toMaster EXCEPT ![n] = Append(@, c)] ELSE toMaster

\* The process of node n ends, with its memory and what its socket held.
End(n) ==
  /\ Goto(n, "dead")
  /\ proc' = [proc EXCEPT ![n] = NewProcess]
  /\ zone' = IF n = 0 THEN NewZone ELSE zone
  /\ toSlave' = [k \in Slave |-> IF k = n THEN <<>> ELSE toSlave[k]]
  /\ toMaster' = IF n = 0 THEN [k \in Slave |-> <<>>] ELSE toMaster
-----------------------------------------------------------------------------
(* The handshake of RcMaster and RcSlave.                                  *)

\* A slave is started: RcCreateListen, then RcAccept.
SlaveStart(n) ==
  /\ pc[n] = "off"
  /\ Goto(n, "accept")
  /\ UNCHANGED <<config, proc, zone, sockVars, cmdVars, history, assigned, tstate>>

\* RcMaster connects to the next slave; one refusal ends the master.
Connect ==
  /\ pc[0] = "connect" /\ pc[proc[0].at] = "accept"
  /\ link' = [link EXCEPT ![proc[0].at] = "connected"]
  /\ Goto(0, "hello")
  /\ UNCHANGED <<config, proc, zone, call, dial, cmdVars, history, assigned, tstate>>

\* RcSlave accepts and sends SlaveInfo.
Accept(n) ==
  /\ pc[n] = "accept" /\ link[n] = "connected"
  /\ link' = [link EXCEPT ![n] = "slaveinfo"]
  /\ Goto(n, "info")
  /\ UNCHANGED <<config, proc, zone, call, dial, cmdVars, history, assigned, tstate>>

\* What RcMaster does when all slaves are greeted and the storage is there.
MasterStepsDataFirst == <<"listen", "data", "manager", "ready">>   \* mutant: AcInit first
MasterSteps == <<"listen", "manager", "data", "ready">>
StepAfter(l) == MasterSteps[1 + CHOOSE i \in 1 .. 3 : MasterSteps[i] = l]

\* InitStorage: with a cache, its constructor builds the mesh.  A slave goes on
\* with AcInit, which starts AcListenData.
InitStorage(n) ==
  /\ Goto(n, IF cache THEN "mesh" ELSE IF n = 0 THEN MasterSteps[1] ELSE "data")
  /\ proc' = [proc EXCEPT ![n].at = IF cache THEN n + 1 ELSE 0,
                          ![n].lpc = IF cache \/ n = 0 THEN "none" ELSE "run"]

\* RcMasterHello: MasterInfo and the lists of hosts.
MasterHello ==
  LET i == proc[0].at IN
  /\ pc[0] = "hello" /\ link[i] = "slaveinfo"
  /\ link' = [link EXCEPT ![i] = "hello"]
  /\ \/ i < N - 1 /\ proc' = [proc EXCEPT ![0].at = i + 1] /\ Goto(0, "connect")
     \/ i = N - 1 /\ InitStorage(0)
  /\ UNCHANGED <<config, zone, call, dial, cmdVars, history, assigned, tstate>>

\* RcSlave reads them.
ReadHello(n) ==
  /\ pc[n] = "info" /\ link[n] = "hello"
  /\ InitStorage(n)
  /\ UNCHANGED <<config, zone, sockVars, cmdVars, history, assigned, tstate>>

\* The peer of a handshake is not there, or is gone before it has answered.
HandshakeFails(n) ==
  \/ n = 0 /\ pc[0] = "connect" /\ pc[proc[0].at] \in {"off", "dead"}
  \/ n = 0 /\ pc[0] = "hello" /\ link[proc[0].at] = "connected" /\ pc[proc[0].at] = "dead"
  \/ n # 0 /\ pc[n] = "info" /\ link[n] # "hello" /\ pc[0] = "dead"
-----------------------------------------------------------------------------
(* The sockets of the directory cache: every node dials the higher nodes.  *)

CacheOpen(n) == cache /\ Runs(n) /\ pc[n] \notin {"accept", "info", "connect", "hello"}

\* The constructor of DSMCacheProtocal at x, for peer y: up to three attempts
\* at the control port, its hello and the answer; then one attempt at the data
\* port, its hello and the answer.
CacheDial(x) ==
  LET y == proc[x].at IN
  /\ pc[x] = "mesh" /\ y < N
  /\ \/ /\ call[x][y] \in {"none", "ctlok"} /\ CacheOpen(y)
        /\ call' = [call EXCEPT ![x][y] = IF @ = "none" THEN "ctl" ELSE "dat"]
        /\ proc' = [proc EXCEPT ![x].tries = 0]
     \/ /\ call[x][y] = "none" /\ ~CacheOpen(y) /\ proc[x].tries < Tries
        /\ proc' = [proc EXCEPT ![x].tries = @ + 1]
        /\ UNCHANGED call
     \/ /\ call[x][y] = "datok"
        /\ proc' = [proc EXCEPT ![x].at = y + 1]
        /\ UNCHANGED call
  /\ UNCHANGED <<config, pc, zone, link, dial, cmdVars, history, assigned, tstate>>

\* Its failures, each a breakpoint trap.
CacheFails(x) ==
  /\ pc[x] = "mesh" /\ proc[x].at < N
  /\ LET y == proc[x].at IN
     \/ call[x][y] = "none" /\ proc[x].tries = Tries
     \/ call[x][y] = "ctlok" /\ ~CacheOpen(y)
     \/ call[x][y] \in {"ctl", "dat"} /\ pc[y] = "dead"

RepliedControlOnly(s) == IF s = "ctl" THEN "ctlok" ELSE "datmute"   \* mutant: no answer on data
Replied(s) == IF s = "ctl" THEN "ctlok" ELSE "datok"

\* ListenSocketProc of node y: a control and a data connection in turn, each
\* from any lower node, each answered.
CacheListen(y) ==
  LET half == \E x \in 0 .. y - 1 : call[x][y] \in {"ctlok", "dat"} IN
  /\ pc[y] = "mesh"
  /\ \E x \in 0 .. y - 1 :
       /\ call[x][y] = IF half THEN "dat" ELSE "ctl"
       /\ call' = [call EXCEPT ![x][y] = Replied(@)]
  /\ UNCHANGED <<config, pc, proc, zone, link, dial, cmdVars, history, assigned, tstate>>

\* The constructor joins ListenSocketProc; a slave goes on with AcInit.
CacheReady(n) ==
  /\ pc[n] = "mesh" /\ proc[n].at = N
  /\ \A x \in 0 .. n - 1 : call[x][n] = "datok"
  /\ proc' = [proc EXCEPT ![n].at = 0, ![n].lpc = IF n = 0 THEN "none" ELSE "run"]
  /\ Goto(n, IF n = 0 THEN MasterSteps[1] ELSE "data")
  /\ UNCHANGED <<config, zone, sockVars, cmdVars, history, assigned, tstate>>
-----------------------------------------------------------------------------
(* The data sockets: every slave dials the master and the lower slaves.    *)

nodeid2idxSame(n, k) == IF k = 0 THEN 0 ELSE k - 1   \* mutant: the master always first
nodeid2idx(n, k) == IF k = 0 THEN n - 1 ELSE k - 1
idx2nodeid(n, i) == IF i = n - 1 THEN 0 ELSE i + 1

\* A slave's port is open as long as it runs; the master's from AcInit on, and
\* an execv does not close it.
DataOpen(n) ==
  IF n = 0 THEN proc[0].lpc # "none" ELSE pc[n] \notin {"off", "dead"}

\* AcSlaveInitDataConnections and RcTryConnect at slave n.
DataDial(n) ==
  LET k == proc[n].at IN
  /\ n # 0 /\ pc[n] = "data" /\ k < n
  /\ \/ /\ DataOpen(k)
        /\ dial' = [dial EXCEPT ![n][k] = "hello"]
        /\ proc' = [proc EXCEPT ![n].sock[nodeid2idx(n, k)] = k, ![n].at = k + 1, ![n].tries = 0]
     \/ /\ ~DataOpen(k) /\ proc[n].tries < Tries
        /\ proc' = [proc EXCEPT ![n].tries = @ + 1]
        /\ UNCHANGED dial
  /\ UNCHANGED <<config, pc, zone, link, call, cmdVars, history, assigned, tstate>>

DataDialled(n) ==
  /\ n # 0 /\ pc[n] = "data" /\ proc[n].at = n
  /\ Goto(n, "ready")
  /\ UNCHANGED <<config, proc, zone, sockVars, cmdVars, history, assigned, tstate>>

Taken(n) == {k \in Node : dial[k][n] = "taken"}
Connections(n) == N - 1 - n

\* AcListenData accepts a connection and reads the hello; one that was cut off
\* before its hello ends the thread.
DataAccept(n, k) ==
  /\ proc[n].lpc = "run" /\ Runs(n) /\ Cardinality(Taken(n)) < Connections(n)
  /\ dial[k][n] = "hello"
  /\ dial' = [dial EXCEPT ![k][n] = "taken"]
  /\ \/ proc' = [proc EXCEPT ![n].sock[nodeid2idx(n, k)] = k]
     \/ pc[k] = "dead" /\ proc' = [proc EXCEPT ![n].lpc = "gone"]
  /\ UNCHANGED <<config, pc, zone, link, call, cmdVars, history, assigned, tstate>>

\* Then it waits for the sockets the main thread sets, and sets connection_ok.
LowerSet(n) == \A k \in 0 .. n - 1 : proc[n].sock[nodeid2idx(n, k)] # NoSock

DataListenOk(n) ==
  /\ proc[n].lpc = "run" /\ Runs(n) /\ Cardinality(Taken(n)) = Connections(n) /\ LowerSet(n)
  /\ proc' = [proc EXCEPT ![n].lpc = "ok"]
  /\ UNCHANGED <<config, pc, zone, sockVars, cmdVars, history, assigned, tstate>>

\* AcWaitForReady, when connection_ok is set.  A slave then calls the program's
\* slave_init_proc, which may post a request to the master at once.
WaitForReady(n) ==
  /\ pc[n] = "ready" /\ proc[n].lpc = "ok"
  /\ Goto(n, IF n = 0 THEN "main" ELSE "loop")
  /\ toMaster' = IF n \in Workers THEN ToMaster(n, "Request") ELSE toMaster
  /\ UNCHANGED <<config, proc, zone, sockVars, toSlave, history, assigned, tstate>>

\* A peer could not be reached, or AcWaitForReady has waited five seconds.
DataFails(n) ==
  \/ pc[n] = "data" /\ proc[n].tries = Tries
  \/ pc[n] = "ready" /\ proc[n].lpc # "ok"
-----------------------------------------------------------------------------
(* The threads of the master.                                              *)

\* RcMaster starts RcMasterListen, makes the SyncManager and starts
\* RcMasterAliveListen, then calls AcInit.
MasterStep ==
  /\ pc[0] \in {"listen", "manager", "data"}
  /\ Goto(0, StepAfter(pc[0]))
  /\ zone' = CASE pc[0] = "listen"  -> [zone EXCEPT !.listening = TRUE]
               [] pc[0] = "manager" -> [zone EXCEPT !.manager = "live"]
               [] pc[0] = "data"    -> zone
  /\ proc' = IF pc[0] = "data" THEN [proc EXCEPT ![0].lpc = "run"] ELSE proc
  /\ UNCHANGED <<config, sockVars, cmdVars, history, assigned, tstate>>

\* RcMasterListen takes the next command of a slave; a SyncManager that has
\* been deleted may still seem to work.
MasterListen(n) ==
  LET c == Head(toMaster[n]) IN
  /\ zone.listening /\ zone.manager # "none" /\ Runs(0) /\ toMaster[n] # <<>>
  /\ toMaster' = [toMaster EXCEPT ![n] = Tail(@)]
  /\ zone' = CASE zone.manager = "live" /\ c = "Alive" -> [zone EXCEPT !.age[n] = 0]
               [] zone.manager = "live" /\ c = "Set"   -> [zone EXCEPT !.signal[n] = TRUE]
               [] OTHER -> zone
  /\ UNCHANGED <<config, pc, proc, sockVars, toSlave, history, assigned, tstate>>

\* A command that meets no SyncManager, or a deleted one, can kill the master.
ManagerGone ==
  /\ zone.listening /\ zone.manager # "live" /\ Runs(0)
  /\ \E n \in Slave : toMaster[n] # <<>>

AlarmOnClose == ckpt /\ zone.closing     \* mutant: the test of closing inverted
Alarm == ckpt /\ ~zone.closing
Raised(th) == IF Alarm THEN zone.alarm \cup {th} ELSE zone.alarm

\* A slave's socket has ended: RcMasterListen ends as well.
ListenFails(n) ==
  /\ zone.listening /\ Runs(0) /\ toMaster[n] = <<>> /\ pc[n] = "dead"
  /\ zone' = [zone EXCEPT !.listening = FALSE, !.alarm = Raised("listen")]
  /\ UNCHANGED <<config, pc, proc, sockVars, cmdVars, history, assigned, tstate>>

Late(n) == zone.age[n] + 1 > MaxSilent

\* A round of RcMasterAliveListen.
AliveThread == ckpt /\ zone.manager = "live" /\ Runs(0) /\ checks < MaxChecks
AliveRound ==
  /\ AliveThread /\ "alive" \notin zone.alarm
  /\ checks' = checks + 1
  /\ zone' = [zone EXCEPT
       !.age = [n \in Slave |-> IF Late(n) THEN @[n] ELSE @[n] + 1],
       !.alarm = IF \E n \in Slave : Late(n) THEN Raised("alive") ELSE @]
  /\ toSlave' = Sent("Alive")
  /\ UNCHANGED <<config, pc, proc, sockVars, toMaster, crashes, assigned, tstate>>

\* RestartCluster, called by the thread th: one caller gets the lock and tells
\* the slaves.
LockHeld == zone.locked
RestartCluster(th) ==
  /\ Runs(0) /\ th \in zone.alarm
  /\ zone' = [zone EXCEPT !.alarm = @ \ {th}, !.locked = TRUE]
  /\ \/ LockHeld /\ UNCHANGED toSlave
     \/ ~LockHeld /\ toSlave' = Sent("Restart")
  /\ UNCHANGED <<config, pc, proc, sockVars, toMaster, checks, crashes, assigned, tstate>>

\* Two seconds later it calls RestartCurrentProcess: CloseCluster and execv.
RestartCurrentProcess ==
  /\ Runs(0) /\ zone.locked
  /\ Goto(0, "exec")
  /\ zone' = NewZone
  /\ toSlave' = Sent("Close")
  /\ toMaster' = [n \in Slave |-> <<>>]
  /\ UNCHANGED <<config, proc, sockVars, history, assigned, tstate>>

\* When the program has closed the cluster, the second CloseCluster may abort.
ClosedTwice == pc[0] = "closed" /\ zone.locked
-----------------------------------------------------------------------------
(* The program: the master assigns a shared constant, creates threads on   *)
(* slaves and closes the cluster.                                          *)

AssignConst ==
  /\ pc[0] = "main" /\ ~assigned
  /\ assigned' = TRUE
  /\ UNCHANGED <<config, pc, proc, zone, sockVars, cmdVars, history, tstate>>

\* The constructor of DThread and RcCreateThread.
CreateThread(n) ==
  /\ pc[0] = "main" /\ assigned /\ tstate[n] = "none"
  /\ tstate' = [tstate EXCEPT ![n] = "creating"]
  /\ toSlave' = [toSlave EXCEPT ![n] = IF pc[n] = "dead" THEN @ ELSE Append(@, "CreateThread")]
  /\ UNCHANGED <<config, pc, proc, zone, sockVars, toMaster, history, assigned>>

CloseCluster ==
  /\ pc[0] = "main"
  /\ Goto(0, "closed")
  /\ zone' = [zone EXCEPT !.closing = TRUE, !.manager = "deleted"]
  /\ toSlave' = Sent("Close")
  /\ UNCHANGED <<config, proc, sockVars, toMaster, history, assigned, tstate>>

\* A send to a slave that has died may raise SIGPIPE, which is ignored only
\* from RestartCluster on.
BrokenPipe ==
  /\ ~zone.locked
  /\ \/ AliveThread /\ \E n \in Slave : pc[n] = "dead"
     \/ pc[0] = "main" /\ assigned /\ \E n \in Workers : tstate[n] = "none" /\ pc[n] = "dead"

\* InitSharedConst, before each command: the first one loads the constants.
InitSharedConstNever(n) == proc[n].const   \* mutant: constants not loaded
InitSharedConst(n) ==
  IF proc[n].const # "unloaded" THEN proc[n].const ELSE IF assigned THEN "new" ELSE "old"

\* RcSlaveMainLoop takes a command.
SlaveMainLoop(n) ==
  LET c == Head(toSlave[n]) IN
  /\ pc[n] = "loop" /\ toSlave[n] # <<>> /\ c \in {"Alive", "CreateThread"}
  /\ toSlave' = [toSlave EXCEPT ![n] = Tail(@)]
  /\ proc' = [proc EXCEPT ![n].const = InitSharedConst(n),
                          ![n].tpc = IF c = "CreateThread" THEN "start" ELSE @]
  /\ toMaster' = IF c = "Alive" THEN ToMaster(n, "Alive") ELSE toMaster
  /\ UNCHANGED <<config, pc, zone, sockVars, history, assigned, tstate>>

\* The slave leaves the loop: the cluster is closed, the socket has ended, or
\* it is told to restart.  A slave has no argument vector to restart itself
\* with (HelperInitCluster keeps it on the master only) and dies.
LeaveMainLoop(n) ==
  /\ n # 0 /\ pc[n] = "loop"
  /\ \/ toSlave[n] # <<>> /\ Head(toSlave[n]) \in {"Close", "Restart"}
     \/ toSlave[n] = <<>> /\ pc[0] = "dead"

\* ThThreadEntry: the state, the function, the state, Set.
ThreadBegin(n) ==
  /\ proc[n].tpc = "start"
  /\ tstate' = [tstate EXCEPT ![n] = "running"]
  /\ proc' = [proc EXCEPT ![n].tpc = "run"]
  /\ UNCHANGED <<config, pc, zone, sockVars, cmdVars, history, assigned>>

ThreadStop(n) ==
  /\ proc[n].tpc = "run"
  /\ tstate' = [tstate EXCEPT ![n] = "stopped"]
  /\ proc' = [proc EXCEPT ![n].tpc = "set"]
  /\ UNCHANGED <<config, pc, zone, sockVars, cmdVars, history, assigned>>

ThreadSet(n) ==
  /\ proc[n].tpc = "set"
  /\ toMaster' = ToMaster(n, "Set")
  /\ proc' = [proc EXCEPT ![n].tpc = "none"]
  /\ UNCHANGED <<config, pc, zone, sockVars, toSlave, history, assigned, tstate>>
-----------------------------------------------------------------------------
(* The end of processes.                                                   *)

\* On an error of start-up, or when its main loop is left, a process exits.
Stop(n) ==
  /\ HandshakeFails(n) \/ CacheFails(n) \/ DataFails(n) \/ LeaveMainLoop(n)
  /\ End(n)
  /\ UNCHANGED <<config, sockVars, history, assigned, tstate>>

\* The master exits after CloseCluster, or dies of one of its threads.
MasterStop ==
  /\ pc[0] = "closed" \/ ManagerGone \/ BrokenPipe \/ ClosedTwice
  /\ End(0)
  /\ UNCHANGED <<config, sockVars, history, assigned, tstate>>

Crash(n) ==
  /\ Runs(n) /\ crashes < MaxCrashes
  /\ crashes' = crashes + 1
  /\ End(n)
  /\ UNCHANGED <<config, sockVars, checks, assigned, tstate>>
-----------------------------------------------------------------------------
Init ==
  /\ \E c \in Configs : cache = c[1] /\ ckpt = c[2]
  /\ pc = [n \in Node |-> IF n = 0 THEN "connect" ELSE "off"]
  /\ proc = [n \in Node |-> IF n = 0 THEN [NewProcess EXCEPT !.at = 1] ELSE NewProcess]
  /\ zone = NewZone
  /\ link = [n \in Slave |-> "none"]
  /\ call = [x \in Node |-> [y \in Node |-> "none"]]
  /\ dial = [x \in Node |-> [y \in Node |-> "none"]]
  /\ toSlave = [n \in Slave |-> <<>>] /\ toMaster = [n \in Slave |-> <<>>]
  /\ assigned = FALSE
  /\ tstate = [n \in Slave |-> "none"]
  /\ checks = 0 /\ crashes = 0

MainThread(n) ==
  \/ n = 0 /\ (Connect \/ MasterHello \/ MasterStep)
  \/ n # 0 /\ (Accept(n) \/ ReadHello(n) \/ DataDial(n) \/ DataDialled(n) \/ SlaveMainLoop(n))
  \/ CacheDial(n) \/ CacheReady(n) \/ WaitForReady(n) \/ Stop(n)
\* The thread of ListenSocketProc, later that of AcListenData.
Listener(n) == CacheListen(n) \/ (\E k \in Slave : DataAccept(n, k)) \/ DataListenOk(n)
MasterListener == \E n \in Slave : MasterListen(n) \/ ListenFails(n)
Restart == (\E th \in {"alive", "listen"} : RestartCluster(th)) \/ RestartCurrentProcess
Program == AssignConst \/ (\E n \in Workers : CreateThread(n)) \/ CloseCluster
RemoteThread(n) == ThreadBegin(n) \/ ThreadStop(n) \/ ThreadSet(n)

Next ==
  \/ \E n \in Node : MainThread(n) \/ Listener(n) \/ Crash(n)
  \/ \E n \in Slave : SlaveStart(n)
  \/ \E n \in Workers : RemoteThread(n)
  \/ MasterListener \/ AliveRound \/ Restart \/ Program \/ MasterStop

Spec == Init /\ [][Next]_vars

\* Threads that can go on do so.  Nothing makes an operator start a slave, the
\* program go on, a process die or the alive thread wake up in time.
FairSpec ==
  /\ Spec
  /\ \A n \in Node : WF_vars(MainThread(n)) /\ WF_vars(Listener(n))
  /\ WF_vars(MasterListener) /\ WF_vars(Restart)
-----------------------------------------------------------------------------
(* Properties.                                                             *)

\* A node that uses the data sockets has one to every other node, and the slot
\* where it looks for a node (nodeid2idx) or finds the sender (idx2nodeid)
\* holds the socket to that node, in whatever order dials, accepts and the
\* hellos of other nodes came.
MeshComplete ==
  \A n \in Node : proc[n].lpc = "ok" =>
    \A k \in Node \ {n} : /\ proc[n].sock[nodeid2idx(n, k)] = k
                          /\ idx2nodeid(n, nodeid2idx(n, k)) = k

\* RcMaster starts its listener before there is a SyncManager; no command of a
\* slave can come that early.
NoEarlyCommand ==
  (\E n \in Slave : toMaster[n] # <<>>) => zone.manager # "none"

\* A remote thread sees the constants the master assigned before it created
\* the thread, in programs without checkpoints (with them an alive command may
\* make a slave load its constants before they are assigned); and DThread::Join
\* returns only when the thread's state says that it has stopped.
RemoteThreads ==
  \A n \in Slave :
    /\ ~ckpt /\ proc[n].tpc = "run" => proc[n].const = "new"
    /\ zone.signal[n] => tstate[n] = "stopped"

Starting(n) ==
  pc[n] \in (IF n = 0 THEN {"connect", "hello", "mesh", "listen", "manager", "data", "ready"}
             ELSE {"info", "mesh", "data", "ready"})

\* Start-up ends on every node that has begun it: nobody waits for ever for
\* a peer that waits as well.  Only the cache's listener has no limit, and
\* waits for ever when a peer has died.
StartUpEnds ==
  (\E n \in Node : Starting(n)) ~>
    ((\A n \in Node : ~Starting(n)) \/ (cache /\ \E k \in Node : pc[k] = "dead"))

\* With checkpoints the master, once it listens, does not go on with a slave
\* that has died: it restarts, stops, or closes the cluster.  (Before that, in
\* the mesh of the cache, it may wait for ever.)
DeathNoticed ==
  (ckpt /\ zone.listening /\ \E n \in Slave : pc[n] = "dead") ~> (pc[0] \in {"dead", "exec", "closed"})
=============================================================================
