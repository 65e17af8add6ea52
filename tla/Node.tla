-------------------------------- MODULE Node ---------------------------------
(***************************************************************************)
(* The node's lifecycle (node/node.go) as cmd/perception's main drives it, *)
(* composed with the p2p server it starts (the P2P module).                *)
(*                                                                         *)
(* perception(): makeFullNode, defer node.Stop(), startNode (n.Start, then *)
(* a goroutine that waits for SIGINT or SIGTERM and runs go n.Stop()),    *)
(* then node.Wait().  Start, Stop and Wait share n.lock, a sync.RWMutex:  *)
(* Start and Stop hold it for writing, Wait for reading.  A writer first  *)
(* takes the write side (wlock), which makes new readers wait, and then   *)
(* waits for the readers it found to leave.                               *)
(*                                                                         *)
(* n.Start builds the p2p server, runs the service constructors (Proton),  *)
(* srv.Init (the libp2p host), go srv.Start() and the services' Start;    *)
(* Proton.Start never fails, a constructor or Init may.  n.Stop stops the *)
(* services (Proton.Stop only prints), srv.Stop closes the host, which    *)
(* resets every stream, and closes n.stop.  When main returns or the      *)
(* process is killed, every goroutine ends with it.                       *)
(***************************************************************************)
EXTENDS P2P

VARIABLES
    mpc,      \* main: "start", "wait", "waiting", "stop", "drain", "exit", "killed"
    sg,       \* the signal goroutine: "none", "armed", "done"
    stp,      \* the goroutine go n.Stop() starts: "none", "stop", "drain", "done"
    readers,  \* n.lock's readers
    wlock,    \* who holds n.lock's write side: "none", "main", "stopper"
    nserver,  \* n.server # nil
    stopCh,   \* n.stop: "nil", "open", "closed"
    closes,   \* how many times close(n.stop) ran
    host,     \* srv.Host: "none", "open", "closed"
    srvpc     \* the goroutine running srv.Start: "none", "spawned", "loop"

nodeVars == <<mpc, sg, stp, readers, wlock, nserver, stopCh, closes, host, srvpc>>
allVars == <<vars, nodeVars>>

\* the process has ended: main returned, or a second signal killed it
Ended == mpc \in {"exit", "killed"}

-----------------------------------------------------------------------------
(* n.Start, under n.lock.  No other goroutine exists yet.                  *)

\* a service constructor (proton.New: OpenDatabase, NewBlockChain) or
\* srv.Init (libp2p.New, the DHT) returns an error: Start returns it before
\* go running.Start(), main panics, and the deferred node.Stop runs
StartFail ==
    /\ mpc = "start"
    /\ mpc' = "stop"
    /\ UNCHANGED <<vars, sg, stp, readers, wlock, nserver, stopCh, closes, host, srvpc>>

\* Init closes srv.Inited with the host set, go running.Start(),
\* Proton.Start (which waits on Inited, already closed) succeeds; n.server
\* and n.stop are set.  startNode then starts the signal goroutine.
Start ==
    /\ mpc = "start"
    /\ host' = "open"
    /\ srvpc' = "spawned"
    /\ nserver' = TRUE
    /\ stopCh' = "open"
    /\ mpc' = "wait"
    /\ sg' = "armed"
    /\ UNCHANGED <<vars, stp, readers, wlock, closes>>

\* srv.Start: SetStreamHandler and go findPeers, then its dial loop
SrvStart ==
    /\ srvpc = "spawned"
    /\ srvpc' = "loop"
    /\ UNCHANGED <<vars, mpc, sg, stp, readers, wlock, nserver, stopCh, closes, host>>

-----------------------------------------------------------------------------
(* Wait: n.lock.RLock, stop := n.stop, defer n.lock.RUnlock, <-stop.  The  *)
(* read lock is held while it blocks.                                       *)

WaitLock ==
    /\ mpc = "wait"
    /\ wlock = "none"
    /\ readers' = readers + 1
    /\ mpc' = "waiting"
    /\ UNCHANGED <<vars, sg, stp, wlock, nserver, stopCh, closes, host, srvpc>>

\* mutant: Wait returns without RUnlock
WaitRecvKeep ==
    /\ mpc = "waiting" /\ stopCh = "closed"
    /\ mpc' = "stop"
    /\ UNCHANGED <<vars, sg, stp, readers, wlock, nserver, stopCh, closes, host, srvpc>>

\* <-stop returns once n.stop is closed; the deferred RUnlock runs, main
\* returns from Wait and runs its deferred node.Stop()
WaitRecv ==
    /\ mpc = "waiting" /\ stopCh = "closed"
    /\ readers' = readers - 1
    /\ mpc' = "stop"
    /\ UNCHANGED <<vars, sg, stp, wlock, nserver, stopCh, closes, host, srvpc>>

-----------------------------------------------------------------------------
(* The signal goroutine.                                                   *)

\* <-sigc: the first SIGINT or SIGTERM; go n.Stop(), then the goroutine
\* returns and its deferred signal.Stop restores the default handling
Signal ==
    /\ sg = "armed"
    /\ sg' = "done"
    /\ stp' = "stop"
    /\ UNCHANGED <<vars, mpc, readers, wlock, nserver, stopCh, closes, host, srvpc>>

\* a later signal, with the default handling: the process is killed
Kill ==
    /\ sg = "done"
    /\ mpc' = "killed"
    /\ UNCHANGED <<vars, sg, stp, readers, wlock, nserver, stopCh, closes, host, srvpc>>

-----------------------------------------------------------------------------
(* n.Stop, by main's defer or by the stopper goroutine: Lock, then the    *)
(* body with the lock held.                                                *)

\* srv.Stop: srv.Host.Close() resets every stream of the host
HostClose ==
    /\ host' = "closed"
    /\ stream' = [c \in Conns |-> IF stream[c] = "open" THEN "broken" ELSE stream[c]]

\* mutant: Stop leaves n.server set
StopBodyKeep ==
    IF nserver
      THEN /\ HostClose
           /\ stopCh' = "closed" /\ closes' = closes + 1
           /\ UNCHANGED nserver
      ELSE UNCHANGED <<host, stream, nserver, stopCh, closes>>

\* "Node has stopped." when n.server is nil; else every service's Stop
\* (Proton's prints), n.server.Stop(), n.server = nil, close(n.stop)
StopBody ==
    IF nserver
      THEN /\ HostClose
           /\ nserver' = FALSE
           /\ stopCh' = "closed" /\ closes' = closes + 1
      ELSE UNCHANGED <<host, stream, nserver, stopCh, closes>>

\* Lock: take the write side; readers arriving later wait
StopLock(g) ==
    /\ wlock = "none"
    /\ wlock' = g
    /\ \/ g = "main" /\ mpc = "stop" /\ mpc' = "drain" /\ UNCHANGED stp
       \/ g = "stopper" /\ stp = "stop" /\ stp' = "drain" /\ UNCHANGED mpc
    /\ UNCHANGED <<vars, sg, readers, nserver, stopCh, closes, host, srvpc>>

\* once the readers have left, the body runs and Unlock releases the lock
StopRun(g) ==
    /\ wlock = g /\ readers = 0
    /\ StopBody
    /\ wlock' = "none"
    /\ \/ g = "main" /\ mpc = "drain" /\ mpc' = "exit" /\ UNCHANGED stp
       \/ g = "stopper" /\ stp = "drain" /\ stp' = "done" /\ UNCHANGED mpc
    /\ UNCHANGED <<peers, nconns, remote, cap, errs, rpc, rl, pl, closed, wg,
                   sg, readers, srvpc>>

-----------------------------------------------------------------------------
(* The p2p server inside the node: Start's dial loop and streamHandler    *)
(* run once srv.Start has registered the handler, and only on an open     *)
(* host; a Peer's goroutines run until the process ends.                   *)

ServerUp == srvpc = "loop" /\ host = "open"

InProcess(A) == ~Ended /\ A /\ UNCHANGED nodeVars

NodeInit ==
    /\ Init
    /\ mpc = "start" /\ sg = "none" /\ stp = "none"
    /\ readers = 0 /\ wlock = "none"
    /\ nserver = FALSE /\ stopCh = "nil" /\ closes = 0
    /\ host = "none" /\ srvpc = "none"

NodeNext ==
    \/ ~Ended /\ (StartFail \/ Start \/ SrvStart \/ WaitLock \/ WaitRecv \/ Signal \/ Kill)
    \/ ~Ended /\ \E g \in {"main", "stopper"} : StopLock(g) \/ StopRun(g)
    \/ ServerUp /\ InProcess(\E r \in Remotes : Dial(r) \/ Accept(r))
    \/ \E c \in Conns : InProcess(PeerStep(c))

(***************************************************************************)
(* Every goroutine that can run eventually does, and a Peer's ping timer  *)
(* fires; signals, discovery, remotes and broken streams are not forced.  *)
(***************************************************************************)
NodeFairness ==
    /\ WF_allVars(~Ended /\ (StartFail \/ Start \/ SrvStart \/ WaitLock \/ WaitRecv))
    /\ \A g \in {"main", "stopper"} : WF_allVars(~Ended /\ (StopLock(g) \/ StopRun(g)))
    /\ \A c \in Conns :
        /\ WF_allVars(InProcess(RunStart(c))) /\ WF_allVars(InProcess(ReadFail(c)))
        /\ WF_allVars(InProcess(ReadSend(c)))
        /\ WF_allVars(InProcess(PingFire(c) \/ PingClosed(c)))
        /\ WF_allVars(InProcess(PingSend(c))) /\ WF_allVars(InProcess(RunRecv(c)))
        /\ WF_allVars(InProcess(RunClose(c))) /\ WF_allVars(InProcess(RunReturn(c)))
        /\ WF_allVars(InProcess(RunDelete(c)))

NodeSpec == NodeInit /\ [][NodeNext]_allVars /\ NodeFairness

-----------------------------------------------------------------------------

NodeTypeOK ==
    /\ TypeOK
    /\ mpc \in {"start", "wait", "waiting", "stop", "drain", "exit", "killed"}
    /\ sg \in {"none", "armed", "done"}
    /\ stp \in {"none", "stop", "drain", "done"}
    /\ readers \in 0..1
    /\ wlock \in {"none", "main", "stopper"}
    /\ nserver \in BOOLEAN
    /\ stopCh \in {"nil", "open", "closed"}
    /\ closes \in 0..2
    /\ host \in {"none", "open", "closed"}
    /\ srvpc \in {"none", "spawned", "loop"}

(***************************************************************************)
(* n.stop is closed at most once.  After a signal's Stop, main's deferred *)
(* node.Stop() runs Stop a second time; the nil check on n.server and the *)
(* reset of n.server, both under n.lock, make it return "Node has         *)
(* stopped." instead of closing the closed channel, which would panic.    *)
(***************************************************************************)
StopClosedOnce == closes <= 1

(***************************************************************************)
(* Once n.stop is closed, main gets out of Wait and through its deferred  *)
(* Stop, and the process ends.                                             *)
(***************************************************************************)
MainReturns == stopCh = "closed" ~> Ended

SignalStops == sg = "done" ~> Ended

=============================================================================
