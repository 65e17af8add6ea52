------------------------------ MODULE Downloader ------------------------------
(***************************************************************************)
(* Block synchronisation with a set of peers: proton/handler.go's          *)
(* syncer and synchronise, downloader.Synchronise, syncWithPeer,           *)
(* spawnSync, fetchBlocks, Cancel, DeliverBlocks and processBlocks on      *)
(* the local node, the handler goroutine that reads each peer's            *)
(* messages, and each remote peer's GetBlocksMsg handler.  The future-     *)
(* block queue processBlocks consults is the SortedBlocks module.          *)
(*                                                                         *)
(* A peer's chain is 0..PeerHead[p], the number announced in its status   *)
(* handshake (peer.Head never changes after it).  A packet of blocks is   *)
(* its first number and its length.  The local chain is its head number:  *)
(* InsertChain of a contiguous list always opens its states here (the     *)
(* BlockChain module checks what happens when one does not) and makes the *)
(* last block the head.                                                   *)
(*                                                                         *)
(* Every tick of the syncer starts a new synchronise goroutine; sync s is *)
(* the s-th tick.  A cancel channel is named by the sync that made it.    *)
(***************************************************************************)
EXTENDS Naturals, Sequences, FiniteSets, SortedBlocks

CONSTANTS
    Peers,          \* the remote nodes
    PeerHead,       \* each one's head number, sent in its status message
    MaxBlockFetch,  \* downloader.MaxBlockFetch
    InitHeads,      \* local head numbers at the start
    MaxSyncs,       \* bound on the syncer's ticks that start a sync
    MaxConnects,    \* bound on reconnection attempts
    Overlap,        \* may a tick come while another goroutine is mid-way
                    \* (a sync still runs, a peer is registering)?
    Disconnects,    \* may a peer's stream break?
    NoPeer          \* a model value: no peer

Syncs == 1..MaxSyncs
NoChan == 0     \* d.cancelCh before the first sync: nil
TopHead == CHOOSE n \in {PeerHead[p] : p \in Peers} : \A q \in Peers : PeerHead[q] <= n

VARIABLES
    head,       \* CurrentBlock().Number = CurrentHeader().Number
    cancelCh,   \* d.cancelCh
    closed,     \* the cancel channels that are closed
    wg,         \* d.cancelWg's counter
    spc,        \* control point of each synchronise goroutine
    sp,         \* the peer each sync chose
    fpc,        \* control point of each sync's fetchBlocks goroutine
    from, end,  \* fetchBlocks' from and end
    fch,        \* the cancel channel a waiting fetchBlocks selects on
    fpkt,       \* the packet a fetchBlocks is inserting
    st,         \* each peer's registered stream: none, shook, reg, up, dead
    pmPeers,    \* pm.peers
    dlPeers,    \* d.peers
    connects,   \* reconnection attempts so far
    reqs,       \* GetBlocksMsg requests on their way to a peer
    resps,      \* per peer, BlocksMsg answers on the stream back, in order
    blockCh,    \* d.blockCh, capacity 1
    hpc,        \* per peer, the handler goroutine: reading, or in deliver
    hpkt,       \* per peer, the packet deliver is sending
    hch         \* per peer, the cancel channel deliver read

syncVars == <<spc, sp, fpc, from, end, fch, fpkt>>
peerVars == <<st, pmPeers, dlPeers, connects>>
netVars == <<reqs, resps>>
handlerVars == <<blockCh, hpc, hpkt, hch>>
vars == <<head, cancelCh, closed, wg, syncVars, peerVars, netVars, handlerVars>>

NoPkt == [peer |-> NoPeer, from |-> 0, n |-> 0]
Packets == [peer : Peers, from : 0..TopHead + 1, n : 0..MaxBlockFetch] \cup {NoPkt}
Requests == [peer : Peers, sync : Syncs, from : 0..TopHead + 1, amount : 0..MaxBlockFetch]

\* mutant: total := int(end - from), one short
BlocksTotalShort(f, e) ==
    IF e - f > MaxBlockFetch THEN MaxBlockFetch ELSE e - f

(***************************************************************************)
(* fetchBlocks' getBlocks: total := int(end - from + 1), capped at        *)
(* MaxBlockFetch, sent by a new goroutine, so two requests may reach the  *)
(* stream in either order (reqs is a set).  from never exceeds end + 1    *)
(* (syncWithPeer returns when the head is past end), so the uint64        *)
(* difference does not wrap.  The timer it resets is never selected on,   *)
(* so it has no effect.                                                   *)
(***************************************************************************)
BlocksTotal(f, e) ==
    IF e + 1 - f > MaxBlockFetch THEN MaxBlockFetch ELSE e + 1 - f

\* GetBlocksMsg {from, amount} for the blocks from f up to e
GetBlocks(p, s, f, e) == [peer |-> p, sync |-> s, from |-> f, amount |-> BlocksTotal(f, e)]

\* RequestBlocksByNumber: p2p.Send fails on a broken stream, and the
\* goroutine drops the error
SendRequest(r) == reqs' = IF st[r.peer] = "up" THEN reqs \cup {r} ELSE reqs

\* cancel(): close d.cancelCh unless it is nil or already closed
CancelCurrent == closed' = IF cancelCh = NoChan THEN closed ELSE closed \cup {cancelCh}

(***************************************************************************)
(* bestPeer over pm.peers: the first peer, then any with a higher number; *)
(* while the best number is 0 every peer replaces it.  Map order is      *)
(* random, so ties go either way.                                         *)
(***************************************************************************)
BestPeers ==
    IF \A p \in pmPeers : PeerHead[p] = 0
      THEN pmPeers
      ELSE {p \in pmPeers : \A q \in pmPeers : PeerHead[q] <= PeerHead[p]}

\* pm.synchronise starts Downloader.Synchronise: a best peer is ahead
SyncNeeded(p) == head < PeerHead[p]

(***************************************************************************)
(* The syncer's tick and pm.synchronise up to the Synchronise call: a     *)
(* best peer whose number is above the local head block.  (A tick with no *)
(* such peer changes nothing: SyncerIdle.)                                *)
(***************************************************************************)
Tick(s) ==
    /\ spc[s] = "idle"
    /\ \A t \in Syncs : t < s => spc[t] # "idle"
    /\ \/ Overlap
       \/ /\ \A t \in Syncs : t < s => spc[t] = "done"
          /\ \A p \in Peers : st[p] \notin {"shook", "reg"}
    /\ \E p \in BestPeers :
         /\ SyncNeeded(p)
         /\ spc' = [spc EXCEPT ![s] = "sync"]
         /\ sp' = [sp EXCEPT ![s] = p]
    /\ UNCHANGED <<head, cancelCh, closed, wg, fpc, from, end, fch, fpkt,
                   peerVars, netVars, handlerVars>>

\* mutant: spawnSync starts the fetcher without cancelWg.Add
SynchroniseNoAdd(s) ==
    /\ spc[s] = "sync"
    /\ cancelCh' = s
    /\ IF sp[s] \notin dlPeers \/ head > PeerHead[sp[s]]
         THEN spc' = [spc EXCEPT ![s] = "defer"] /\ UNCHANGED <<fpc, from, end, fch, reqs>>
         ELSE /\ spc' = [spc EXCEPT ![s] = "fetch"]
              /\ fpc' = [fpc EXCEPT ![s] = "wait"]
              /\ from' = [from EXCEPT ![s] = head + 1]
              /\ end' = [end EXCEPT ![s] = PeerHead[sp[s]]]
              /\ fch' = [fch EXCEPT ![s] = s]
              /\ SendRequest(GetBlocks(sp[s], s, head + 1, PeerHead[sp[s]]))
    /\ UNCHANGED <<head, closed, wg, sp, fpkt, peerVars, resps, handlerVars>>

(***************************************************************************)
(* Downloader.synchronise makes a new cancel channel (without looking at  *)
(* a sync already running) and returns errUnknownPeer for a peer d.peers  *)
(* does not hold; syncWithPeer reads the head header again and returns    *)
(* nil when it is past the peer's number, else takes origin = head + 1;   *)
(* spawnSync adds the fetcher to cancelWg and starts fetchBlocks, whose   *)
(* first getBlocks sends a request.  The deferred Cancel runs on return.  *)
(***************************************************************************)
Synchronise(s) ==
    /\ spc[s] = "sync"
    /\ cancelCh' = s
    /\ IF sp[s] \notin dlPeers \/ head > PeerHead[sp[s]]
         THEN spc' = [spc EXCEPT ![s] = "defer"] /\ UNCHANGED <<wg, fpc, from, end, fch, reqs>>
         ELSE /\ spc' = [spc EXCEPT ![s] = "fetch"]
              /\ wg' = wg + 1
              /\ fpc' = [fpc EXCEPT ![s] = "wait"]
              /\ from' = [from EXCEPT ![s] = head + 1]
              /\ end' = [end EXCEPT ![s] = PeerHead[sp[s]]]
              /\ fch' = [fch EXCEPT ![s] = s]
              /\ SendRequest(GetBlocks(sp[s], s, head + 1, PeerHead[sp[s]]))
    /\ UNCHANGED <<head, closed, sp, fpkt, peerVars, resps, handlerVars>>

(***************************************************************************)
(* The rest of fetchBlocks' loop body once processBlocks returned:        *)
(* from += len(blocks); while from < end, request the next range and      *)
(* select again on the cancel channel d.cancelCh now holds; otherwise     *)
(* return nil, and the goroutine's deferred cancelWg.Done runs.           *)
(***************************************************************************)
AfterProcess(s, p) ==
    LET nf == from[s] + p.n IN
    /\ from' = [from EXCEPT ![s] = nf]
    /\ IF nf < end[s]
         THEN /\ SendRequest(GetBlocks(sp[s], s, nf, end[s]))
              /\ fpc' = [fpc EXCEPT ![s] = "wait"]
              /\ fch' = [fch EXCEPT ![s] = cancelCh]
              /\ UNCHANGED wg
         ELSE /\ fpc' = [fpc EXCEPT ![s] = "done"]
              /\ wg' = wg - 1
              /\ UNCHANGED <<reqs, fch>>

\* mutant: processBlocks compares the first number with the head itself
FollowsHeadSame(p) == p.from = head

\* processBlocks' test: the first block's number is the head block's + 1
FollowsHead(p) == p.from = head + 1

(***************************************************************************)
(* fetchBlocks' select takes a packet from blockCh.  One from another     *)
(* peer is dropped: `break` leaves the select and the loop selects again. *)
(* handleMsg never delivers an empty list, so Items() > 0.  processBlocks *)
(* reads the head block; when the packet follows it, the goroutine goes   *)
(* on to InsertChain; otherwise queue.insert, which has a value receiver, *)
(* changes nothing and the loop body goes on.                             *)
(***************************************************************************)
FetchBlocksRecv(s) ==
    /\ fpc[s] = "wait" /\ blockCh # <<>>
    /\ blockCh' = Tail(blockCh)
    /\ LET p == Head(blockCh) IN
         CASE p.peer # sp[s] ->
                /\ fch' = [fch EXCEPT ![s] = cancelCh]
                /\ UNCHANGED <<fpc, fpkt, from, wg, reqs>>
           [] FollowsHead(p) ->
                /\ fpc' = [fpc EXCEPT ![s] = "insert"]
                /\ fpkt' = [fpkt EXCEPT ![s] = p]
                /\ UNCHANGED <<from, fch, wg, reqs>>
           [] OTHER -> AfterProcess(s, p) /\ UNCHANGED fpkt
    /\ UNCHANGED <<head, cancelCh, closed, spc, sp, end, peerVars, resps, hpc, hpkt, hch>>

(***************************************************************************)
(* InsertChain(blocks) without chainmu: each block becomes the head in    *)
(* turn, so the last one is the head.  peekContinuousBlocks on the empty  *)
(* queue gives an empty list, a no-op.  Then the loop body goes on.       *)
(***************************************************************************)
FetchInsert(s) ==
    /\ fpc[s] = "insert"
    /\ head' = fpkt[s].from + fpkt[s].n - 1
    /\ AfterProcess(s, fpkt[s])
    /\ UNCHANGED <<cancelCh, closed, spc, sp, end, fpkt, peerVars, resps, handlerVars>>

\* mutant: fetchBlocks returns on a cancel without cancelWg.Done
FetchCancelledNoDone(s) ==
    /\ fpc[s] = "wait" /\ fch[s] \in closed
    /\ fpc' = [fpc EXCEPT ![s] = "done"]
    /\ UNCHANGED <<head, cancelCh, closed, wg, spc, sp, from, end, fch, fpkt,
                   peerVars, netVars, handlerVars>>

\* the select's other case: the channel it selects on is closed
FetchCancelled(s) ==
    /\ fpc[s] = "wait" /\ fch[s] \in closed
    /\ fpc' = [fpc EXCEPT ![s] = "done"]
    /\ wg' = wg - 1
    /\ UNCHANGED <<head, cancelCh, closed, spc, sp, from, end, fch, fpkt,
                   peerVars, netVars, handlerVars>>

spawnOthers == <<head, cancelCh, wg, sp, fpc, from, end, fch, fpkt, peerVars, netVars, handlerVars>>

\* spawnSync receives the fetcher's error and calls Cancel: cancel()
SpawnSyncCancel(s) ==
    /\ spc[s] = "fetch" /\ fpc[s] = "done"
    /\ CancelCurrent
    /\ spc' = [spc EXCEPT ![s] = "wait1"]
    /\ UNCHANGED spawnOthers

\* Cancel's cancelWg.Wait() returns when no fetcher of any sync runs
SpawnSyncReturn(s) ==
    /\ spc[s] = "wait1" /\ wg = 0
    /\ spc' = [spc EXCEPT ![s] = "defer"]
    /\ UNCHANGED <<closed, spawnOthers>>

\* synchronise's deferred Cancel: cancel() ...
DeferCancel(s) ==
    /\ spc[s] = "defer"
    /\ CancelCurrent
    /\ spc' = [spc EXCEPT ![s] = "wait2"]
    /\ UNCHANGED spawnOthers

\* ... and cancelWg.Wait(); Synchronise and pm.synchronise then return
\* (none of the errors they see is one that drops the peer)
SynchroniseReturn(s) ==
    /\ spc[s] = "wait2" /\ wg = 0
    /\ spc' = [spc EXCEPT ![s] = "done"]
    /\ UNCHANGED <<closed, spawnOthers>>

(***************************************************************************)
(* A stream to p opens and the status handshake succeeds (both nodes are  *)
(* on one network and genesis): p.head and p.blockNumber are set once.    *)
(***************************************************************************)
Connect(p) ==
    /\ st[p] = "none"
    /\ st' = [st EXCEPT ![p] = "shook"]
    /\ UNCHANGED <<head, cancelCh, closed, wg, syncVars, pmPeers, dlPeers, connects,
                   netVars, handlerVars>>

\* handle: register in pm.peers (a plain map; "has exists" for a known id)
HandleRegister(p) ==
    /\ st[p] = "shook" /\ p \notin pmPeers
    /\ pmPeers' = pmPeers \cup {p}
    /\ st' = [st EXCEPT ![p] = "reg"]
    /\ UNCHANGED <<head, cancelCh, closed, wg, syncVars, dlPeers, connects,
                   netVars, handlerVars>>

\* handle: RegisterPeer with the downloader (peerSet.Register), then the
\* handleMsg loop
DownloaderRegister(p) ==
    /\ st[p] = "reg" /\ p \notin dlPeers
    /\ dlPeers' = dlPeers \cup {p}
    /\ st' = [st EXCEPT ![p] = "up"]
    /\ UNCHANGED <<head, cancelCh, closed, wg, syncVars, pmPeers, connects,
                   netVars, handlerVars>>

(***************************************************************************)
(* The stream breaks: what is in flight is lost, the handler's ReadMsg    *)
(* fails and handle returns.  Nothing calls removePeer (dropPeer only     *)
(* runs on errors synchronise never returns), so p stays in pm.peers and  *)
(* d.peers.                                                               *)
(***************************************************************************)
Disconnect(p) ==
    /\ Disconnects /\ st[p] = "up"
    /\ st' = [st EXCEPT ![p] = "dead"]
    /\ reqs' = {r \in reqs : r.peer # p}
    /\ resps' = [resps EXCEPT ![p] = <<>>]
    /\ UNCHANGED <<head, cancelCh, closed, wg, syncVars, pmPeers, dlPeers, connects,
                   handlerVars>>

\* a new stream to p: the protocol's Run, or handle after the handshake,
\* finds p's id in pm.peers and returns an error
Reconnect(p) ==
    /\ st[p] = "dead" /\ connects < MaxConnects /\ p \in pmPeers
    /\ connects' = connects + 1
    /\ UNCHANGED <<head, cancelCh, closed, wg, syncVars, st, pmPeers, dlPeers,
                   netVars, handlerVars>>

(***************************************************************************)
(* The peer's handleMsg on GetBlocksMsg: GetBlockByNumber(From + pos) for *)
(* pos < min(Amount, MaxBlockFetch), all at most its head here, sent back *)
(* as one BlocksMsg.  Its stream is read in order.                        *)
(***************************************************************************)
ServeGetBlocks(p) ==
    /\ st[p] = "up"
    /\ \E r \in reqs :
         /\ r.peer = p
         /\ reqs' = reqs \ {r}
         /\ resps' = [resps EXCEPT ![p] = Append(@, [peer |-> p, from |-> r.from, n |-> r.amount])]
    /\ UNCHANGED <<head, cancelCh, closed, wg, syncVars, peerVars, handlerVars>>

(***************************************************************************)
(* The local handleMsg on BlocksMsg: an empty list is dropped; otherwise  *)
(* DeliverBlocks -> deliver reads d.cancelCh under the read lock and      *)
(* returns errNoSyncActive when it is nil.                                *)
(***************************************************************************)
HandleBlocksMsg(p) ==
    /\ st[p] = "up" /\ hpc[p] = "read" /\ resps[p] # <<>>
    /\ resps' = [resps EXCEPT ![p] = Tail(@)]
    /\ LET pk == Head(resps[p]) IN
         IF pk.n > 0 /\ cancelCh # NoChan
           THEN /\ hpc' = [hpc EXCEPT ![p] = "send"]
                /\ hpkt' = [hpkt EXCEPT ![p] = pk]
                /\ hch' = [hch EXCEPT ![p] = cancelCh]
           ELSE UNCHANGED <<hpc, hpkt, hch>>
    /\ UNCHANGED <<head, cancelCh, closed, wg, syncVars, peerVars, reqs, blockCh>>

\* deliver's select: the send on blockCh when it has room ...
DeliverSend(p) ==
    /\ hpc[p] = "send" /\ Len(blockCh) < 1
    /\ blockCh' = Append(blockCh, hpkt[p])
    /\ hpc' = [hpc EXCEPT ![p] = "read"]
    /\ hpkt' = [hpkt EXCEPT ![p] = NoPkt]
    /\ hch' = [hch EXCEPT ![p] = NoChan]
    /\ UNCHANGED <<head, cancelCh, closed, wg, syncVars, peerVars, netVars>>

\* ... or the cancel channel it read, once closed (errNoSyncActive)
DeliverCancelled(p) ==
    /\ hpc[p] = "send" /\ hch[p] \in closed
    /\ hpc' = [hpc EXCEPT ![p] = "read"]
    /\ hpkt' = [hpkt EXCEPT ![p] = NoPkt]
    /\ hch' = [hch EXCEPT ![p] = NoChan]
    /\ UNCHANGED <<head, cancelCh, closed, wg, syncVars, peerVars, netVars, blockCh>>

\* a tick that starts no sync: the bound on syncs is reached, or no best
\* peer is ahead of the local head (pm.synchronise returns at once)
SyncerIdle ==
    /\ \/ \A s \in Syncs : spc[s] # "idle"
       \/ ~\E p \in BestPeers : SyncNeeded(p)
    /\ UNCHANGED vars

Init ==
    /\ head \in InitHeads
    /\ cancelCh = NoChan /\ closed = {} /\ wg = 0
    /\ spc = [s \in Syncs |-> "idle"] /\ sp = [s \in Syncs |-> NoPeer]
    /\ fpc = [s \in Syncs |-> "none"]
    /\ from = [s \in Syncs |-> 0] /\ end = [s \in Syncs |-> 0]
    /\ fch = [s \in Syncs |-> NoChan] /\ fpkt = [s \in Syncs |-> NoPkt]
    /\ st = [p \in Peers |-> "none"] /\ pmPeers = {} /\ dlPeers = {} /\ connects = 0
    /\ reqs = {} /\ resps = [p \in Peers |-> <<>>]
    /\ blockCh = <<>>
    /\ hpc = [p \in Peers |-> "read"] /\ hpkt = [p \in Peers |-> NoPkt]
    /\ hch = [p \in Peers |-> NoChan]

SyncStep(s) ==
    \/ Tick(s) \/ Synchronise(s) \/ FetchBlocksRecv(s) \/ FetchInsert(s)
    \/ FetchCancelled(s) \/ SpawnSyncCancel(s) \/ SpawnSyncReturn(s)
    \/ DeferCancel(s) \/ SynchroniseReturn(s)

PeerStep(p) ==
    \/ Connect(p) \/ HandleRegister(p) \/ DownloaderRegister(p)
    \/ Disconnect(p) \/ Reconnect(p)
    \/ ServeGetBlocks(p) \/ HandleBlocksMsg(p) \/ DeliverSend(p) \/ DeliverCancelled(p)

Next ==
    \/ \E s \in Syncs : SyncStep(s)
    \/ \E p \in Peers : PeerStep(p)
    \/ SyncerIdle

(***************************************************************************)
(* Every goroutine that can run eventually does: the ticker ticks, a      *)
(* peer's stream opens and registers, a peer answers while its stream is  *)
(* up, and a select with a ready case takes one.  The stream breaking and *)
(* reconnecting are not forced.                                            *)
(***************************************************************************)
Fairness ==
    /\ \A s \in Syncs :
         /\ WF_vars(Tick(s)) /\ WF_vars(Synchronise(s))
         /\ WF_vars(FetchBlocksRecv(s) \/ FetchCancelled(s))
         /\ WF_vars(FetchInsert(s)) /\ WF_vars(SpawnSyncCancel(s))
         /\ WF_vars(SpawnSyncReturn(s)) /\ WF_vars(DeferCancel(s))
         /\ WF_vars(SynchroniseReturn(s))
    /\ \A p \in Peers :
         /\ WF_vars(Connect(p)) /\ WF_vars(HandleRegister(p))
         /\ WF_vars(DownloaderRegister(p))
         /\ WF_vars(ServeGetBlocks(p)) /\ WF_vars(HandleBlocksMsg(p))
         /\ WF_vars(DeliverSend(p) \/ DeliverCancelled(p))

Spec == Init /\ [][Next]_vars /\ Fairness

-----------------------------------------------------------------------------

TypeOK ==
    /\ head \in 0..TopHead
    /\ cancelCh \in {NoChan} \cup Syncs /\ closed \subseteq Syncs
    /\ wg \in 0..MaxSyncs
    /\ spc \in [Syncs -> {"idle", "sync", "fetch", "wait1", "defer", "wait2", "done"}]
    /\ sp \in [Syncs -> Peers \cup {NoPeer}]
    /\ fpc \in [Syncs -> {"none", "wait", "insert", "done"}]
    /\ from \in [Syncs -> 0..TopHead + 1] /\ end \in [Syncs -> 0..TopHead]
    /\ fch \in [Syncs -> {NoChan} \cup Syncs] /\ fpkt \in [Syncs -> Packets]
    /\ st \in [Peers -> {"none", "shook", "reg", "up", "dead"}]
    /\ pmPeers \subseteq Peers /\ dlPeers \subseteq Peers /\ connects \in 0..MaxConnects
    /\ reqs \subseteq Requests /\ resps \in [Peers -> Seq(Packets)]
    /\ blockCh \in Seq(Packets) /\ Len(blockCh) <= 1
    /\ hpc \in [Peers -> {"read", "send"}] /\ hpkt \in [Peers -> Packets]
    /\ hch \in [Peers -> {NoChan} \cup Syncs]

(***************************************************************************)
(* cancelWg counts exactly the fetchBlocks goroutines that have not       *)
(* returned, so Cancel's Wait, in spawnSync and in synchronise's defer,   *)
(* returns only when no fetcher of any sync runs, and never before.       *)
(***************************************************************************)
CancelWgCounts == wg = Cardinality({s \in Syncs : fpc[s] \in {"wait", "insert"}})

(***************************************************************************)
(* Every synchronise goroutine the syncer starts eventually returns: no   *)
(* fetchBlocks waits forever for a packet or a cancel, and no Cancel      *)
(* waits forever on cancelWg.                                             *)
(***************************************************************************)
SyncTerminates == \A s \in Syncs : spc[s] # "idle" ~> spc[s] = "done"

(***************************************************************************)
(* Synchronisation implements ChainGrowth: the local head only moves      *)
(* forward, up to the best peer's head, and gets there.                   *)
(***************************************************************************)
Chain == INSTANCE ChainGrowth WITH Top <- TopHead, Starts <- InitHeads

ChainSpec == Chain!Spec

=============================================================================
