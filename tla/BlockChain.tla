------------------------------ MODULE BlockChain ------------------------------
(***************************************************************************)
(* BlockChain (proton/core/blockchain.go) over HeaderChain and the chain  *)
(* store: NewBlockChain and loadLastState at process start, with Reset,   *)
(* repair and the nested SetHead they reach; InsertChain block by block;  *)
(* SetHead(n) with its two callbacks.  The process may be killed between  *)
(* any two steps, losing its memory and SetHead's unwritten batch.        *)
(*                                                                         *)
(* Each step is one database put or a group of puts with no other effect  *)
(* between them.  The control point of the single chain writer is pc:     *)
(*   "down"       no process, or NewBlockChain about to run               *)
(*   "load"       loadLastState, called by NewBlockChain or by SetHead     *)
(*   "repair"     inside repair(&currentBlock)                             *)
(*   "sh"         inside HeaderChain.SetHead's loop, chainmu held          *)
(*   "ins_block", "ins_canon", "ins_head"   insertChain on Head(insQueue) *)
(*   "running"    no chain mutation in progress                            *)
(*   "blocked"    waiting forever for chainmu                              *)
(***************************************************************************)
EXTENDS HeaderChain

CONSTANTS
    Batches,          \* the block lists InsertChain is called with
    Targets,          \* the numbers SetHead is called with
    GenesisPrefixes,  \* which GenesisStore(k) a node may start on
    Prunable,         \* blocks whose state the trie database may lose
    PruneHead,        \* may it lose the state of the persisted head block
    MaxOps,           \* bound on InsertChain and SetHead calls
    MaxCrashes,       \* bound on process kills
    MaxPrunes         \* bound on lost states

VARIABLES
    currentBlock,  \* bc.currentBlock (a nil block until loadLastState)
    locked,        \* bc.chainmu is held
    pc,            \* control point, see above
    loadCaller,    \* who called loadLastState: "new" or "sethead"
    shTarget,      \* SetHead's head argument
    shCaller,      \* who called SetHead: "reset" or "api"
    shFrom,        \* history: currentBlock when SetHead was called
    repairHead,    \* repair's *head
    insQueue,      \* the blocks of the InsertChain call not yet inserted
    updateHeads,   \* insert's updateHeads, read before the canonical write
    ops, crashes, prunes

bcVars == <<currentBlock, locked, pc, loadCaller, shTarget, shCaller, shFrom,
            repairHead, insQueue, updateHeads>>
vars == <<storeVars, hcVars, bcVars, ops, crashes, prunes>>

-----------------------------------------------------------------------------
(* Returns from loadLastState.  A caller of loadLastState is NewBlockChain *)
(* or BlockChain.SetHead; the caller of SetHead is Reset (itself called   *)
(* from loadLastState under NewBlockChain) or an outside caller.          *)

\* the SetHead that returns is the one Reset called: ResetWithGenesisBlock
\* goes on to rewrite the genesis block, insert it and make it the head
ResetTail == loadCaller = "sethead" /\ shCaller = "reset"

\* loadLastState returns an error: NewBlockChain fails and the process
\* exits, or SetHead returns it to its outside caller
LoadReturnsError ==
    /\ UNCHANGED <<headers, bodies, canon, lastBlock, lastHeader, states, batch>>
    /\ IF loadCaller = "sethead" /\ shCaller = "api"
       THEN /\ pc' = "running" /\ locked' = FALSE
            /\ UNCHANGED <<currentBlock, currentHeader, currentHeaderHash>>
       ELSE /\ pc' = "down" /\ locked' = FALSE
            /\ currentBlock' = NoBlock /\ currentHeader' = NoBlock
            /\ currentHeaderHash' = NoBlock

\* the tail of loadLastState once the head block cb has an openable state,
\* with LastBlock = lb: store cb, take the head header from LastHeader if
\* that header exists (else cb's own), SetCurrentHeader it, and return nil
\* to the caller.  Under Reset, ResetWithGenesisBlock then writes the
\* genesis block, inserts it (canonical hash, LastBlock, currentBlock) and
\* makes it the head header.
FinishLoad(cb, lb) ==
    LET h == IF HeaderByHash(lastHeader) # NoBlock THEN lastHeader ELSE cb
    IN /\ pc' = "running" /\ locked' = FALSE
       /\ IF ResetTail
          THEN /\ currentBlock' = Genesis /\ SetCurrentHeader(Genesis)
               /\ WriteBlock(Genesis)
               /\ canon' = [canon EXCEPT ![0] = Genesis]
               /\ lastBlock' = Genesis
          ELSE /\ currentBlock' = cb /\ SetCurrentHeader(h)
               /\ lastBlock' = lb
               /\ UNCHANGED <<headers, bodies, canon>>
       /\ UNCHANGED <<states, batch>>

\* Reset -> ResetWithGenesisBlock -> SetHead(0), which first takes chainmu
Reset ==
    IF locked
    THEN /\ pc' = "blocked"
         /\ UNCHANGED <<storeVars, hcVars, currentBlock, locked, shTarget,
                        shCaller, shFrom>>
    ELSE /\ pc' = "sh" /\ locked' = TRUE
         /\ shTarget' = 0 /\ shCaller' = "reset" /\ shFrom' = currentBlock
         /\ UNCHANGED <<storeVars, hcVars, currentBlock>>

-----------------------------------------------------------------------------
(* Process start: NewBlockChain                                            *)

\* NewBlockChain: NewHeaderChain, the genesis block by number, a nil
\* current block, then loadLastState.  Without a genesis header or block it
\* returns an error and the node exits.
Start ==
    /\ pc = "down"
    /\ IF GenesisHeaderFound /\ BlockByNumber(0) # NoBlock
       THEN /\ NewHeaderChain
            /\ pc' = "load" /\ loadCaller' = "new"
       ELSE UNCHANGED <<hcVars, pc, loadCaller>>
    /\ currentBlock' = NoBlock
    /\ UNCHANGED <<storeVars, locked, shTarget, shCaller, shFrom, repairHead,
                   insQueue, updateHeads, ops, crashes, prunes>>

\* loadLastState: LastBlock missing or not stored -> Reset; its state not
\* openable -> repair; else finish with it as the head
LoadLastState ==
    LET cb == BlockByHash(lastBlock)
    IN /\ pc = "load"
       /\ CASE cb = NoBlock      -> Reset /\ UNCHANGED repairHead
             [] ~StateOpens(cb)  -> /\ pc' = "repair" /\ repairHead' = cb
                                    /\ UNCHANGED <<storeVars, hcVars, currentBlock,
                                                   locked, shTarget, shCaller, shFrom>>
             [] OTHER            -> /\ FinishLoad(cb, lastBlock)
                                    /\ UNCHANGED <<repairHead, shTarget, shCaller, shFrom>>
       /\ UNCHANGED <<loadCaller, insQueue, updateHeads, ops, crashes, prunes>>

\* one iteration of repair's loop.  With an openable state it returns and
\* loadLastState writes LastBlock; with the parent block missing it returns
\* an error; otherwise it looks the parent up and goes round again with
\* *head unchanged.
Repair ==
    LET h == repairHead
    IN /\ pc = "repair"
       /\ IF StateOpens(h)
          THEN FinishLoad(h, h)
          ELSE IF BlockByHash(Parent[h]) = NoBlock
               THEN LoadReturnsError
               ELSE UNCHANGED <<storeVars, hcVars, currentBlock, locked, pc>>
       /\ UNCHANGED <<loadCaller, shTarget, shCaller, shFrom, repairHead,
                      insQueue, updateHeads, ops, crashes, prunes>>

-----------------------------------------------------------------------------
(* BlockChain.SetHead(head)                                                *)

\* SetHead called by an outside caller on a running chain
SetHead(n) ==
    /\ pc = "running" /\ ops < MaxOps
    /\ ~locked
    /\ pc' = "sh" /\ locked' = TRUE
    /\ shTarget' = n /\ shCaller' = "api" /\ shFrom' = currentBlock
    /\ ops' = ops + 1
    /\ UNCHANGED <<storeVars, hcVars, currentBlock, loadCaller, repairHead,
                   insQueue, updateHeads, crashes, prunes>>

\* mutant: updateFn takes the block under the header without checking
\* that its state opens
UpdateHeadBlocksNoState(header) ==
    IF currentBlock # NoBlock /\ Number[header] < Number[currentBlock]
    THEN LET nb == IF HasBlock(header) THEN header ELSE Genesis
         IN lastBlock' = nb /\ currentBlock' = nb
    ELSE UNCHANGED <<lastBlock, currentBlock>>

\* updateFn: when the header handed over is below the current block, the
\* block under it becomes the head (the genesis block if it is not stored
\* or its state does not open), written directly as LastBlock
UpdateHeadBlocks(header) ==
    IF currentBlock # NoBlock /\ Number[header] < Number[currentBlock]
    THEN LET nb == IF HasBlock(header) /\ StateOpens(header) THEN header
                                                           ELSE Genesis
         IN lastBlock' = nb /\ currentBlock' = nb
    ELSE UNCHANGED <<lastBlock, currentBlock>>

SetHeadIteration ==
    /\ pc = "sh"
    /\ SetHeadStep(shTarget)
    /\ UpdateHeadBlocks(SetHeadParent(currentHeader))
    /\ UNCHANGED <<locked, pc, loadCaller, shTarget, shCaller, shFrom,
                   repairHead, insQueue, updateHeads, ops, crashes, prunes>>

\* HeaderChain.SetHead writes its batch and returns; SetHead then calls
\* loadLastState
SetHeadReturn ==
    /\ pc = "sh"
    /\ SetHeadLoopDone(shTarget)
    /\ pc' = "load" /\ loadCaller' = "sethead"
    /\ UNCHANGED <<lastBlock, lastHeader, states, hcVars, currentBlock, locked,
                   shTarget, shCaller, shFrom, repairHead, insQueue, updateHeads,
                   ops, crashes, prunes>>

-----------------------------------------------------------------------------
(* InsertChain(chain)                                                      *)

\* each block's number and parent hash follow its predecessor's
Contiguous(chain) ==
    \A i \in 2..Len(chain) : /\ Number[chain[i]] = Number[chain[i-1]] + 1
                             /\ Parent[chain[i]] = chain[i-1]

\* InsertChain: an empty list returns (0, nil); a non-contiguous one hits
\* log.Fatalf, which exits the process before the return; otherwise
\* insertChain starts on the first block.  No lock is taken.
InsertChain(chain) ==
    /\ pc = "running" /\ ops < MaxOps
    /\ ops' = ops + 1
    /\ CASE chain = <<>>          -> UNCHANGED <<hcVars, currentBlock, pc, insQueue>>
          [] ~Contiguous(chain)   -> /\ pc' = "down" /\ insQueue' = <<>>
                                     /\ currentBlock' = NoBlock
                                     /\ currentHeader' = NoBlock
                                     /\ currentHeaderHash' = NoBlock
          [] OTHER                -> /\ pc' = "ins_block" /\ insQueue' = chain
                                     /\ UNCHANGED <<hcVars, currentBlock>>
    /\ UNCHANGED <<storeVars, locked, loadCaller, shTarget, shCaller, shFrom,
                   repairHead, updateHeads, crashes, prunes>>

\* the only caller, Downloader.processBlocks: a list is handed to
\* InsertChain when its first block's number is the head block's plus one.
\* Its second call, on the blocks peekContinuousBlocks takes from a queue
\* that insert and pop (value receivers) never fill, is InsertChain on an
\* empty list, which returns (0, nil) and changes nothing.
ProcessBlocks(chain) ==
    /\ chain # <<>> /\ currentBlock # NoBlock
    /\ Number[chain[1]] = Number[currentBlock] + 1
    /\ InsertChain(chain)

\* mutant: insertChain skips a block whose state does not open and goes
\* on with the next one
InsertBlockSkip ==
    LET b == Head(insQueue)
    IN /\ pc = "ins_block"
       /\ IF StateOpens(b)
          THEN WriteBlock(b) /\ pc' = "ins_canon" /\ UNCHANGED insQueue
          ELSE /\ insQueue' = Tail(insQueue)
               /\ pc' = IF Tail(insQueue) = <<>> THEN "running" ELSE "ins_block"
               /\ UNCHANGED <<headers, bodies>>
       /\ UNCHANGED <<canon, lastBlock, lastHeader, states, batch, hcVars,
                      currentBlock, locked, loadCaller, shTarget, shCaller, shFrom,
                      repairHead, updateHeads, ops, crashes, prunes>>

\* insertChain, one block: state.New on its root (on failure the call
\* returns (i, err)), then writeBlockWithState: WriteBlock, then the
\* commit of the opened state, which has no pending change and leaves the
\* root as it was
InsertBlock ==
    LET b == Head(insQueue)
    IN /\ pc = "ins_block"
       /\ IF StateOpens(b)
          THEN WriteBlock(b) /\ pc' = "ins_canon" /\ UNCHANGED insQueue
          ELSE pc' = "running" /\ insQueue' = <<>> /\ UNCHANGED <<headers, bodies>>
       /\ UNCHANGED <<canon, lastBlock, lastHeader, states, batch, hcVars,
                      currentBlock, locked, loadCaller, shTarget, shCaller, shFrom,
                      repairHead, updateHeads, ops, crashes, prunes>>

\* insert, first put: updateHeads is read, then the canonical hash written
InsertCanon ==
    LET b == Head(insQueue)
    IN /\ pc = "ins_canon"
       /\ updateHeads' = (canon[Number[b]] # b)
       /\ canon' = [canon EXCEPT ![Number[b]] = b]
       /\ pc' = "ins_head"
       /\ UNCHANGED <<headers, bodies, lastBlock, lastHeader, states, batch,
                      hcVars, currentBlock, locked, loadCaller, shTarget, shCaller,
                      shFrom, repairHead, insQueue, ops, crashes, prunes>>

\* mutant: insertChain returns after its first block
InsertHeadsFirstOnly ==
    LET b == Head(insQueue)
    IN /\ pc = "ins_head"
       /\ lastBlock' = b /\ currentBlock' = b
       /\ IF updateHeads THEN SetCurrentHeader(b)
                         ELSE UNCHANGED <<lastHeader, hcVars>>
       /\ insQueue' = Tail(insQueue)
       /\ pc' = "running"
       /\ UNCHANGED <<headers, bodies, canon, states, batch, locked, loadCaller,
                      shTarget, shCaller, shFrom, repairHead, updateHeads, ops,
                      crashes, prunes>>

\* insert, the rest: LastBlock, currentBlock, and the head header only if
\* the canonical hash was not already this block; then the next block
InsertHeads ==
    LET b == Head(insQueue)
    IN /\ pc = "ins_head"
       /\ lastBlock' = b /\ currentBlock' = b
       /\ IF updateHeads THEN SetCurrentHeader(b)
                         ELSE UNCHANGED <<lastHeader, hcVars>>
       /\ insQueue' = Tail(insQueue)
       /\ pc' = IF Tail(insQueue) = <<>> THEN "running" ELSE "ins_block"
       /\ UNCHANGED <<headers, bodies, canon, states, batch, locked, loadCaller,
                      shTarget, shCaller, shFrom, repairHead, updateHeads, ops,
                      crashes, prunes>>

-----------------------------------------------------------------------------
(* The environment                                                         *)

\* the process is killed: memory, chainmu and the unwritten batch are lost
Crash ==
    /\ pc # "down" /\ crashes < MaxCrashes
    /\ crashes' = crashes + 1
    /\ pc' = "down" /\ locked' = FALSE /\ insQueue' = <<>>
    /\ batch' = EmptyBatch
    /\ currentBlock' = NoBlock /\ currentHeader' = NoBlock
    /\ currentHeaderHash' = NoBlock
    /\ UNCHANGED <<headers, bodies, canon, lastBlock, lastHeader, states,
                   loadCaller, shTarget, shCaller, shFrom, repairHead,
                   updateHeads, ops, prunes>>

\* the trie database loses (prunes) the state of a block; the persisted
\* head's own state only where PruneHead says so, and never the state of a
\* block InsertChain is inserting, which writeBlockWithState has just
\* committed
Prune(b) ==
    /\ b \in Prunable /\ StateOpens(b) /\ prunes < MaxPrunes
    /\ PruneHead \/ b \notin {lastBlock, currentBlock}
    /\ \A i \in DOMAIN insQueue : insQueue[i] # b
    /\ states' = states \ {b}
    /\ prunes' = prunes + 1
    /\ UNCHANGED <<headers, bodies, canon, lastBlock, lastHeader, batch,
                   hcVars, bcVars, ops, crashes>>

-----------------------------------------------------------------------------

\* a node started on a database set up by SetupGenesisBlock, where the
\* executor has committed the state of every block it will be given
Init ==
    /\ \E k \in GenesisPrefixes :
          /\ headers = GenesisStore(k).headers
          /\ bodies = GenesisStore(k).bodies
          /\ canon = GenesisStore(k).canon
          /\ lastBlock = GenesisStore(k).lastBlock
          /\ lastHeader = GenesisStore(k).lastHeader
    /\ states = Blocks
    /\ batch = EmptyBatch
    /\ currentHeader = NoBlock /\ currentHeaderHash = NoBlock
    /\ currentBlock = NoBlock /\ locked = FALSE
    /\ pc = "down" /\ loadCaller = "new"
    /\ shTarget = 0 /\ shCaller = "api" /\ shFrom = NoBlock
    /\ repairHead = NoBlock /\ insQueue = <<>> /\ updateHeads = FALSE
    /\ ops = 0 /\ crashes = 0 /\ prunes = 0

Next ==
    \/ Start \/ LoadLastState \/ Repair
    \/ \E n \in Targets : SetHead(n)
    \/ SetHeadIteration \/ SetHeadReturn
    \/ \E c \in Batches : ProcessBlocks(c)
    \/ InsertBlock \/ InsertCanon \/ InsertHeads
    \/ Crash
    \/ \E b \in Blocks : Prune(b)

\* The chain writer's own steps run to completion once enabled (a goroutine
\* that is not blocked progresses), and a node that exited is started
\* again.  Calls from outside, kills and state loss need not happen.
Fairness ==
    /\ WF_vars(Start) /\ WF_vars(LoadLastState) /\ WF_vars(Repair)
    /\ WF_vars(SetHeadIteration) /\ WF_vars(SetHeadReturn)
    /\ WF_vars(InsertBlock) /\ WF_vars(InsertCanon) /\ WF_vars(InsertHeads)

Spec == Init /\ [][Next]_vars /\ Fairness

-----------------------------------------------------------------------------
(* Properties                                                              *)

PCs == {"down", "load", "repair", "sh", "ins_block", "ins_canon", "ins_head",
        "running", "blocked"}

TypeOK ==
    /\ headers \subseteq Blocks /\ bodies \subseteq Blocks /\ states \subseteq Blocks
    /\ canon \in [Nums -> Blocks \cup {NoBlock}]
    /\ lastBlock \in Blocks \cup {NoBlock} /\ lastHeader \in Blocks \cup {NoBlock}
    /\ batch \in [headers: SUBSET Blocks, bodies: SUBSET Blocks, canon: SUBSET Nums]
    /\ currentHeader \in Blocks \cup {NoBlock}
    /\ currentHeaderHash \in Blocks \cup {NoBlock}
    /\ currentBlock \in Blocks \cup {NoBlock}
    /\ pc \in PCs /\ locked \in BOOLEAN
    /\ insQueue \in Seq(Blocks) /\ updateHeads \in BOOLEAN
    /\ ops \in 0..MaxOps /\ crashes \in 0..MaxCrashes /\ prunes \in 0..MaxPrunes
    \* blocks are queued exactly while insertChain is inside its loop
    /\ (insQueue # <<>>) = (pc \in {"ins_block", "ins_canon", "ins_head"})

\* the ancestor of b at height n (b itself when it is not above n)
RECURSIVE AncestorAt(_, _)
AncestorAt(b, n) ==
    IF b = NoBlock \/ Number[b] <= n THEN b ELSE AncestorAt(Parent[b], n)

(* Canonical agreement (insert, SetHead's batched deletes, loadLastState; *)
(* spec sections 3 and 8.6): whenever no chain mutation is in progress,   *)
(* for every number up to the head block's, the canonical hash names the  *)
(* head's own ancestor at that height and GetBlockByNumber finds it, so   *)
(* GetBlockByNumber(head number) is the head block.  It has to survive    *)
(* kills between the puts of insert and before SetHead's batch is         *)
(* written.                                                               *)
CanonAgreement ==
    pc = "running" /\ currentBlock # NoBlock =>
        \A n \in 0..Number[currentBlock] :
            /\ canon[n] = AncestorAt(currentBlock, n)
            /\ HasBlock(canon[n])

(* Startup completes (NewBlockChain, loadLastState, Reset, repair): a node *)
(* that is started, and restarted whenever it exits, eventually runs for  *)
(* good with a head block; it neither hangs in repair's loop nor waits    *)
(* forever for chainmu.                                                   *)
StartupCompletes == <>[](pc = "running")

\* an outside SetHead returns nil to its caller
SetHeadReturned ==
    /\ loadCaller = "sethead" /\ shCaller = "api"
    /\ pc \in {"load", "repair"} /\ pc' = "running"

(* Rollback reaches its target (BlockChain.SetHead; spec section 4.5):    *)
(* when SetHead(n) returns, the head block's number is at most n.         *)
RollbackReachesTarget ==
    [][SetHeadReturned => Number[currentBlock'] <= shTarget]_vars

=============================================================================
