------------------------------ MODULE ChainStore ------------------------------
(***************************************************************************)
(* The persistent chain records of proton/core/rawdb (accessors_chain.go, *)
(* schema.go) and the committed state tries behind them.                  *)
(*                                                                         *)
(* A block is a model value that is also its hash; Number and Parent give  *)
(* the header fields the code reads.  A header stored under                *)
(* 'h'+num+hash always comes with its 'H'+hash -> num entry (WriteHeader   *)
(* writes both, DeleteHeader deletes both), so one set of blocks stands    *)
(* for the two key families.  A state root is identified with the block    *)
(* that declares it: `states` holds the blocks whose root state.New can    *)
(* open.                                                                   *)
(***************************************************************************)
EXTENDS Naturals, FiniteSets, Sequences

CONSTANTS
    Blocks,     \* block (and header) hashes
    Genesis,    \* the genesis block
    Number,     \* header.Number
    Parent,     \* header.ParentHash; NoBlock for the genesis block
    NoBlock,    \* common.Hash{} and a nil *types.Block
    MaxNumber   \* the highest block number

ASSUME /\ Genesis \in Blocks /\ NoBlock \notin Blocks
       /\ Number \in [Blocks -> 0..MaxNumber] /\ Number[Genesis] = 0
       /\ Parent \in [Blocks -> Blocks \cup {NoBlock}] /\ Parent[Genesis] = NoBlock
       /\ \A b \in Blocks \ {Genesis} : Number[b] = Number[Parent[b]] + 1

Nums == 0..MaxNumber

VARIABLES
    headers,     \* 'h'+num+hash -> header and 'H'+hash -> num
    bodies,      \* 'b'+num+hash -> body
    canon,       \* 'h'+num+'n' -> hash, NoBlock where the key is absent
    lastBlock,   \* "LastBlock"
    lastHeader,  \* "LastHeader"
    states,      \* blocks whose state root the trie database can open
    batch        \* the deletes buffered in SetHead's batch, not yet written

storeVars == <<headers, bodies, canon, lastBlock, lastHeader, states, batch>>

EmptyBatch == [headers |-> {}, bodies |-> {}, canon |-> {}]

(* Readers.  A lookup of a missing key yields nil or the zero hash.        *)

\* ReadHeaderNumber / ReadHeader: GetHeader(hash, number) succeeds
HasHeader(h) == h \in headers

\* ReadBody / ReadBodyRLP: nil when the body key holds nothing
HasBody(h) == h \in bodies

\* ReadBlock: a block needs both its header and its body
HasBlock(h) == HasHeader(h) /\ HasBody(h)

\* GetBlockByHash(hash): NoBlock when the block is not stored
BlockByHash(h) == IF h # NoBlock /\ HasBlock(h) THEN h ELSE NoBlock

\* GetHeaderByHash(hash)
HeaderByHash(h) == IF h # NoBlock /\ HasHeader(h) THEN h ELSE NoBlock

\* GetBlockByNumber(n): the canonical hash, then the block under it
BlockByNumber(n) == IF canon[n] # NoBlock THEN BlockByHash(canon[n]) ELSE NoBlock

\* state.New(root, db) on the root the block declares
StateOpens(b) == b \in states

(* Writers: the puts the chain code issues directly on the database.       *)

\* WriteBody / WriteBodyRLP: the put of the body key
WriteBody(b) == bodies' = bodies \cup {b}

\* WriteHeader: the number key and the header key, 'H'+hash and 'h'+num+hash
WriteHeader(b) == headers' = headers \cup {b}

\* WriteBlock: WriteBody then WriteHeader
WriteBlock(b) == WriteBody(b) /\ WriteHeader(b)

\* batch.Write() on SetHead's batch: DeleteBody, DeleteHeader and
\* DeleteCanonicalHash for every block the rollback visited
WriteBatch ==
    /\ bodies' = bodies \ batch.bodies
    /\ headers' = headers \ batch.headers
    /\ canon' = [n \in Nums |-> IF n \in batch.canon THEN NoBlock ELSE canon[n]]
    /\ batch' = EmptyBatch

(* The databases a node can be started on.  Genesis.Commit (genesis.go)   *)
(* writes the block, the canonical hash, LastBlock and LastHeader in that  *)
(* order after committing the genesis state, and a process killed between  *)
(* two puts leaves a prefix.  SetupGenesisBlock rewrites a database whose *)
(* canonical hash for 0 is missing, so the prefixes with the canonical     *)
(* hash written are the ones NewBlockChain can be started on.              *)
GenesisStore(k) ==
    [headers |-> {Genesis}, bodies |-> {Genesis},
     canon |-> [n \in Nums |-> IF n = 0 THEN Genesis ELSE NoBlock],
     lastBlock |-> IF k >= 3 THEN Genesis ELSE NoBlock,
     lastHeader |-> IF k >= 4 THEN Genesis ELSE NoBlock]

=============================================================================
