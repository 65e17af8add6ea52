------------------------------ MODULE HeaderChain -----------------------------
(***************************************************************************)
(* HeaderChain (proton/core/headerchain.go): the cached head header and   *)
(* its hash over the chain store, and the stepwise rollback SetHead that  *)
(* hands each parent to a caller-supplied callback.  The genesis header   *)
(* it falls back to is the one NewHeaderChain read under canonical number *)
(* 0, which no operation of the chain code ever deletes or rewrites.      *)
(***************************************************************************)
EXTENDS ChainStore

VARIABLES
    currentHeader,      \* hc.currentHeader (NoBlock while no process runs)
    currentHeaderHash   \* hc.currentHeaderHash

hcVars == <<currentHeader, currentHeaderHash>>

\* NewHeaderChain fails unless GetHeaderByNumber(0) finds a header
GenesisHeaderFound == canon[0] # NoBlock /\ HasHeader(canon[0])

\* NewHeaderChain: the genesis header, replaced by the header stored under
\* the head BLOCK hash when there is one
NewHeaderChain ==
    LET h == IF HeaderByHash(lastBlock) # NoBlock THEN lastBlock ELSE canon[0]
    IN /\ currentHeader' = h
       /\ currentHeaderHash' = h

\* SetCurrentHeader: persist the hash as LastHeader, then cache the header
SetCurrentHeader(h) ==
    /\ lastHeader' = h
    /\ currentHeader' = h
    /\ currentHeaderHash' = h

\* the parent SetHead resolves for hdr: the stored parent header, or the
\* genesis header when it is missing
SetHeadParent(hdr) == IF HasHeader(Parent[hdr]) THEN Parent[hdr] ELSE Genesis

\* One iteration of SetHead's loop, while the current header is above the
\* target, apart from the updateFn call the caller conjoins with the
\* parent: write LastHeader = the PARENT HASH directly to the database,
\* buffer the deletes of body (delFn), header and canonical hash in the
\* batch, and move the cached header and hash.
SetHeadStep(head) ==
    LET hdr        == currentHeader
        parentHash == Parent[hdr]
    IN /\ hdr # NoBlock /\ Number[hdr] > head
       /\ lastHeader' = parentHash
       /\ batch' = [bodies  |-> batch.bodies \cup {hdr},
                    headers |-> batch.headers \cup {hdr},
                    canon   |-> batch.canon \cup {Number[hdr]}]
       /\ currentHeader' = SetHeadParent(hdr)
       /\ currentHeaderHash' = parentHash
       /\ UNCHANGED <<headers, bodies, canon, states>>

\* SetHead leaves its loop once the header is at or below the target, and
\* writes the batch
SetHeadLoopDone(head) ==
    /\ currentHeader = NoBlock \/ Number[currentHeader] <= head
    /\ WriteBatch

=============================================================================
