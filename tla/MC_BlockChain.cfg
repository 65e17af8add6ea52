\* Safety of the chain writer on one line of blocks, with kills between
\* puts, lost states of non-head blocks, and every genesis prefix.  The
\* running node waits for calls; once the call bounds are spent it takes no
\* further step, so deadlock is not checked (StartupCompletes covers a
\* process that waits forever for chainmu).
CONSTANTS
    G = G
    B1 = B1
    B2 = B2
    B3 = B3
    C1 = C1
    C2 = C2
    NoBlock = NoBlock
    Genesis = G
    MaxNumber = 3
    Blocks <- LineBlocks
    Number <- MCNumber
    Parent <- MCParent
    Batches <- LineBatches
    Targets = {0, 1, 2}
    GenesisPrefixes = {2, 3, 4}
    Prunable <- LineBlocks
    PruneHead = FALSE
    MaxOps = 5
    MaxCrashes = 2
    MaxPrunes = 2

SPECIFICATION Spec
INVARIANT TypeOK
INVARIANT CanonAgreement
CHECK_DEADLOCK FALSE
