\* One line of blocks with one kill: a kill between insert's canonical
\* write and its head writes leaves LastHeader behind; the re-insert finds
\* the canonical hash in place and does not move the header, and a later
\* SetHead stops its loop on the stale header.
CONSTANTS
    G = G
    B1 = B1
    B2 = B2
    B3 = B3
    C1 = C1
    C2 = C2
    NoBlock = NoBlock
    Genesis = G
    MaxNumber = 3
    Blocks <- LineBlocks
    Number <- MCNumber
    Parent <- MCParent
    Batches <- LineBatches
    Targets = {1}
    GenesisPrefixes = {4}
    Prunable <- NoPrune
    PruneHead = FALSE
    MaxOps = 4
    MaxCrashes = 1
    MaxPrunes = 0

SPECIFICATION Spec
PROPERTY RollbackReachesTarget
CHECK_DEADLOCK FALSE
