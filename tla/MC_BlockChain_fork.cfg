\* A peer on a fork hands C2 to a node whose head is B1: processBlocks
\* checks only the number, and InsertChain checks only contiguity inside
\* the list, so C2 becomes the head with C1 neither stored nor canonical.
CONSTANTS
    G = G
    B1 = B1
    B2 = B2
    B3 = B3
    C1 = C1
    C2 = C2
    NoBlock = NoBlock
    Genesis = G
    MaxNumber = 2
    Blocks <- ForkBlocks
    Number <- MCNumber
    Parent <- MCParent
    Batches <- ForkBatches
    Targets = {0, 1}
    GenesisPrefixes = {4}
    Prunable <- NoPrune
    PruneHead = FALSE
    MaxOps = 2
    MaxCrashes = 0
    MaxPrunes = 0

SPECIFICATION Spec
INVARIANT CanonAgreement
CHECK_DEADLOCK FALSE
