\* Liveness of startup on one line of blocks: a node started on a database
\* whose genesis commit wrote LastBlock, kills between puts, and lost states
\* of blocks other than genesis and the head.  The running node waits for
\* calls; once the call bounds are spent it takes no further step, so
\* deadlock is not checked; a process stuck on chainmu is a violation of
\* StartupCompletes.
CONSTANTS
    G = G
    B1 = B1
    B2 = B2
    B3 = B3
    C1 = C1
    C2 = C2
    NoBlock = NoBlock
    Genesis = G
    MaxNumber = 3
    Blocks <- LineBlocks
    Number <- MCNumber
    Parent <- MCParent
    Batches <- LineBatches
    Targets = {0, 1, 2}
    GenesisPrefixes = {3, 4}
    Prunable <- RetainGenesis
    PruneHead = FALSE
    MaxOps = 4
    MaxCrashes = 1
    MaxPrunes = 1

SPECIFICATION Spec
PROPERTY StartupCompletes
CHECK_DEADLOCK FALSE
