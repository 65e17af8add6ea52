\* Ticks while a sync runs, streams that break and reconnections: a
\* fetcher may wait forever, so only safety is checked and a stuck state
\* is not an error.
CONSTANTS
    p1 = p1
    p2 = p2
    NoPeer = NoPeer
    Peers <- MCTwoPeers
    PeerHead <- MCTwoHeads
    MaxBlockFetch <- MCMaxBlockFetch
    InitHeads <- MCGenesis
    MaxSyncs = 2
    MaxConnects = 1
    Overlap = TRUE
    Disconnects = TRUE
SPECIFICATION Spec
CHECK_DEADLOCK FALSE
INVARIANT CancelWgCounts
