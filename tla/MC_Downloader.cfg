\* Two peers connect; syncs run one after another over reliable streams.
CONSTANTS
    p1 = p1
    p2 = p2
    NoPeer = NoPeer
    Peers <- MCTwoPeers
    PeerHead <- MCLongHeads
    MaxBlockFetch <- MCMaxBlockFetch
    InitHeads <- MCAllInits
    MaxSyncs = 4
    MaxConnects = 0
    Overlap = FALSE
    Disconnects = FALSE
SPECIFICATION Spec
INVARIANT TypeOK
PROPERTIES SyncTerminates ChainSpec
