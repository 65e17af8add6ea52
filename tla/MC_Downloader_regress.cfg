\* Two fetchers insert concurrently.
CONSTANTS
    p1 = p1
    p2 = p2
    NoPeer = NoPeer
    Peers <- MCOnePeer
    PeerHead <- MCShortHead
    MaxBlockFetch <- MCMaxBlockFetch
    InitHeads <- MCGenesis
    MaxSyncs = 2
    MaxConnects = 0
    Overlap = TRUE
    Disconnects = FALSE
SPECIFICATION Spec
PROPERTY ChainSpec
