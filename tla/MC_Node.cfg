\* Two remotes, one matching proton/1 (protoErr holds 2) and one matching
\* nothing (protoErr holds 1); up to two Peers, so a remote can be dialed
\* and accepted at once, one Peer losing its entry to the other.
CONSTANTS
    r1 = r1
    r2 = r2
    NoConn = NoConn
    Remotes = {r1, r2}
    RemoteCaps <- MCRemoteCaps
    Protocols <- MCProtocols
    HandshakeMsgs = {"handshake", "disc", "other"}
    MaxConns = 2
SPECIFICATION NodeSpec
INVARIANTS NodeTypeOK NoLeakedLoop StopClosedOnce
PROPERTIES  MainReturns
CHECK_DEADLOCK FALSE
