\* One remote and one Peer: the deadlock needs no peers at all.
CONSTANTS
    r1 = r1
    r2 = r2
    NoConn = NoConn
    Remotes = {r1}
    RemoteCaps <- MCRemoteCaps
    Protocols <- MCProtocols
    HandshakeMsgs = {"handshake"}
    MaxConns = 1
SPECIFICATION NodeSpec
PROPERTY SignalStops
CHECK_DEADLOCK FALSE
