--------------------------------- MODULE P2P ---------------------------------
(***************************************************************************)
(* The p2p server and its peers (p2p/server.go, p2p/peer.go).  The server *)
(* dials the remotes discovery finds (Start) and accepts the streams      *)
(* remotes open (streamHandler).  Both run the base handshake and, if it  *)
(* succeeds, store a Peer in srv.Peers under the remote's id and start    *)
(* runPeer.  Peer.run starts pingLoop and readLoop, waits for the first   *)
(* error on protoErr, closes p.closed and the stream, waits on p.wg, and  *)
(* runPeer then deletes the remote's entry.                               *)
(*                                                                         *)
(* A connection is a number in Conns: the c-th Peer the server created.   *)
(* A message is left out; what matters is whether the stream still        *)
(* carries them.  A remote closing the stream, a network error and a      *)
(* discMsg or unknown message (handle returns an error) all make          *)
(* readLoop's next step fail: they are one environment action, Break.     *)
(***************************************************************************)
EXTENDS Naturals, Sequences, FiniteSets

CONSTANTS
    Remotes,        \* the remote nodes
    RemoteCaps,     \* the caps each remote sends in its handshake
    Protocols,      \* srv.Protocols: the local protocols, in order
    HandshakeMsgs,  \* kinds of first message a remote may send
    MaxConns,       \* bound on the Peers the server creates
    NoConn          \* a model value: no entry in srv.Peers

Conns == 1..MaxConns

VARIABLES
    peers,   \* srv.Peers: the Peer stored under each remote id
    nconns,  \* the Peers created so far
    remote,  \* each Peer's remote id
    cap,     \* cap(p.protoErr)
    errs,    \* the errors buffered in p.protoErr
    stream,  \* the stream under p.protoRW: "none" before the Peer exists
    rpc,     \* Peer.run and runPeer: "none", "start", "loop", "close", "wait", "exited"
    rl,      \* readLoop: "none", "read", "send", "done"
    pl,      \* pingLoop: "none", "wait", "send", "done"
    closed,  \* p.closed has been closed
    wg       \* p.wg

vars == <<peers, nconns, remote, cap, errs, stream, rpc, rl, pl, closed, wg>>

-----------------------------------------------------------------------------
(* The base handshake and protocol matching.                               *)

\* readHandshakeMsg: only a handshakeMsg of at most baseProtocolMaxMsgSize
\* bytes, which decodes and carries a 33-byte key, gives the remote's caps
HandshakeAccepted(kind) == kind = "handshake"

\* matchProtocols: the inner loop compares each cap with the first
\* protocol only, then continues the outer loop
MatchProtocols(caps) ==
    IF Protocols = <<>> THEN {}
    ELSE {c.name : c \in {x \in caps : x = Protocols[1]}}

NewPeerCap(caps) == Cardinality(MatchProtocols(caps)) + 1

\* createPeer and the Peer it stores: a new connection c to r
CreatePeer(c, r) ==
    /\ nconns' = c
    /\ remote' = [remote EXCEPT ![c] = r]
    /\ cap' = [cap EXCEPT ![c] = NewPeerCap(RemoteCaps[r])]
    /\ stream' = [stream EXCEPT ![c] = "open"]
    /\ rpc' = [rpc EXCEPT ![c] = "start"]

(* Server.Start: a remote from findPeers (never the host itself).  An id  *)
(* already in srv.Peers is skipped.  A failed NewStream or handshake      *)
(* breaks out of the select and changes nothing.                          *)
Dial(r) ==
    /\ peers[r] = NoConn
    /\ nconns < MaxConns
    /\ \E kind \in HandshakeMsgs : HandshakeAccepted(kind)
    /\ CreatePeer(nconns + 1, r)
    /\ peers' = [peers EXCEPT ![r] = nconns + 1]
    /\ UNCHANGED <<errs, rl, pl, closed, wg>>

\* Server.streamHandler: a stream the remote opened; the Peer is stored
\* under the remote's id whether or not one is already there
Accept(r) ==
    /\ nconns < MaxConns
    /\ \E kind \in HandshakeMsgs : HandshakeAccepted(kind)
    /\ CreatePeer(nconns + 1, r)
    /\ peers' = [peers EXCEPT ![r] = nconns + 1]
    /\ UNCHANGED <<errs, rl, pl, closed, wg>>

-----------------------------------------------------------------------------
(* Peer.run and its goroutines.                                            *)

\* mutant: run adds one to p.wg
RunStartOne(c) ==
    /\ rpc[c] = "start"
    /\ wg' = [wg EXCEPT ![c] = 1]
    /\ rl' = [rl EXCEPT ![c] = "read"]
    /\ pl' = [pl EXCEPT ![c] = "wait"]
    /\ rpc' = [rpc EXCEPT ![c] = "loop"]
    /\ UNCHANGED <<peers, nconns, remote, cap, errs, stream, closed>>

\* run: p.wg.Add(2), go pingLoop, go readLoop, startProtocols
RunStart(c) ==
    /\ rpc[c] = "start"
    /\ wg' = [wg EXCEPT ![c] = 2]
    /\ rl' = [rl EXCEPT ![c] = "read"]
    /\ pl' = [pl EXCEPT ![c] = "wait"]
    /\ rpc' = [rpc EXCEPT ![c] = "loop"]
    /\ UNCHANGED <<peers, nconns, remote, cap, errs, stream, closed>>

\* the stream stops carrying messages: closed by the remote, a network
\* error, or a discMsg or unknown message that handle turns into an error
Break(c) ==
    /\ stream[c] = "open"
    /\ stream' = [stream EXCEPT ![c] = "broken"]
    /\ UNCHANGED <<peers, nconns, remote, cap, errs, rpc, rl, pl, closed, wg>>

\* readLoop: ReadMsg (or handle) fails once the stream is not open
ReadFail(c) ==
    /\ rl[c] = "read" /\ stream[c] # "open"
    /\ rl' = [rl EXCEPT ![c] = "send"]
    /\ UNCHANGED <<peers, nconns, remote, cap, errs, stream, rpc, pl, closed, wg>>

(* p.protoErr <- err: into the buffer while it has room; on an unbuffered *)
(* channel only as run receives it.  The sender then returns: wg.Done.    *)
SendProtoErr(c) ==
    \/ /\ errs[c] < cap[c]
       /\ errs' = [errs EXCEPT ![c] = @ + 1]
       /\ UNCHANGED rpc
    \/ /\ cap[c] = 0 /\ rpc[c] = "loop"
       /\ rpc' = [rpc EXCEPT ![c] = "close"]
       /\ UNCHANGED errs

ReadSend(c) ==
    /\ rl[c] = "send"
    /\ SendProtoErr(c)
    /\ rl' = [rl EXCEPT ![c] = "done"]
    /\ wg' = [wg EXCEPT ![c] = @ - 1]
    /\ UNCHANGED <<peers, nconns, remote, cap, stream, pl, closed>>

\* pingLoop: the timer fires; SendItems(pingMsg) fails once the stream is
\* not open (a ping that goes through resets the timer and changes nothing)
PingFire(c) ==
    /\ pl[c] = "wait" /\ stream[c] # "open"
    /\ pl' = [pl EXCEPT ![c] = "send"]
    /\ UNCHANGED <<peers, nconns, remote, cap, errs, stream, rpc, rl, closed, wg>>

PingSend(c) ==
    /\ pl[c] = "send"
    /\ SendProtoErr(c)
    /\ pl' = [pl EXCEPT ![c] = "done"]
    /\ wg' = [wg EXCEPT ![c] = @ - 1]
    /\ UNCHANGED <<peers, nconns, remote, cap, stream, rl, closed>>

\* pingLoop: the select's other case, p.closed
PingClosed(c) ==
    /\ pl[c] = "wait" /\ closed[c]
    /\ pl' = [pl EXCEPT ![c] = "done"]
    /\ wg' = [wg EXCEPT ![c] = @ - 1]
    /\ UNCHANGED <<peers, nconns, remote, cap, errs, stream, rpc, rl, closed>>

\* run's loop: the first error on protoErr ends it (nothing sends on disc:
\* Peer.Disconnect has no caller)
RunRecv(c) ==
    /\ rpc[c] = "loop" /\ errs[c] > 0
    /\ errs' = [errs EXCEPT ![c] = @ - 1]
    /\ rpc' = [rpc EXCEPT ![c] = "close"]
    /\ UNCHANGED <<peers, nconns, remote, cap, stream, rl, pl, closed, wg>>

\* close(p.closed), then protoRW.Close: the stream is closed
RunClose(c) ==
    /\ rpc[c] = "close"
    /\ closed' = [closed EXCEPT ![c] = TRUE]
    /\ stream' = [stream EXCEPT ![c] = IF @ = "open" THEN "closed" ELSE @]
    /\ rpc' = [rpc EXCEPT ![c] = "wait"]
    /\ UNCHANGED <<peers, nconns, remote, cap, errs, rl, pl, wg>>

\* p.wg.Wait returns and run returns its error to runPeer, which has not
\* yet taken srv.lock: the entry is still in srv.Peers
RunReturn(c) ==
    /\ rpc[c] = "wait" /\ wg[c] = 0
    /\ rpc' = [rpc EXCEPT ![c] = "del"]
    /\ UNCHANGED <<peers, nconns, remote, cap, errs, stream, rl, pl, closed, wg>>

\* runPeer takes srv.lock and its deferred delete removes srv.Peers[p.ID],
\* whichever Peer that entry now holds
RunDelete(c) ==
    /\ rpc[c] = "del"
    /\ rpc' = [rpc EXCEPT ![c] = "exited"]
    /\ peers' = [peers EXCEPT ![remote[c]] = NoConn]
    /\ UNCHANGED <<nconns, remote, cap, errs, stream, rl, pl, closed, wg>>

-----------------------------------------------------------------------------

Init ==
    /\ peers = [r \in Remotes |-> NoConn]
    /\ nconns = 0
    /\ remote = [c \in Conns |-> CHOOSE r \in Remotes : TRUE]
    /\ cap = [c \in Conns |-> 0]
    /\ errs = [c \in Conns |-> 0]
    /\ stream = [c \in Conns |-> "none"]
    /\ rpc = [c \in Conns |-> "none"]
    /\ rl = [c \in Conns |-> "none"]
    /\ pl = [c \in Conns |-> "none"]
    /\ closed = [c \in Conns |-> FALSE]
    /\ wg = [c \in Conns |-> 0]

PeerStep(c) ==
    \/ RunStart(c) \/ Break(c) \/ ReadFail(c) \/ ReadSend(c)
    \/ PingFire(c) \/ PingSend(c) \/ PingClosed(c)
    \/ RunRecv(c) \/ RunClose(c) \/ RunReturn(c) \/ RunDelete(c)

Next ==
    \/ \E r \in Remotes : Dial(r) \/ Accept(r)
    \/ \E c \in Conns : PeerStep(c)

(***************************************************************************)
(* Every goroutine that can run eventually does, and the ping timer       *)
(* eventually fires (every pingInterval).  Discovery, remotes opening     *)
(* streams and streams breaking are not forced.                           *)
(***************************************************************************)
Fairness ==
    \A c \in Conns :
        /\ WF_vars(RunStart(c)) /\ WF_vars(ReadFail(c)) /\ WF_vars(ReadSend(c))
        /\ WF_vars(PingFire(c) \/ PingClosed(c)) /\ WF_vars(PingSend(c))
        /\ WF_vars(RunRecv(c)) /\ WF_vars(RunClose(c)) /\ WF_vars(RunReturn(c))
        /\ WF_vars(RunDelete(c))

Spec == Init /\ [][Next]_vars /\ Fairness

-----------------------------------------------------------------------------

TypeOK ==
    /\ peers \in [Remotes -> Conns \cup {NoConn}]
    /\ nconns \in 0..MaxConns
    /\ remote \in [Conns -> Remotes]
    /\ cap \in [Conns -> 0..Len(Protocols) + 1]
    /\ errs \in [Conns -> 0..Len(Protocols) + 1]
    /\ stream \in [Conns -> {"none", "open", "broken", "closed"}]
    /\ rpc \in [Conns -> {"none", "start", "loop", "close", "wait", "del", "exited"}]
    /\ rl \in [Conns -> {"none", "read", "send", "done"}]
    /\ pl \in [Conns -> {"none", "wait", "send", "done"}]
    /\ closed \in [Conns -> BOOLEAN]
    /\ wg \in [Conns -> 0..2]

(***************************************************************************)
(* run returns only after both of its goroutines have: p.wg counts        *)
(* pingLoop and readLoop, so no loop of a finished Peer is left reading   *)
(* the stream or sending on protoErr.                                     *)
(***************************************************************************)
NoLeakedLoop ==
    \A c \in Conns : rpc[c] = "exited" => rl[c] = "done" /\ pl[c] = "done"

=============================================================================
