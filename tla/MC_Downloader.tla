---------------------------- MODULE MC_Downloader ----------------------------
(* Finite instances of Downloader for TLC.                                 *)
EXTENDS Downloader

CONSTANTS p1, p2

MCMaxBlockFetch == 2

\* one peer, four blocks past genesis, synchronised from genesis
MCOnePeer == {p1}

MCShortHead == [p \in {p1} |-> 4]
MCGenesis == {0}

\* two peers, at numbers 2 and 3 on one chain, synchronised from genesis
MCTwoPeers == {p1, p2}
MCTwoHeads == [p \in {p1, p2} |-> IF p = p1 THEN 3 ELSE 2]

\* two peers, at numbers 8 and 5 on one chain, met from every local head:
\* fetches of one to four requests, and every remainder after the last
MCLongHeads == [p \in {p1, p2} |-> IF p = p1 THEN 8 ELSE 5]
MCAllInits == 0..8

=============================================================================
