---------------------------- MODULE MC_BlockChain ----------------------------
(* Model-checking instance of BlockChain.  The blocks are drawn from one  *)
(* tree: the line G <- B1 <- B2 <- B3 and the fork G <- C1 <- C2.  A       *)
(* configuration picks the blocks a run knows and the calls it makes.     *)
EXTENDS BlockChain

CONSTANTS G, B1, B2, B3, C1, C2

LineBlocks == {G, B1, B2, B3}
ForkBlocks == {G, B1, C1, C2}

MCNumber == [b \in Blocks |-> CASE b = G          -> 0
                                [] b \in {B1, C1} -> 1
                                [] b \in {B2, C2} -> 2
                                [] b = B3         -> 3]

MCParent == [b \in Blocks |-> CASE b = G          -> NoBlock
                                [] b \in {B1, C1} -> G
                                [] b = B2         -> B1
                                [] b = B3         -> B2
                                [] b = C2         -> C1]

\* what a downloader on the line hands over: every run of consecutive
\* blocks after genesis, and one list with a gap
LineBatches == {<<B1>>, <<B2>>, <<B3>>, <<B1, B2>>, <<B2, B3>>,
                <<B1, B2, B3>>, <<B1, B3>>}

\* a peer on the fork that sends C2 to a node whose head is B1: the
\* downloader checks only that C2's number is the head's plus one
ForkBatches == {<<B1>>, <<C2>>}

\* every state may be lost except the genesis block's
RetainGenesis == LineBlocks \ {G}

\* no state is ever lost
NoPrune == {}
=============================================================================
