------------------------------ MODULE ChainGrowth ------------------------------
(***************************************************************************)
(* What block synchronisation promises a node (spec section 6: the sync   *)
(* layer only calls insertChain on the exposed interface): the local head *)
(* number only moves forward, never past the head the peer announced, and *)
(* while it is below that head it eventually moves.                       *)
(***************************************************************************)
EXTENDS Naturals

CONSTANTS
    Top,    \* the head number the peer announced in its status message
    Starts  \* the head numbers a node may start from

VARIABLE head

Init == head \in Starts

\* the head advances by one or more blocks, up to Top
Grow == \E n \in head + 1..Top : head' = n

Spec == Init /\ [][Grow]_head /\ WF_head(Grow)

=============================================================================
