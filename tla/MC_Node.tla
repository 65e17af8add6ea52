-------------------------------- MODULE MC_Node --------------------------------
EXTENDS Node

CONSTANTS r1, r2

\* Proton.Protocols: one protocol, proton/1
MCProtocols == <<[name |-> "proton", version |-> 1]>>

\* r1 runs this node's software; r2 speaks proton/2 only, so nothing matches
MCRemoteCaps == [r \in {r1, r2} |->
                    IF r = r1 THEN {[name |-> "proton", version |-> 1]}
                    ELSE {[name |-> "proton", version |-> 2]}]

=============================================================================
