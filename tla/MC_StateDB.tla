----------------------------- MODULE MC_StateDB -----------------------------
(* Model-checking instance of StateDB: one account, one storage slot      *)
(* holding Zero or V1, two code hashes, balances and nonces up to 1.       *)
EXTENDS StateDB

CONSTANTS a1, k1, V1, C1

MCAddrs == {a1}
MCKeys  == {k1}
MCVals  == {0, V1}
MCCodes == {EmptyCode, C1}

\* the databases New is opened on: a1 either missing or a funded account
\* with a non-empty storage slot
MCInitTries ==
    { [a \in MCAddrs |-> NoObj],
      [a \in MCAddrs |-> [nonce |-> 1, balance |-> 1,
                          root |-> [k \in MCKeys |-> V1], code |-> EmptyCode]] }
=============================================================================
