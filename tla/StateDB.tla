------------------------------- MODULE StateDB -------------------------------
(***************************************************************************)
(* The account-state engine of proton/core/state: the undo journal         *)
(* (journal.go), the cached account objects with their three storage      *)
(* tiers (state_object.go), and the StateDB that owns both and pushes them *)
(* into the account trie (statedb.go).                                     *)
(*                                                                         *)
(* Data is abstracted.  An address, a storage key, a storage value and a   *)
(* code hash are members of small constant sets.  A Merkle root stands for *)
(* the content of the trie it commits to, so an account's storage root is  *)
(* a function Keys -> Vals and the account trie is a function from         *)
(* addresses to account records.  A slot written with Zero is deleted from *)
(* a trie, and a read of a missing slot returns Zero, so a trie content    *)
(* maps every key to a value.                                              *)
(***************************************************************************)
EXTENDS Naturals, FiniteSets, Sequences, SequencesExt

CONSTANTS
    Addrs,        \* account addresses
    Keys,         \* storage slot keys
    Vals,         \* storage slot values, Zero among them
    Zero,         \* common.Hash{}: the value of an unset slot
    Codes,        \* code hashes, EmptyCode among them
    EmptyCode,    \* emptyCodeHash == Keccak256(nil)
    MaxBalance,   \* balances range over 0..MaxBalance
    MaxNonce,     \* nonces range over 0..MaxNonce
    Amounts,      \* the amounts given to AddBalance and SubBalance
    MaxJournal,   \* bound on len(journal.entries)
    InitTries,    \* the account tries that New(root, db) may open
    DeleteModes,  \* the deleteEmptyObjects flags the engine's callers pass
    NoVal,        \* a key absent from a Storage map
    NoObj,        \* an address absent from stateObjects, or from the trie
    NoTrie        \* stateObject.trie == nil: storage trie not opened yet

ASSUME /\ Zero \in Vals /\ EmptyCode \in Codes /\ 0 \in Amounts
       /\ MaxJournal \in Nat \ {0} /\ DeleteModes \subseteq BOOLEAN
       /\ {NoVal, NoObj, NoTrie} \cap (Vals \cup Codes) = {}

Storage     == [Keys -> Vals \cup {NoVal}]       \* type Storage map[Hash]Hash
TrieContent == [Keys -> Vals]                    \* a storage trie, or its root
Account     == [nonce: 0..MaxNonce, balance: 0..MaxBalance,
                root: TrieContent, code: Codes]  \* type Account
StateObject == [data: Account, trie: TrieContent \cup {NoTrie},
                originStorage: Storage, pendingStorage: Storage,
                dirtyStorage: Storage, deleted: BOOLEAN]

EmptyStorage == [k \in Keys |-> NoVal]
EmptyRoot    == [k \in Keys |-> Zero]            \* emptyRoot

VARIABLES
    trie,                 \* StateDB.trie: the account trie being updated
    stateObjects,         \* StateDB.stateObjects: Addrs -> StateObject or NoObj
    stateObjectsPending,  \* StateDB.stateObjectsPending
    stateObjectsDirty,    \* StateDB.stateObjectsDirty
    entries,              \* journal.entries
    dirties,              \* journal.dirties, a count per address (0 = absent)
    snaps                 \* history: what was observable at each snapshot id

vars == <<trie, stateObjects, stateObjectsPending, stateObjectsDirty,
          entries, dirties, snaps>>

-----------------------------------------------------------------------------
(* Journal entries (journal.go).  resetObjectChange carries no address of *)
(* its own: dirtied() returns nil for it.                                  *)

CreateChange(a)         == [kind |-> "create",  addr |-> a]
ResetChange(prev, a)    == [kind |-> "reset",   addr |-> a, prev |-> prev]
NonceChange(a, p)       == [kind |-> "nonce",   addr |-> a, prev |-> p]
BalanceChange(a, p)     == [kind |-> "balance", addr |-> a, prev |-> p]
CodeChange(a, p)        == [kind |-> "code",    addr |-> a, prev |-> p]
StorageChange(a, k, p)  == [kind |-> "storage", addr |-> a, key |-> k, prev |-> p]

Dirtied(e, a) == e.kind # "reset" /\ e.addr = a

\* journal.append over each entry of log, in order
JournalAppend(log) ==
    /\ entries' = entries \o log
    /\ dirties' = [a \in Addrs |->
                     dirties[a] + Cardinality({i \in DOMAIN log : Dirtied(log[i], a)})]

\* Fault variant of UndoEntry: resetObjectChange.revert leaves the new
\* object in place instead of restoring the previous one
UndoEntryKeepReset(st, e) ==
    CASE e.kind = "create"  -> [objs  |-> [st.objs EXCEPT ![e.addr] = NoObj],
                                dirty |-> st.dirty \ {e.addr}]
      [] e.kind = "reset"   -> st
      [] e.kind = "nonce"   -> [st EXCEPT !.objs[e.addr].data.nonce = e.prev]
      [] e.kind = "balance" -> [st EXCEPT !.objs[e.addr].data.balance = e.prev]
      [] e.kind = "code"    -> [st EXCEPT !.objs[e.addr].data.code = e.prev]
      [] e.kind = "storage" -> [st EXCEPT !.objs[e.addr].dirtyStorage[e.key] = e.prev]

\* One entry's revert(*StateDB) applied to the objects and the dirty set.
UndoEntry(st, e) ==
    CASE e.kind = "create"  -> [objs  |-> [st.objs EXCEPT ![e.addr] = NoObj],
                                dirty |-> st.dirty \ {e.addr}]
      [] e.kind = "reset"   -> [st EXCEPT !.objs[e.addr] = e.prev]
      [] e.kind = "nonce"   -> [st EXCEPT !.objs[e.addr].data.nonce = e.prev]
      [] e.kind = "balance" -> [st EXCEPT !.objs[e.addr].data.balance = e.prev]
      [] e.kind = "code"    -> [st EXCEPT !.objs[e.addr].data.code = e.prev]
      [] e.kind = "storage" -> [st EXCEPT !.objs[e.addr].dirtyStorage[e.key] = e.prev]

-----------------------------------------------------------------------------
(* stateObject (state_object.go)                                           *)

newObject(data) ==
    [data |-> data, trie |-> NoTrie, originStorage |-> EmptyStorage,
     pendingStorage |-> EmptyStorage, dirtyStorage |-> EmptyStorage,
     deleted |-> FALSE]

ZeroAccount == [nonce |-> 0, balance |-> 0, root |-> EmptyRoot, code |-> EmptyCode]

empty(o) == o.data.nonce = 0 /\ o.data.balance = 0 /\ o.data.code = EmptyCode

\* getTrie: the storage trie, opened at data.Root on first use
getTrie(o) == IF o.trie = NoTrie THEN o.data.root ELSE o.trie

\* originStorage[key] as Go reads it: a missing key yields the zero hash
OriginOf(o, k) == IF o.originStorage[k] = NoVal THEN Zero ELSE o.originStorage[k]

\* GetState: dirty, then pending, then origin, then the storage trie
GetState(o, k) ==
    CASE o.dirtyStorage[k]   # NoVal -> o.dirtyStorage[k]
      [] o.pendingStorage[k] # NoVal -> o.pendingStorage[k]
      [] o.originStorage[k]  # NoVal -> o.originStorage[k]
      [] OTHER                       -> getTrie(o)[k]

\* The object after GetState(k): a cold read opens the trie and caches it
AfterGetState(o, k) ==
    IF \/ o.dirtyStorage[k] # NoVal \/ o.pendingStorage[k] # NoVal
       \/ o.originStorage[k] # NoVal
    THEN o
    ELSE [o EXCEPT !.trie = getTrie(o), !.originStorage[k] = getTrie(o)[k]]

\* finalise: dirtyStorage => pendingStorage
finalise(o) ==
    [o EXCEPT !.pendingStorage = [k \in Keys |->
                  IF o.dirtyStorage[k] # NoVal THEN o.dirtyStorage[k]
                                               ELSE o.pendingStorage[k]],
              !.dirtyStorage = EmptyStorage]

\* Fault variant of updateTrie: a zero value is recorded as the origin but
\* never deleted from the storage trie
updateTrieNoDelete(o) ==
    LET f       == finalise(o)
        tr      == getTrie(f)
        changed == {k \in Keys : /\ f.pendingStorage[k] # NoVal
                                 /\ f.pendingStorage[k] # OriginOf(f, k)}
    IN [f EXCEPT !.trie = [k \in Keys |->
                     IF k \in changed /\ f.pendingStorage[k] # Zero
                     THEN f.pendingStorage[k] ELSE tr[k]],
                 !.originStorage = [k \in Keys |->
                     IF k \in changed THEN f.pendingStorage[k] ELSE f.originStorage[k]],
                 !.pendingStorage = EmptyStorage]

\* updateTrie: finalise, then write every pending slot that differs from
\* its origin into the storage trie (Zero deletes it), and clear pending
updateTrie(o) ==
    LET f       == finalise(o)
        tr      == getTrie(f)
        changed == {k \in Keys : /\ f.pendingStorage[k] # NoVal
                                 /\ f.pendingStorage[k] # OriginOf(f, k)}
    IN [f EXCEPT !.trie = [k \in Keys |->
                     IF k \in changed THEN f.pendingStorage[k] ELSE tr[k]],
                 !.originStorage = [k \in Keys |->
                     IF k \in changed THEN f.pendingStorage[k] ELSE f.originStorage[k]],
                 !.pendingStorage = EmptyStorage]

\* updateRoot: updateTrie, then data.Root = trie.Hash()
updateRoot(o) == LET u == updateTrie(o) IN [u EXCEPT !.data.root = u.trie]

\* CommitTrie: updateTrie, then data.Root = trie.Commit()
CommitTrie(o) == LET u == updateTrie(o) IN [u EXCEPT !.data.root = u.trie]

-----------------------------------------------------------------------------
(* StateDB lookups (statedb.go)                                            *)

\* getDeletedStateObject: a miss in stateObjects decodes the account from
\* the trie and caches it; the objects map after the lookup
LoadObject(objs, a) ==
    IF objs[a] = NoObj /\ trie[a] # NoObj
    THEN [objs EXCEPT ![a] = newObject(trie[a])]
    ELSE objs

\* getStateObject returns a non-nil object
Live(objs, a) == objs[a] # NoObj /\ ~objs[a].deleted

\* Fault variant of GetOrNewStateObject: createObject journals a creation
\* even when it replaces a deleted object
GetOrNewAlwaysCreate(a) ==
    LET objs == LoadObject(stateObjects, a)
    IN IF Live(objs, a)
       THEN [objs |-> objs, log |-> <<>>]
       ELSE [objs |-> [objs EXCEPT ![a] = newObject(ZeroAccount)],
             log  |-> <<CreateChange(a)>>]

\* GetOrNewStateObject: the objects map afterwards and the journal entries
\* it appended.  createObject replaces a missing or deleted object with a
\* zero one, journalling a creation or a reset to the previous object.
GetOrNewStateObject(a) ==
    LET objs == LoadObject(stateObjects, a)
    IN IF Live(objs, a)
       THEN [objs |-> objs, log |-> <<>>]
       ELSE [objs |-> [objs EXCEPT ![a] = newObject(ZeroAccount)],
             log  |-> IF objs[a] = NoObj THEN <<CreateChange(a)>>
                                         ELSE <<ResetChange(objs[a], a)>>]

-----------------------------------------------------------------------------
(* What a caller of this engine can observe, and what a fresh engine       *)
(* opened on a trie reads.                                                 *)

ZeroReads == [nonce |-> 0, balance |-> 0, code |-> EmptyCode, storage |-> EmptyRoot]

AccountReads(acc) ==
    IF acc = NoObj THEN ZeroReads
    ELSE [nonce |-> acc.nonce, balance |-> acc.balance, code |-> acc.code,
          storage |-> acc.root]

Reads(a) ==
    LET o == stateObjects[a]
    IN IF o = NoObj THEN AccountReads(trie[a])
       ELSE IF o.deleted THEN ZeroReads
       ELSE [nonce |-> o.data.nonce, balance |-> o.data.balance,
             code |-> o.data.code, storage |-> [k \in Keys |-> GetState(o, k)]]

\* per address: does getStateObject return an object, and what reads give
View == [a \in Addrs |->
           [exists |-> Live(LoadObject(stateObjects, a), a), reads |-> Reads(a)]]

Observed == <<View, dirties>>

\* the history variable: a snapshot id is the journal length at a call
\* boundary, and snaps records what was observable there
TakeSnapshot ==
    snaps' = [i \in {j \in DOMAIN snaps : j <= Len(entries)} \cup {Len(entries')} |->
                IF i \in DOMAIN snaps /\ i <= Len(entries) THEN snaps[i] ELSE Observed']

-----------------------------------------------------------------------------
(* Operations.  Each mutating call of StateDB is one step: the object       *)
(* lookup or creation it starts with, the journal entries it appends and   *)
(* the mutation it makes.                                                  *)

Apply(objs, log) ==
    /\ Len(entries) + Len(log) <= MaxJournal
    /\ stateObjects' = objs
    /\ JournalAppend(log)
    /\ UNCHANGED <<trie, stateObjectsPending, stateObjectsDirty>>
    /\ TakeSnapshot

\* StateDB.SetBalance -> stateObject.SetBalance
SetBalance(a, v) ==
    LET g == GetOrNewStateObject(a)
        o == g.objs[a]
    IN Apply([g.objs EXCEPT ![a].data.balance = v],
             g.log \o <<BalanceChange(a, o.data.balance)>>)

\* StateDB.AddBalance -> stateObject.AddBalance: a zero amount returns
\* before SetBalance, after GetOrNewStateObject
AddBalance(a, amt) ==
    LET g == GetOrNewStateObject(a)
        o == g.objs[a]
    IN IF amt = 0 THEN Apply(g.objs, g.log)
       ELSE /\ o.data.balance + amt <= MaxBalance
            /\ Apply([g.objs EXCEPT ![a].data.balance = o.data.balance + amt],
                     g.log \o <<BalanceChange(a, o.data.balance)>>)

\* StateDB.SubBalance -> stateObject.SubBalance; the executor never
\* subtracts more than the balance
SubBalance(a, amt) ==
    LET g == GetOrNewStateObject(a)
        o == g.objs[a]
    IN IF amt = 0 THEN Apply(g.objs, g.log)
       ELSE /\ amt <= o.data.balance
            /\ Apply([g.objs EXCEPT ![a].data.balance = o.data.balance - amt],
                     g.log \o <<BalanceChange(a, o.data.balance)>>)

\* StateDB.SetNonce -> stateObject.SetNonce
SetNonce(a, n) ==
    LET g == GetOrNewStateObject(a)
        o == g.objs[a]
    IN Apply([g.objs EXCEPT ![a].data.nonce = n],
             g.log \o <<NonceChange(a, o.data.nonce)>>)

\* StateDB.SetCode -> stateObject.SetCode (code given by its hash)
SetCode(a, c) ==
    LET g == GetOrNewStateObject(a)
        o == g.objs[a]
    IN Apply([g.objs EXCEPT ![a].data.code = c],
             g.log \o <<CodeChange(a, o.data.code)>>)

\* StateDB.SetState -> stateObject.SetState: reads the previous value
\* (caching it), returns early if unchanged, else journals and writes dirty
SetState(a, k, v) ==
    LET g    == GetOrNewStateObject(a)
        o    == AfterGetState(g.objs[a], k)
        prev == GetState(g.objs[a], k)
    IN IF prev = v
       THEN Apply([g.objs EXCEPT ![a] = o], g.log)
       ELSE Apply([g.objs EXCEPT ![a] = [o EXCEPT !.dirtyStorage[k] = v]],
                  g.log \o <<StorageChange(a, k, prev)>>)

\* StateDB.GetBalance: getStateObject caches what it decodes from the trie
GetBalance(a) ==
    /\ stateObjects' = LoadObject(stateObjects, a)
    /\ UNCHANGED <<trie, stateObjectsPending, stateObjectsDirty, entries,
                   dirties, snaps>>

\* Fault variant of Revert: the dirty counts are not released
RevertKeepDirties(s) ==
    LET undone == FoldRight(LAMBDA e, st : UndoEntry(st, e),
                            SubSeq(entries, s + 1, Len(entries)),
                            [objs |-> stateObjects, dirty |-> stateObjectsDirty])
    IN /\ s < Len(entries)
       /\ stateObjects' = undone.objs
       /\ stateObjectsDirty' = undone.dirty
       /\ entries' = SubSeq(entries, 1, s)
       /\ UNCHANGED <<trie, stateObjectsPending, dirties>>
       /\ snaps' = [i \in {j \in DOMAIN snaps : j <= s} |-> snaps[i]]

\* journal.revert(statedb, s): undo entries len-1 down to s, decrementing
\* the dirty counts, then truncate
Revert(s) ==
    LET undone == FoldRight(LAMBDA e, st : UndoEntry(st, e),
                            SubSeq(entries, s + 1, Len(entries)),
                            [objs |-> stateObjects, dirty |-> stateObjectsDirty])
    IN /\ s < Len(entries)
       /\ stateObjects' = undone.objs
       /\ stateObjectsDirty' = undone.dirty
       /\ entries' = SubSeq(entries, 1, s)
       /\ dirties' = [a \in Addrs |-> dirties[a] -
                        Cardinality({i \in s + 1..Len(entries) : Dirtied(entries[i], a)})]
       /\ UNCHANGED <<trie, stateObjectsPending>>
       /\ snaps' = [i \in {j \in DOMAIN snaps : j <= s} |-> snaps[i]]

\* the addresses Finalise visits: the keys of journal.dirties that are live
\* in stateObjects
Touched == {a \in Addrs : dirties[a] > 0 /\ stateObjects[a] # NoObj}

\* the objects after Finalise(deleteEmptyObjects)
FinalisedObjects(deleteEmpty) ==
    [a \in Addrs |->
        IF a \notin Touched THEN stateObjects[a]
        ELSE IF deleteEmpty /\ empty(stateObjects[a])
             THEN [stateObjects[a] EXCEPT !.deleted = TRUE]
             ELSE finalise(stateObjects[a])]

\* clearJournalAndRefund
ClearJournal ==
    IF Len(entries) > 0 THEN /\ entries' = <<>>
                             /\ dirties' = [a \in Addrs |-> 0]
                        ELSE UNCHANGED <<entries, dirties>>

\* StateDB.Finalise
Finalise(deleteEmpty) ==
    /\ stateObjects' = FinalisedObjects(deleteEmpty)
    /\ stateObjectsPending' = stateObjectsPending \cup Touched
    /\ stateObjectsDirty' = stateObjectsDirty \cup Touched
    /\ ClearJournal
    /\ UNCHANGED trie
    /\ snaps' = (0 :> Observed')

\* the objects, account trie and dirty set after IntermediateRoot: each
\* pending address is deleted from the trie or has its storage root
\* updated and its record written
IR(deleteEmpty) ==
    LET objs == FinalisedObjects(deleteEmpty)
        pend == stateObjectsPending \cup Touched
        upd  == [a \in Addrs |->
                   IF a \in pend /\ ~objs[a].deleted THEN updateRoot(objs[a])
                                                     ELSE objs[a]]
    IN [objs  |-> upd,
        trie  |-> [a \in Addrs |->
                     IF a \notin pend THEN trie[a]
                     ELSE IF objs[a].deleted THEN NoObj ELSE upd[a].data],
        dirty |-> stateObjectsDirty \cup Touched]

\* StateDB.IntermediateRoot
IntermediateRoot(deleteEmpty) ==
    LET r == IR(deleteEmpty)
    IN /\ stateObjects' = r.objs
       /\ trie' = r.trie
       /\ stateObjectsPending' = {}
       /\ stateObjectsDirty' = r.dirty
       /\ ClearJournal
       /\ snaps' = (0 :> Observed')

\* StateDB.Commit: IntermediateRoot, CommitTrie on every live dirty object,
\* reset the dirty set, commit the account trie (its content, trie', is the
\* root returned)
Commit(deleteEmpty) ==
    LET r == IR(deleteEmpty)
    IN /\ stateObjects' = [a \in Addrs |->
                             IF a \in r.dirty /\ ~r.objs[a].deleted
                             THEN CommitTrie(r.objs[a]) ELSE r.objs[a]]
       /\ trie' = r.trie
       /\ stateObjectsPending' = {}
       /\ stateObjectsDirty' = {}
       /\ ClearJournal
       /\ snaps' = (0 :> Observed')

-----------------------------------------------------------------------------

\* New(root, db) on one of the tries the database holds
Init ==
    /\ trie \in InitTries
    /\ stateObjects = [a \in Addrs |-> NoObj]
    /\ stateObjectsPending = {}
    /\ stateObjectsDirty = {}
    /\ entries = <<>>
    /\ dirties = [a \in Addrs |-> 0]
    /\ snaps = (0 :> Observed)

Next ==
    \/ \E a \in Addrs :
          \/ \E amt \in Amounts : AddBalance(a, amt) \/ SubBalance(a, amt)
          \/ \E v \in 0..MaxBalance : SetBalance(a, v)
          \/ \E n \in 0..MaxNonce : SetNonce(a, n)
          \/ \E c \in Codes : SetCode(a, c)
          \/ \E k \in Keys, v \in Vals : SetState(a, k, v)
          \/ GetBalance(a)
    \/ \E s \in DOMAIN snaps : Revert(s)
    \/ \E d \in DeleteModes : Finalise(d) \/ IntermediateRoot(d) \/ Commit(d)

Spec == Init /\ [][Next]_vars

-----------------------------------------------------------------------------
(* Properties                                                              *)

TypeOK ==
    /\ trie \in [Addrs -> Account \cup {NoObj}]
    /\ stateObjects \in [Addrs -> StateObject \cup {NoObj}]
    /\ stateObjectsPending \subseteq Addrs
    /\ stateObjectsDirty \subseteq Addrs
    /\ Len(entries) <= MaxJournal
    /\ dirties \in [Addrs -> 0..MaxJournal]

(* Journal round trip (journal.revert and the setters of stateObject):    *)
(* whenever the journal has length s, what callers observe (which          *)
(* accounts exist, their nonce, balance, code and every storage read) and  *)
(* the per-address dirty counts are exactly what they were when the       *)
(* journal last reached length s at a call boundary.  So every setter      *)
(* journals the value it overwrites, and a revert to any snapshot undoes   *)
(* in reverse order and releases the dirty counts of what it undid.       *)
JournalRoundTrip == snaps[Len(entries)] = Observed

(* Root binding (IntermediateRoot, Commit, updateTrie, updateRoot): in the *)
(* state a root computation produces, a fresh engine opened on the account *)
(* trie reads, for every address, the same nonce, balance, code and       *)
(* storage as this engine's callers.  With JournalRoundTrip this makes    *)
(* the content behind the root a function of the mutations that were not  *)
(* reverted (root determinism, spec section 8.4).                          *)
RootMatchesView ==
    [][\A d \in DeleteModes :
          IntermediateRoot(d) \/ Commit(d) =>
             \A a \in Addrs : AccountReads(trie'[a]) = Reads(a)']_vars

(* Empty-account deletion (Finalise with deleteEmptyObjects, and the      *)
(* record IntermediateRoot pushes for each pending address): spec section *)
(* 3 makes an empty account eligible for deletion and section 4.3 has     *)
(* finalise(true) delete every touched empty object, so a root computed   *)
(* with deleteEmpty set never writes an empty account record.             *)
EmptyAccount(acc) == acc.nonce = 0 /\ acc.balance = 0 /\ acc.code = EmptyCode

NoEmptyRecordWritten ==
    [][(IntermediateRoot(TRUE) \/ Commit(TRUE)) =>
          \A a \in Addrs : trie'[a] # trie[a] /\ trie'[a] # NoObj
                              => ~EmptyAccount(trie'[a])]_vars

=============================================================================
