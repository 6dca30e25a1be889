------------------------------- MODULE DiffDB -------------------------------
(***************************************************************************)
(* The state database of db/diffdb: reads and writes of an executing block *)
(* go to a cache over the persisted store, Commit turns the cache into one *)
(* batch and a Diff, and RevertDiff takes a Diff back.                     *)
(*                                                                         *)
(* Every caller makes a new Database per block and drops it after Commit,  *)
(* so a commit, a discard and a revert end with an empty cache.  Keys are  *)
(* numbers, ordered as their bytes; values are model values.               *)
(***************************************************************************)
EXTENDS Integers, Sequences, FiniteSets

CONSTANTS
    Keys,
    Values,
    None,           \* a nil slice, and the absence of a map entry
    MaxSnapshots,   \* bound: snapshots taken of one Database
    MaxDiffs        \* bound: Diffs kept at a time

VARIABLES
    store,          \* the persisted key-value pairs
    cache,          \* cacheDB.data: key -> cacheValue
    snapshots,      \* snapshot id -> copy of the cache
    snapshotCount,
    diffs,          \* the stored Diffs that can still be reverted, oldest first
    past            \* history: the store before each of these Diffs

vars == <<store, cache, snapshots, snapshotCount, diffs, past>>

CacheValues ==
    [init : Values \cup {None}, value : Values, dirty : BOOLEAN, deleted : BOOLEAN]

Caches == [Keys -> CacheValues \cup {None}]

Stores == [Keys -> Values \cup {None}]

ASSUME KeysAssumption == Keys \subseteq Int /\ IsFiniteSet(Keys)

ASSUME BoundsAssumption == MaxSnapshots \in Nat /\ MaxDiffs \in Nat

ASSUME NoneAssumption == None \notin Values /\ None \notin CacheValues

emptyCache == [k \in Keys |-> None]

-----------------------------------------------------------------------------
(* cachedb.go                                                              *)

add(c, k, v) ==
    [c EXCEPT ![k] = [init |-> None, value |-> v, dirty |-> FALSE, deleted |-> FALSE]]

cacheOf(c, k, v) ==
    [c EXCEPT ![k] = [init |-> v, value |-> v, dirty |-> FALSE, deleted |-> FALSE]]

\* Mutant: the mark of a deleted value stays when it is written again.
setKeepsDeleted(c, k, v) ==
    [c EXCEPT ![k] = [@ EXCEPT !.value = v, !.dirty = TRUE]]

set(c, k, v) ==
    [c EXCEPT ![k] = [@ EXCEPT !.value = v, !.dirty = TRUE, !.deleted = FALSE]]

\* Mutant: a value that was never persisted is marked, not removed.
delMarked(c, k) ==
    IF c[k] = None THEN c
    ELSE [c EXCEPT ![k] = [@ EXCEPT !.deleted = TRUE]]

\* A value that is not in the database is removed from the cache altogether.
del(c, k) ==
    CASE c[k] = None -> c
      [] c[k] # None /\ c[k].init = None -> [c EXCEPT ![k] = None]
      [] c[k] # None /\ c[k].init # None ->
            [c EXCEPT ![k] = [@ EXCEPT !.deleted = TRUE]]

\* The three lists of a Diff, as the keys of each and the value each key had.
DiffOf(c) ==
    [added   |-> {k \in Keys : c[k] # None /\ c[k].init = None},
     deleted |-> {k \in Keys : c[k] # None /\ c[k].init # None /\ c[k].deleted},
     updated |-> {k \in Keys : /\ c[k] # None /\ c[k].init # None
                               /\ ~ c[k].deleted /\ c[k].dirty},
     value   |-> [k \in Keys |-> IF c[k] = None THEN None ELSE c[k].init]]

\* Mutant: the batch does not delete.
CommittedWithoutDeletes(s, c) ==
    LET diff == DiffOf(c)
    IN  [k \in Keys |-> IF k \in diff.added \cup diff.updated THEN c[k].value ELSE s[k]]

\* What the batch of a commit writes.
Committed(s, c) ==
    LET diff == DiffOf(c)
    IN  [k \in Keys |->
            IF k \in diff.added \cup diff.updated THEN c[k].value
            ELSE IF k \in diff.deleted THEN None
            ELSE s[k]]

-----------------------------------------------------------------------------
(* db.go                                                                   *)

\* Get: from the cache, or from the store, which is then cached.
ensureCache(c, s, k) == IF s[k] = None THEN c ELSE cacheOf(c, k, s[k])

CacheGet(c, s, k) == IF c[k] # None THEN c ELSE ensureCache(c, s, k)

GetResult(c, s, k) ==
    IF c[k] = None THEN s[k]
    ELSE IF c[k].deleted THEN None ELSE c[k].value

CacheSet(c, s, k, v) ==
    IF c[k] # None THEN set(c, k, v)
    ELSE IF s[k] # None THEN set(ensureCache(c, s, k), k, v)
    ELSE add(c, k, v)

CacheDel(c, s, k) ==
    del(IF c[k] # None THEN c ELSE ensureCache(c, s, k), k)

\* Mutant: deleted values are not put back.
RevertDiffAddedOnly(s, diff) ==
    [k \in Keys |->
        IF k \in diff.added THEN None
        ELSE IF k \in diff.updated THEN diff.value[k]
        ELSE s[k]]

RevertDiff(s, diff) ==
    [k \in Keys |->
        IF k \in diff.added THEN None
        ELSE IF k \in diff.deleted \cup diff.updated THEN diff.value[k]
        ELSE s[k]]

-----------------------------------------------------------------------------
(* Range over the keys lo .. hi; limit -1 is none.                         *)

Before(k, l, reverse) == IF reverse THEN k > l ELSE k < l

FirstKeys(S, limit, reverse) ==
    {k \in S : \/ limit = -1
               \/ Cardinality({l \in S : Before(l, k, reverse)}) < limit}

\* IterateRange of the store.
StoredKeys(s, lo, hi, limit, reverse) ==
    FirstKeys({k \in Keys : lo <= k /\ k <= hi /\ s[k] # None}, limit, reverse)

\* Every pair the store returns is cached unless it already is.
CacheRange(c, s, lo, hi, limit, reverse) ==
    [k \in Keys |->
        IF c[k] = None /\ k \in StoredKeys(s, lo, hi, limit, reverse)
        THEN cacheOf(c, k, s[k])[k] ELSE c[k]]

\* Mutant: pairs that are deleted in the cache are returned.
RangeResultWithDeleted(c, s, lo, hi, limit, reverse) ==
    LET c2 == CacheRange(c, s, lo, hi, limit, reverse)
        cached == {k \in Keys : lo <= k /\ k <= hi /\ c2[k] # None}
    IN  [k \in FirstKeys(cached, limit, reverse) |-> c2[k].value]

\* The pairs of the cache, and those of the store that it does not have.
RangeResult(c, s, lo, hi, limit, reverse) ==
    LET stored == {k \in StoredKeys(s, lo, hi, limit, reverse) :
                      c[k] = None \/ ~ c[k].deleted}
        c2     == CacheRange(c, s, lo, hi, limit, reverse)
        cached == {k \in Keys : lo <= k /\ k <= hi /\ c2[k] # None /\ ~ c2[k].deleted}
    IN  [k \in FirstKeys(cached \cup stored, limit, reverse) |->
            IF k \in cached THEN c2[k].value ELSE None]

-----------------------------------------------------------------------------
Init ==
    /\ store \in Stores
    /\ cache = emptyCache
    /\ snapshots = << >>
    /\ snapshotCount = 0
    /\ diffs = << >>
    /\ past = << >>

Get(k) ==
    /\ cache' = CacheGet(cache, store, k)
    /\ UNCHANGED <<store, snapshots, snapshotCount, diffs, past>>

ReadRange(lo, hi, limit, reverse) ==
    /\ cache' = CacheRange(cache, store, lo, hi, limit, reverse)
    /\ UNCHANGED <<store, snapshots, snapshotCount, diffs, past>>

Set(k, v) ==
    /\ cache' = CacheSet(cache, store, k, v)
    /\ UNCHANGED <<store, snapshots, snapshotCount, diffs, past>>

Del(k) ==
    /\ cache' = CacheDel(cache, store, k)
    /\ UNCHANGED <<store, snapshots, snapshotCount, diffs, past>>

Snapshot ==
    /\ snapshotCount < MaxSnapshots
    /\ snapshots' = [i \in DOMAIN snapshots \cup {snapshotCount} |->
                        IF i = snapshotCount THEN cache ELSE snapshots[i]]
    /\ snapshotCount' = snapshotCount + 1
    /\ UNCHANGED <<store, cache, diffs, past>>

DeleteSnapshot(id) ==
    /\ snapshots' = [i \in DOMAIN snapshots \ {id} |-> snapshots[i]]
    /\ UNCHANGED <<store, cache, snapshotCount, diffs, past>>

RestoreSnapshot(id) ==
    /\ id \in DOMAIN snapshots
    /\ cache' = snapshots[id]
    /\ snapshots' = [i \in DOMAIN snapshots \ {id} |-> snapshots[i]]
    /\ UNCHANGED <<store, snapshotCount, diffs, past>>

\* Mutant: snapshots outlive the block they were taken in.
NewDatabaseKeepsSnapshots ==
    /\ cache' = emptyCache
    /\ snapshotCount' = 0
    /\ UNCHANGED snapshots

NewDatabase ==
    /\ cache' = emptyCache
    /\ snapshots' = << >>
    /\ snapshotCount' = 0

\* Commit, and the write of its batch together with the Diff.
Commit ==
    /\ Len(diffs) < MaxDiffs
    /\ store' = Committed(store, cache)
    /\ diffs' = Append(diffs, DiffOf(cache))
    /\ past' = Append(past, store)
    /\ NewDatabase

\* The block is not executed after all, or its batch is not written.
Discard ==
    /\ NewDatabase
    /\ UNCHANGED <<store, diffs, past>>

\* RevertDiff of the newest Diff, and the write of its batch.
Revert ==
    /\ diffs # << >>
    /\ store' = RevertDiff(store, diffs[Len(diffs)])
    /\ diffs' = SubSeq(diffs, 1, Len(diffs) - 1)
    /\ past' = SubSeq(past, 1, Len(past) - 1)
    /\ NewDatabase

\* The Diff of a finalized height is deleted.
DeleteDiff ==
    /\ diffs # << >>
    /\ diffs' = Tail(diffs)
    /\ past' = Tail(past)
    /\ UNCHANGED <<store, cache, snapshots, snapshotCount>>

Next ==
    \/ \E k \in Keys : Get(k) \/ Del(k) \/ \E v \in Values : Set(k, v)
    \/ \E lo \in Keys, hi \in Keys, limit \in {-1, 1}, reverse \in BOOLEAN :
          ReadRange(lo, hi, limit, reverse)
    \/ Snapshot
    \/ \E id \in 0 .. snapshotCount - 1 : DeleteSnapshot(id) \/ RestoreSnapshot(id)
    \/ Commit
    \/ Discard
    \/ Revert
    \/ DeleteDiff

Spec == Init /\ [][Next]_vars

-----------------------------------------------------------------------------
(* Properties.                                                             *)

Diffs ==
    [added : SUBSET Keys, deleted : SUBSET Keys, updated : SUBSET Keys,
     value : [Keys -> Values \cup {None}]]

\* The variables have the types of the structs in db.go, cachedb.go, diff.go.
TypeOK ==
    /\ store \in Stores
    /\ cache \in Caches
    /\ snapshotCount \in 0 .. MaxSnapshots
    /\ snapshots \in [DOMAIN snapshots -> Caches]
    /\ DOMAIN snapshots \subseteq 0 .. snapshotCount - 1
    /\ diffs \in Seq(Diffs)
    /\ past \in Seq(Stores)
    /\ Len(past) = Len(diffs)

\* What a cache says of the store it was filled from: init is the stored value
\* and is nil exactly for keys that are not stored, which are never marked
\* deleted; a clean stored value is the stored one.
Faithful(c, s) ==
    \A k \in Keys : c[k] # None =>
        /\ c[k].init = s[k]
        /\ c[k].init = None => ~ c[k].deleted
        /\ c[k].init # None /\ ~ c[k].dirty => c[k].value = c[k].init

\* The cache and every snapshot of it agree with the persisted store, so that
\* commit sorts each key into the right list of the Diff (cachedb.go:165).
CachesFaithful ==
    /\ Faithful(cache, store)
    /\ \A id \in DOMAIN snapshots : Faithful(snapshots[id], store)

\* Reverting the stored Diffs newest first goes back through exactly the
\* stores there were (deleteBlock and ABIHandler.revert rely on it).
RevertUndoesCommit ==
    \A i \in 1 .. Len(diffs) :
        RevertDiff(IF i = Len(diffs) THEN store ELSE past[i + 1], diffs[i]) = past[i]

\* The inductive invariant.
DiffInv == TypeOK /\ CachesFaithful /\ RevertUndoesCommit

\* What a reader sees: the cache laid over the store.
View(c) == [k \in Keys |-> GetResult(c, store, k)]

\* Range returns what a sorted map would, unless it is limited and a key of the
\* range is deleted in the cache: the limit counts the store's pairs before the
\* deleted ones are taken out (db.go:115-122).
RangeMatchesView ==
    \A lo \in Keys, hi \in Keys, limit \in {-1, 1, 2}, reverse \in BOOLEAN :
        LET inRange == {k \in Keys : lo <= k /\ k <= hi}
            present == {k \in inRange : View(cache)[k] # None}
        IN  \/ limit # -1 /\ \E k \in inRange : cache[k] # None /\ cache[k].deleted
            \/ RangeResult(cache, store, lo, hi, limit, reverse) =
                  [k \in FirstKeys(present, limit, reverse) |-> View(cache)[k]]

\* diffdb implements the map that KVStore describes.
Abstract == INSTANCE KVStore WITH
    contents <- View(cache),
    base     <- store,
    undo     <- past,
    Ids      <- 0 .. MaxSnapshots - 1,
    saved    <- [id \in DOMAIN snapshots |-> View(snapshots[id])]

\* Every operation on the cache, the snapshots and the Diffs is one operation
\* on the plain map, or none.
ImplementsKVStore == Abstract!Spec

\* And it is the operation of its name: reads change nothing that can be seen,
\* Set, Del, Commit, RestoreSnapshot and Revert do to the view what they say.
OperationsMatch ==
    [][/\ \A k \in Keys :
             /\ Get(k) => UNCHANGED Abstract!vars
             /\ Del(k) => Abstract!Del(k)
             /\ \A v \in Values : Set(k, v) => Abstract!Set(k, v)
       /\ \A lo \in Keys, hi \in Keys, limit \in {-1, 1}, reverse \in BOOLEAN :
             ReadRange(lo, hi, limit, reverse) => UNCHANGED Abstract!vars
       /\ Snapshot => Abstract!Save(snapshotCount)
       /\ \A id \in 0 .. snapshotCount - 1 :
             RestoreSnapshot(id) => Abstract!Restore(id)
       /\ Commit => Abstract!Commit
       /\ Discard => Abstract!Discard
       /\ Revert => Abstract!Revert]_vars
=============================================================================
