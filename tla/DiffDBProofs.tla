---------------------------- MODULE DiffDBProofs ----------------------------
(***************************************************************************)
(* The cache of db/diffdb always agrees with the store below it, reverting *)
(* the Diffs goes back through the committed stores, and diffdb implements *)
(* KVStore: for every set of keys and values and any number of snapshots   *)
(* and Diffs.                                                              *)
(***************************************************************************)
EXTENDS DiffDB, SetTheorems, TLAPS

-----------------------------------------------------------------------------
(* Caches.                                                                 *)

\* An entry of a cache is a cacheValue.
LEMMA EntryType ==
    ASSUME NEW c \in Caches, NEW k \in Keys, c[k] # None
    PROVE  /\ c[k] \in CacheValues
           /\ c[k].init \in Values \cup {None}
           /\ c[k].value \in Values
           /\ c[k].dirty \in BOOLEAN
           /\ c[k].deleted \in BOOLEAN
  BY DEF Caches, CacheValues

\* A nil entry is no cacheValue, so writing one makes the key cached.
LEMMA NoneIsNoEntry ==
    ASSUME NEW e \in CacheValues
    PROVE  e # None
  BY NoneAssumption

\* The empty cache of a new Database says nothing of the store.
LEMMA EmptyCacheFaithful ==
    ASSUME NEW s \in Stores
    PROVE  emptyCache \in Caches /\ Faithful(emptyCache, s)
  BY DEF emptyCache, Caches, Faithful

\* Filling the cache from the store.
LEMMA EnsureCacheFaithful ==
    ASSUME NEW s \in Stores, NEW c \in Caches, Faithful(c, s), NEW k \in Keys
    PROVE  /\ ensureCache(c, s, k) \in Caches
           /\ Faithful(ensureCache(c, s, k), s)
           /\ s[k] # None => ensureCache(c, s, k)[k] # None
           /\ s[k] = None => ensureCache(c, s, k) = c
           /\ \A l \in Keys \ {k} : ensureCache(c, s, k)[l] = c[l]
  <1> DEFINE e == [init |-> s[k], value |-> s[k], dirty |-> FALSE, deleted |-> FALSE]
  <1>1. CASE s[k] = None
    BY <1>1 DEF ensureCache
  <1>2. CASE s[k] # None
    <2>1. e \in CacheValues
      BY <1>2 DEF Stores, CacheValues
    <2>2. ensureCache(c, s, k) = [c EXCEPT ![k] = e]
      BY <1>2 DEF ensureCache, cacheOf
    <2>3. e # None
      BY Zenon, <2>1, NoneIsNoEntry
    <2> HIDE DEF e
    <2>4. [c EXCEPT ![k] = e] \in Caches
      BY <2>1 DEF Caches
    <2>5. \A l \in Keys : [c EXCEPT ![k] = e][l] = IF l = k THEN e ELSE c[l]
      BY DEF Caches
    <2>6. Faithful([c EXCEPT ![k] = e], s)
      BY <2>5, <1>2 DEF Faithful, e
    <2> QED BY <1>2, <2>2, <2>3, <2>4, <2>5, <2>6
  <1> QED BY <1>1, <1>2

\* Set on a key that is cached.
LEMMA SetFaithful ==
    ASSUME NEW s \in Stores, NEW c \in Caches, Faithful(c, s), NEW k \in Keys,
           c[k] # None, NEW v \in Values
    PROVE  /\ set(c, k, v) \in Caches
           /\ Faithful(set(c, k, v), s)
           /\ set(c, k, v)[k] # None
           /\ ~ set(c, k, v)[k].deleted
           /\ set(c, k, v)[k].value = v
           /\ \A l \in Keys \ {k} : set(c, k, v)[l] = c[l]
  <1> DEFINE e == [c[k] EXCEPT !.value = v, !.dirty = TRUE, !.deleted = FALSE]
  <1>1. c[k] \in CacheValues
    BY EntryType
  <1>2. e \in CacheValues /\ e.init = c[k].init /\ e.value = v /\ e.dirty /\ ~ e.deleted
    BY Zenon, <1>1 DEF CacheValues
  <1>3. set(c, k, v) = [c EXCEPT ![k] = e]
    BY DEF set
  <1> HIDE DEF e
  <1>4. e # None
    BY <1>2, NoneIsNoEntry
  <1>5. [c EXCEPT ![k] = e] \in Caches
    BY <1>2 DEF Caches
  <1>6. \A l \in Keys : [c EXCEPT ![k] = e][l] = IF l = k THEN e ELSE c[l]
    BY DEF Caches
  <1>7. Faithful([c EXCEPT ![k] = e], s)
    BY <1>2, <1>6 DEF Faithful
  <1> QED BY <1>2, <1>3, <1>4, <1>5, <1>6, <1>7

\* Set, on any key: the cache stays faithful and reads back what was written.
LEMMA CacheSetSound ==
    ASSUME NEW s \in Stores, NEW c \in Caches, Faithful(c, s), NEW k \in Keys,
           NEW v \in Values
    PROVE  /\ CacheSet(c, s, k, v) \in Caches
           /\ Faithful(CacheSet(c, s, k, v), s)
           /\ GetResult(CacheSet(c, s, k, v), s, k) = v
           /\ \A l \in Keys \ {k} :
                 GetResult(CacheSet(c, s, k, v), s, l) = GetResult(c, s, l)
  <1>1. CASE c[k] # None
    <2>1. CacheSet(c, s, k, v) = set(c, k, v)
      BY <1>1 DEF CacheSet
    <2> QED BY <1>1, <2>1, SetFaithful DEF GetResult
  <1>2. CASE c[k] = None /\ s[k] # None
    <2> DEFINE d == ensureCache(c, s, k)
    <2>1. CacheSet(c, s, k, v) = set(d, k, v)
      BY <1>2 DEF CacheSet
    <2>2. d \in Caches /\ Faithful(d, s) /\ d[k] # None
          /\ \A l \in Keys \ {k} : d[l] = c[l]
      BY <1>2, EnsureCacheFaithful
    <2> HIDE DEF d
    <2> QED BY <2>1, <2>2, SetFaithful DEF GetResult
  <1>3. CASE c[k] = None /\ s[k] = None
    <2> DEFINE e == [init |-> None, value |-> v, dirty |-> FALSE, deleted |-> FALSE]
    <2>1. CacheSet(c, s, k, v) = [c EXCEPT ![k] = e]
      BY <1>3 DEF CacheSet, add
    <2>2. e \in CacheValues /\ e.init = None /\ e.value = v /\ ~ e.dirty /\ ~ e.deleted
      BY DEF CacheValues
    <2> HIDE DEF e
    <2>3. e # None
      BY <2>2, NoneIsNoEntry
    <2>4. [c EXCEPT ![k] = e] \in Caches
      BY <2>2 DEF Caches
    <2>5. \A l \in Keys : [c EXCEPT ![k] = e][l] = IF l = k THEN e ELSE c[l]
      BY DEF Caches
    <2>6. Faithful([c EXCEPT ![k] = e], s)
      BY <1>3, <2>2, <2>5 DEF Faithful
    <2> QED BY <2>1, <2>2, <2>3, <2>4, <2>5, <2>6 DEF GetResult
  <1> QED BY <1>1, <1>2, <1>3

\* del: the key can no longer be read, the other keys stay.
LEMMA DelFaithful ==
    ASSUME NEW s \in Stores, NEW c \in Caches, Faithful(c, s), NEW k \in Keys,
           c[k] # None \/ s[k] = None
    PROVE  /\ del(c, k) \in Caches
           /\ Faithful(del(c, k), s)
           /\ GetResult(del(c, k), s, k) = None
           /\ \A l \in Keys \ {k} : del(c, k)[l] = c[l]
  <1>1. CASE c[k] = None
    BY <1>1 DEF del, GetResult
  <1>2. CASE c[k] # None /\ c[k].init = None
    <2>1. del(c, k) = [c EXCEPT ![k] = None]
      BY <1>2 DEF del
    <2>2. [c EXCEPT ![k] = None] \in Caches
      BY DEF Caches
    <2>3. \A l \in Keys : [c EXCEPT ![k] = None][l] = IF l = k THEN None ELSE c[l]
      BY DEF Caches
    <2>4. s[k] = None
      BY <1>2 DEF Faithful
    <2> QED BY <2>1, <2>2, <2>3, <2>4 DEF Faithful, GetResult
  <1>3. CASE c[k] # None /\ c[k].init # None
    <2> DEFINE e == [c[k] EXCEPT !.deleted = TRUE]
    <2>1. c[k] \in CacheValues
      BY <1>3, EntryType
    <2>2. /\ e \in CacheValues /\ e.init = c[k].init /\ e.value = c[k].value
          /\ e.dirty = c[k].dirty /\ e.deleted
      BY Zenon, <2>1 DEF CacheValues
    <2>3. del(c, k) = [c EXCEPT ![k] = e]
      BY <1>3 DEF del
    <2> HIDE DEF e
    <2>4. e # None
      BY <2>2, NoneIsNoEntry
    <2>5. [c EXCEPT ![k] = e] \in Caches
      BY <2>2 DEF Caches
    <2>6. \A l \in Keys : [c EXCEPT ![k] = e][l] = IF l = k THEN e ELSE c[l]
      BY DEF Caches
    <2>7. Faithful([c EXCEPT ![k] = e], s)
      BY <1>3, <2>2, <2>6 DEF Faithful
    <2> QED BY <2>2, <2>3, <2>4, <2>5, <2>6, <2>7 DEF GetResult
  <1> QED BY <1>1, <1>2, <1>3

\* Filling the cache from the store cannot be seen by a reader.
LEMMA EnsureCacheUnseen ==
    ASSUME NEW s \in Stores, NEW c \in Caches, NEW k \in Keys, c[k] = None
    PROVE  \A l \in Keys : GetResult(ensureCache(c, s, k), s, l) = GetResult(c, s, l)
  <1> DEFINE e == [init |-> s[k], value |-> s[k], dirty |-> FALSE, deleted |-> FALSE]
  <1>1. CASE s[k] = None
    BY <1>1 DEF ensureCache
  <1>2. CASE s[k] # None
    <2>1. ensureCache(c, s, k) = [c EXCEPT ![k] = e]
      BY <1>2 DEF ensureCache, cacheOf
    <2>2. e.value = s[k] /\ ~ e.deleted
      OBVIOUS
    <2> HIDE DEF e
    <2>3. \A l \in Keys : [c EXCEPT ![k] = e][l] = IF l = k THEN e ELSE c[l]
      BY DEF Caches
    <2> QED BY <2>1, <2>2, <2>3 DEF GetResult
  <1> QED BY <1>1, <1>2

\* Del, on any key.
LEMMA CacheDelSound ==
    ASSUME NEW s \in Stores, NEW c \in Caches, Faithful(c, s), NEW k \in Keys
    PROVE  /\ CacheDel(c, s, k) \in Caches
           /\ Faithful(CacheDel(c, s, k), s)
           /\ GetResult(CacheDel(c, s, k), s, k) = None
           /\ \A l \in Keys \ {k} :
                 GetResult(CacheDel(c, s, k), s, l) = GetResult(c, s, l)
  <1>1. CASE c[k] # None
    <2>1. CacheDel(c, s, k) = del(c, k)
      BY <1>1 DEF CacheDel
    <2> QED BY <1>1, <2>1, DelFaithful DEF GetResult
  <1>2. CASE c[k] = None
    <2> DEFINE d == ensureCache(c, s, k)
    <2>1. CacheDel(c, s, k) = del(d, k)
      BY <1>2 DEF CacheDel
    <2>2. d \in Caches /\ Faithful(d, s) /\ (d[k] # None \/ s[k] = None)
          /\ \A l \in Keys \ {k} : d[l] = c[l]
      BY EnsureCacheFaithful
    <2> HIDE DEF d
    <2> QED BY <2>1, <2>2, DelFaithful DEF GetResult
  <1> QED BY <1>1, <1>2

\* Get caches what it reads and changes nothing a reader sees.
LEMMA CacheGetSound ==
    ASSUME NEW s \in Stores, NEW c \in Caches, Faithful(c, s), NEW k \in Keys
    PROVE  /\ CacheGet(c, s, k) \in Caches
           /\ Faithful(CacheGet(c, s, k), s)
           /\ \A l \in Keys : GetResult(CacheGet(c, s, k), s, l) = GetResult(c, s, l)
  BY EnsureCacheFaithful, EnsureCacheUnseen DEF CacheGet

\* Nor does a Range, whatever its bounds, limit and direction.
LEMMA CacheRangeSound ==
    ASSUME NEW s \in Stores, NEW c \in Caches, Faithful(c, s),
           NEW lo, NEW hi, NEW limit, NEW reverse
    PROVE  LET d == CacheRange(c, s, lo, hi, limit, reverse)
           IN  /\ d \in Caches
               /\ Faithful(d, s)
               /\ \A l \in Keys : GetResult(d, s, l) = GetResult(c, s, l)
  <1> DEFINE d == CacheRange(c, s, lo, hi, limit, reverse)
             stored == StoredKeys(s, lo, hi, limit, reverse)
             e(k) == [init |-> s[k], value |-> s[k], dirty |-> FALSE, deleted |-> FALSE]
  <1>1. \A k \in stored : k \in Keys /\ s[k] # None
    BY DEF StoredKeys, FirstKeys
  <1>2. \A k \in Keys : cacheOf(c, k, s[k])[k] = e(k)
    BY DEF cacheOf, Caches
  <1>3. \A k \in stored : /\ e(k) \in CacheValues
                          /\ e(k).init = s[k] /\ e(k).value = s[k]
                          /\ ~ e(k).deleted
    BY <1>1 DEF CacheValues, Stores
  <1>4. \A k \in Keys : d[k] = IF c[k] = None /\ k \in stored THEN e(k) ELSE c[k]
    BY <1>2 DEF CacheRange
  <1>5. d = [k \in Keys |-> d[k]]
    BY DEF CacheRange
  <1> HIDE DEF d, stored, e
  <1>6. d \in Caches
    BY <1>3, <1>4, <1>5 DEF Caches
  <1>7. \A k \in stored : e(k) # None
    BY <1>3, NoneIsNoEntry
  <1>8. Faithful(d, s)
    BY <1>1, <1>3, <1>4, <1>7 DEF Faithful
  <1>9. \A l \in Keys : GetResult(d, s, l) = GetResult(c, s, l)
    BY <1>3, <1>4, <1>7 DEF GetResult
  <1> QED BY <1>6, <1>8, <1>9 DEF d

-----------------------------------------------------------------------------
(* Commit and RevertDiff.                                                  *)

\* A commit persists what a reader saw, and its Diff takes it back.
LEMMA CommitSound ==
    ASSUME NEW s \in Stores, NEW c \in Caches, Faithful(c, s)
    PROVE  /\ Committed(s, c) \in Stores
           /\ DiffOf(c) \in Diffs
           /\ \A k \in Keys : Committed(s, c)[k] = GetResult(c, s, k)
           /\ RevertDiff(Committed(s, c), DiffOf(c)) = s
  <1> DEFINE diff == DiffOf(c)
             t == Committed(s, c)
  <1>1. \A k \in Keys : c[k] # None =>
            /\ c[k].value \in Values /\ c[k].init \in Values \cup {None}
            /\ c[k].deleted \in BOOLEAN /\ c[k].dirty \in BOOLEAN
    BY EntryType
  <1>2. diff \in Diffs
    <2>1. [k \in Keys |-> IF c[k] = None THEN None ELSE c[k].init]
             \in [Keys -> Values \cup {None}]
      BY <1>1
    <2> QED BY <2>1 DEF DiffOf, Diffs
  <1>3. \A k \in Keys :
            /\ k \in diff.added <=> c[k] # None /\ c[k].init = None
            /\ k \in diff.deleted <=> c[k] # None /\ c[k].init # None /\ c[k].deleted
            /\ k \in diff.updated <=> /\ c[k] # None /\ c[k].init # None
                                      /\ ~ c[k].deleted /\ c[k].dirty
            /\ diff.value[k] = IF c[k] = None THEN None ELSE c[k].init
    BY DEF DiffOf
  <1>4. t = [k \in Keys |->
                IF k \in diff.added \cup diff.updated THEN c[k].value
                ELSE IF k \in diff.deleted THEN None
                ELSE s[k]]
    BY DEF Committed
  <1>5. RevertDiff(t, diff) =
            [k \in Keys |-> IF k \in diff.added THEN None
                            ELSE IF k \in diff.deleted \cup diff.updated
                            THEN diff.value[k] ELSE t[k]]
    BY DEF RevertDiff
  <1> HIDE DEF diff, t
  <1>6. \A k \in Keys : t[k] = GetResult(c, s, k) /\ t[k] \in Values \cup {None}
    BY <1>1, <1>3, <1>4 DEF GetResult, Faithful, Stores
  <1>7. t \in Stores
    BY <1>4, <1>6 DEF Stores
  <1>8. \A k \in Keys : RevertDiff(t, diff)[k] = s[k]
    BY <1>1, <1>3, <1>4, <1>5 DEF Faithful
  <1>9. RevertDiff(t, diff) = s
    BY <1>5, <1>8 DEF Stores
  <1> QED BY <1>2, <1>6, <1>7, <1>9 DEF diff, t

-----------------------------------------------------------------------------
(* The inductive invariant.                                                *)

(* A fresh Database satisfies the invariant.                               *)
LEMMA InitDiffInv == Init => DiffInv
  <1> SUFFICES ASSUME Init PROVE DiffInv
    OBVIOUS
  <1>1. store \in Stores /\ cache = emptyCache
    BY DEF Init
  <1>2. snapshots = << >> /\ snapshotCount = 0 /\ diffs = << >> /\ past = << >>
    BY DEF Init
  <1>3. CachesFaithful
    BY <1>1, <1>2, EmptyCacheFaithful DEF CachesFaithful
  <1>4. TypeOK
    BY <1>1, <1>2, EmptyCacheFaithful, BoundsAssumption DEF TypeOK
  <1>5. RevertUndoesCommit
    BY <1>2 DEF RevertUndoesCommit
  <1> QED BY <1>3, <1>4, <1>5 DEF DiffInv

\* A step that only writes the cache, or takes a snapshot back.
LEMMA CacheStep ==
    ASSUME DiffInv, cache' \in Caches, Faithful(cache', store),
           UNCHANGED <<store, snapshotCount, diffs, past>>,
           snapshots' \in [DOMAIN snapshots' -> Caches],
           DOMAIN snapshots' \subseteq 0 .. snapshotCount - 1,
           \A id \in DOMAIN snapshots' : Faithful(snapshots'[id], store)
    PROVE  DiffInv'
  <1>1. TypeOK'
    BY DEF DiffInv, TypeOK
  <1>2. CachesFaithful'
    BY DEF CachesFaithful, Faithful
  <1>3. RevertUndoesCommit'
    BY DEF DiffInv, RevertUndoesCommit, RevertDiff
  <1> QED BY <1>1, <1>2, <1>3 DEF DiffInv

\* A step to a new Database, with the store and the Diffs still in order.
LEMMA NewDatabaseStep ==
    ASSUME store' \in Stores, diffs' \in Seq(Diffs), past' \in Seq(Stores),
           Len(past') = Len(diffs'), RevertUndoesCommit', NewDatabase
    PROVE  DiffInv'
  <1>1. cache' = emptyCache /\ snapshots' = << >> /\ snapshotCount' = 0
    BY DEF NewDatabase
  <1>2. CachesFaithful'
    BY <1>1, EmptyCacheFaithful DEF CachesFaithful, Faithful
  <1>3. TypeOK'
    BY <1>1, EmptyCacheFaithful, BoundsAssumption DEF TypeOK
  <1> QED BY <1>2, <1>3 DEF DiffInv

\* Commit writes the cache and stores the Diff.
LEMMA CommitStep ==
    ASSUME DiffInv, Commit
    PROVE  DiffInv'
  <1> DEFINE d == DiffOf(cache)
  <1>1. /\ store \in Stores /\ cache \in Caches /\ Faithful(cache, store)
        /\ diffs \in Seq(Diffs) /\ past \in Seq(Stores) /\ Len(past) = Len(diffs)
    BY DEF DiffInv, TypeOK, CachesFaithful
  <1>2. /\ store' \in Stores /\ d \in Diffs /\ RevertDiff(store', d) = store
    BY <1>1, CommitSound DEF Commit
  <1>3. diffs' = Append(diffs, d) /\ past' = Append(past, store)
    BY DEF Commit
  <1> HIDE DEF d
  <1>4. /\ diffs' \in Seq(Diffs) /\ past' \in Seq(Stores)
        /\ Len(diffs') = Len(diffs) + 1 /\ Len(past') = Len(diffs')
        /\ Len(diffs) \in Nat
        /\ diffs'[Len(diffs) + 1] = d /\ past'[Len(diffs) + 1] = store
        /\ \A i \in 1 .. Len(diffs) : diffs'[i] = diffs[i] /\ past'[i] = past[i]
    BY <1>1, <1>2, <1>3
  <1>5. RevertUndoesCommit'
    <2> SUFFICES ASSUME NEW i \in 1 .. Len(diffs')
                 PROVE  RevertDiff(IF i = Len(diffs') THEN store' ELSE past'[i + 1],
                                   diffs'[i]) = past'[i]
      BY DEF RevertUndoesCommit, RevertDiff
    <2>1. CASE i = Len(diffs')
      BY <2>1, <1>2, <1>4
    <2>2. CASE i # Len(diffs')
      <3>1. i \in 1 .. Len(diffs) /\ i + 1 \in 1 .. Len(diffs) + 1
        BY <2>2, <1>4
      <3>2. past'[i + 1] = IF i = Len(diffs) THEN store ELSE past[i + 1]
        BY <3>1, <1>4
      <3>3. RevertDiff(IF i = Len(diffs) THEN store ELSE past[i + 1], diffs[i]) = past[i]
        BY <3>1 DEF DiffInv, RevertUndoesCommit
      <3> QED BY <2>2, <3>1, <3>2, <3>3, <1>4
    <2> QED BY <2>1, <2>2
  <1> QED BY <1>2, <1>4, <1>5, NewDatabaseStep DEF Commit

\* Reverting the newest Diff gives the store before it.
LEMMA RevertStore ==
    ASSUME DiffInv, Revert
    PROVE  store' = past[Len(past)] /\ store' \in Stores
  <1>1. Len(diffs) \in Nat /\ diffs # << >> /\ Len(past) = Len(diffs)
        /\ past \in Seq(Stores) /\ diffs \in Seq(Diffs)
    BY DEF DiffInv, TypeOK, Revert
  <1>2. Len(diffs) \in 1 .. Len(diffs)
    BY <1>1
  <1>3. RevertDiff(store, diffs[Len(diffs)]) = past[Len(diffs)]
    BY <1>2 DEF DiffInv, RevertUndoesCommit
  <1> QED BY <1>1, <1>2, <1>3 DEF Revert

\* RevertDiff takes the newest Diff off the history.
LEMMA RevertStep ==
    ASSUME DiffInv, Revert
    PROVE  DiffInv'
  <1> DEFINE n == Len(diffs)
  <1>1. /\ diffs \in Seq(Diffs) /\ past \in Seq(Stores) /\ Len(past) = n
        /\ n \in Nat /\ n # 0
    BY DEF DiffInv, TypeOK, Revert
  <1>2. diffs' = SubSeq(diffs, 1, n - 1) /\ past' = SubSeq(past, 1, n - 1)
    BY <1>1 DEF Revert
  <1>3. store' = past[n] /\ store' \in Stores
    BY <1>1, RevertStore
  <1>4. /\ diffs' \in Seq(Diffs) /\ Len(diffs') = n - 1
        /\ \A i \in 1 .. n - 1 : diffs'[i] = diffs[i]
    BY <1>1, <1>2
  <1>5. /\ past' \in Seq(Stores) /\ Len(past') = n - 1
        /\ \A i \in 1 .. n - 1 : past'[i] = past[i]
    BY <1>1, <1>2
  <1>6. \A i \in 1 .. n - 1 : RevertDiff(past[i + 1], diffs[i]) = past[i]
    <2> TAKE i \in 1 .. n - 1
    <2>1. i \in 1 .. n /\ i # n
      BY <1>1
    <2> QED BY <2>1 DEF DiffInv, RevertUndoesCommit
  <1>7. RevertUndoesCommit'
    <2> SUFFICES ASSUME NEW i \in 1 .. Len(diffs')
                 PROVE  RevertDiff(IF i = Len(diffs') THEN store' ELSE past'[i + 1],
                                   diffs'[i]) = past'[i]
      BY DEF RevertUndoesCommit, RevertDiff
    <2> HIDE DEF n
    <2>1. i \in 1 .. n - 1
      BY <1>4
    <2>2. (IF i = Len(diffs') THEN store' ELSE past'[i + 1]) = past[i + 1]
      BY <1>1, <1>3, <1>4, <1>5, <2>1
    <2> QED BY <1>4, <1>5, <1>6, <2>1, <2>2
  <1> QED BY Zenon, <1>3, <1>4, <1>5, <1>7, NewDatabaseStep DEF Revert

\* Pruning drops the oldest Diff only.
LEMMA DeleteDiffStep ==
    ASSUME DiffInv, DeleteDiff
    PROVE  DiffInv'
  <1> DEFINE n == Len(diffs)
  <1>1. /\ diffs \in Seq(Diffs) /\ past \in Seq(Stores) /\ Len(past) = n
        /\ n \in Nat /\ n # 0
    BY DEF DiffInv, TypeOK, DeleteDiff
  <1>2. /\ diffs' = Tail(diffs) /\ past' = Tail(past)
        /\ UNCHANGED <<store, cache, snapshots, snapshotCount>>
    BY DEF DeleteDiff
  <1>3. /\ diffs' \in Seq(Diffs) /\ Len(diffs') = n - 1
        /\ \A i \in 1 .. n - 1 : diffs'[i] = diffs[i + 1]
    BY <1>1, <1>2
  <1>4. /\ past' \in Seq(Stores) /\ Len(past') = n - 1
        /\ \A i \in 1 .. n - 1 : past'[i] = past[i + 1]
    BY <1>1, <1>2
  <1>5. RevertUndoesCommit'
    <2> SUFFICES ASSUME NEW i \in 1 .. Len(diffs')
                 PROVE  RevertDiff(IF i = Len(diffs') THEN store' ELSE past'[i + 1],
                                   diffs'[i]) = past'[i]
      BY DEF RevertUndoesCommit, RevertDiff
    <2>1. RevertDiff(IF i + 1 = n THEN store ELSE past[(i + 1) + 1], diffs[i + 1])
             = past[i + 1]
      <3>1. i + 1 \in 1 .. n
        BY <1>1, <1>3
      <3> QED BY <3>1 DEF DiffInv, RevertUndoesCommit
    <2> HIDE DEF n
    <2>2. i \in 1 .. n - 1
      BY <1>3
    <2>3. (IF i = Len(diffs') THEN store' ELSE past'[i + 1]) =
          (IF i + 1 = n THEN store ELSE past[(i + 1) + 1])
      <3>1. CASE i = n - 1
        BY <3>1, <1>1, <1>2, <1>3
      <3>2. CASE i # n - 1
        <4>1. i + 1 \in 1 .. n - 1 /\ i + 1 # n
          BY <3>2, <2>2, <1>1
        <4> QED BY <4>1, <3>2, <1>3, <1>4
      <3> QED BY <3>1, <3>2
    <2> QED BY <1>3, <1>4, <2>1, <2>2, <2>3
  <1>6. TypeOK'
    BY <1>2, <1>3, <1>4 DEF DiffInv, TypeOK
  <1>7. CachesFaithful'
    BY <1>2 DEF DiffInv, CachesFaithful, Faithful
  <1> QED BY <1>5, <1>6, <1>7 DEF DiffInv

\* Taking a snapshot copies a faithful cache under a new id.
LEMMA SnapshotStep ==
    ASSUME DiffInv, Snapshot
    PROVE  DiffInv'
  <1>1. /\ cache \in Caches /\ Faithful(cache, store) /\ snapshotCount \in Nat
        /\ snapshots \in [DOMAIN snapshots -> Caches]
        /\ DOMAIN snapshots \subseteq 0 .. snapshotCount - 1
        /\ \A id \in DOMAIN snapshots : Faithful(snapshots[id], store)
    BY DEF DiffInv, TypeOK, CachesFaithful
  <1>2. /\ DOMAIN snapshots' = DOMAIN snapshots \cup {snapshotCount}
        /\ \A id \in DOMAIN snapshots' :
              snapshots'[id] = IF id = snapshotCount THEN cache ELSE snapshots[id]
        /\ snapshots' = [id \in DOMAIN snapshots' |-> snapshots'[id]]
    BY DEF Snapshot
  <1>3. snapshotCount' = snapshotCount + 1 /\ UNCHANGED <<store, cache, diffs, past>>
    BY DEF Snapshot
  <1>4. snapshots' \in [DOMAIN snapshots' -> Caches]
    <2>1. \A id \in DOMAIN snapshots' : snapshots'[id] \in Caches
      BY <1>1, <1>2
    <2> QED BY <1>2, <2>1
  <1>5. DOMAIN snapshots' \subseteq 0 .. snapshotCount' - 1
    BY <1>1, <1>2, <1>3
  <1>6. snapshotCount' \in 0 .. MaxSnapshots
    BY <1>1, <1>3, BoundsAssumption DEF Snapshot
  <1>9. TypeOK'
    BY <1>3, <1>4, <1>5, <1>6 DEF DiffInv, TypeOK
  <1>7. CachesFaithful'
    <2>1. \A id \in DOMAIN snapshots' : Faithful(snapshots'[id], store)
      BY <1>1, <1>2
    <2> QED BY <1>1, <1>3, <2>1 DEF CachesFaithful, Faithful
  <1>8. RevertUndoesCommit'
    BY <1>3 DEF DiffInv, RevertUndoesCommit, RevertDiff
  <1> QED BY <1>7, <1>8, <1>9 DEF DiffInv

\* Every operation keeps the invariant.
LEMMA NextDiffInv == DiffInv /\ [Next]_vars => DiffInv'
  <1> SUFFICES ASSUME DiffInv, [Next]_vars PROVE DiffInv'
    OBVIOUS
  <1>1. /\ store \in Stores /\ cache \in Caches /\ Faithful(cache, store)
        /\ snapshotCount \in Nat
        /\ snapshots \in [DOMAIN snapshots -> Caches]
        /\ DOMAIN snapshots \subseteq 0 .. snapshotCount - 1
        /\ \A id \in DOMAIN snapshots : Faithful(snapshots[id], store)
    BY DEF DiffInv, TypeOK, CachesFaithful
  <1>2. ASSUME NEW k \in Keys, Get(k) PROVE DiffInv'
    BY <1>1, <1>2, CacheGetSound, CacheStep DEF Get
  <1>3. ASSUME NEW k \in Keys, Del(k) PROVE DiffInv'
    BY <1>1, <1>3, CacheDelSound, CacheStep DEF Del
  <1>4. ASSUME NEW k \in Keys, NEW v \in Values, Set(k, v) PROVE DiffInv'
    BY <1>1, <1>4, CacheSetSound, CacheStep DEF Set
  <1>5. ASSUME NEW lo \in Keys, NEW hi \in Keys, NEW limit \in {-1, 1},
               NEW reverse \in BOOLEAN, ReadRange(lo, hi, limit, reverse)
        PROVE  DiffInv'
    BY <1>1, <1>5, CacheRangeSound, CacheStep DEF ReadRange
  <1>6. ASSUME NEW id \in 0 .. snapshotCount - 1, DeleteSnapshot(id) PROVE DiffInv'
    <2>1. /\ DOMAIN snapshots' = DOMAIN snapshots \ {id}
          /\ snapshots' \in [DOMAIN snapshots' -> Caches]
          /\ \A i \in DOMAIN snapshots' : snapshots'[i] = snapshots[i]
      BY <1>1, <1>6 DEF DeleteSnapshot
    <2>2. UNCHANGED <<store, cache, snapshotCount, diffs, past>>
      BY <1>6 DEF DeleteSnapshot
    <2> QED BY <1>1, <2>1, <2>2, CacheStep
  <1>7. ASSUME NEW id \in 0 .. snapshotCount - 1, RestoreSnapshot(id) PROVE DiffInv'
    <2>1. /\ DOMAIN snapshots' = DOMAIN snapshots \ {id}
          /\ snapshots' \in [DOMAIN snapshots' -> Caches]
          /\ \A i \in DOMAIN snapshots' : snapshots'[i] = snapshots[i]
      BY <1>1, <1>7 DEF RestoreSnapshot
    <2>2. cache' = snapshots[id] /\ id \in DOMAIN snapshots
          /\ UNCHANGED <<store, snapshotCount, diffs, past>>
      BY <1>7 DEF RestoreSnapshot
    <2> QED BY <1>1, <2>1, <2>2, CacheStep
  <1>8. ASSUME Discard PROVE DiffInv'
    <2>1. UNCHANGED <<store, diffs, past>> /\ NewDatabase
      BY <1>8 DEF Discard
    <2>2. RevertUndoesCommit'
      BY <2>1 DEF DiffInv, RevertUndoesCommit, RevertDiff
    <2> QED BY <2>1, <2>2, NewDatabaseStep DEF DiffInv, TypeOK
  <1>9. ASSUME UNCHANGED vars PROVE DiffInv'
    BY <1>1, <1>9, CacheStep DEF vars
  <1> QED BY ZenonT(40), <1>2, <1>3, <1>4, <1>5, <1>6, <1>7, <1>8, <1>9, CommitStep, RevertStep,
             DeleteDiffStep, SnapshotStep DEF Next

\* The inductive invariant of diffdb: types, faithful caches, revertible Diffs.
THEOREM DiffInvariant == Spec => []DiffInv
  BY InitDiffInv, NextDiffInv, PTL DEF Spec

\* Caches, snapshots and Diffs keep their types, at any number of commits.
THEOREM DiffTypeCorrect == Spec => []TypeOK
  <1>1. DiffInv => TypeOK
    BY DEF DiffInv
  <1> QED BY <1>1, DiffInvariant, PTL

\* The cache and its snapshots always agree with the persisted store, so that
\* cacheDB.commit puts each key in the right list of the Diff.
THEOREM DiffCachesFaithful == Spec => []CachesFaithful
  <1>1. DiffInv => CachesFaithful
    BY DEF DiffInv
  <1> QED BY <1>1, DiffInvariant, PTL

\* RevertDiff takes back exactly what the commit of the Diff wrote, however many
\* blocks are reverted.
THEOREM DiffRevertUndoesCommit == Spec => []RevertUndoesCommit
  <1>1. DiffInv => RevertUndoesCommit
    BY DEF DiffInv
  <1> QED BY <1>1, DiffInvariant, PTL

-----------------------------------------------------------------------------
(* diffdb implements KVStore.                                              *)

Saved == [id \in DOMAIN snapshots |-> View(snapshots[id])]

\* Snapshots that stay are seen as before while the store stays.
LEMMA SavedUnchanged ==
    ASSUME UNCHANGED <<store, snapshots>>
    PROVE  Saved' = Saved
  BY DEF Saved, View, GetResult

\* A step of the cache alone.
LEMMA GetMatches ==
    ASSUME DiffInv, NEW k \in Keys, Get(k)
    PROVE  UNCHANGED Abstract!vars
  <1>1. store \in Stores /\ cache \in Caches /\ Faithful(cache, store)
    BY DEF DiffInv, TypeOK, CachesFaithful
  <1>2. UNCHANGED <<store, snapshots, past>> /\ cache' = CacheGet(cache, store, k)
    BY DEF Get
  <1>3. View(cache)' = View(cache)
    BY <1>1, <1>2, CacheGetSound DEF View, GetResult
  <1> QED BY <1>2, <1>3, SavedUnchanged DEF Abstract!vars, Saved

\* Range changes nothing that a caller sees.
LEMMA RangeMatches ==
    ASSUME DiffInv, NEW lo \in Keys, NEW hi \in Keys, NEW limit \in {-1, 1},
           NEW reverse \in BOOLEAN, ReadRange(lo, hi, limit, reverse)
    PROVE  UNCHANGED Abstract!vars
  <1>1. store \in Stores /\ cache \in Caches /\ Faithful(cache, store)
    BY DEF DiffInv, TypeOK, CachesFaithful
  <1>2. /\ UNCHANGED <<store, snapshots, past>>
        /\ cache' = CacheRange(cache, store, lo, hi, limit, reverse)
    BY DEF ReadRange
  <1>3. View(cache)' = View(cache)
    BY <1>1, <1>2, CacheRangeSound DEF View, GetResult
  <1> QED BY <1>2, <1>3, SavedUnchanged DEF Abstract!vars, Saved

\* Set is a write of the map.
LEMMA SetMatches ==
    ASSUME DiffInv, NEW k \in Keys, NEW v \in Values, Set(k, v)
    PROVE  Abstract!Set(k, v)
  <1>1. store \in Stores /\ cache \in Caches /\ Faithful(cache, store)
    BY DEF DiffInv, TypeOK, CachesFaithful
  <1>2. UNCHANGED <<store, snapshots, past>> /\ cache' = CacheSet(cache, store, k, v)
    BY DEF Set
  <1>3. View(cache)' = [View(cache) EXCEPT ![k] = v]
    <2> DEFINE d == CacheSet(cache, store, k, v)
    <2>1. /\ GetResult(d, store, k) = v
          /\ \A l \in Keys \ {k} : GetResult(d, store, l) = GetResult(cache, store, l)
      BY <1>1, CacheSetSound
    <2>2. View(cache)' = [l \in Keys |-> GetResult(d, store, l)]
      BY <1>2 DEF View, GetResult
    <2> HIDE DEF d
    <2> QED BY Zenon, <2>1, <2>2 DEF View
  <1> QED BY <1>2, <1>3, SavedUnchanged DEF Abstract!Set, Saved

\* Del removes a key of the map.
LEMMA DelMatches ==
    ASSUME DiffInv, NEW k \in Keys, Del(k)
    PROVE  Abstract!Del(k)
  <1>1. store \in Stores /\ cache \in Caches /\ Faithful(cache, store)
    BY DEF DiffInv, TypeOK, CachesFaithful
  <1>2. UNCHANGED <<store, snapshots, past>> /\ cache' = CacheDel(cache, store, k)
    BY DEF Del
  <1>3. View(cache)' = [View(cache) EXCEPT ![k] = None]
    <2> DEFINE d == CacheDel(cache, store, k)
    <2>1. /\ GetResult(d, store, k) = None
          /\ \A l \in Keys \ {k} : GetResult(d, store, l) = GetResult(cache, store, l)
      BY <1>1, CacheDelSound
    <2>2. View(cache)' = [l \in Keys |-> GetResult(d, store, l)]
      BY <1>2 DEF View, GetResult
    <2> HIDE DEF d
    <2> QED BY Zenon, <2>1, <2>2 DEF View
  <1> QED BY <1>2, <1>3, SavedUnchanged DEF Abstract!Del, Saved

\* A snapshot saves the view; its id is new.
LEMMA SnapshotMatches ==
    ASSUME DiffInv, Snapshot
    PROVE  /\ Abstract!Save(snapshotCount)
           /\ snapshotCount \in 0 .. MaxSnapshots - 1
  <1>1. snapshotCount \in Nat /\ DOMAIN snapshots \subseteq 0 .. snapshotCount - 1
    BY DEF DiffInv, TypeOK
  <1>2. snapshotCount \notin DOMAIN snapshots
    BY <1>1
  <1>3. snapshotCount \in 0 .. MaxSnapshots - 1
    BY <1>1, BoundsAssumption DEF Snapshot
  <1>4. UNCHANGED <<store, cache, past>>
    BY DEF Snapshot
  <1>5. Saved' = [i \in DOMAIN Saved \cup {snapshotCount} |->
                    IF i = snapshotCount THEN View(cache) ELSE Saved[i]]
    BY Zenon, <1>4 DEF Snapshot, Saved, View, GetResult
  <1>6. View(cache)' = View(cache)
    BY <1>4 DEF View, GetResult
  <1> QED BY <1>2, <1>3, <1>4, <1>5, <1>6 DEF Abstract!Save, Saved

\* Deleting a snapshot that is there drops it; otherwise nothing happens.
LEMMA DeleteSnapshotMatches ==
    ASSUME DiffInv, NEW id \in 0 .. snapshotCount - 1, DeleteSnapshot(id)
    PROVE  (id \in DOMAIN snapshots /\ Abstract!Drop(id)) \/ UNCHANGED Abstract!vars
  <1>1. UNCHANGED <<store, cache, past>>
    BY DEF DeleteSnapshot
  <1>2. View(cache)' = View(cache)
    BY <1>1 DEF View, GetResult
  <1>3. Saved' = [i \in DOMAIN Saved \ {id} |-> Saved[i]]
    BY <1>1 DEF DeleteSnapshot, Saved, View, GetResult
  <1>4. CASE id \in DOMAIN snapshots
    BY <1>1, <1>2, <1>3, <1>4 DEF Abstract!Drop, Saved
  <1>5. CASE id \notin DOMAIN snapshots
    <2>1. Saved' = Saved
      BY <1>3, <1>5 DEF Saved
    <2> QED BY <1>1, <1>2, <2>1 DEF Abstract!vars, Saved
  <1> QED BY <1>4, <1>5

\* RestoreSnapshot brings back the map of that time.
LEMMA RestoreSnapshotMatches ==
    ASSUME DiffInv, NEW id \in 0 .. snapshotCount - 1, RestoreSnapshot(id)
    PROVE  Abstract!Restore(id)
  <1>1. /\ UNCHANGED <<store, past>> /\ id \in DOMAIN snapshots
        /\ cache' = snapshots[id]
    BY DEF RestoreSnapshot
  <1>2. View(cache)' = Saved[id]
    BY <1>1 DEF View, GetResult, Saved
  <1>3. Saved' = [i \in DOMAIN Saved \ {id} |-> Saved[i]]
    BY <1>1 DEF RestoreSnapshot, Saved, View, GetResult
  <1> QED BY <1>1, <1>2, <1>3 DEF Abstract!Restore, Saved

\* A new Database shows the store and has no snapshots.
LEMMA NewDatabaseView ==
    ASSUME store' \in Stores, NewDatabase
    PROVE  View(cache)' = store' /\ Saved' = << >>
  <1>1. cache' = emptyCache /\ snapshots' = << >>
    BY DEF NewDatabase
  <1>2. View(cache)' = store'
    BY <1>1 DEF View, GetResult, emptyCache, Stores
  <1>3. Saved' = << >>
    BY <1>1 DEF Saved
  <1> QED BY <1>2, <1>3

\* Commit moves the map to the store.
LEMMA CommitMatches ==
    ASSUME DiffInv, Commit
    PROVE  Abstract!Commit
  <1>1. store \in Stores /\ cache \in Caches /\ Faithful(cache, store)
    BY DEF DiffInv, TypeOK, CachesFaithful
  <1>2. store' \in Stores /\ \A k \in Keys : store'[k] = GetResult(cache, store, k)
    BY <1>1, CommitSound DEF Commit
  <1>3. store' = View(cache)
    BY <1>2 DEF View, Stores
  <1>4. View(cache)' = store' /\ Saved' = << >>
    BY <1>2, NewDatabaseView DEF Commit
  <1>5. past' = Append(past, store)
    BY DEF Commit
  <1> QED BY <1>3, <1>4, <1>5 DEF Abstract!Commit, Saved

\* A Database that is dropped loses what it had not committed.
LEMMA DiscardMatches ==
    ASSUME DiffInv, Discard
    PROVE  Abstract!Discard
  <1>1. store' = store /\ past' = past /\ store' \in Stores
    BY DEF Discard, DiffInv, TypeOK
  <1>2. View(cache)' = store' /\ Saved' = << >>
    BY <1>1, NewDatabaseView DEF Discard
  <1> QED BY <1>1, <1>2 DEF Abstract!Discard, Saved

\* RevertDiff restores the map from before the commit.
LEMMA RevertMatches ==
    ASSUME DiffInv, Revert
    PROVE  Abstract!Revert
  <1>1. store' = past[Len(past)] /\ store' \in Stores
    BY RevertStore
  <1>2. View(cache)' = store' /\ Saved' = << >>
    BY <1>1, NewDatabaseView DEF Revert
  <1>3. past # << >> /\ past' = SubSeq(past, 1, Len(past) - 1)
    BY DEF Revert, DiffInv, TypeOK
  <1> QED BY <1>1, <1>2, <1>3 DEF Abstract!Revert, Saved

\* Pruning a Diff shortens the history that can be reverted.
LEMMA DeleteDiffMatches ==
    ASSUME DiffInv, DeleteDiff
    PROVE  Abstract!Forget
  <1>1. /\ past # << >> /\ past' = Tail(past)
        /\ UNCHANGED <<store, cache, snapshots>>
    BY DEF DeleteDiff, DiffInv, TypeOK
  <1>2. View(cache)' = View(cache)
    BY <1>1 DEF View, GetResult
  <1> QED BY <1>1, <1>2, SavedUnchanged DEF Abstract!Forget, Saved

\* A new node's database is a plain map with nothing to go back to.
LEMMA AbstractInit == Init => Abstract!Init
  <1> SUFFICES ASSUME Init PROVE Abstract!Init
    OBVIOUS
  <1>1. store \in Stores /\ cache = emptyCache /\ snapshots = << >> /\ past = << >>
    BY DEF Init
  <1>2. View(cache) = store
    BY <1>1 DEF View, GetResult, emptyCache, Stores
  <1>3. Saved = << >>
    BY <1>1 DEF Saved
  <1>4. store \in Abstract!Maps
    BY <1>1 DEF Abstract!Maps, Stores
  <1> QED BY <1>1, <1>2, <1>3, <1>4 DEF Abstract!Init, Saved

\* Every step of the diff store is a step of the map, or none.
LEMMA AbstractNext ==
    ASSUME DiffInv, [Next]_vars
    PROVE  [Abstract!Next]_(Abstract!vars)
  <1>1. ASSUME NEW k \in Keys, Del(k) PROVE Abstract!Next
    BY <1>1, DelMatches DEF Abstract!Next
  <1>2. ASSUME NEW k \in Keys, NEW v \in Values, Set(k, v) PROVE Abstract!Next
    BY <1>2, SetMatches DEF Abstract!Next
  <1>3. ASSUME Snapshot PROVE Abstract!Next
    BY <1>3, SnapshotMatches DEF Abstract!Next
  <1>4. \A id \in DOMAIN snapshots : id \in 0 .. MaxSnapshots - 1
    BY BoundsAssumption DEF DiffInv, TypeOK
  <1>5. ASSUME NEW id \in 0 .. snapshotCount - 1, DeleteSnapshot(id)
        PROVE  Abstract!Next \/ UNCHANGED Abstract!vars
    BY <1>4, <1>5, DeleteSnapshotMatches DEF Abstract!Next
  <1>6. ASSUME NEW id \in 0 .. snapshotCount - 1, RestoreSnapshot(id)
        PROVE  Abstract!Next
    BY <1>4, <1>6, RestoreSnapshotMatches DEF Abstract!Next, RestoreSnapshot
  <1>7. ASSUME Commit \/ Discard \/ Revert \/ DeleteDiff PROVE Abstract!Next
    BY <1>7, CommitMatches, DiscardMatches, RevertMatches, DeleteDiffMatches
       DEF Abstract!Next
  <1>8. ASSUME UNCHANGED vars PROVE UNCHANGED Abstract!vars
    <2>1. UNCHANGED <<store, cache, snapshots, past>>
      BY <1>8 DEF vars
    <2>2. View(cache)' = View(cache)
      BY <2>1 DEF View, GetResult
    <2> QED BY <2>1, <2>2, SavedUnchanged DEF Abstract!vars, Saved
  <1> QED BY ZenonT(40), <1>1, <1>2, <1>3, <1>5, <1>6, <1>7, <1>8, GetMatches, RangeMatches DEF Next

\* diffdb implements KVStore: the cache, the snapshots and the Diffs together
\* behave as one map that is written, saved, restored, committed and taken back.
THEOREM DiffImplementsKVStore == Spec => ImplementsKVStore
  <1>1. DiffInv /\ [Next]_vars => [Abstract!Next]_(Abstract!vars)
    BY AbstractNext
  <1> QED BY <1>1, AbstractInit, DiffInvariant, PTL DEF Spec, ImplementsKVStore, Abstract!Spec

\* Each operation of diffdb is the operation of KVStore with its name.
THEOREM DiffOperationsMatch == Spec => OperationsMatch
  <1> DEFINE Match ==
        /\ \A k \in Keys :
             /\ Get(k) => UNCHANGED Abstract!vars
             /\ Del(k) => Abstract!Del(k)
             /\ \A v \in Values : Set(k, v) => Abstract!Set(k, v)
        /\ \A lo \in Keys, hi \in Keys, limit \in {-1, 1}, reverse \in BOOLEAN :
             ReadRange(lo, hi, limit, reverse) => UNCHANGED Abstract!vars
        /\ Snapshot => Abstract!Save(snapshotCount)
        /\ \A id \in 0 .. snapshotCount - 1 :
             RestoreSnapshot(id) => Abstract!Restore(id)
        /\ Commit => Abstract!Commit
        /\ Discard => Abstract!Discard
        /\ Revert => Abstract!Revert
  <1>1. DiffInv => Match
    BY ZenonT(40), GetMatches, DelMatches, SetMatches, RangeMatches, SnapshotMatches,
       RestoreSnapshotMatches, CommitMatches, DiscardMatches, RevertMatches
  <1>2. []DiffInv => [][Match]_vars
    BY <1>1, PTL
  <1> QED BY <1>2, DiffInvariant, PTL DEF OperationsMatch

-----------------------------------------------------------------------------
(* Range.                                                                  *)

\* The keys of a set that an iteration meets before a key, and how many.
Preceding(X, k, reverse) == {l \in X : Before(l, k, reverse)}

Rank(X, k, reverse) == Cardinality(Preceding(X, k, reverse))

\* Both directions are strict orders of the keys.
LEMMA BeforeIsOrder ==
    ASSUME NEW reverse \in BOOLEAN
    PROVE  /\ \A k \in Int : ~ Before(k, k, reverse)
           /\ \A k, l, m \in Int :
                 Before(k, l, reverse) /\ Before(l, m, reverse) => Before(k, m, reverse)
  BY DEF Before

\* What comes before an earlier key comes before a later one.
LEMMA PrecedingGrows ==
    ASSUME NEW X \in SUBSET Int, NEW k \in Int, NEW l \in Int, NEW reverse \in BOOLEAN,
           Before(l, k, reverse)
    PROVE  /\ Preceding(X, l, reverse) \subseteq Preceding(X, k, reverse)
           /\ Preceding(Preceding(X, k, reverse), l, reverse) = Preceding(X, l, reverse)
  BY Zenon, BeforeIsOrder DEF Preceding

\* Of the sets of keys before each key of a finite set, one is smallest.
LEMMA SmallestPreceding ==
    ASSUME NEW S, IsFiniteSet(S), S # {}, NEW reverse
    PROVE  \E m \in S : \A x \in S :
              Preceding(S, x, reverse) \subseteq Preceding(S, m, reverse) =>
                 Preceding(S, x, reverse) = Preceding(S, m, reverse)
  <1> DEFINE B == {Preceding(S, m, reverse) : m \in S}
  <1>1. B \in SUBSET (SUBSET S)
    BY DEF Preceding
  <1>2. B # {}
    OBVIOUS
  <1>3. \E T \in B : \A U \in B : U \subseteq T => U = T
    <2> HIDE DEF B
    <2> QED BY <1>1, <1>2, SmallestSet
  <1> QED BY <1>3

\* A non-empty finite set of keys has a first key, in either direction.
LEMMA FirstKeyExists ==
    ASSUME NEW S \in SUBSET Int, IsFiniteSet(S), S # {}, NEW reverse \in BOOLEAN
    PROVE  \E m \in S : \A x \in S : ~ Before(x, m, reverse)
  <1>1. PICK m \in S : \A x \in S :
           Preceding(S, x, reverse) \subseteq Preceding(S, m, reverse) =>
              Preceding(S, x, reverse) = Preceding(S, m, reverse)
    BY Zenon, SmallestPreceding
  <1>2. ASSUME NEW x \in S, Before(x, m, reverse) PROVE FALSE
    <2>1. Preceding(S, x, reverse) \subseteq Preceding(S, m, reverse)
      BY <1>2, PrecedingGrows
    <2>2. x \in Preceding(S, m, reverse) /\ x \notin Preceding(S, x, reverse)
      BY <1>2, BeforeIsOrder DEF Preceding
    <2> QED BY <1>1, <2>1, <2>2
  <1> QED BY <1>2

\* FirstKeys with a limit, in terms of the rank.
LEMMA FirstKeysByRank ==
    ASSUME NEW X, NEW limit \in Nat, NEW reverse, NEW k
    PROVE  k \in FirstKeys(X, limit, reverse) <=> k \in X /\ Rank(X, k, reverse) < limit
  BY DEF FirstKeys, Rank, Preceding

\* The rank of a key in a finite set is a number, and grows with the set.
LEMMA RankGrows ==
    ASSUME NEW P, IsFiniteSet(P), NEW X \in SUBSET P, NEW k, NEW reverse
    PROVE  /\ IsFiniteSet(Preceding(X, k, reverse))
           /\ Rank(X, k, reverse) \in Nat /\ Rank(P, k, reverse) \in Nat
           /\ Rank(X, k, reverse) <= Rank(P, k, reverse)
  <1> DEFINE A == Preceding(X, k, reverse)
             B == Preceding(P, k, reverse)
  <1>1. A \in SUBSET B /\ B \in SUBSET P
    BY DEF Preceding
  <1> HIDE DEF A, B
  <1>2. IsFiniteSet(B)
    BY <1>1, FS_Subset
  <1>3. IsFiniteSet(A) /\ Cardinality(A) <= Cardinality(B)
    BY <1>1, <1>2, FS_Subset
  <1>4. Cardinality(A) \in Nat /\ Cardinality(B) \in Nat
    BY <1>2, <1>3, FS_CardinalityType
  <1> QED BY <1>3, <1>4 DEF Rank, A, B

\* A set of at least limit keys has at least limit first keys.
LEMMA FirstKeysEnough ==
    ASSUME NEW T \in SUBSET Int, IsFiniteSet(T), NEW limit \in Nat,
           limit <= Cardinality(T), NEW reverse \in BOOLEAN
    PROVE  limit <= Cardinality(FirstKeys(T, limit, reverse))
  <1> DEFINE A == FirstKeys(T, limit, reverse)
  <1>1. A \in SUBSET T
    BY DEF FirstKeys
  <1>2. IsFiniteSet(A) /\ Cardinality(A) \in Nat /\ Cardinality(T) \in Nat
    BY <1>1, FS_Subset, FS_CardinalityType
  <1>3. SUFFICES ASSUME Cardinality(A) < limit PROVE FALSE
    BY <1>2
  <1>4. T \ A # {} /\ T \ A \in SUBSET Int /\ IsFiniteSet(T \ A)
    <2>1. A # T
      BY <1>2, <1>3
    <2> HIDE DEF A
    <2> QED BY Zenon, <1>1, <2>1, FS_Subset
  <1>5. PICK m \in T \ A : \A x \in T \ A : ~ Before(x, m, reverse)
    <2> HIDE DEF A
    <2> QED BY <1>4, FirstKeyExists
  <1>6. Preceding(T, m, reverse) \in SUBSET A
    <2> HIDE DEF A
    <2> QED BY ZenonT(40), <1>5 DEF Preceding
  <1>7. Rank(T, m, reverse) <= Cardinality(A) /\ Rank(T, m, reverse) \in Nat
    <2> HIDE DEF A
    <2> QED BY <1>2, <1>6, FS_Subset, FS_CardinalityType DEF Rank
  <1>8. Rank(T, m, reverse) < limit
    <2> HIDE DEF A
    <2> QED BY <1>2, <1>3, <1>7
  <1>9. m \in A
    BY <1>5, <1>8, FirstKeysByRank
  <1> QED BY <1>5, <1>9

\* The first keys of C, which has the first keys of S and lacks only keys of S,
\* are those of C and S together.
LEMMA FirstKeysOfUnion ==
    ASSUME NEW P \in SUBSET Int, IsFiniteSet(P), NEW S \in SUBSET P, NEW C \in SUBSET P,
           NEW limit \in Nat, NEW reverse \in BOOLEAN,
           P \ C \subseteq S, FirstKeys(S, limit, reverse) \subseteq C
    PROVE  FirstKeys(C, limit, reverse) = FirstKeys(P, limit, reverse)
  \* A missing key comes after limit keys of S.
  <1>1. ASSUME NEW l \in P \ C PROVE limit <= Rank(S, l, reverse)
    <2>1. l \in S /\ l \notin FirstKeys(S, limit, reverse)
      OBVIOUS
    <2>2. ~ (Rank(S, l, reverse) < limit)
      BY <2>1, FirstKeysByRank
    <2>3. Rank(S, l, reverse) \in Nat
      BY Zenon, RankGrows
    <2> QED BY <2>2, <2>3
  \* And these are first keys of S, which C has.
  <1>2. ASSUME NEW l \in P \ C, NEW k \in P, Before(l, k, reverse)
        PROVE  limit <= Rank(C, k, reverse)
    <2> DEFINE T == Preceding(S, l, reverse)
               A == FirstKeys(T, limit, reverse)
    <2>1. T \in SUBSET Int /\ IsFiniteSet(T) /\ limit <= Cardinality(T)
      <3>1. T \subseteq S
        BY DEF Preceding
      <3>2. IsFiniteSet(T)
        BY Zenon, RankGrows
      <3> QED BY Zenon, <1>1, <3>1, <3>2 DEF Rank
    <2>2. limit <= Cardinality(A)
      <3> HIDE DEF T
      <3> QED BY <2>1, FirstKeysEnough
    <2>3. \A m \in T : m \in S /\ Before(m, l, reverse)
      BY DEF Preceding
    <2>4. ASSUME NEW m \in A PROVE m \in Preceding(C, k, reverse)
      <3>1. m \in T /\ Rank(T, m, reverse) < limit
        BY <2>4, FirstKeysByRank
      <3>2. m \in S /\ Before(m, l, reverse) /\ m \in Int /\ l \in Int /\ k \in Int
        BY Zenon, <2>3, <3>1
      <3>3. Preceding(T, m, reverse) = Preceding(S, m, reverse)
        BY <3>2, PrecedingGrows
      <3>4. m \in FirstKeys(S, limit, reverse)
        BY <3>1, <3>2, <3>3, FirstKeysByRank DEF Rank
      <3>5. Before(m, k, reverse)
        BY <1>2, <3>2, BeforeIsOrder
      <3> QED BY <3>4, <3>5 DEF Preceding
    <2>5. A \in SUBSET Preceding(C, k, reverse)
      BY <2>4
    <2>6. IsFiniteSet(Preceding(C, k, reverse)) /\ Rank(C, k, reverse) \in Nat
      BY Zenon, RankGrows
    <2>7. Cardinality(A) <= Rank(C, k, reverse) /\ Cardinality(A) \in Nat
      <3> HIDE DEF A
      <3> QED BY <2>5, <2>6, FS_Subset, FS_CardinalityType DEF Rank
    <2> HIDE DEF A
    <2> QED BY <2>2, <2>6, <2>7
  <1>3. ASSUME NEW k \in FirstKeys(P, limit, reverse)
        PROVE  k \in FirstKeys(C, limit, reverse)
    <2>1. k \in P /\ Rank(P, k, reverse) < limit
      BY <1>3, FirstKeysByRank
    <2>2. Rank(S, k, reverse) < limit /\ Rank(C, k, reverse) < limit
      <3>1. /\ Rank(S, k, reverse) \in Nat /\ Rank(C, k, reverse) \in Nat
            /\ Rank(P, k, reverse) \in Nat
            /\ Rank(S, k, reverse) <= Rank(P, k, reverse)
            /\ Rank(C, k, reverse) <= Rank(P, k, reverse)
        BY Zenon, RankGrows
      <3> QED BY <2>1, <3>1
    <2>3. Rank(S, k, reverse) \in Nat
      BY ZenonT(40), RankGrows
    <2>4. k \in C
      BY <1>1, <2>1, <2>2, <2>3
    <2> QED BY <2>2, <2>4, FirstKeysByRank
  <1>4. ASSUME NEW k \in FirstKeys(C, limit, reverse)
        PROVE  k \in FirstKeys(P, limit, reverse)
    <2>1. k \in C /\ Rank(C, k, reverse) < limit
      BY <1>4, FirstKeysByRank
    <2>2. Rank(C, k, reverse) \in Nat
      BY Zenon, RankGrows
    <2>3. \A l \in P \ C : ~ Before(l, k, reverse)
      BY <1>2, <2>1, <2>2
    <2>4. Preceding(P, k, reverse) = Preceding(C, k, reverse)
      BY Zenon, <2>3 DEF Preceding
    <2> QED BY <2>1, <2>4, FirstKeysByRank DEF Rank
  <1> QED BY Zenon, <1>3, <1>4

\* The pairs that a sorted map with the contents of the view would return.
PairsOfView(lo, hi, limit, reverse) ==
    LET present == {k \in Keys : lo <= k /\ k <= hi /\ View(cache)[k] # None}
    IN  [k \in FirstKeys(present, limit, reverse) |-> View(cache)[k]]

\* What Range returns of a faithful cache, for every limit: with a limit, if no
\* key of the range is deleted in the cache.
LEMMA RangeResultIsView ==
    ASSUME DiffInv, NEW lo \in Int, NEW hi \in Int,
           NEW limit \in Nat \cup {-1}, NEW reverse \in BOOLEAN,
           \/ limit = -1
           \/ \A k \in Keys : lo <= k /\ k <= hi /\ cache[k] # None => ~ cache[k].deleted
    PROVE  RangeResult(cache, store, lo, hi, limit, reverse) =
              PairsOfView(lo, hi, limit, reverse)
  <1> DEFINE c2 == CacheRange(cache, store, lo, hi, limit, reverse)
             In == {k \in Keys : lo <= k /\ k <= hi}
             S == {k \in Keys : lo <= k /\ k <= hi /\ store[k] # None}
             F == StoredKeys(store, lo, hi, limit, reverse)
             stored == {k \in F : cache[k] = None \/ ~ cache[k].deleted}
             cached == {k \in Keys : lo <= k /\ k <= hi /\ c2[k] # None /\ ~ c2[k].deleted}
             P == {k \in Keys : lo <= k /\ k <= hi /\ View(cache)[k] # None}
             Live == {k \in Keys : lo <= k /\ k <= hi /\ cache[k] # None /\ ~ cache[k].deleted}
  <1>1. F = FirstKeys(S, limit, reverse) /\ F \subseteq S
    BY DEF StoredKeys, FirstKeys
  <1>2. \A k \in Keys : c2[k] = IF cache[k] = None /\ k \in F
                               THEN [init |-> store[k], value |-> store[k],
                                     dirty |-> FALSE, deleted |-> FALSE]
                               ELSE cache[k]
    BY DEF CacheRange, cacheOf, DiffInv, TypeOK, Caches
  <1>3. \A k \in F : k \in Keys /\ store[k] \in Values /\ store[k] # None
    BY <1>1, NoneAssumption DEF DiffInv, TypeOK, Stores
  <1>4. \A k \in Keys : cache[k] # None =>
            cache[k].value \in Values /\ cache[k].value # None /\ cache[k].deleted \in BOOLEAN
    BY EntryType, NoneAssumption DEF DiffInv, TypeOK
  <1>5. \A k \in Keys : View(cache)[k] = IF cache[k] = None THEN store[k]
                                        ELSE IF cache[k].deleted THEN None ELSE cache[k].value
    BY DEF View, GetResult
  <1>6. cached = Live \cup {k \in F : cache[k] = None}
    <2>1. ASSUME NEW k \in F, cache[k] = None
          PROVE  c2[k] # None /\ ~ c2[k].deleted
      <3>1. [init |-> store[k], value |-> store[k], dirty |-> FALSE, deleted |-> FALSE]
               \in CacheValues
        BY <1>3 DEF CacheValues
      <3> QED BY <1>2, <1>3, <2>1, <3>1, NoneIsNoEntry
    <2>2. \A k \in Keys : ~ (cache[k] = None /\ k \in F) => c2[k] = cache[k]
      BY ZenonT(40), <1>2
    <2>3. \A k \in F : k \in In
      BY <1>1
    <2> HIDE DEF c2, F
    <2> QED BY ZenonT(40), <1>3, <2>1, <2>2, <2>3
  <1>7. P = Live \cup {k \in S : cache[k] = None}
    BY ZenonT(40), <1>4, <1>5
  <1>8. stored \subseteq cached /\ cached \subseteq P
    <2>1. \A k \in F : k \in In
      BY <1>1
    <2>2. stored \subseteq cached
      <3> HIDE DEF cached, F
      <3> QED BY <1>3, <1>6, <2>1
    <2>3. cached \subseteq P
      <3> HIDE DEF cached, P, F, S
      <3> QED BY ZenonT(40), <1>1, <1>6, <1>7
    <2> QED BY <2>2, <2>3
  <1>9. FirstKeys(cached, limit, reverse) = FirstKeys(P, limit, reverse)
    <2>1. CASE limit = -1
      <3>1. F = S
        BY <1>1, <2>1 DEF FirstKeys
      <3> HIDE DEF F, S, cached, P
      <3> QED BY <1>6, <1>7, <3>1
    <2>2. CASE limit \in Nat
      <3>1. P \in SUBSET Int /\ IsFiniteSet(P)
        <4>1. P \in SUBSET Keys
          OBVIOUS
        <4> HIDE DEF P
        <4> QED BY Zenon, <4>1, KeysAssumption, FS_Subset
      <3>2. S \subseteq P
        <4>1. \A k \in Keys : lo <= k /\ k <= hi /\ cache[k] # None => ~ cache[k].deleted
          BY <2>2
        <4> QED BY <4>1, <1>7
      <3>3. P \ cached \subseteq S
        <4> HIDE DEF cached, P, Live, S, F
        <4> QED BY <1>6, <1>7
      <3>4. F \subseteq cached
        <4>1. \A k \in F : k \in P /\ (cache[k] # None => k \in Live)
          <5>1. \A k \in F : k \in S
            BY <1>1
          <5>2. \A k \in S : cache[k] # None => k \in Live
            BY <2>2
          <5> HIDE DEF F, S, P, Live
          <5> QED BY <3>2, <5>1, <5>2
        <4> HIDE DEF cached, P, Live, S, F
        <4> QED BY <1>6, <4>1
      <3> HIDE DEF cached, P, S, F
      <3> QED BY <1>1, <1>8, <2>2, <3>1, <3>2, <3>3, <3>4, FirstKeysOfUnion
    <2> QED BY <2>1, <2>2
  <1>10. \A k \in cached : c2[k].value = View(cache)[k]
    <2>1. ASSUME NEW k \in F, cache[k] = None PROVE c2[k].value = View(cache)[k]
      <3>1. View(cache)[k] = store[k]
        BY <1>3, <1>5, <2>1
      <3> HIDE DEF c2, F
      <3>2. c2[k] = [init |-> store[k], value |-> store[k], dirty |-> FALSE, deleted |-> FALSE]
        BY <1>2, <1>3, <2>1
      <3> QED BY <3>1, <3>2
    <2>2. ASSUME NEW k \in Live PROVE c2[k].value = View(cache)[k]
      BY ZenonT(40), <1>2, <1>5, <2>2
    <2> HIDE DEF cached, Live, F, c2
    <2> QED BY <1>6, <2>1, <2>2
  <1>11. \A k \in FirstKeys(cached, limit, reverse) : k \in cached
    BY DEF FirstKeys
  <1>12. RangeResult(cache, store, lo, hi, limit, reverse) =
            [k \in FirstKeys(cached \cup stored, limit, reverse) |->
                IF k \in cached THEN c2[k].value ELSE None]
    BY DEF RangeResult
  <1>13. cached \cup stored = cached
    BY <1>8
  <1> HIDE DEF cached, stored, P, c2
  <1>14. RangeResult(cache, store, lo, hi, limit, reverse) =
            [k \in FirstKeys(P, limit, reverse) |-> View(cache)[k]]
    BY Zenon, <1>9, <1>10, <1>11, <1>12, <1>13
  <1> QED BY <1>14 DEF P, PairsOfView

\* db.go Range returns the pairs that a sorted map with the contents of the view
\* would, unless it is limited over keys that the cache deletes.
THEOREM DiffRangeMatchesView == Spec => []RangeMatchesView
  <1>1. DiffInv => RangeMatchesView
    <2> SUFFICES ASSUME DiffInv PROVE RangeMatchesView
      OBVIOUS
    <2>1. ASSUME NEW lo \in Keys, NEW hi \in Keys, NEW limit \in {-1, 1, 2},
                 NEW reverse \in BOOLEAN
          PROVE  LET inRange == {k \in Keys : lo <= k /\ k <= hi}
                     present == {k \in inRange : View(cache)[k] # None}
                 IN  \/ limit # -1 /\ \E k \in inRange : cache[k] # None /\ cache[k].deleted
                     \/ RangeResult(cache, store, lo, hi, limit, reverse) =
                           [k \in FirstKeys(present, limit, reverse) |-> View(cache)[k]]
      <3> DEFINE inRange == {k \in Keys : lo <= k /\ k <= hi}
                 present == {k \in inRange : View(cache)[k] # None}
                 P == {k \in Keys : lo <= k /\ k <= hi /\ View(cache)[k] # None}
      <3>1. present = P
        OBVIOUS
      <3>2. lo \in Int /\ hi \in Int /\ limit \in Nat \cup {-1}
        BY KeysAssumption
      <3>3. CASE limit # -1 /\ \E k \in inRange : cache[k] # None /\ cache[k].deleted
        BY <3>3
      <3>4. CASE ~ (limit # -1 /\ \E k \in inRange : cache[k] # None /\ cache[k].deleted)
        <4>1. \/ limit = -1
              \/ \A k \in Keys : lo <= k /\ k <= hi /\ cache[k] # None => ~ cache[k].deleted
          BY <3>4
        <4>2. RangeResult(cache, store, lo, hi, limit, reverse) =
                 PairsOfView(lo, hi, limit, reverse)
          BY <3>2, <4>1, RangeResultIsView
        <4> HIDE DEF present
        <4>3. RangeResult(cache, store, lo, hi, limit, reverse) =
                 [k \in FirstKeys(present, limit, reverse) |-> View(cache)[k]]
          BY <3>1, <4>2 DEF PairsOfView
        <4> QED BY <4>3 DEF present
      <3> QED BY <3>3, <3>4
    <2> QED BY Zenon, <2>1 DEF RangeMatchesView
  <1> QED BY <1>1, DiffInvariant, PTL
=============================================================================
