-------------------------- MODULE ChainStoreProofs --------------------------
(***************************************************************************)
(* Proofs about ChainStore: the tables of the database agree with each     *)
(* other, the events of blocks that may be removed are kept, the cache is  *)
(* the end of the chain, and a request reads blocks of the chain.  They    *)
(* hold for every set of forks, cache limit, number of heights events are  *)
(* kept for, and number of crashes and requests.                           *)
(***************************************************************************)
EXTENDS ChainStore, SetTheorems, TLAPS

-----------------------------------------------------------------------------
(* The inductive invariant.                                                *)

(* The blocks of f from height lo to height hi, as blockCache holds them.  *)
Cut(f, lo, hi) ==
    [blocks |-> [h \in lo .. hi |-> f[h]], size |-> hi - lo + 1, currentHeight |-> hi]

(* The chain before the cache follows a removed block.                     *)
WithErased ==
    [h \in 0 .. Tip(store) + 1 |->
        IF h = exec.block.height THEN exec.block ELSE store.heights[h]]

CacheOf(f, lo, hi) == cache = Cut(f, lo, hi) /\ hi - lo + 1 <= MaxBlockCache

StoreInv ==
    /\ store = [headers |-> store.headers, heights |-> store.heights, txIDs |-> store.txIDs,
                txs |-> store.txs, assets |-> store.assets, events |-> store.events,
                temp |-> store.temp, finalized |-> store.finalized]
    /\ Tip(store) \in Heights /\ store.heights \in [0 .. Tip(store) -> Block]
    /\ \A h \in 0 .. Tip(store) : store.heights[h].height = h
    /\ store.finalized \in 0 .. Tip(store)

CacheInv ==
    /\ exec = [step |-> exec.step, block |-> exec.block]
    /\ \/ /\ exec.step = "idle"
          /\ \E lo \in 0 .. Tip(store) + 1 : CacheOf(store.heights, lo, Tip(store))
       \/ /\ exec.step \in {"written", "push"}
          /\ exec.block = store.heights[Tip(store)]
          /\ \E lo \in 0 .. Tip(store) - 1 : CacheOf(store.heights, lo, Tip(store) - 1)
       \/ /\ exec.step \in {"erased", "pop"}
          /\ exec.block \in Block /\ exec.block.height = Tip(store) + 1
          /\ \E lo \in 0 .. Tip(store) + 1 : CacheOf(WithErased, lo, Tip(store) + 1)

Fetches == [step : {"cache", "id", "header", "txIDs", "txs", "assets", "done", "failed"},
            block : Block \cup {None}, txs : BOOLEAN, assets : BOOLEAN]

(* The fetch has the block that is at its height, and what it read of it   *)
(* so far.                                                                 *)
Intact(f, h) ==
    /\ f.block = BlockAt(store, h)
    /\ f.step = "txs" => f.block # Genesis
    /\ f.step = "assets" => f.txs
    /\ f.step = "done" => f.txs /\ f.assets

Held == {"header", "txIDs", "txs", "assets", "done"}

(* A fetch has a block that was at its height; when it is not intact, or   *)
(* failed, the block was missing at some moment.                           *)
FetchOk(f, h) ==
    /\ f.step \in Held => f.block \in seen[h] /\ (None \in seen[h] \/ Intact(f, h))
    /\ f.step = "failed" => None \in seen[h]

ReaderInv ==
    /\ reader = [op |-> reader.op, step |-> reader.step, header |-> reader.header,
                 fetch |-> reader.fetch]
    /\ reader.header \in Block \cup {None}
    /\ DOMAIN reader.fetch \subseteq Heights
    /\ reader.fetch \in [DOMAIN reader.fetch -> Fetches]
    /\ reader.step \in {"idle", "header", "last", "lastInner"} => DOMAIN reader.fetch = {}
    /\ seen \in [Heights -> SUBSET (Block \cup {None})]
    /\ reader.step # "idle" => \A h \in Heights : OnChain(store, exec)[h] \subseteq seen[h]
    /\ \A h \in DOMAIN reader.fetch : FetchOk(reader.fetch[h], h)

ChainStoreInv == StoreInv /\ TablesAgree /\ EventsKept /\ CacheInv /\ ReaderInv

-----------------------------------------------------------------------------
(* Operators.                                                              *)

\* A block has a height; None is no block.
LEMMA BlockTypes ==
    /\ \A b \in Block : b.height \in Heights /\ b # None
    /\ Genesis \in Block /\ Genesis.height = 0
    /\ \A b \in Block : b.height # 0 => b # Genesis
    /\ MaxHeight \in Nat /\ MaxBlockCache \in Nat /\ MaxBlockCache >= 1
<1>1. MaxHeight \in Nat /\ MaxBlockCache \in Nat /\ MaxBlockCache >= 1 /\ MaxHeight >= 1
  BY ChainStoreAssumption
<1>2. Genesis \in Block /\ Genesis.height = 0
  BY DEF Block, Genesis
<1>3. None.height = -1
  BY DEF None
<1>4. \A b \in Block : b.height \in Heights
  BY <1>1, <1>2 DEF Block, Heights
<1>5. \A b \in Block : b # None
  BY <1>1, <1>3, <1>4 DEF Heights
<1> QED
  BY <1>1, <1>2, <1>4, <1>5

-----------------------------------------------------------------------------
(* The cache.                                                              *)

\* The fields of a cut.
LEMMA CutFields ==
    ASSUME NEW f, NEW lo \in Nat, NEW hi \in Int
    PROVE  LET c == Cut(f, lo, hi)
           IN  /\ DOMAIN c.blocks = lo .. hi
               /\ \A h \in lo .. hi : c.blocks[h] = f[h]
               /\ c.size = hi - lo + 1 /\ c.currentHeight = hi
BY DEF Cut

\* The oldest height of a cut after a push.
After(lo, hi) == IF hi - lo + 1 >= MaxBlockCache THEN lo + 1 ELSE lo

\* push keeps the newest blocks up to the limit.
LEMMA PushCut ==
    ASSUME NEW f, NEW lo \in Nat, NEW hi \in Int, hi >= lo,
           hi - lo + 1 <= MaxBlockCache, f[hi + 1].height = hi + 1
    PROVE  push(Cut(f, lo, hi), f[hi + 1]) = Cut(f, After(lo, hi), hi + 1)
<1> DEFINE c == Cut(f, lo, hi)
           b == f[hi + 1]
           full == c.size >= MaxBlockCache
           oldest == c.currentHeight - MaxBlockCache + 1
           kept == IF full THEN Restrict(c.blocks, DOMAIN c.blocks \ {oldest})
                   ELSE c.blocks
           g == [h \in DOMAIN kept \cup {b.height} |-> IF h = b.height THEN b ELSE kept[h]]
           size == IF full THEN c.size ELSE c.size + 1
<1>0. MaxBlockCache \in Nat /\ MaxBlockCache >= 1
  BY BlockTypes
<1>1. /\ DOMAIN c.blocks = lo .. hi
      /\ \A h \in lo .. hi : c.blocks[h] = f[h]
      /\ c.size = hi - lo + 1 /\ c.currentHeight = hi
  BY Zenon, CutFields
<1>2. full <=> hi - lo + 1 >= MaxBlockCache
  BY <1>1
<1>3. full => oldest = lo
  BY <1>0, <1>1, <1>2
<1>4. /\ DOMAIN kept = After(lo, hi) .. hi
      /\ \A h \in After(lo, hi) .. hi : kept[h] = f[h]
  <2>1. CASE full
    <3>1. DOMAIN c.blocks \ {oldest} = lo + 1 .. hi /\ After(lo, hi) = lo + 1
      BY <1>1, <1>2, <1>3, <2>1 DEF After
    <3>2. kept = [h \in lo + 1 .. hi |-> c.blocks[h]]
      BY Zenon, <2>1, <3>1 DEF Restrict
    <3>3. \A h \in lo + 1 .. hi : h \in lo .. hi
      OBVIOUS
    <3> QED
      BY Zenon, <1>1, <3>1, <3>2, <3>3
  <2>2. CASE ~ full
    BY <1>1, <1>2, <2>2 DEF After
  <2> QED
    BY Zenon, <2>1, <2>2
<1>5. g = [h \in After(lo, hi) .. hi + 1 |-> f[h]]
  <2>1. After(lo, hi) \in Int /\ After(lo, hi) <= hi + 1
    BY <1>0 DEF After
  <2>2. (After(lo, hi) .. hi) \cup {hi + 1} = After(lo, hi) .. hi + 1
    BY <2>1
  <2>3. b.height = hi + 1
    OBVIOUS
  <2>4. \A h \in After(lo, hi) .. hi + 1 :
           h # hi + 1 => h \in After(lo, hi) .. hi
    BY <2>1
  <2> HIDE DEF kept
  <2> QED
    BY <1>4, <2>2, <2>3, <2>4
<1>6. size = (hi + 1) - After(lo, hi) + 1
  BY <1>0, <1>1, <1>2 DEF After
<1>7. ~ (c.size # 0 /\ b.height # c.currentHeight + 1)
  BY <1>1
<1>8. ~ (full /\ oldest \notin DOMAIN c.blocks)
  BY <1>1, <1>3
<1>9. push(c, b) = [blocks |-> g, size |-> size, currentHeight |-> b.height]
  BY <1>7, <1>8 DEF push
<1>10. b.height = hi + 1
  OBVIOUS
<1> DEFINE e == [h \in After(lo, hi) .. hi + 1 |-> f[h]]
           n == (hi + 1) - After(lo, hi) + 1
<1>11. Cut(f, After(lo, hi), hi + 1) = [blocks |-> e, size |-> n, currentHeight |-> hi + 1]
  BY DEF Cut
<1>12. g = e /\ size = n
  BY Zenon, <1>5, <1>6
<1> HIDE DEF g, size, c, b, e, n
<1>13. push(c, b) = Cut(f, After(lo, hi), hi + 1)
  BY <1>9, <1>10, <1>11, <1>12
<1> QED
  BY <1>13 DEF c, b

\* The first push into an empty cache.
LEMMA PushFirst ==
    ASSUME NEW f, NEW h \in Nat, f[h].height = h
    PROVE  push(newBlockCache, f[h]) = Cut(f, h, h)
<1> DEFINE c == newBlockCache
           b == f[h]
           g == [k \in DOMAIN c.blocks \cup {b.height} |-> IF k = b.height THEN b ELSE c.blocks[k]]
<1>1. c.size = 0 /\ c.currentHeight = 0 /\ DOMAIN c.blocks = {}
  BY DEF newBlockCache
<1>2. ~ (c.size >= MaxBlockCache)
  BY <1>1, BlockTypes
<1>3. push(c, b) = [blocks |-> g, size |-> c.size + 1, currentHeight |-> b.height]
  BY <1>1, <1>2 DEF push
<1>4. g = [k \in h .. h |-> f[k]]
  <2>1. h .. h = {h}
    OBVIOUS
  <2> QED
    BY <1>1, <2>1
<1>5. c.size + 1 = h - h + 1
  BY <1>1
<1> HIDE DEF c, g
<1> QED
  BY <1>3, <1>4, <1>5 DEF Cut, c

\* pop drops the newest block.
LEMMA PopCut ==
    ASSUME NEW f, NEW lo \in Nat, NEW hi \in Int, hi >= lo
    PROVE  pop(Cut(f, lo, hi)) = Cut(f, lo, hi - 1)
<1> DEFINE c == Cut(f, lo, hi)
           g == Restrict(c.blocks, DOMAIN c.blocks \ {c.currentHeight})
<1>1. /\ DOMAIN c.blocks = lo .. hi
      /\ \A h \in lo .. hi : c.blocks[h] = f[h]
      /\ c.size = hi - lo + 1 /\ c.currentHeight = hi
  BY Zenon, CutFields
<1>2. pop(c) = [blocks |-> g, size |-> c.size - 1, currentHeight |-> c.currentHeight - 1]
  BY <1>1 DEF pop
<1>3. (lo .. hi) \ {hi} = lo .. hi - 1
  OBVIOUS
<1>4. g = [h \in lo .. hi - 1 |-> f[h]]
  BY <1>1, <1>3 DEF Restrict
<1>5. c.size - 1 = hi - 1 - lo + 1
  BY <1>1
<1> HIDE DEF c, g
<1> QED
  BY <1>1, <1>2, <1>4, <1>5 DEF Cut, c

\* last() of a cut.
LEMMA LastOfCut ==
    ASSUME NEW f, NEW lo \in Nat, NEW hi \in Int
    PROVE  last(Cut(f, lo, hi)) = IF lo <= hi THEN f[hi] ELSE None
<1> DEFINE c == Cut(f, lo, hi)
<1>1. /\ DOMAIN c.blocks = lo .. hi
      /\ \A h \in lo .. hi : c.blocks[h] = f[h]
      /\ c.currentHeight = hi
  BY DEF Cut
<1>2. hi \in lo .. hi <=> lo <= hi
  OBVIOUS
<1> QED
  BY <1>1, <1>2 DEF last, getByHeight

\* One iteration of the loop of PrepareCache.
LoadStep(s, from, f, h) ==
    push(IF h = from THEN newBlockCache ELSE f[h - 1], s.heights[h])

IsLoad(f, s, from, t) == f = [h \in from .. t |-> LoadStep(s, from, f, h)]

\* PrepareCache is the value of the recursion at the last height.
LEMMA LoadIsRecursion ==
    ASSUME NEW s
    PROVE  LET t == Tip(s)
               from == Max({0, t - MaxBlockCache})
           IN  PrepareCache(s) = (CHOOSE f : IsLoad(f, s, from, t))[t]
BY DEF PrepareCache, IsLoad, LoadStep

\* PrepareCache loads the end of the chain, within the limit of the cache.
LEMMA PrepareCacheIsCut ==
    ASSUME NEW s, Tip(s) \in Nat, \A h \in 0 .. Tip(s) : s.heights[h].height = h
    PROVE  \E lo \in 0 .. Tip(s) : /\ PrepareCache(s) = Cut(s.heights, lo, Tip(s))
                                   /\ Tip(s) - lo + 1 <= MaxBlockCache
<1> DEFINE t == Tip(s)
           from == Max({0, t - MaxBlockCache})
           First(h) == IF h - from + 1 > MaxBlockCache THEN h - MaxBlockCache + 1 ELSE from
           L == [h \in from .. t |-> Cut(s.heights, First(h), h)]
           g == CHOOSE f : IsLoad(f, s, from, t)
<1>0. t \in Nat /\ MaxBlockCache \in Nat /\ MaxBlockCache >= 1
  BY BlockTypes
<1>1. from \in Nat /\ from <= t /\ t - from <= MaxBlockCache
  <2>1. from = IF 0 >= t - MaxBlockCache THEN 0 ELSE t - MaxBlockCache
    <3> HIDE DEF t
    <3> QED
      BY <1>0, MaxOfTwo
  <2> HIDE DEF from, t
  <2> QED
    BY <1>0, <2>1
<1>2. \A h \in from .. t : s.heights[h].height = h
  <2> HIDE DEF from
  <2> QED
    BY <1>0, <1>1
<1> HIDE DEF t, from
<1>3. ASSUME NEW h \in from .. t
      PROVE  /\ First(h) \in Nat /\ First(h) <= h /\ h - First(h) + 1 <= MaxBlockCache
             /\ h = from => First(h) = h
             /\ h # from => h - 1 \in from .. t /\ After(First(h - 1), h - 1) = First(h)
  BY <1>0, <1>1 DEF After
<1>4. ASSUME NEW h \in from .. t
      PROVE  LoadStep(s, from, L, h) = Cut(s.heights, First(h), h)
  <2>1. h \in Nat /\ s.heights[h].height = h
    BY <1>0, <1>1, <1>2
  <2>2. CASE h = from
    <3> HIDE DEF First
    <3> QED
      BY <1>3, <2>1, <2>2, PushFirst DEF LoadStep
  <2>3. CASE h # from
    <3> DEFINE k == h - 1
    <3>1. k \in from .. t /\ k + 1 = h /\ k \in Int
      BY <1>3, <2>1, <2>3
    <3>2. /\ First(k) \in Nat /\ k >= First(k) /\ k - First(k) + 1 <= MaxBlockCache
          /\ After(First(k), k) = First(h)
      BY <1>3, <2>3, <3>1
    <3>3. L[h - 1] = Cut(s.heights, First(k), k)
      BY <3>1
    <3> HIDE DEF First, L
    <3>4. LoadStep(s, from, L, h) = push(Cut(s.heights, First(k), k), s.heights[k + 1])
      BY <2>3, <3>1, <3>3 DEF LoadStep
    <3> HIDE DEF k
    <3>5. push(Cut(s.heights, First(k), k), s.heights[k + 1])
             = Cut(s.heights, After(First(k), k), k + 1)
      BY Zenon, <2>1, <3>1, <3>2, PushCut
    <3> QED
      BY <3>1, <3>2, <3>4, <3>5
  <2> QED
    BY <2>2, <2>3
<1>5. IsLoad(L, s, from, t)
  BY <1>4 DEF IsLoad
<1>6. IsLoad(g, s, from, t)
  <2> HIDE DEF L
  <2> QED
    BY <1>5
<1> DEFINE B == {h \in from .. t : g[h] # L[h]}
<1>7. B = {}
  <2> SUFFICES ASSUME B # {} PROVE FALSE
    BY Zenon
  <2>1. B \subseteq Nat
    BY <1>0, <1>1
  <2>2. PICK m \in B : \A h \in B : m <= h
    <3> HIDE DEF B
    <3> QED
      BY Zenon, <2>1, MinOfNaturals
  <2>3. m \in from .. t /\ g[m] # L[m] /\ m \in Nat
    BY <2>1, <2>2
  <2>4. m # from => g[m - 1] = L[m - 1]
    <3> HIDE DEF g, L
    <3>1. m # from => m - 1 \in from .. t /\ ~ (m <= m - 1)
      BY <1>0, <1>1, <2>3
    <3> QED
      BY <2>2, <3>1
  <2> HIDE DEF g, L, B
  <2>5. g[m] = LoadStep(s, from, g, m) /\ L[m] = LoadStep(s, from, L, m)
    BY Zenon, <1>5, <1>6, <2>3 DEF IsLoad
  <2>6. LoadStep(s, from, g, m) = LoadStep(s, from, L, m)
    BY <2>4 DEF LoadStep
  <2> QED
    BY <2>3, <2>5, <2>6
<1>8. t \in from .. t /\ First(t) \in 0 .. t
  <2>1. t \in from .. t
    BY <1>0, <1>1
  <2> HIDE DEF First
  <2> QED
    BY <1>0, <1>3, <2>1
<1>9. g[t] = Cut(s.heights, First(t), t)
  <2>1. L[t] = Cut(s.heights, First(t), t)
    BY <1>8
  <2> HIDE DEF g, L, First
  <2> QED
    BY <1>7, <1>8, <2>1
<1>10. PrepareCache(s) = g[t]
  BY LoadIsRecursion DEF t, from
<1>11. t - First(t) + 1 <= MaxBlockCache
  BY <1>3, <1>8
<1> HIDE DEF g, First
<1> QED
  BY <1>8, <1>9, <1>10, <1>11 DEF t

-----------------------------------------------------------------------------
(* The tables.                                                             *)

\* Types of the tables.
LEMMA StoreTypes ==
    ASSUME StoreInv, TablesAgree
    PROVE  LET t == Tip(store)
           IN  /\ t \in Nat /\ t <= MaxHeight
               /\ DOMAIN store.heights = 0 .. t
               /\ \A h \in 0 .. t : store.heights[h] \in Block /\ store.heights[h].height = h
               /\ store.finalized \in Nat /\ store.finalized <= t
<1>1. MaxHeight \in Nat
  BY BlockTypes
<1> QED
  BY <1>1 DEF StoreInv, Heights

\* Only events up to the finalized height become obsolete.
LEMMA ObsoleteAreFinal ==
    ASSUME NEW height \in Nat, NEW finalized \in Nat
    PROVE  \A h \in ObsoleteEvents(height, finalized) : h \in Nat /\ h <= finalized
<1> DEFINE k == KeepEventsForHeights
           a == Max({0, height - k})
           m == Min({finalized, a})
<1>1. k \in Int
  BY ChainStoreAssumption
<1>2. a \in Nat
  <2>1. height - k \in Int
    BY <1>1
  <2>2. a = IF 0 >= height - k THEN 0 ELSE height - k
    <3> HIDE DEF k
    <3> QED
      BY <2>1, MaxOfTwo
  <2> HIDE DEF k, a
  <2> QED
    BY <2>1, <2>2
<1>3. m \in Nat /\ m <= finalized
  <2> HIDE DEF a
  <2>1. m = IF finalized <= a THEN finalized ELSE a
    BY <1>2, MinOfTwo
  <2> QED
    BY <1>2, <2>1
<1>4. ObsoleteEvents(height, finalized) \subseteq 0 .. m
  <2> HIDE DEF a
  <2> QED
    BY DEF ObsoleteEvents, a
<1> HIDE DEF m
<1> QED
  BY <1>3, <1>4

\* AddBlock: the batch of saveBlock extends every table by the block.
LEMMA SaveBlockSound ==
    ASSUME StoreInv, TablesAgree, EventsKept,
           NEW b \in Block, b.height = Tip(store) + 1,
           Linked(store.heights[Tip(store)], b),
           NEW finalized \in Heights, store.finalized <= finalized, finalized < b.height,
           NEW removeTemp, store' = saveBlock(store, b, finalized, removeTemp)
    PROVE  /\ StoreInv' /\ TablesAgree' /\ EventsKept'
           /\ Tip(store') = Tip(store) + 1
           /\ store'.heights[Tip(store) + 1] = b
           /\ \A h \in 0 .. Tip(store) : store'.heights[h] = store.heights[h]
<1> DEFINE t == Tip(store)
           f == store.heights
           g == store'.heights
<1>1. /\ t \in Nat /\ t <= MaxHeight /\ MaxHeight \in Nat
      /\ DOMAIN f = 0 .. t
      /\ \A h \in 0 .. t : f[h] \in Block /\ f[h].height = h
      /\ store.finalized \in Nat /\ store.finalized <= t
  BY StoreTypes, BlockTypes
<1>2. /\ b.height = t + 1 /\ t + 1 \in Heights /\ b # Genesis
  BY <1>1, BlockTypes
<1>3. finalized \in Nat /\ finalized <= t
  BY <1>1, <1>2 DEF Heights
<1>4. /\ store'.headers = store.headers \cup {b}
      /\ g = [h \in DOMAIN f \cup {b.height} |-> IF h = b.height THEN b ELSE f[h]]
      /\ store'.txIDs = store.txIDs \cup {b}
      /\ store'.txs = store.txs \cup {b}
      /\ store'.assets = store.assets \cup {b}
      /\ store'.events = (store.events \ ObsoleteEvents(b.height, finalized)) \cup {b.height}
      /\ store'.finalized = finalized
      /\ store' = [headers |-> store'.headers, heights |-> g, txIDs |-> store'.txIDs,
                   txs |-> store'.txs, assets |-> store'.assets, events |-> store'.events,
                   temp |-> store'.temp, finalized |-> store'.finalized]
  BY <1>2 DEF saveBlock
<1> DEFINE D == 0 .. t
           E == 0 .. t + 1
<1>5. E = D \cup {t + 1} /\ t + 1 \notin D /\ D \subseteq Int /\ t + 1 \in E
  BY <1>1
<1>6. g = [h \in E |-> IF h = t + 1 THEN b ELSE f[h]]
  BY <1>1, <1>2, <1>4, <1>5
<1>7. DOMAIN g = E /\ g[t + 1] = b /\ \A h \in D : g[h] = f[h]
  BY <1>5, <1>6
<1>8. Tip(store') = t + 1
  BY <1>1, <1>7, MaxOfInterval DEF Tip
<1>9. \A h \in E : g[h] \in Block /\ g[h].height = h
  BY Zenon, <1>1, <1>2, <1>5, <1>7
<1>10. StoreInv'
  <2>1. g \in [E -> Block]
    BY <1>6, <1>9
  <2>2. store'.finalized \in 0 .. t + 1
    BY <1>1, <1>3, <1>4
  <2> HIDE DEF g
  <2> QED
    BY Zenon, <1>2, <1>4, <1>8, <1>9, <2>1, <2>2 DEF StoreInv, g
<1>11. Range(g) = Range(f) \cup {b}
  <2> HIDE DEF D, E
  <2> QED
    BY <1>1, <1>5, <1>7 DEF Range, D
<1>12. TablesAgree'
  <2>1. \A h \in 1 .. t + 1 : Linked(g[h - 1], g[h])
    <3> TAKE h \in 1 .. t + 1
    <3>1. CASE h = t + 1
      <4>1. h - 1 = t /\ t \in D
        BY <1>1, <3>1
      <4> QED
        BY <1>7, <3>1, <4>1
    <3>2. CASE h # t + 1
      <4>1. h \in 1 .. t /\ h - 1 \in D /\ h \in D
        BY <1>1, <3>2
      <4> QED
        BY <1>7, <4>1 DEF TablesAgree
    <3> QED
      BY <3>1, <3>2
  <2>2. store'.events \subseteq E
    BY <1>2, <1>4, <1>5 DEF TablesAgree
  <2>3. /\ store'.headers = Range(g) /\ store'.assets = Range(g)
        /\ store'.txIDs = Range(g) \ {Genesis} /\ store'.txs = Range(g) \ {Genesis}
    <3>1. /\ store.headers = Range(f) /\ store.assets = Range(f)
          /\ store.txIDs = Range(f) \ {Genesis} /\ store.txs = Range(f) \ {Genesis}
      BY DEF TablesAgree
    <3>2. /\ store'.headers = store.headers \cup {b} /\ store'.assets = store.assets \cup {b}
          /\ store'.txIDs = store.txIDs \cup {b} /\ store'.txs = store.txs \cup {b}
      BY <1>4
    <3> HIDE DEF f, g
    <3> QED
      BY Zenon, <1>2, <1>11, <3>1, <3>2
  <2> HIDE DEF g
  <2> QED
    BY <1>7, <1>8, <2>1, <2>2, <2>3 DEF TablesAgree, g
<1>13. EventsKept'
  <2> SUFFICES ASSUME NEW h \in finalized + 1 .. t + 1 PROVE h \in store'.events
    BY <1>4, <1>8 DEF EventsKept
  <2>1. CASE h = t + 1
    BY <1>2, <1>4, <2>1
  <2>2. CASE h # t + 1
    <3>1. h \in store.finalized + 1 .. t /\ ~ (h <= finalized)
      BY <1>1, <1>3, <2>2
    <3>2. h \notin ObsoleteEvents(b.height, finalized)
      BY <1>1, <1>2, <1>3, <3>1, ObsoleteAreFinal
    <3> QED
      BY <1>4, <3>1, <3>2 DEF EventsKept
  <2> QED
    BY <2>1, <2>2
<1> QED
  BY <1>7, <1>8, <1>10, <1>12, <1>13

\* RemoveBlock: the batch of removeBlock leaves nothing of the last block.
LEMMA RemoveBlockSound ==
    ASSUME StoreInv, TablesAgree, EventsKept,
           Tip(store) > store.finalized,
           NEW saveTemp, store' = removeBlock(store, store.heights[Tip(store)], saveTemp)
    PROVE  /\ StoreInv' /\ TablesAgree' /\ EventsKept'
           /\ Tip(store') = Tip(store) - 1
           /\ \A h \in 0 .. Tip(store) - 1 : store'.heights[h] = store.heights[h]
<1> DEFINE t == Tip(store)
           f == store.heights
           g == store'.heights
           b == f[t]
<1>1. /\ t \in Nat /\ t <= MaxHeight /\ MaxHeight \in Nat
      /\ DOMAIN f = 0 .. t
      /\ \A h \in 0 .. t : f[h] \in Block /\ f[h].height = h
      /\ store.finalized \in Nat /\ store.finalized <= t
  BY StoreTypes, BlockTypes
<1>2. /\ t >= 1 /\ t - 1 \in Heights /\ t \in 0 .. t
      /\ b.height = t /\ b # Genesis
  <2>1. t >= 1 /\ t - 1 \in Heights /\ t \in 0 .. t
    BY <1>1 DEF Heights
  <2> QED
    BY <1>1, <2>1, BlockTypes
<1>3. /\ store'.headers = store.headers \ {b}
      /\ g = Restrict(f, DOMAIN f \ {b.height})
      /\ store'.txIDs = store.txIDs \ {b}
      /\ store'.txs = store.txs \ {b}
      /\ store'.assets = store.assets \ {b}
      /\ store'.events = store.events \ {b.height}
      /\ store'.finalized = store.finalized
      /\ store' = [headers |-> store'.headers, heights |-> g, txIDs |-> store'.txIDs,
                   txs |-> store'.txs, assets |-> store'.assets, events |-> store'.events,
                   temp |-> store'.temp, finalized |-> store'.finalized]
  BY Zenon DEF removeBlock, StoreInv
<1> DEFINE D == 0 .. t - 1
           E == 0 .. t
<1>4. D = E \ {t} /\ D \subseteq E /\ t \in E
  BY <1>1
<1>5. g = [h \in D |-> f[h]]
  BY <1>1, <1>2, <1>3, <1>4 DEF Restrict
<1>6. DOMAIN g = D /\ \A h \in D : g[h] = f[h]
  BY <1>5
<1>7. Tip(store') = t - 1
  BY <1>1, <1>2, <1>6, MaxOfInterval DEF Tip
<1>8. \A h \in D : g[h] \in Block /\ g[h].height = h
  BY ZenonT(40), <1>1, <1>4, <1>6
<1>9. StoreInv'
  <2>1. g \in [D -> Block]
    BY <1>5, <1>8
  <2>2. store'.finalized \in 0 .. t - 1
    BY <1>1, <1>3
  <2> HIDE DEF g
  <2> QED
    BY Zenon, <1>2, <1>3, <1>7, <1>8, <2>1, <2>2 DEF StoreInv, g
<1>10. Range(g) = Range(f) \ {b}
  <2>1. \A h \in D : f[h] # b
    BY ZenonT(40), <1>1, <1>2, <1>4
  <2> HIDE DEF D, E
  <2> QED
    BY <1>1, <1>4, <1>6, <2>1 DEF Range, E
<1>11. TablesAgree'
  <2>1. \A h \in 1 .. t - 1 : Linked(g[h - 1], g[h])
    <3> TAKE h \in 1 .. t - 1
    <3>1. h \in 1 .. t /\ h - 1 \in D /\ h \in D
      BY <1>1
    <3> QED
      BY <1>6, <3>1 DEF TablesAgree
  <2>2. store'.events \subseteq D
    BY <1>2, <1>3, <1>4 DEF TablesAgree
  <2>3. /\ store'.headers = Range(g) /\ store'.assets = Range(g)
        /\ store'.txIDs = Range(g) \ {Genesis} /\ store'.txs = Range(g) \ {Genesis}
    <3> HIDE DEF f, g, b
    <3> QED
      BY Zenon, <1>2, <1>3, <1>10 DEF TablesAgree, f, g
  <2> HIDE DEF g
  <2> QED
    BY <1>6, <1>7, <2>1, <2>2, <2>3 DEF TablesAgree, g
<1>12. EventsKept'
  <2> SUFFICES ASSUME NEW h \in store.finalized + 1 .. t - 1 PROVE h \in store'.events
    BY <1>3, <1>7 DEF EventsKept
  <2>1. h \in store.finalized + 1 .. t /\ h # t
    BY <1>1
  <2> QED
    BY <1>2, <1>3, <2>1 DEF EventsKept
<1> QED
  BY <1>6, <1>7, <1>9, <1>11, <1>12

-----------------------------------------------------------------------------
(* The executer.                                                           *)

\* AddBlock, up to the write of its batch.
LEMMA AddBlockSound ==
    ASSUME ChainStoreInv, NEW b \in Block, NEW finalized \in Heights, NEW removeTemp,
           AddBlock(b, finalized, removeTemp)
    PROVE  StoreInv' /\ TablesAgree' /\ EventsKept' /\ CacheInv'
<1> DEFINE t == Tip(store)
<1>1. /\ StoreInv /\ TablesAgree /\ EventsKept /\ CacheInv
  BY DEF ChainStoreInv
<1>2. /\ exec.step = "idle" /\ last(cache) # None /\ Linked(last(cache), b)
      /\ store.finalized <= finalized /\ finalized < b.height
      /\ store' = saveBlock(store, b, finalized, removeTemp)
      /\ exec' = [step |-> "written", block |-> b] /\ cache' = cache
  BY DEF AddBlock
<1>3. t \in Nat /\ \A h \in 0 .. t : store.heights[h].height = h
  BY <1>1, StoreTypes
<1>4. PICK lo \in 0 .. t + 1 : CacheOf(store.heights, lo, t)
  BY <1>1, <1>2 DEF CacheInv
<1>5. lo <= t /\ lo \in Nat /\ last(cache) = store.heights[t]
  <2>1. lo \in Nat /\ t \in Int
    BY <1>3
  <2> HIDE DEF t
  <2> QED
    BY <1>2, <1>4, <2>1, LastOfCut DEF CacheOf
<1>6. b.height = t + 1
  BY <1>2, <1>3, <1>5 DEF Linked
<1>7. /\ StoreInv' /\ TablesAgree' /\ EventsKept'
      /\ Tip(store') = t + 1
      /\ store'.heights[t + 1] = b
      /\ \A h \in 0 .. t : store'.heights[h] = store.heights[h]
  BY <1>1, <1>2, <1>5, <1>6, SaveBlockSound
<1>8. cache = Cut(store'.heights, lo, t)
  <2>1. \A h \in lo .. t : store'.heights[h] = store.heights[h]
    <3>1. \A h \in lo .. t : h \in 0 .. t
      BY <1>3, <1>5
    <3> QED
      BY <1>7, <3>1
  <2>2. Cut(store.heights, lo, t) = Cut(store'.heights, lo, t)
    BY Zenon, <2>1 DEF Cut
  <2> QED
    BY <1>4, <2>2 DEF CacheOf
<1>9. CacheInv'
  <2>1. Tip(store') - 1 = t /\ lo \in 0 .. t
    BY <1>3, <1>5, <1>7
  <2>2. exec'.step = "written" /\ exec'.block = store'.heights[Tip(store')]
    BY <1>2, <1>7
  <2>3. (CacheOf(store.heights, lo, Tip(store) - 1))'
    BY <1>2, <1>4, <1>8, <2>1 DEF CacheOf
  <2> QED
    BY <1>2, <2>1, <2>2, <2>3 DEF CacheInv
<1> QED
  BY <1>7, <1>9

\* AddBlock adds above the chain.
LEMMA AddedAbove ==
    ASSUME ChainStoreInv, NEW b \in Block, NEW finalized \in Heights, NEW removeTemp,
           AddBlock(b, finalized, removeTemp)
    PROVE  b.height \notin DOMAIN store.heights
<1> DEFINE t == Tip(store)
<1>1. StoreInv /\ TablesAgree /\ CacheInv
  BY DEF ChainStoreInv
<1>2. exec.step = "idle" /\ last(cache) # None /\ Linked(last(cache), b)
  BY DEF AddBlock
<1>3. t \in Nat /\ \A h \in 0 .. t : store.heights[h].height = h
  BY <1>1, StoreTypes
<1>4. PICK lo \in 0 .. t + 1 : CacheOf(store.heights, lo, t)
  BY <1>1, <1>2 DEF CacheInv
<1>5. last(cache) = store.heights[t]
  <2>1. lo \in Nat /\ t \in Int
    BY <1>3
  <2> HIDE DEF t
  <2> QED
    BY <1>2, <1>4, <2>1, LastOfCut DEF CacheOf
<1>6. b.height = t + 1
  BY <1>2, <1>3, <1>5 DEF Linked
<1>7. DOMAIN store.heights = 0 .. t
  BY <1>1 DEF TablesAgree
<1> HIDE DEF t
<1> QED
  BY <1>3, <1>6, <1>7

\* RemoveBlock, up to the write of its batch.
LEMMA RemoveSound ==
    ASSUME ChainStoreInv, NEW saveTemp, RemoveBlock(saveTemp)
    PROVE  StoreInv' /\ TablesAgree' /\ EventsKept' /\ CacheInv'
<1> DEFINE t == Tip(store)
           b == store.heights[t]
<1>1. /\ StoreInv /\ TablesAgree /\ EventsKept /\ CacheInv
  BY DEF ChainStoreInv
<1>2. /\ exec.step = "idle" /\ last(cache) # None
      /\ last(cache).height > store.finalized
      /\ store' = removeBlock(store, last(cache), saveTemp)
      /\ exec' = [step |-> "erased", block |-> last(cache)] /\ cache' = cache
  BY DEF RemoveBlock
<1>3. /\ t \in Nat
      /\ \A h \in 0 .. t : store.heights[h] \in Block /\ store.heights[h].height = h
  BY <1>1, StoreTypes
<1>4. PICK lo \in 0 .. t + 1 : CacheOf(store.heights, lo, t)
  BY <1>1, <1>2 DEF CacheInv
<1>5. lo <= t /\ lo \in Nat /\ last(cache) = b
  <2>1. lo \in Nat /\ t \in Int
    BY <1>3
  <2> HIDE DEF t
  <2> QED
    BY <1>2, <1>4, <2>1, LastOfCut DEF CacheOf
<1>6. b \in Block /\ b.height = t
  BY <1>3
<1>7. /\ StoreInv' /\ TablesAgree' /\ EventsKept'
      /\ Tip(store') = t - 1
      /\ \A h \in 0 .. t - 1 : store'.heights[h] = store.heights[h]
  BY <1>1, <1>2, <1>5, <1>6, RemoveBlockSound
<1>8. Tip(store') + 1 = t /\ lo \in 0 .. t
  BY <1>3, <1>5, <1>7
<1>9. cache = Cut(WithErased', lo, t)
  <2>1. WithErased' = [h \in 0 .. t |-> IF h = t THEN b ELSE store'.heights[h]]
    BY <1>2, <1>5, <1>6, <1>8 DEF WithErased
  <2>2. \A h \in lo .. t : WithErased'[h] = store.heights[h]
    <3>1. \A h \in lo .. t : h \in 0 .. t /\ (h = t \/ h \in 0 .. t - 1)
      BY <1>3, <1>5
    <3> QED
      BY <1>7, <2>1, <3>1
  <2>3. Cut(store.heights, lo, t) = Cut(WithErased', lo, t)
    BY Zenon, <2>2 DEF Cut
  <2> QED
    BY <1>4, <2>3 DEF CacheOf
<1>10. CacheInv'
  <2>1. /\ exec'.step = "erased" /\ exec'.block = b
        /\ exec' = [step |-> exec'.step, block |-> exec'.block]
    BY <1>2, <1>5
  <2>2. (CacheOf(WithErased, lo, Tip(store) + 1))'
    BY <1>2, <1>4, <1>8, <1>9 DEF CacheOf
  <2> QED
    BY <1>6, <1>8, <2>1, <2>2 DEF CacheInv
<1> QED
  BY <1>7, <1>10

\* A push or pop brings the cache back to the end of the chain.
LEMMA UpdateCacheSound ==
    ASSUME ChainStoreInv, UpdateCache
    PROVE  /\ CacheInv'
           /\ \E lo \in Nat : cache' = Cut(store.heights, lo, Tip(store))
<1> DEFINE t == Tip(store)
           f == store.heights
<1>1. StoreInv /\ TablesAgree /\ CacheInv
  BY DEF ChainStoreInv
<1>2. /\ exec.step \in {"push", "pop"} /\ exec' = Idle /\ store' = store
      /\ cache' = IF exec.step = "push" THEN push(cache, exec.block) ELSE pop(cache)
  BY DEF UpdateCache, WriterWaits
<1>3. /\ t \in Nat
      /\ \A h \in 0 .. t : f[h] \in Block /\ f[h].height = h
  BY <1>1, StoreTypes
<1>4. \E lo \in 0 .. t + 1 : /\ cache' = Cut(f, lo, t)
                             /\ t - lo + 1 <= MaxBlockCache
  <2>1. CASE exec.step = "push"
    <3>1. PICK lo \in 0 .. t - 1 : CacheOf(f, lo, t - 1)
      BY <1>1, <2>1 DEF CacheInv
    <3>2. cache = Cut(f, lo, t - 1) /\ t - 1 - lo + 1 <= MaxBlockCache
          /\ exec.block = f[t]
      BY <1>1, <2>1, <3>1 DEF CacheOf, CacheInv
    <3> DEFINE k == t - 1
               m == After(lo, k)
    <3>3. /\ k \in Int /\ k + 1 = t /\ lo \in Nat /\ k >= lo
          /\ k - lo + 1 <= MaxBlockCache /\ f[k + 1].height = k + 1
      BY <1>3, <3>2
    <3>4. cache' = Cut(f, m, k + 1)
      <4>1. cache' = push(Cut(f, lo, k), f[k + 1])
        BY <1>2, <2>1, <3>2, <3>3
      <4> HIDE DEF k, f
      <4> QED
        BY <3>3, <4>1, PushCut
    <3>5. m \in 0 .. t + 1 /\ t - m + 1 <= MaxBlockCache
      <4>1. MaxBlockCache \in Nat /\ MaxBlockCache >= 1
        BY BlockTypes
      <4> HIDE DEF k, t
      <4> QED
        BY <3>3, <4>1 DEF After
    <3> HIDE DEF m
    <3> QED
      BY <3>3, <3>4, <3>5
  <2>2. CASE exec.step = "pop"
    <3>1. PICK lo \in 0 .. t + 1 : CacheOf(WithErased, lo, t + 1)
      BY <1>1, <2>2 DEF CacheInv
    <3>2. /\ cache = Cut(WithErased, lo, t + 1) /\ (t + 1) - lo + 1 <= MaxBlockCache
          /\ exec.block.height = t + 1 /\ exec.step # "push"
      BY <1>1, <2>2, <3>1 DEF CacheOf, CacheInv
    <3>3. /\ lo \in Nat /\ t + 1 \in Int /\ t + 1 >= lo /\ (t + 1) - 1 = t
          /\ t - lo + 1 <= MaxBlockCache
      BY <1>3, <3>2, BlockTypes
    <3>4. cache' = Cut(WithErased, lo, t)
      <4>1. pop(Cut(WithErased, lo, t + 1)) = Cut(WithErased, lo, (t + 1) - 1)
        <5> DEFINE e == WithErased
                   k == t + 1
        <5>1. lo \in Nat /\ k \in Int /\ k >= lo
          BY <3>3
        <5> HIDE DEF e, k
        <5>2. pop(Cut(e, lo, k)) = Cut(e, lo, k - 1)
          BY <5>1, PopCut
        <5> QED
          BY <5>2 DEF e, k
      <4> QED
        BY <1>2, <3>2, <3>3, <4>1
    <3>5. Cut(WithErased, lo, t) = Cut(f, lo, t)
      <4>1. \A h \in lo .. t : WithErased[h] = f[h]
        <5>1. \A h \in lo .. t : h \in 0 .. t + 1 /\ h # t + 1
          BY <1>3, <3>3
        <5> QED
          BY <3>2, <5>1 DEF WithErased
      <4> QED
        BY Zenon, <4>1 DEF Cut
    <3> QED
      BY <3>3, <3>4, <3>5
  <2> QED
    BY <1>2, <2>1, <2>2
<1>5. PICK lo \in 0 .. t + 1 : cache' = Cut(f, lo, t) /\ t - lo + 1 <= MaxBlockCache
  BY <1>4
<1>6. CacheInv'
  <2>1. /\ exec'.step = "idle"
        /\ exec' = [step |-> exec'.step, block |-> exec'.block]
    BY <1>2 DEF Idle
  <2>2. (CacheOf(store.heights, lo, Tip(store)))'
    BY <1>2, <1>5 DEF CacheOf
  <2> QED
    BY <1>2, <2>1, <2>2 DEF CacheInv
<1>7. lo \in Nat
  BY <1>3
<1> QED
  BY <1>5, <1>6, <1>7

-----------------------------------------------------------------------------
(* Requests.                                                               *)

\* What the chain has at a height.
LEMMA ChainBlocks ==
    ASSUME NEW s, NEW e, NEW h \in Heights
    PROVE  /\ BlockAt(s, h) \in OnChain(s, e)[h]
           /\ e.step \in {"erased", "pop"} /\ e.block.height = h => e.block \in OnChain(s, e)[h]
           /\ \A b \in OnChain(s, e)[h] :
                 b = BlockAt(s, h) \/ (b = e.block /\ e.step \in {"erased", "pop"} /\ e.block.height = h)
<1>1. OnChain(s, e)[h] = {BlockAt(s, h)} \cup
         (IF e.step \in {"erased", "pop"} /\ e.block.height = h THEN {e.block} ELSE {})
  BY DEF OnChain
<1> QED
  BY <1>1

\* Only blocks are on the chain.
LEMMA ChainTypes ==
    ASSUME NEW s, NEW e, \A h \in DOMAIN s.heights : s.heights[h] \in Block,
           e.step \in {"erased", "pop"} => e.block \in Block
    PROVE  OnChain(s, e) \in [Heights -> SUBSET (Block \cup {None})]
<1>1. ASSUME NEW h \in Heights PROVE OnChain(s, e)[h] \in SUBSET (Block \cup {None})
  <2>1. BlockAt(s, h) \in Block \cup {None}
    BY Zenon DEF BlockAt
  <2>2. ASSUME NEW b \in OnChain(s, e)[h] PROVE b \in Block \cup {None}
    BY <2>1, <2>2, ChainBlocks
  <2> QED
    BY Zenon, <2>2
<1>2. OnChain(s, e) = [h \in Heights |-> OnChain(s, e)[h]]
  BY Zenon DEF OnChain
<1> QED
  BY Zenon, <1>1, <1>2

\* A cached block is a block of its height.
LEMMA CachedBlocks ==
    ASSUME ChainStoreInv
    PROVE  \A h \in DOMAIN cache.blocks :
              /\ h \in Heights /\ cache.blocks[h] \in Block
              /\ cache.blocks[h].height = h
              /\ \/ cache.blocks[h] = BlockAt(store, h)
                 \/ /\ BlockAt(store, h) = None
                    /\ exec.step \in {"erased", "pop"} /\ cache.blocks[h] = exec.block
<1> DEFINE t == Tip(store)
           f == store.heights
<1>1. StoreInv /\ TablesAgree /\ CacheInv
  BY DEF ChainStoreInv
<1>2. /\ t \in Nat /\ t <= MaxHeight /\ MaxHeight \in Nat
      /\ \A h \in 0 .. t : f[h] \in Block /\ f[h].height = h
  BY <1>1, StoreTypes, BlockTypes
<1>3. \A h \in 0 .. t : h \in Heights /\ BlockAt(store, h) = f[h]
  <2>1. DOMAIN f = 0 .. t
    BY <1>1 DEF TablesAgree
  <2> QED
    BY <1>2, <2>1 DEF Heights, BlockAt
<1>4. ASSUME NEW lo \in 0 .. t + 1, NEW hi \in 0 .. t, cache = Cut(f, lo, hi)
      PROVE  \A h \in DOMAIN cache.blocks :
                /\ h \in Heights /\ cache.blocks[h] \in Block /\ cache.blocks[h].height = h
                /\ cache.blocks[h] = BlockAt(store, h)
  <2>1. \A h \in lo .. hi : h \in 0 .. t
    BY <1>2
  <2>2. /\ DOMAIN cache.blocks = lo .. hi
        /\ \A h \in lo .. hi : cache.blocks[h] = f[h]
    BY <1>4 DEF Cut
  <2> QED
    BY <1>2, <1>3, <2>1, <2>2
<1>5. CASE exec.step = "idle"
  <2>1. PICK lo \in 0 .. t + 1 : CacheOf(f, lo, t)
    BY <1>1, <1>5 DEF CacheInv
  <2>2. t \in 0 .. t
    BY <1>2
  <2> QED
    BY <1>4, <2>1, <2>2 DEF CacheOf
<1>6. CASE exec.step \in {"written", "push"}
  <2>1. PICK lo \in 0 .. t - 1 : CacheOf(f, lo, t - 1)
    BY <1>1, <1>6 DEF CacheInv
  <2>2. t - 1 \in 0 .. t /\ lo \in 0 .. t + 1
    BY <1>2
  <2> QED
    BY <1>4, <2>1, <2>2 DEF CacheOf
<1>7. CASE exec.step \in {"erased", "pop"}
  <2> DEFINE b == exec.block
  <2>1. /\ b \in Block /\ b.height = t + 1
        /\ \E lo \in 0 .. t + 1 : CacheOf(WithErased, lo, t + 1)
    BY <1>1, <1>7 DEF CacheInv
  <2>2. PICK lo \in 0 .. t + 1 : CacheOf(WithErased, lo, t + 1)
    BY <2>1
  <2>3. /\ DOMAIN cache.blocks = lo .. t + 1
        /\ \A h \in lo .. t + 1 : cache.blocks[h] = WithErased[h]
    BY <2>2 DEF CacheOf, Cut
  <2>4. \A h \in lo .. t + 1 : h \in 0 .. t + 1 /\ (h # t + 1 => h \in 0 .. t)
    BY <1>2
  <2>5. \A h \in 0 .. t + 1 : WithErased[h] = IF h = t + 1 THEN b ELSE f[h]
    BY <2>1 DEF WithErased
  <2>6. t + 1 \in Heights /\ BlockAt(store, t + 1) = None
    <3>1. t + 1 \notin 0 .. t
      BY <1>2
    <3>2. DOMAIN f = 0 .. t
      BY <1>1 DEF TablesAgree
    <3> QED
      BY <2>1, <3>1, <3>2, BlockTypes DEF BlockAt
  <2>7. ASSUME NEW h \in lo .. t + 1
        PROVE  /\ h \in Heights /\ WithErased[h] \in Block /\ WithErased[h].height = h
               /\ \/ WithErased[h] = BlockAt(store, h)
                  \/ BlockAt(store, h) = None /\ WithErased[h] = b
    BY <1>2, <1>3, <2>1, <2>4, <2>5, <2>6
  <2> QED
    BY Zenon, <1>7, <2>3, <2>7
<1> QED
  BY <1>1, <1>5, <1>6, <1>7 DEF CacheInv

\* A step that leaves the chain alone, or ends a call of the executer, leaves
\* the request alone.
LEMMA ReaderKept ==
    ASSUME ReaderInv, reader' = reader, seen' = seen, store' = store,
           \/ exec' = exec
           \/ exec' = Idle
           \/ /\ exec'.block = exec.block
              /\ exec'.step \in {"push", "pop"} /\ (exec'.step = "pop" => exec.step = "erased")
    PROVE  ReaderInv'
<1>1. ASSUME NEW h \in Heights
      PROVE  OnChain(store', exec')[h] \subseteq OnChain(store, exec)[h]
  <2>1. ASSUME NEW b \in OnChain(store', exec')[h]
        PROVE  b \in OnChain(store, exec)[h]
    <3>1. CASE b = BlockAt(store, h)
      BY Zenon, <3>1, ChainBlocks
    <3>2. CASE b = exec'.block /\ exec'.step \in {"erased", "pop"} /\ exec'.block.height = h
      <4>1. exec' # Idle
        BY <3>2 DEF Idle
      <4>2. b = exec.block /\ exec.step \in {"erased", "pop"} /\ exec.block.height = h
        BY <3>2, <4>1
      <4> QED
        BY <4>2, ChainBlocks
    <3>3. \/ b = BlockAt(store', h)
          \/ b = exec'.block /\ exec'.step \in {"erased", "pop"} /\ exec'.block.height = h
      <4> DEFINE s == store'
                 e == exec'
      <4>1. b \in OnChain(s, e)[h]
        BY <2>1
      <4> HIDE DEF s, e
      <4>2. b = BlockAt(s, h) \/ (b = e.block /\ e.step \in {"erased", "pop"} /\ e.block.height = h)
        BY <4>1, ChainBlocks
      <4> QED
        BY <4>2 DEF s, e
    <3>4. BlockAt(store', h) = BlockAt(store, h)
      BY Zenon DEF BlockAt
    <3> QED
      BY Zenon, <3>1, <3>2, <3>3, <3>4
  <2> QED
    BY Zenon, <2>1
<1>2. ASSUME reader.step # "idle", NEW h \in Heights
      PROVE  OnChain(store', exec')[h] \subseteq seen'[h]
  BY Zenon, <1>1, <1>2 DEF ReaderInv
<1>3. \A f, h : FetchOk(f, h) => FetchOk(f, h)'
  BY DEF FetchOk, Intact, BlockAt
<1> QED
  BY Zenon, <1>2, <1>3 DEF ReaderInv

\* The history follows what the executer writes: a height has the block it
\* had, or it had none, or it has none now.
LEMMA ReaderSees ==
    ASSUME ReaderInv, reader' = reader, Saw, StoreInv', TablesAgree', CacheInv',
           \A h \in Heights : \/ BlockAt(store', h) = BlockAt(store, h)
                              \/ None \in {BlockAt(store, h), BlockAt(store', h)}
    PROVE  ReaderInv'
<1>1. CASE reader.step = "idle"
  <2>1. seen' = seen /\ DOMAIN reader.fetch = {}
    BY <1>1 DEF ReaderInv, Saw
  <2> QED
    BY Zenon, <1>1, <2>1 DEF ReaderInv
<1>2. CASE reader.step # "idle"
  <2>1. seen' = [h \in Heights |-> seen[h] \cup OnChain(store', exec')[h]]
    BY Zenon, <1>2 DEF Saw
  <2>2. OnChain(store', exec') \in [Heights -> SUBSET (Block \cup {None})]
    <3>1. store'.heights \in [0 .. Tip(store') -> Block] /\ DOMAIN store'.heights = 0 .. Tip(store')
      BY Zenon DEF StoreInv, TablesAgree
    <3>2. \A h \in DOMAIN store'.heights : store'.heights[h] \in Block
      BY <3>1
    <3>3. exec'.step \in {"erased", "pop"} => exec'.block \in Block
      BY DEF CacheInv
    <3> QED
      BY Zenon, <3>2, <3>3, ChainTypes
  <2>3. seen \in [Heights -> SUBSET (Block \cup {None})]
    BY Zenon DEF ReaderInv
  <2>4. /\ seen' \in [Heights -> SUBSET (Block \cup {None})]
        /\ \A h \in Heights : seen[h] \subseteq seen'[h]
        /\ \A h \in Heights : OnChain(store', exec')[h] \subseteq seen'[h]
    <3> DEFINE c == OnChain(store', exec')
    <3>1. c \in [Heights -> SUBSET (Block \cup {None})] /\ seen' = [h \in Heights |-> seen[h] \cup c[h]]
      BY Zenon, <2>1, <2>2
    <3> HIDE DEF c
    <3>2. /\ seen' \in [Heights -> SUBSET (Block \cup {None})]
          /\ \A h \in Heights : seen[h] \subseteq seen'[h] /\ c[h] \subseteq seen'[h]
      BY <2>3, <3>1
    <3> QED
      BY Zenon, <3>2 DEF c
  <2>5. ASSUME NEW h \in DOMAIN reader.fetch, NEW f, FetchOk(f, h) PROVE FetchOk(f, h)'
    <3>1. h \in Heights
      BY Zenon DEF ReaderInv
    <3>2. BlockAt(store, h) \in seen'[h] /\ BlockAt(store', h) \in seen'[h]
      <4>1. BlockAt(store, h) \in seen[h]
        BY Zenon, <1>2, <3>1, ChainBlocks DEF ReaderInv
      <4> QED
        BY Zenon, <2>4, <3>1, <4>1, ChainBlocks
    <3>3. None \in seen'[h] \/ BlockAt(store', h) = BlockAt(store, h)
      BY Zenon, <3>1, <3>2
    <3>4. None' = None /\ seen[h] \subseteq seen'[h] /\ Held' = Held
      BY Zenon, <2>4, <3>1 DEF None, Held
    <3>5. Intact(f, h) /\ BlockAt(store', h) = BlockAt(store, h) => Intact(f, h)'
      BY DEF Intact, Genesis
    <3> QED
      BY ZenonT(40), <2>5, <3>3, <3>4, <3>5 DEF FetchOk
  <2>6. \A h \in DOMAIN reader.fetch : FetchOk(reader.fetch[h], h)'
    BY Zenon, <2>5 DEF ReaderInv
  <2> QED
    BY Zenon, <1>2, <2>4, <2>6 DEF ReaderInv
<1> QED
  BY <1>1, <1>2

\* The end of a request.
LEMMA ReaderEnds ==
    ASSUME ReaderInv, EndRequest
    PROVE  ReaderInv'
<1>1. /\ reader' = [op |-> "none", step |-> "idle", header |-> None, fetch |-> <<>>]
      /\ seen' = [h \in Heights |-> {}]
  BY DEF EndRequest, NoRequest, NothingSeen
<1>2. DOMAIN reader'.fetch = {} /\ reader'.fetch = <<>> /\ reader'.step = "idle"
      /\ reader'.header = None
  BY <1>1
<1>3. reader'.fetch \in [DOMAIN reader'.fetch -> Fetches]
  BY <1>2
<1>4. seen' \in [Heights -> SUBSET (Block \cup {None})]
  BY <1>1
<1>5. reader' = [op |-> reader'.op, step |-> reader'.step, header |-> reader'.header,
                 fetch |-> reader'.fetch]
  BY <1>1
<1> QED
  BY <1>2, <1>3, <1>4, <1>5 DEF ReaderInv

\* A request starts with what can be read now.
LEMMA RequestSound ==
    ASSUME ChainStoreInv, NEW op \in {"getLastBlock", "getBlocksFromID", "getBlockByHeight"},
           NEW b \in Block, Request(op, b.height, b)
    PROVE  ReaderInv'
<1> DEFINE f == reader'.fetch
<1>1. store' = store /\ exec' = exec /\ seen' = OnChain(store, exec)
  BY Zenon DEF Request
<1>2. /\ seen' \in [Heights -> SUBSET (Block \cup {None})]
      /\ \A h \in Heights : OnChain(store', exec')[h] \subseteq seen'[h]
  <2>1. \A h \in DOMAIN store.heights : store.heights[h] \in Block
    BY DEF ChainStoreInv, StoreInv, TablesAgree
  <2>2. exec.step \in {"erased", "pop"} => exec.block \in Block
    BY DEF ChainStoreInv, CacheInv
  <2> QED
    BY Zenon, <1>1, <2>1, <2>2, ChainTypes
<1>3. Fetch("cache") \in Fetches /\ Fetch("cache").step = "cache"
  BY DEF Fetch, Fetches
<1>4. \/ /\ reader'.step \in {"last", "header"} /\ f = <<>>
         /\ reader'.header \in Block \cup {None}
         /\ reader' = [op |-> reader'.op, step |-> reader'.step,
                       header |-> reader'.header, fetch |-> f]
      \/ /\ reader'.step = "fetch" /\ f = [k \in {b.height} |-> Fetch("cache")]
         /\ reader'.header \in Block \cup {None}
         /\ reader' = [op |-> reader'.op, step |-> reader'.step,
                       header |-> reader'.header, fetch |-> f]
  BY Zenon DEF Request, NoRequest
<1>5. b.height \in Heights
  BY BlockTypes
<1>6. /\ DOMAIN f \subseteq Heights /\ f \in [DOMAIN f -> Fetches]
      /\ reader'.step # "fetch" => DOMAIN f = {}
      /\ \A h \in DOMAIN f : f[h].step = "cache"
  <2>1. CASE f = <<>> /\ reader'.step \in {"last", "header"}
    BY <2>1
  <2>2. CASE reader'.step = "fetch" /\ f = [k \in {b.height} |-> Fetch("cache")]
    <3>1. DOMAIN f = {b.height} /\ f[b.height] = Fetch("cache")
      BY <2>2
    <3>2. f \in [{b.height} -> Fetches]
      BY <1>3, <2>2
    <3> QED
      BY <1>3, <1>5, <2>2, <3>1, <3>2
  <2> QED
    BY <1>4, <2>1, <2>2
<1>7. \A h \in DOMAIN f : FetchOk(reader.fetch[h], h)'
  BY <1>6 DEF FetchOk, Held
<1> HIDE DEF f
<1> QED
  BY Zenon, <1>2, <1>4, <1>6, <1>7 DEF ReaderInv, f

\* A fetch goes on with a block that was seen at its height.
LEMMA FetchBecomes ==
    ASSUME ReaderInv, NEW h \in DOMAIN reader.fetch, reader.step = "fetch",
           NEW g \in Fetches,
           FetchOk(g, h),
           reader' = [reader EXCEPT !.fetch[h] = g],
           seen' = seen, store' = store, exec' = exec
    PROVE  ReaderInv'
<1> DEFINE f == reader.fetch
           e == [f EXCEPT ![h] = g]
<1>1. f \in [DOMAIN f -> Fetches] /\ DOMAIN f \subseteq Heights
  BY DEF ReaderInv
<1>2. /\ DOMAIN e = DOMAIN f /\ e[h] = g
      /\ \A k \in DOMAIN f : k # h => e[k] = f[k]
      /\ e \in [DOMAIN f -> Fetches]
  BY <1>1
<1>3. /\ reader'.op = reader.op /\ reader'.step = "fetch"
      /\ reader'.header = reader.header /\ reader'.fetch = e
      /\ reader' = [op |-> reader'.op, step |-> reader'.step, header |-> reader'.header,
                    fetch |-> reader'.fetch]
  BY DEF ReaderInv
<1>4. \A k \in DOMAIN f : FetchOk(e[k], k)
  BY ZenonT(40), <1>2 DEF ReaderInv
<1>5. \A k, x : FetchOk(x, k) => FetchOk(x, k)'
  BY DEF FetchOk, Intact, BlockAt
<1>6. OnChain(store', exec') = OnChain(store, exec)
  BY Zenon DEF OnChain, BlockAt
<1> HIDE DEF e
<1>7. /\ \A k \in DOMAIN reader'.fetch : FetchOk(reader.fetch[k], k)'
      /\ \A k \in Heights : OnChain(store', exec')[k] \subseteq seen'[k]
  BY Zenon, <1>2, <1>3, <1>4, <1>5, <1>6 DEF ReaderInv
<1> QED
  BY Zenon, <1>1, <1>2, <1>3, <1>7 DEF ReaderInv

\* Every step of GetBlockByHeight.
LEMMA FetchStepSound ==
    ASSUME ChainStoreInv, NEW h \in Heights, FetchStep(h)
    PROVE  ReaderInv'
<1> DEFINE f == reader.fetch[h]
           at == BlockAt(store, h)
<1>1. /\ h \in DOMAIN reader.fetch /\ reader.step = "fetch"
      /\ seen' = seen /\ store' = store /\ exec' = exec
  BY DEF FetchStep
<1>2. ReaderInv /\ StoreInv /\ TablesAgree /\ f \in Fetches /\ FetchOk(f, h)
  BY <1>1 DEF ChainStoreInv, ReaderInv
<1>21. /\ at \in seen[h]
       /\ exec.step \in {"erased", "pop"} /\ exec.block.height = h => exec.block \in seen[h]
  <2>1. \A x \in OnChain(store, exec)[h] : x \in seen[h]
    BY Zenon, <1>1, <1>2 DEF ReaderInv
  <2> QED
    BY Zenon, <2>1, ChainBlocks
<1>22. /\ at # None => at \in store.headers /\ at \in store.assets
       /\ at # None /\ at # Genesis => at \in store.txIDs /\ at \in store.txs
       /\ Genesis \notin store.txIDs
  <2>1. at # None => at \in Range(store.heights)
    BY DEF BlockAt, Range
  <2> QED
    BY Zenon, <1>2, <2>1 DEF TablesAgree
<1>23. ASSUME f.step \in Held, None \notin seen[h] PROVE f.block = at /\ at # None /\ Intact(f, h)
  BY Zenon, <1>2, <1>21, <1>23 DEF FetchOk, Intact
<1>3. \A s \in {"cache", "id", "failed"} : Fetch(s) \in Fetches /\ Fetch(s).step = s
  BY DEF Fetch, Fetches
<1> DEFINE Ok(g) == g \in Fetches /\ FetchOk(g, h)
<1>4. SUFFICES \E g : Ok(g) /\ reader' = [reader EXCEPT !.fetch[h] = g]
  BY <1>1, <1>2, FetchBecomes
<1>5. Ok(Fetch("id")) /\ (None \in seen[h] => Ok(Fetch("failed")))
  BY <1>3 DEF FetchOk, Held
<1> HIDE DEF at
<1>6. CASE f.step = "cache"
  <2> DEFINE b == getByHeight(cache, h)
             g == [step |-> "done", block |-> b, txs |-> TRUE, assets |-> TRUE]
  <2>1. reader' = [reader EXCEPT !.fetch[h] = IF b = None THEN Fetch("id") ELSE g]
    BY <1>6 DEF FetchStep
  <2>2. CASE b = None
    BY Zenon, <1>5, <2>1, <2>2
  <2>3. CASE b # None
    <3>1. h \in DOMAIN cache.blocks /\ b = cache.blocks[h]
      BY <2>3 DEF getByHeight
    <3>2. /\ b \in Block /\ b.height = h
          /\ b = at \/ (at = None /\ exec.step \in {"erased", "pop"} /\ b = exec.block)
      BY Zenon, <3>1, CachedBlocks DEF at
    <3>3. b \in seen[h] /\ (None \in seen[h] \/ b = at)
      BY Zenon, <1>21, <3>2
    <3> HIDE DEF b
    <3>4. Ok(g)
      BY <3>2, <3>3 DEF Fetches, FetchOk, Intact, at
    <3> HIDE DEF g
    <3> QED
      BY Zenon, <2>1, <2>3, <3>4
  <2> QED
    BY <2>2, <2>3
<1>7. CASE f.step = "id"
  <2> DEFINE b == store.heights[h]
             g == [f EXCEPT !.step = "header", !.block = b]
  <2>1. reader' = [reader EXCEPT !.fetch[h] =
                      IF h \in DOMAIN store.heights THEN g ELSE Fetch("failed")]
    BY <1>7 DEF FetchStep
  <2>2. CASE h \notin DOMAIN store.heights
    <3>1. None \in seen[h]
      BY <1>21, <2>2 DEF at, BlockAt
    <3> QED
      BY Zenon, <1>5, <2>1, <2>2, <3>1
  <2>3. CASE h \in DOMAIN store.heights
    <3>1. b \in Block
      BY <1>2, <2>3, StoreTypes
    <3>2. b = at /\ b \in seen[h]
      BY <1>21, <2>3 DEF at, BlockAt
    <3> HIDE DEF b
    <3>3. g \in Fetches /\ g.step = "header" /\ g.block = b
      BY Zenon, <1>2, <3>1 DEF Fetches
    <3> HIDE DEF g
    <3>4. Ok(g)
      BY <3>2, <3>3 DEF FetchOk, Intact, at
    <3> QED
      BY Zenon, <2>1, <2>3, <3>4
  <2> QED
    BY <2>2, <2>3
<1>8. CASE f.step = "header"
  <2> DEFINE g == [f EXCEPT !.step = "txIDs"]
  <2>1. reader' = [reader EXCEPT !.fetch[h] =
                      IF f.block \in store.headers THEN g ELSE Fetch("failed")]
    BY <1>8 DEF FetchStep
  <2>2. g \in Fetches /\ g.step = "txIDs" /\ g.block = f.block
    BY <1>2, <1>8 DEF Fetches
  <2>3. f.block \notin store.headers => None \in seen[h]
    BY Zenon, <1>8, <1>22, <1>23 DEF Held
  <2> HIDE DEF g
  <2>4. Ok(g)
    BY <1>2, <1>8, <1>23, <2>2 DEF FetchOk, Intact, Held, at
  <2> QED
    BY Zenon, <1>5, <2>1, <2>3, <2>4
<1>9. CASE f.step = "txIDs"
  <2> DEFINE g == [f EXCEPT !.step = "txs"]
             e == [f EXCEPT !.step = "assets", !.txs = (f.block = Genesis)]
  <2>1. reader' = [reader EXCEPT !.fetch[h] = IF f.block \in store.txIDs THEN g ELSE e]
    BY <1>9 DEF FetchStep
  <2>2. g \in Fetches /\ g.step = "txs" /\ g.block = f.block
    BY <1>2, <1>9 DEF Fetches
  <2>3. e \in Fetches /\ e.step = "assets" /\ e.block = f.block /\ e.txs = (f.block = Genesis)
    BY Zenon, <1>2, <1>9 DEF Fetches
  <2> HIDE DEF g, e
  <2>4. f.block \in store.txIDs => Ok(g)
    BY <1>2, <1>9, <1>22, <1>23, <2>2 DEF FetchOk, Intact, Held, at
  <2>5. f.block \notin store.txIDs => Ok(e)
    <3>1. ASSUME f.block \notin store.txIDs, None \notin seen[h]
          PROVE  f.block = at /\ e.txs
      BY Zenon, <1>9, <1>22, <1>23, <2>3, <3>1 DEF Held
    <3>2. f.block \in seen[h]
      BY <1>2, <1>9 DEF FetchOk, Held
    <3> QED
      BY <2>3, <3>1, <3>2 DEF FetchOk, Intact, at
  <2> QED
    BY Zenon, <2>1, <2>4, <2>5
<1>10. CASE f.step = "txs"
  <2> DEFINE g == [f EXCEPT !.step = "assets", !.txs = TRUE]
  <2>1. reader' = [reader EXCEPT !.fetch[h] =
                      IF f.block \in store.txs THEN g ELSE Fetch("failed")]
    BY <1>10 DEF FetchStep
  <2>2. g \in Fetches /\ g.step = "assets" /\ g.block = f.block /\ g.txs = TRUE
    BY Zenon, <1>2, <1>10 DEF Fetches
  <2>3. f.block \notin store.txs => None \in seen[h]
    BY ZenonT(40), <1>10, <1>22, <1>23 DEF Held, Intact
  <2> HIDE DEF g
  <2>4. Ok(g)
    BY <1>2, <1>10, <1>23, <2>2 DEF FetchOk, Intact, Held, at
  <2> QED
    BY Zenon, <1>5, <2>1, <2>3, <2>4
<1>11. CASE f.step = "assets"
  <2> DEFINE a == f.block \in store.assets
             g == [f EXCEPT !.step = "done", !.assets = a]
  <2>1. reader' = [reader EXCEPT !.fetch[h] = g]
    BY <1>11 DEF FetchStep
  <2>2. Ok(g)
    <3>1. a \in BOOLEAN
      OBVIOUS
    <3>2. None \notin seen[h] => a /\ f.txs /\ f.block = at
      BY ZenonT(40), <1>11, <1>22, <1>23 DEF Held, Intact
    <3> HIDE DEF a
    <3>3. /\ g \in Fetches /\ g.step = "done" /\ g.block = f.block /\ g.txs = f.txs
          /\ g.assets = a
      BY Zenon, <1>2, <1>11, <3>1 DEF Fetches
    <3>4. f.block \in seen[h]
      BY <1>2, <1>11 DEF FetchOk, Held
    <3> HIDE DEF g
    <3> QED
      BY <3>2, <3>3, <3>4 DEF FetchOk, Intact, at
  <2> HIDE DEF g
  <2> QED
    BY Zenon, <2>1, <2>2
<1> QED
  BY <1>6, <1>7, <1>8, <1>9, <1>10, <1>11 DEF FetchStep

\* A request that goes on to its next step, before it fetches blocks.
LEMMA ReaderAdvances ==
    ASSUME ReaderInv, reader.step \in {"header", "last"}, NEW step \in {"last", "lastInner"},
           reader' = [reader EXCEPT !.step = step],
           seen' = seen, store' = store, exec' = exec
    PROVE  ReaderInv'
<1>1. /\ reader'.op = reader.op /\ reader'.step = step
      /\ reader'.header = reader.header /\ reader'.fetch = reader.fetch
      /\ reader' = [op |-> reader'.op, step |-> reader'.step, header |-> reader'.header,
                    fetch |-> reader'.fetch]
  BY DEF ReaderInv
<1>2. DOMAIN reader.fetch = {} /\ reader.step # "idle"
  BY DEF ReaderInv
<1>3. OnChain(store', exec') = OnChain(store, exec)
  BY Zenon DEF OnChain, BlockAt
<1> QED
  BY Zenon, <1>1, <1>2, <1>3 DEF ReaderInv

\* LastInner: the range of the heights to fetch ends at a cached block.
LEMMA LastInnerSound ==
    ASSUME ChainStoreInv, LastInner
    PROVE  ReaderInv' /\ store' = store /\ cache' = cache /\ exec' = exec
<1> DEFINE from == reader.header.height + 1
           to == last(cache).height
           f == [h \in from .. to |-> Fetch("cache")]
<1>1. ReaderInv /\ reader.step = "lastInner"
  BY DEF ChainStoreInv, LastInner
<1>2. \/ Panic
      \/ EndRequest /\ UNCHANGED <<store, cache, exec>>
      \/ /\ last(cache) # None
         /\ reader' = [reader EXCEPT !.step = "fetch", !.fetch = f]
         /\ UNCHANGED <<store, cache, exec, seen>>
  BY Zenon DEF LastInner
<1>3. CASE Panic
  BY <1>1, <1>3, ReaderKept DEF Panic
<1>4. CASE EndRequest /\ UNCHANGED <<store, cache, exec>>
  BY <1>1, <1>4, ReaderEnds
<1>5. CASE /\ last(cache) # None
           /\ reader' = [reader EXCEPT !.step = "fetch", !.fetch = f]
           /\ UNCHANGED <<store, cache, exec, seen>>
  <2>1. to \in Heights
    <3>1. cache.currentHeight \in DOMAIN cache.blocks
          /\ last(cache) = cache.blocks[cache.currentHeight]
      BY <1>5 DEF last, getByHeight
    <3> QED
      BY <3>1, CachedBlocks
  <2>2. from \in Nat
    <3>1. CASE reader.header = None
      BY <3>1 DEF None
    <3>2. CASE reader.header \in Block
      BY <3>2, BlockTypes DEF Heights
    <3> QED
      BY <1>1, <3>1, <3>2 DEF ReaderInv
  <2>3. from .. to \subseteq Heights
    BY <2>1, <2>2, BlockTypes DEF Heights
  <2>4. Fetch("cache") \in Fetches /\ Fetch("cache").step = "cache"
    BY DEF Fetch, Fetches
  <2> HIDE DEF from, to
  <2>5. /\ DOMAIN f \subseteq Heights /\ f \in [DOMAIN f -> Fetches]
        /\ \A h \in DOMAIN f : f[h].step = "cache"
    BY <2>3, <2>4
  <2> HIDE DEF f
  <2>6. /\ reader'.step = "fetch"
        /\ reader'.header = reader.header /\ reader'.fetch = f
        /\ reader' = [op |-> reader'.op, step |-> reader'.step, header |-> reader'.header,
                      fetch |-> reader'.fetch]
    BY Zenon, <1>1, <1>5 DEF ReaderInv
  <2>7. \A h \in DOMAIN f : FetchOk(reader.fetch[h], h)'
    BY <2>5, <2>6 DEF FetchOk, Held
  <2>8. OnChain(store', exec') = OnChain(store, exec)
    BY Zenon, <1>5 DEF OnChain, BlockAt
  <2> QED
    BY ZenonT(40), <1>1, <1>5, <2>5, <2>6, <2>7, <2>8 DEF ReaderInv
<1> QED
  BY <1>2, <1>3, <1>4, <1>5

-----------------------------------------------------------------------------
(* Init and Next.                                                          *)

\* The genesis block.
LEMMA InitChainStore == Init => ChainStoreInv
<1> SUFFICES ASSUME Init PROVE ChainStoreInv
  OBVIOUS
<1> DEFINE f == store.heights
<1>1. /\ store = saveBlock(EmptyStore, Genesis, 0, FALSE)
      /\ cache = push(newBlockCache, Genesis) /\ exec = Idle
      /\ reader = [op |-> "none", step |-> "idle", header |-> None, fetch |-> <<>>]
      /\ seen = [h \in Heights |-> {}]
  BY DEF Init, NoRequest, NothingSeen
<1>2. Genesis \in Block /\ Genesis.height = 0 /\ 0 \in Heights /\ MaxBlockCache >= 1
      /\ MaxBlockCache \in Nat
  BY ZenonT(40), BlockTypes
<1>3. /\ store.headers = {Genesis} /\ store.assets = {Genesis}
      /\ store.txIDs = {} /\ store.txs = {} /\ store.events = {0}
      /\ store.finalized = 0
      /\ f = [h \in {0} |-> Genesis]
      /\ store = [headers |-> store.headers, heights |-> store.heights,
                  txIDs |-> store.txIDs, txs |-> store.txs, assets |-> store.assets,
                  events |-> store.events, temp |-> store.temp,
                  finalized |-> store.finalized]
  <2>1. \A h \in ObsoleteEvents(0, 0) : h \in Nat
    BY ObsoleteAreFinal
  <2> QED
    BY <1>1, <1>2 DEF saveBlock, EmptyStore
<1>4. 0 .. 0 = {0} /\ \A h \in 0 .. 0 : h = 0
  OBVIOUS
<1>5. DOMAIN f = 0 .. 0 /\ f[0] = Genesis /\ f \in [0 .. 0 -> Block]
  BY <1>2, <1>3, <1>4
<1>6. Tip(store) = 0
  <2>1. \A n \in Int : Max(n .. n) = n
    BY MaxOfInterval
  <2> QED
    BY <1>5, <2>1 DEF Tip
<1>7. StoreInv
  BY <1>2, <1>3, <1>4, <1>5, <1>6 DEF StoreInv
<1>8. TablesAgree
  <2>1. Range(f) = {Genesis}
    BY <1>4, <1>5 DEF Range
  <2>2. 1 .. 0 = {}
    OBVIOUS
  <2> QED
    BY <1>3, <1>4, <1>5, <1>6, <2>1, <2>2 DEF TablesAgree
<1>9. EventsKept
  <2>1. 0 + 1 .. 0 = {}
    OBVIOUS
  <2> QED
    BY <1>3, <1>6, <2>1 DEF EventsKept
<1>10. CacheInv
  <2>1. cache = Cut(f, 0, 0)
    <3>1. f[0].height = 0 /\ 0 \in Nat
      BY <1>2, <1>5
    <3>2. push(newBlockCache, f[0]) = Cut(f, 0, 0)
      <4> HIDE DEF f
      <4> QED
        BY <3>1, PushFirst
    <3> QED
      BY <1>1, <1>5, <3>2
  <2>2. CacheOf(f, 0, 0) /\ 0 \in 0 .. 0 + 1
    BY <1>2, <2>1 DEF CacheOf
  <2>3. exec.step = "idle" /\ exec = [step |-> exec.step, block |-> exec.block]
    BY <1>1 DEF Idle
  <2> QED
    BY <1>6, <2>2, <2>3 DEF CacheInv
<1>11. ReaderInv
  <2>1. /\ reader = [op |-> reader.op, step |-> reader.step, header |-> reader.header,
                     fetch |-> reader.fetch]
        /\ reader.header = None /\ reader.step = "idle"
        /\ DOMAIN reader.fetch = {} /\ reader.fetch \in [{} -> Fetches]
        /\ seen \in [Heights -> SUBSET (Block \cup {None})]
    BY <1>1
  <2> QED
    BY ZenonT(40), <2>1 DEF ReaderInv
<1> QED
  BY <1>7, <1>8, <1>9, <1>10, <1>11 DEF ChainStoreInv

\* Steps that leave the chain and the cache alone.
LEMMA ChainKept ==
    ASSUME ChainStoreInv, store' = store, cache' = cache, exec' = exec
    PROVE  StoreInv' /\ TablesAgree' /\ EventsKept' /\ CacheInv'
BY DEF ChainStoreInv, StoreInv, TablesAgree, EventsKept, CacheInv, CacheOf, WithErased

\* The calls of the executer.
LEMMA ExecuteSound == ChainStoreInv /\ Execute => ChainStoreInv'
<1> SUFFICES ASSUME ChainStoreInv, Execute PROVE ChainStoreInv'
  OBVIOUS
<1>0. ReaderInv /\ StoreInv /\ TablesAgree /\ EventsKept /\ CacheInv
  BY DEF ChainStoreInv
<1>1. ASSUME NEW b \in Block, NEW f \in Heights, NEW t \in BOOLEAN, AddBlock(b, f, t)
      PROVE  ChainStoreInv'
  <2>1. StoreInv' /\ TablesAgree' /\ EventsKept' /\ CacheInv'
    BY <1>1, AddBlockSound
  <2>2. ASSUME NEW h \in Heights
        PROVE  BlockAt(store', h) = BlockAt(store, h) \/ BlockAt(store, h) = None
    <3> DEFINE g == store.heights
               e == store'.heights
    <3>1. e = [k \in DOMAIN g \cup {b.height} |-> IF k = b.height THEN b ELSE g[k]]
      BY <1>1 DEF AddBlock, saveBlock
    <3>2. b.height \notin DOMAIN g
      BY <1>1, AddedAbove
    <3> HIDE DEF g, e
    <3>3. CASE h \in DOMAIN g
      <4>1. h \in DOMAIN e /\ e[h] = g[h]
        BY <3>1, <3>2, <3>3
      <4> QED
        BY <3>3, <4>1 DEF BlockAt, g, e
    <3> QED
      BY <3>3 DEF BlockAt, g
  <2>3. ReaderInv'
    BY Zenon, <1>0, <1>1, <2>1, <2>2, ReaderSees DEF AddBlock
  <2> QED
    BY <2>1, <2>3 DEF ChainStoreInv
<1>2. ASSUME NEW t \in BOOLEAN, RemoveBlock(t)
      PROVE  ChainStoreInv'
  <2>1. StoreInv' /\ TablesAgree' /\ EventsKept' /\ CacheInv'
    BY <1>2, RemoveSound
  <2>2. ASSUME NEW h \in Heights
        PROVE  BlockAt(store', h) = BlockAt(store, h) \/ BlockAt(store', h) = None
    <3> DEFINE g == store.heights
               e == store'.heights
               k == last(cache).height
    <3>1. e = [x \in DOMAIN g \ {k} |-> g[x]]
      <4>1. store' = removeBlock(store, last(cache), t)
        BY Zenon, <1>2 DEF RemoveBlock
      <4>2. e = Restrict(g, DOMAIN g \ {k})
        BY <1>0, <4>1 DEF removeBlock, StoreInv
      <4> QED
        BY Zenon, <4>2 DEF Restrict
    <3> HIDE DEF g, e, k
    <3>2. h \in DOMAIN e => h \in DOMAIN g /\ e[h] = g[h]
      BY <3>1
    <3> QED
      BY <3>2 DEF BlockAt, g, e
  <2>3. ReaderInv'
    BY Zenon, <1>0, <1>2, <2>1, <2>2, ReaderSees DEF RemoveBlock
  <2> QED
    BY ZenonT(40), <2>1, <2>3 DEF ChainStoreInv
<1>3. CASE RemoveBlockPanics
  BY ZenonT(40), <1>0, <1>3, ChainKept, ReaderKept DEF RemoveBlockPanics, Panic, ChainStoreInv
<1>4. CASE LockCache
  <2>1. store' = store /\ cache' = cache /\ reader' = reader /\ seen' = seen
    BY <1>4 DEF LockCache
  <2>2. StoreInv' /\ TablesAgree' /\ EventsKept'
    BY <1>0, <2>1 DEF StoreInv, TablesAgree, EventsKept
  <2>3. \/ exec.step = "written" /\ exec' = [step |-> "push", block |-> exec.block]
        \/ exec.step = "erased" /\ exec' = [step |-> "pop", block |-> exec.block]
    BY <1>0, <1>4 DEF LockCache, CacheInv
  <2>4. CacheInv'
    <3>1. /\ exec' = [step |-> exec'.step, block |-> exec'.block] /\ exec'.block = exec.block
          /\ \/ exec.step = "written" /\ exec'.step = "push"
             \/ exec.step = "erased" /\ exec'.step = "pop"
      BY <2>3
    <3>2. WithErased' = WithErased
      BY Zenon, <2>1, <3>1 DEF WithErased
    <3>3. CASE exec.step = "written" /\ exec'.step = "push"
      <4>1. /\ exec.block = store.heights[Tip(store)]
            /\ \E lo \in 0 .. Tip(store) - 1 : CacheOf(store.heights, lo, Tip(store) - 1)
        BY Zenon, <1>0, <3>3 DEF CacheInv
      <4> QED BY Zenon, <2>1, <3>1, <3>3, <4>1 DEF CacheInv, CacheOf
    <3>4. CASE exec.step = "erased" /\ exec'.step = "pop"
      <4>1. /\ exec.block \in Block /\ exec.block.height = Tip(store) + 1
            /\ \E lo \in 0 .. Tip(store) + 1 : CacheOf(WithErased, lo, Tip(store) + 1)
        BY Zenon, <1>0, <3>4 DEF CacheInv
      <4> QED BY Zenon, <2>1, <3>1, <3>2, <3>4, <4>1 DEF CacheInv, CacheOf
    <3> QED BY <3>1, <3>3, <3>4
  <2>5. ReaderInv'
    <3>1. /\ exec'.block = exec.block /\ exec'.step \in {"push", "pop"}
          /\ exec'.step = "pop" => exec.step = "erased"
      BY <2>3
    <3> QED
      BY Zenon, <1>0, <2>1, <3>1, ReaderKept
  <2> QED
    BY <2>2, <2>4, <2>5 DEF ChainStoreInv
<1>5. CASE UpdateCache
  <2>1. store' = store /\ reader' = reader /\ seen' = seen
    BY <1>5 DEF UpdateCache
  <2>2. StoreInv' /\ TablesAgree' /\ EventsKept'
    BY <1>0, <2>1 DEF StoreInv, TablesAgree, EventsKept
  <2>3. CacheInv'
    BY <1>5, UpdateCacheSound
  <2>6. ReaderInv'
    <3>1. exec' = Idle
      BY <1>5 DEF UpdateCache
    <3> QED
      BY Zenon, <1>0, <2>1, <3>1, ReaderKept
  <2> QED
    BY <2>2, <2>3, <2>6 DEF ChainStoreInv
<1> QED
  BY <1>1, <1>2, <1>3, <1>4, <1>5 DEF Execute

\* The steps of a request.
LEMMA ServeSound == ChainStoreInv /\ Serve => ChainStoreInv'
<1> SUFFICES ASSUME ChainStoreInv, Serve PROVE ChainStoreInv'
  OBVIOUS
<1>0. ReaderInv
  BY DEF ChainStoreInv
<1>1. SUFFICES store' = store /\ cache' = cache /\ exec' = exec /\ ReaderInv'
  BY ChainKept DEF ChainStoreInv
<1>2. ASSUME NEW op \in {"getLastBlock", "getBlocksFromID", "getBlockByHeight"},
             NEW b \in Block, Request(op, b.height, b)
      PROVE  store' = store /\ cache' = cache /\ exec' = exec /\ ReaderInv'
  BY Zenon, <1>2, RequestSound DEF Request
<1>3. CASE ReadHeader
  <2>1. store' = store /\ cache' = cache /\ exec' = exec /\ reader.step = "header"
    BY <1>3 DEF ReadHeader
  <2>2. \/ reader' = [reader EXCEPT !.step = "last"] /\ seen' = seen
        \/ EndRequest
    BY <1>3 DEF ReadHeader
  <2> QED
    BY <1>0, <2>1, <2>2, ReaderAdvances, ReaderEnds
<1>4. CASE LastOuter
  BY <1>0, <1>4, ReaderAdvances DEF LastOuter
<1>5. CASE LastInner
  BY <1>5, LastInnerSound
<1>6. ASSUME NEW h \in Heights, FetchStep(h)
      PROVE  store' = store /\ cache' = cache /\ exec' = exec /\ ReaderInv'
  BY Zenon, <1>6, FetchStepSound DEF FetchStep
<1>7. CASE Answer
  BY <1>0, <1>7, ReaderEnds DEF Answer
<1> QED
  BY <1>2, <1>3, <1>4, <1>5, <1>6, <1>7 DEF Serve

\* PrepareCache after a crash.
LEMMA RestartSound == ChainStoreInv /\ Restart => ChainStoreInv'
<1> SUFFICES ASSUME ChainStoreInv, Restart PROVE ChainStoreInv'
  OBVIOUS
<1>1. /\ store' = store /\ cache' = PrepareCache(store) /\ exec' = Idle /\ EndRequest
  BY DEF Restart
<1>2. StoreInv /\ TablesAgree /\ EventsKept /\ ReaderInv
  BY DEF ChainStoreInv
<1>3. StoreInv' /\ TablesAgree' /\ EventsKept'
  BY <1>1, <1>2 DEF StoreInv, TablesAgree, EventsKept
<1>4. Tip(store) \in Nat /\ \A h \in 0 .. Tip(store) : store.heights[h].height = h
  BY <1>2, StoreTypes
<1>5. PICK lo \in 0 .. Tip(store) : /\ PrepareCache(store) = Cut(store.heights, lo, Tip(store))
                                    /\ Tip(store) - lo + 1 <= MaxBlockCache
  BY <1>4, PrepareCacheIsCut
<1>6. CacheInv'
  <2>1. lo \in 0 .. Tip(store) + 1
    BY <1>4
  <2>2. (CacheOf(store.heights, lo, Tip(store)))'
    BY <1>1, <1>5 DEF CacheOf
  <2>3. exec'.step = "idle" /\ exec' = [step |-> exec'.step, block |-> exec'.block]
    BY <1>1 DEF Idle
  <2> QED
    BY <1>1, <2>1, <2>2, <2>3 DEF CacheInv
<1>7. ReaderInv'
  BY <1>1, <1>2, ReaderEnds
<1> QED
  BY <1>3, <1>6, <1>7 DEF ChainStoreInv

\* No step breaks the invariant.
LEMMA NextChainStore == ChainStoreInv /\ [Next]_vars => ChainStoreInv'
<1> SUFFICES ASSUME ChainStoreInv, [Next]_vars PROVE ChainStoreInv'
  OBVIOUS
<1>1. ReaderInv
  BY DEF ChainStoreInv
<1>2. CASE Crash
  BY <1>1, <1>2, ChainKept, ReaderKept DEF Crash, Panic, ChainStoreInv
<1>3. CASE UNCHANGED vars
  BY <1>1, <1>3, ChainKept, ReaderKept DEF vars, ChainStoreInv
<1> QED
  BY <1>2, <1>3, ExecuteSound, ServeSound, RestartSound DEF Next

-----------------------------------------------------------------------------
(* Theorems.                                                               *)

\* The inductive invariant of the tables, the cache and the request.
THEOREM ChainStoreInvariant == Spec => []ChainStoreInv
BY InitChainStore, NextChainStore, PTL DEF Spec

\* The tables of the database agree with each other after every batch of
\* AddBlock and RemoveBlock, a crash after the batch included.
THEOREM TablesAlwaysAgree == Spec => []TablesAgree
<1>1. ChainStoreInv => TablesAgree
  BY DEF ChainStoreInv
<1> QED
  BY <1>1, ChainStoreInvariant, PTL

\* saveBlock never deletes the events of a block above the finalized height.
THEOREM EventsAlwaysKept == Spec => []EventsKept
<1>1. ChainStoreInv => EventsKept
  BY DEF ChainStoreInv
<1> QED
  BY <1>1, ChainStoreInvariant, PTL

\* Between two calls of the executer blockCache is the end of the chain, also
\* after PrepareCache has loaded it again.
THEOREM CacheFollowsChain == Spec => []CacheIsEndOfChain
<1>1. ChainStoreInv => CacheIsEndOfChain
  <2> SUFFICES ASSUME ChainStoreInv, exec.step = "idle"
               PROVE  /\ cache.size <= MaxBlockCache
                      /\ DOMAIN cache.blocks =
                            cache.currentHeight - cache.size + 1 .. cache.currentHeight
                      /\ \A h \in DOMAIN cache.blocks : cache.blocks[h] = store.heights[h]
                      /\ cache.size > 0 => cache.currentHeight = Tip(store)
    BY DEF CacheIsEndOfChain
  <2> DEFINE t == Tip(store)
  <2>1. PICK lo \in 0 .. t + 1 : CacheOf(store.heights, lo, t)
    BY DEF ChainStoreInv, CacheInv
  <2>2. t \in Nat /\ lo \in Nat
    BY StoreTypes DEF ChainStoreInv
  <2>3. /\ DOMAIN cache.blocks = lo .. t
        /\ \A h \in lo .. t : cache.blocks[h] = store.heights[h]
        /\ cache.size = t - lo + 1 /\ cache.currentHeight = t
        /\ t - lo + 1 <= MaxBlockCache
    BY <2>1 DEF CacheOf, Cut
  <2>4. t - (t - lo + 1) + 1 = lo
    <3> HIDE DEF t
    <3> QED
      BY <2>2
  <2> QED
    BY <2>3, <2>4
<1> QED
  BY <1>1, ChainStoreInvariant, PTL

\* A block that GetBlockByHeight answers with was at its height of the chain
\* while the request was served; it fails, or is incomplete, only when the
\* height had no block at some moment of the request.
THEOREM ReadsFollowChain == Spec => []ReadsAreOfTheChain
<1>1. ASSUME ChainStoreInv, NEW h \in DOMAIN reader.fetch
      PROVE  LET f == reader.fetch[h]
             IN  /\ f.step = "done" => f.block \in seen[h]
                 /\ f.step = "failed" \/ (f.step = "done" /\ ~(f.txs /\ f.assets)) => None \in seen[h]
  <2> DEFINE f == reader.fetch[h]
  <2>1. FetchOk(f, h)
    BY <1>1 DEF ChainStoreInv, ReaderInv
  <2> HIDE DEF f
  <2>2. /\ f.step = "done" => f.block \in seen[h]
        /\ f.step = "failed" \/ (f.step = "done" /\ ~(f.txs /\ f.assets)) => None \in seen[h]
    BY <2>1 DEF FetchOk, Intact, Held
  <2> QED
    BY Zenon, <2>2 DEF f
<1>2. ChainStoreInv => ReadsAreOfTheChain
  BY Zenon, <1>1 DEF ReadsAreOfTheChain
<1> QED
  BY <1>2, ChainStoreInvariant, PTL
=============================================================================
