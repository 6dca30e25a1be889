--------------------------- MODULE LiskBFTProofs ---------------------------
(***************************************************************************)
(* Proofs about LiskBFT, for every set of validators, every batch size and *)
(* every sequence of parameter changes.                                    *)
(***************************************************************************)
EXTENDS LiskBFT, SetTheorems, WellFoundedInduction, TLAPS

-----------------------------------------------------------------------------
(* Smallest and largest elements.                                          *)

\* Range(start, end, 1, true) of getBFTParams returns the largest key up to
\* the height when there is one.
LEMMA LargestKey ==
    ASSUME NEW store, NEW h \in Int,
           DOMAIN store \subseteq Nat, ExistsAt(store, h)
    PROVE  /\ Max(KeysUpTo(store, h)) \in KeysUpTo(store, h)
           /\ \A l \in KeysUpTo(store, h) : l <= Max(KeysUpTo(store, h))
<1> DEFINE K == KeysUpTo(store, h)
           D == {h - k : k \in K}
<1>1. K \subseteq Nat /\ K # {} /\ \A k \in K : k <= h
  BY DEF KeysUpTo, ExistsAt
<1>2. D \subseteq Nat /\ D # {}
  BY <1>1
<1>3. PICK d \in D : \A y \in D : d <= y
  <2>1. Min(D) \in D /\ \A y \in D : Min(D) <= y
    BY Zenon, <1>2, MinOfNaturals
  <2> QED BY Zenon, <2>1
<1>4. PICK m \in K : d = h - m
  BY <1>3
<1>5. \A l \in K : m >= l
  BY <1>1, <1>3, <1>4
<1> QED
  BY <1>1, <1>4, <1>5 DEF Max

-----------------------------------------------------------------------------
(* Stores keyed by height.                                                 *)

\* An entry of the store is found by its largest key, however that is known.
LEMMA AtIsLargest ==
    ASSUME NEW store, NEW h \in Int, DOMAIN store \subseteq Nat,
           NEW m \in DOMAIN store, m <= h,
           \A l \in DOMAIN store : l <= h => l <= m
    PROVE  ExistsAt(store, h) /\ At(store, h) = store[m]
<1>1. m \in KeysUpTo(store, h) /\ ExistsAt(store, h)
  BY DEF KeysUpTo, ExistsAt
<1>2. Max(KeysUpTo(store, h)) = m
  <2> DEFINE n == Max(KeysUpTo(store, h))
  <2>1. n \in KeysUpTo(store, h) /\ \A l \in KeysUpTo(store, h) : l <= n
    BY <1>1, LargestKey
  <2> HIDE DEF n
  <2>2. n \in Nat /\ n <= m /\ m <= n
    BY <1>1, <2>1 DEF KeysUpTo
  <2> QED
    BY <2>2 DEF n
<1> QED
  BY <1>1, <1>2 DEF At

\* deleteBFTParams(r) does not change what holds at a height h >= r.
LEMMA AtDeleteUpTo ==
    ASSUME NEW store, IsStore(store), NEW h \in Int, NEW r \in Int, r <= h,
           ExistsAt(store, h)
    PROVE  /\ ExistsAt(DeleteUpTo(store, r), h)
           /\ At(DeleteUpTo(store, r), h) = At(store, h)
<1> DEFINE m == Max(KeysUpTo(store, h))
           d == DeleteUpTo(store, r)
<1>1. /\ m \in DOMAIN store /\ m <= h
      /\ \A l \in DOMAIN store : l <= h => l <= m
  BY LargestKey DEF KeysUpTo, IsStore
<1>2. /\ DOMAIN d = {k \in DOMAIN store :
                       k > r \/ \A l \in KeysUpTo(store, r) : l <= k}
      /\ \A k \in DOMAIN d : d[k] = store[k]
  BY DEF DeleteUpTo, RestrictDomain, Restrict
<1>3. m \in DOMAIN d
  BY <1>1, <1>2 DEF KeysUpTo, IsStore
<1>4. DOMAIN d \subseteq Nat /\ \A l \in DOMAIN d : l <= h => l <= m
  BY <1>1, <1>2 DEF IsStore
<1>5. ExistsAt(d, h) /\ At(d, h) = d[m]
  BY <1>1, <1>3, <1>4, AtIsLargest
<1>6. At(store, h) = store[m]
  BY DEF At
<1> QED
  BY <1>2, <1>3, <1>5, <1>6

\* A new entry at height n does not change what holds below n, and holds at n
\* when the store has no later entry.
LEMMA AtPut ==
    ASSUME NEW store, IsStore(store), NEW n \in Nat, NEW x
    PROVE  /\ \A h \in Int : h < n /\ ExistsAt(store, h) =>
                 /\ ExistsAt(Put(store, n, x), h)
                 /\ At(Put(store, n, x), h) = At(store, h)
           /\ (\A k \in DOMAIN store : k <= n) =>
                 /\ ExistsAt(Put(store, n, x), n)
                 /\ At(Put(store, n, x), n) = x
<1> DEFINE p == Put(store, n, x)
<1>1. /\ DOMAIN p = DOMAIN store \cup {n}
      /\ p[n] = x
      /\ \A k \in DOMAIN store : k # n => p[k] = store[k]
  BY DEF Put
<1>2. DOMAIN p \subseteq Nat
  BY <1>1 DEF IsStore
<1>3. ASSUME NEW h \in Int, h < n, ExistsAt(store, h)
      PROVE  ExistsAt(p, h) /\ At(p, h) = At(store, h)
  <2> DEFINE m == Max(KeysUpTo(store, h))
  <2>1. /\ m \in DOMAIN store /\ m <= h
        /\ \A l \in DOMAIN store : l <= h => l <= m
    BY <1>3, LargestKey DEF KeysUpTo, IsStore
  <2>2. m \in Nat /\ m # n /\ m \in DOMAIN p
    BY <1>1, <1>3, <2>1 DEF IsStore
  <2>3. \A l \in DOMAIN p : l <= h => l <= m
    BY <1>1, <1>3, <2>1
  <2>4. ExistsAt(p, h) /\ At(p, h) = p[m]
    BY <1>2, <2>1, <2>2, <2>3, AtIsLargest
  <2>5. At(store, h) = store[m]
    BY DEF At
  <2> QED
    BY <1>1, <2>1, <2>2, <2>4, <2>5
<1>4. ASSUME \A k \in DOMAIN store : k <= n
      PROVE  ExistsAt(p, n) /\ At(p, n) = x
  <2>1. n \in DOMAIN p /\ n <= n /\ \A l \in DOMAIN p : l <= n => l <= n
    BY <1>1
  <2>2. ExistsAt(p, n) /\ At(p, n) = p[n]
    BY <1>2, <2>1, AtIsLargest
  <2> QED
    BY <1>1, <2>2
<1> QED
  BY <1>3, <1>4

-----------------------------------------------------------------------------
(* The steps of BeforeTransactionsExecute.                                 *)

IsHeader(header) ==
    /\ header.generatorAddress \in Validators
    /\ header.height \in Nat
    /\ header.maxHeightGenerated \in Nat
    /\ header.maxHeightPrevoted \in Nat
    /\ header.aggregateCommit.height \in Nat

\* The parts of the type of a BFTVotes struct that the proofs use.
LEMMA VotesTypeFacts ==
    ASSUME NEW v, IsBFTVotes(v)
    PROVE  /\ v.blockBFTInfos \in Seq(BFTBlockHeaders)
           /\ Len(v.blockBFTInfos) \in Nat
           /\ DOMAIN v.blockBFTInfos = 1 .. Len(v.blockBFTInfos)
           /\ \A i \in 1 .. Len(v.blockBFTInfos) :
                 /\ v.blockBFTInfos[i] \in BFTBlockHeaders
                 /\ v.blockBFTInfos[i].height \in Nat
                 /\ v.blockBFTInfos[i].prevoteWeight \in Nat
                 /\ v.blockBFTInfos[i].precommitWeight \in Nat
           /\ v.maxHeightPrevoted \in Nat
           /\ v.maxHeightPrecommited \in Nat
           /\ v.maxHeightCertified \in Nat
           /\ CurrentHeight(v) \in Nat
<1>1. /\ v.blockBFTInfos \in Seq(BFTBlockHeaders)
      /\ v.maxHeightPrevoted \in Nat
      /\ v.maxHeightPrecommited \in Nat
      /\ v.maxHeightCertified \in Nat
  BY DEF IsBFTVotes
<1>2. /\ Len(v.blockBFTInfos) \in Nat
      /\ DOMAIN v.blockBFTInfos = 1 .. Len(v.blockBFTInfos)
      /\ \A i \in 1 .. Len(v.blockBFTInfos) :
            v.blockBFTInfos[i] \in BFTBlockHeaders
  BY <1>1
<1>3. \A i \in 1 .. Len(v.blockBFTInfos) :
         /\ v.blockBFTInfos[i].height \in Nat
         /\ v.blockBFTInfos[i].prevoteWeight \in Nat
         /\ v.blockBFTInfos[i].precommitWeight \in Nat
  BY <1>2 DEF BFTBlockHeaders
<1>4. CurrentHeight(v) \in Nat
  <2>1. CASE Len(v.blockBFTInfos) > 0
    <3>1. 1 \in 1 .. Len(v.blockBFTInfos)
      BY <1>2, <2>1
    <3> QED
      BY <1>3, <2>1, <3>1 DEF CurrentHeight
  <2>2. CASE ~ (Len(v.blockBFTInfos) > 0)
    BY <1>1, <2>2 DEF CurrentHeight
  <2> QED
    BY <2>1, <2>2
<1> QED
  BY <1>1, <1>2, <1>3, <1>4

\* insertBlockBFTInfo puts the new header first and shifts the others.
LEMMA InsertType ==
    ASSUME NEW v, IsBFTVotes(v), NEW header, IsHeader(header)
    PROVE  LET w == InsertBlockBFTInfo(v, header)
               infos == v.blockBFTInfos
           IN  /\ IsBFTVotes(w)
               /\ w.maxHeightPrevoted = v.maxHeightPrevoted
               /\ w.maxHeightPrecommited = v.maxHeightPrecommited
               /\ w.maxHeightCertified = v.maxHeightCertified
               /\ w.activeValidatorsVoteInfo = v.activeValidatorsVoteInfo
               /\ Len(w.blockBFTInfos) >= 1
               /\ Len(w.blockBFTInfos) <= Len(infos) + 1
               /\ w.blockBFTInfos[1].height = header.height
               /\ w.blockBFTInfos[1].generatorAddress = header.generatorAddress
               /\ w.blockBFTInfos[1].prevoteWeight = 0
               /\ w.blockBFTInfos[1].precommitWeight = 0
               /\ \A i \in 2 .. Len(w.blockBFTInfos) :
                     i - 1 \in 1 .. Len(infos) /\ w.blockBFTInfos[i] = infos[i - 1]
<1> DEFINE infos == v.blockBFTInfos
           w == InsertBlockBFTInfo(v, header)
           size == IF Len(infos) + 1 <= maxLengthBlock
                   THEN Len(infos) + 1 ELSE maxLengthBlock
           new == [generatorAddress   |-> header.generatorAddress,
                   height             |-> header.height,
                   maxHeightGenerated |-> header.maxHeightGenerated,
                   maxHeightPrevoted  |-> header.maxHeightPrevoted,
                   prevoteWeight      |-> 0,
                   precommitWeight    |-> 0]
           f == [i \in 1 .. size |-> IF i = 1 THEN new ELSE infos[i - 1]]
<1>1. /\ infos \in Seq(BFTBlockHeaders)
      /\ Len(infos) \in Nat
      /\ \A i \in 1 .. Len(infos) : infos[i] \in BFTBlockHeaders
  BY DEF IsBFTVotes
<1>2. maxLengthBlock \in Nat /\ maxLengthBlock >= 1
  BY HeightsAssumption DEF maxLengthBlock
<1>3. size \in Nat /\ size >= 1 /\ size <= maxLengthBlock
      /\ size <= Len(infos) + 1
  BY <1>1, <1>2
<1>4. new \in BFTBlockHeaders
  BY DEF IsHeader, BFTBlockHeaders
<1> HIDE DEF size
<1>5. \A i \in 1 .. size : f[i] \in BFTBlockHeaders
  BY <1>1, <1>3, <1>4
<1>6. f \in Seq(BFTBlockHeaders) /\ Len(f) = size
  BY <1>3, <1>5
<1>7. w = [v EXCEPT !.blockBFTInfos = f]
  BY DEF InsertBlockBFTInfo, size
<1>8. /\ f[1] = new
      /\ \A i \in 2 .. size : i - 1 \in 1 .. Len(infos) /\ f[i] = infos[i - 1]
  BY <1>1, <1>3
<1> HIDE DEF f, w
<1>9. /\ w.blockBFTInfos = f
      /\ w.maxHeightPrevoted = v.maxHeightPrevoted
      /\ w.maxHeightPrecommited = v.maxHeightPrecommited
      /\ w.maxHeightCertified = v.maxHeightCertified
      /\ w.activeValidatorsVoteInfo = v.activeValidatorsVoteInfo
  BY <1>7 DEF IsBFTVotes
<1>10. IsBFTVotes(w)
  BY <1>3, <1>6, <1>7, <1>9 DEF IsBFTVotes
<1> QED
  BY <1>3, <1>6, <1>8, <1>9, <1>10 DEF w

IsParamsStore(store) ==
    IsStore(store) /\ \A k \in DOMAIN store : IsBFTParams(store[k])

\* What getBFTParams returns is one of the stored parameters.
LEMMA AtType ==
    ASSUME NEW store, IsParamsStore(store), NEW h \in Int, ExistsAt(store, h)
    PROVE  IsBFTParams(At(store, h))
<1>1. Max(KeysUpTo(store, h)) \in KeysUpTo(store, h)
  BY LargestKey DEF IsParamsStore, IsStore
<1> QED
  BY <1>1 DEF At, KeysUpTo, IsParamsStore

\* Two structs have the same window but for the weights, which only grow.
SameWindow(u, w) ==
    /\ Len(u.blockBFTInfos) = Len(w.blockBFTInfos)
    /\ \A i \in 1 .. Len(w.blockBFTInfos) :
          /\ u.blockBFTInfos[i].height = w.blockBFTInfos[i].height
          /\ u.blockBFTInfos[i].prevoteWeight >= w.blockBFTInfos[i].prevoteWeight
          /\ u.blockBFTInfos[i].precommitWeight >= w.blockBFTInfos[i].precommitWeight

\* updatePrevotesPrecommits only adds weight, adds precommits only to blocks
\* with a quorum of prevotes, and leaves everything else in place.
LEMMA UpdateVotes ==
    ASSUME NEW w, IsBFTVotes(w), Len(w.blockBFTInfos) >= 1,
           IsParamsStore(bftParams), ParamsExist(w), ~ VotesFail(w)
    PROVE  LET u == UpdatePrevotesPrecommits(w)
           IN  /\ IsBFTVotes(u)
               /\ SameWindow(u, w)
               /\ u.maxHeightPrevoted = w.maxHeightPrevoted
               /\ u.maxHeightPrecommited = w.maxHeightPrecommited
               /\ u.maxHeightCertified = w.maxHeightCertified
               /\ \A i \in 1 .. Len(w.blockBFTInfos) :
                     u.blockBFTInfos[i].precommitWeight
                           # w.blockBFTInfos[i].precommitWeight =>
                        HasPrevoteQuorum(bftParams, w.blockBFTInfos[i])
<1> DEFINE infos == w.blockBFTInfos
           gen == infos[1].generatorAddress
           active == w.activeValidatorsVoteInfo
           weight(i) == At(bftParams, infos[i].height).validators[gen]
           precommitted == PrecommitPositions(w)
           prevoted == PrevotePositions(w)
           largest == IF precommitted = {} THEN active[gen].largestHeightPrecommit
                      ELSE infos[Min(precommitted)].height
           g == [i \in DOMAIN infos |->
                    [infos[i] EXCEPT
                       !.precommitWeight =
                           IF i \in precommitted THEN @ + weight(i) ELSE @,
                       !.prevoteWeight =
                           IF i \in prevoted THEN @ + weight(i) ELSE @]]
           u == UpdatePrevotesPrecommits(w)
<1>1. /\ infos \in Seq(BFTBlockHeaders)
      /\ Len(infos) \in Nat
      /\ DOMAIN infos = 1 .. Len(infos)
      /\ \A i \in 1 .. Len(infos) : infos[i] \in BFTBlockHeaders
      /\ DOMAIN active \subseteq Validators
      /\ active \in [DOMAIN active ->
            [minActiveHeight : Nat, largestHeightPrecommit : Nat]]
  BY DEF IsBFTVotes
<1>2. CASE ~ ImpliesVotes(w)
  <2>1. u = w
    BY <1>2 DEF UpdatePrevotesPrecommits
  <2>2. SameWindow(w, w)
    <3>1. \A i \in 1 .. Len(infos) :
             infos[i].prevoteWeight \in Nat /\ infos[i].precommitWeight \in Nat
      BY Zenon, <1>1 DEF BFTBlockHeaders
    <3> QED
      BY <3>1 DEF SameWindow
  <2> HIDE DEF u
  <2> QED
    BY <2>1, <2>2 DEF u
<1>3. CASE ImpliesVotes(w)
  <2>1. /\ precommitted \subseteq 1 .. Len(infos)
        /\ prevoted \subseteq 1 .. Len(infos)
        /\ \A i \in precommitted : HasPrevoteQuorum(bftParams, infos[i])
    BY ZenonT(40), <1>1 DEF PrecommitPositions, VisitedForPrecommit, PrevotePositions
  <2>2. gen \in DOMAIN active
    BY <1>3 DEF ImpliesVotes
  <2>3. ASSUME NEW i \in precommitted \cup prevoted
        PROVE  weight(i) \in Nat
    <3>1. i \in 1 .. Len(infos) /\ infos[i].height \in Nat
      BY Zenon, <1>1, <2>1 DEF BFTBlockHeaders
    <3>2. IsBFTParams(At(bftParams, infos[i].height))
      BY <1>1, <3>1, AtType DEF ParamsExist
    <3>3. gen \in DOMAIN At(bftParams, infos[i].height).validators
      BY <1>3, <2>3 DEF VotesFail
    <3> QED
      BY ZenonT(40), <3>2, <3>3 DEF IsBFTParams, IsWeights
  <2>4. largest \in Nat
    <3>1. CASE precommitted = {}
      BY ZenonT(40), <1>1, <2>2, <3>1
    <3>2. CASE precommitted # {}
      <4>1. Min(precommitted) \in precommitted
        BY <1>1, <2>1, <3>2, MinOfNaturals
      <4> QED
        BY Zenon, <1>1, <2>1, <3>2, <4>1 DEF BFTBlockHeaders
    <3> QED
      BY ZenonT(40), <3>1, <3>2
  <2> HIDE DEF weight, precommitted, prevoted, largest
  <2>5. ASSUME NEW i \in 1 .. Len(infos)
        PROVE  /\ g[i] \in BFTBlockHeaders
               /\ g[i].height = infos[i].height
               /\ g[i].prevoteWeight >= infos[i].prevoteWeight
               /\ g[i].precommitWeight >= infos[i].precommitWeight
               /\ g[i].precommitWeight # infos[i].precommitWeight =>
                      i \in precommitted
    <3> DEFINE b == infos[i]
               x == IF i \in precommitted THEN b.precommitWeight + weight(i)
                    ELSE b.precommitWeight
               y == IF i \in prevoted THEN b.prevoteWeight + weight(i)
                    ELSE b.prevoteWeight
    <3>1. b \in BFTBlockHeaders /\ b.precommitWeight \in Nat
          /\ b.prevoteWeight \in Nat
      BY ZenonT(40), <1>1 DEF BFTBlockHeaders
    <3>2. x \in Nat /\ x >= b.precommitWeight
          /\ (x # b.precommitWeight => i \in precommitted)
      BY <2>3, <3>1
    <3>3. y \in Nat /\ y >= b.prevoteWeight
      BY <2>3, <3>1
    <3>4. g[i] = [b EXCEPT !.precommitWeight = x, !.prevoteWeight = y]
      BY Zenon, <1>1
    <3> HIDE DEF b, x, y, g
    <3>5. /\ g[i] \in BFTBlockHeaders
          /\ g[i].height = b.height
          /\ g[i].precommitWeight = x
          /\ g[i].prevoteWeight = y
      BY Zenon, <3>1, <3>2, <3>3, <3>4 DEF BFTBlockHeaders
    <3> QED
      BY <3>2, <3>3, <3>5 DEF b
  <2>6. g \in Seq(BFTBlockHeaders) /\ Len(g) = Len(infos)
    <3>1. g \in [1 .. Len(infos) -> BFTBlockHeaders]
      BY Zenon, <1>1, <2>5
    <3> HIDE DEF g
    <3> QED
      BY <1>1, <3>1
  <2>7. u = [w EXCEPT
               !.blockBFTInfos = g,
               !.activeValidatorsVoteInfo =
                   [active EXCEPT ![gen].largestHeightPrecommit = largest]]
    BY <1>1, <1>3, <2>2
    DEF UpdatePrevotesPrecommits, IsBFTVotes, weight, precommitted, prevoted, largest
  <2> HIDE DEF g, u
  <2>8. /\ u.blockBFTInfos = g
        /\ u.maxHeightPrevoted = w.maxHeightPrevoted
        /\ u.maxHeightPrecommited = w.maxHeightPrecommited
        /\ u.maxHeightCertified = w.maxHeightCertified
        /\ u.activeValidatorsVoteInfo =
               [active EXCEPT ![gen].largestHeightPrecommit = largest]
    BY <2>7 DEF IsBFTVotes
  <2>9. u.activeValidatorsVoteInfo \in
           [DOMAIN active -> [minActiveHeight : Nat, largestHeightPrecommit : Nat]]
    <3> DEFINE r == [active[gen] EXCEPT !.largestHeightPrecommit = largest]
    <3>1. active[gen] \in [minActiveHeight : Nat, largestHeightPrecommit : Nat]
      BY ZenonT(40), <1>1, <2>2
    <3>2. r \in [minActiveHeight : Nat, largestHeightPrecommit : Nat]
      BY ZenonT(40), <2>4, <3>1
    <3>3. u.activeValidatorsVoteInfo = [active EXCEPT ![gen] = r]
      BY ZenonT(40), <2>8
    <3> HIDE DEF r
    <3> QED
      BY <1>1, <2>2, <3>2, <3>3
  <2>10. IsBFTVotes(u)
    BY Zenon, <1>1, <2>6, <2>7, <2>8, <2>9 DEF IsBFTVotes
  <2> QED
    BY ZenonT(40), <2>1, <2>5, <2>6, <2>8, <2>10 DEF SameWindow, u
<1> QED
  BY <1>2, <1>3

\* updateMaxHeightPrevoted and updateMaxHeightPrecommitted move a maximum to
\* the height of the first position with enough weight.  When the block at the
\* old maximum, as long as it is in the window, still has enough weight, the
\* maximum does not decrease.
LEMMA NewMaximum ==
    ASSUME NEW v, IsBFTVotes(v), WindowContiguous(v),
           NEW Q \in SUBSET (1 .. Len(v.blockBFTInfos)),
           NEW old \in Nat, old <= CurrentHeight(v),
           \A i \in 1 .. Len(v.blockBFTInfos) :
              v.blockBFTInfos[i].height = old => i \in Q
    PROVE  LET new == IF Q = {} THEN old ELSE v.blockBFTInfos[Min(Q)].height
           IN  /\ new \in Nat
               /\ old <= new
               /\ new <= CurrentHeight(v)
               /\ \A i \in Q : v.blockBFTInfos[i].height <= new
               /\ \A i \in 1 .. Len(v.blockBFTInfos) :
                     v.blockBFTInfos[i].height = new => i \in Q
<1> DEFINE n == Len(v.blockBFTInfos)
           cur == CurrentHeight(v)
           h(i) == v.blockBFTInfos[i].height
<1>1. n \in Nat /\ cur \in Nat
  BY VotesTypeFacts
<1>2. \A i \in 1 .. n : h(i) = cur - (i - 1) /\ h(i) \in Nat
  BY VotesTypeFacts DEF WindowContiguous
<1>3. CASE Q = {}
  BY <1>3
<1>4. CASE Q # {}
  <2> DEFINE m == Min(Q)
  <2>0. Q \subseteq Nat
    BY <1>1
  <2>1. m \in Q /\ \A y \in Q : m <= y
    BY Zenon, <1>4, <2>0, MinOfNaturals
  <2>2. m \in 1 .. n
    BY Zenon, <2>1
  <2> HIDE DEF m, h, n, cur
  <2>3. h(m) = cur - (m - 1) /\ h(m) \in Nat /\ h(m) <= cur
    BY <1>1, <1>2, <2>2
  <2>4. \A i \in Q : h(i) <= h(m)
    BY <1>1, <1>2, <2>1, <2>3 DEF n
  <2>5. \A i \in 1 .. n : h(i) = h(m) => i \in Q
    BY <1>1, <1>2, <2>1, <2>2, <2>3
  <2>6. old <= h(m)
    <3>1. SUFFICES ASSUME old > h(m) PROVE FALSE
      BY <2>3
    <3> DEFINE j == cur - old + 1
    <3>2. j \in 1 .. n /\ j < m
      BY <1>1, <2>2, <2>3, <3>1 DEF cur
    <3>3. h(j) = old
      BY <1>1, <1>2, <3>2
    <3>4. j \in Q
      BY <3>2, <3>3 DEF h, n
    <3> QED
      BY <1>1, <2>1, <2>2, <3>2, <3>4
  <2> QED
    BY ZenonT(40), <1>4, <2>3, <2>4, <2>5, <2>6 DEF h, n, cur, m
<1> QED
  BY ZenonT(40), <1>3, <1>4

-----------------------------------------------------------------------------
(* One block.                                                              *)

Ordered(v) ==
    /\ GenesisHeight <= v.maxHeightCertified
    /\ v.maxHeightCertified <= v.maxHeightPrecommited
    /\ v.maxHeightPrecommited <= v.maxHeightPrevoted
    /\ v.maxHeightPrevoted <= CurrentHeight(v)

PrecommitsRest(v, store) ==
    \A i \in DOMAIN v.blockBFTInfos :
        v.blockBFTInfos[i].precommitWeight > 0 =>
            HasPrevoteQuorum(store, v.blockBFTInfos[i])

VotesSound(v, store) ==
    /\ Ordered(v)
    /\ PrecommitsRest(v, store)
    /\ WindowContiguous(v)
    /\ MaxHeightsJustified(v, store)

\* VotesInv in terms of these.
LEMMA VotesInvParts ==
    VotesInv <=> /\ TypeOK
                 /\ VotesSound(bftVotes, bftParams)
                 /\ ParamsInWindow(bftVotes, bftParams)
BY DEF VotesInv, VotesSound, Ordered, PrecommitsRest, HeightsOrdered,
       PrecommitsRestOnPrevoteQuorum

\* The window after the new header is inserted: consecutive heights up to that
\* of the header, and every older block as it was.
LEMMA InsertWindow ==
    ASSUME NEW v, IsBFTVotes(v), WindowContiguous(v),
           NEW header, IsHeader(header), header.height = CurrentHeight(v) + 1,
           CurrentHeight(v) >= GenesisHeight
    PROVE  LET w == InsertBlockBFTInfo(v, header)
           IN  WindowContiguous(w) /\ CurrentHeight(w) = header.height
<1> DEFINE w == InsertBlockBFTInfo(v, header)
           n == Len(w.blockBFTInfos)
           cur == CurrentHeight(v)
<1>1. /\ IsBFTVotes(w)
      /\ n >= 1 /\ n <= Len(v.blockBFTInfos) + 1
      /\ w.blockBFTInfos[1].height = header.height
      /\ \A i \in 2 .. n : /\ i - 1 \in 1 .. Len(v.blockBFTInfos)
                           /\ w.blockBFTInfos[i] = v.blockBFTInfos[i - 1]
  BY InsertType
<1>2. n \in Nat /\ cur \in Nat /\ DOMAIN w.blockBFTInfos = 1 .. n
      /\ DOMAIN v.blockBFTInfos = 1 .. Len(v.blockBFTInfos)
      /\ Len(v.blockBFTInfos) \in Nat
  BY <1>1, VotesTypeFacts
<1>3. CurrentHeight(w) = header.height
  BY <1>1, <1>2 DEF CurrentHeight
<1> HIDE DEF w, n, cur
<1>4. ASSUME NEW i \in 1 .. n
      PROVE  /\ w.blockBFTInfos[i].height = CurrentHeight(w) - (i - 1)
             /\ w.blockBFTInfos[i].height > GenesisHeight
  <2>1. CASE i = 1
    BY <1>1, <1>2, <1>3, <2>1, HeightsAssumption DEF cur
  <2>2. CASE i # 1
    <3>1. i \in 2 .. n
      BY <1>2, <2>2
    <3>2. /\ i - 1 \in DOMAIN v.blockBFTInfos
          /\ w.blockBFTInfos[i] = v.blockBFTInfos[i - 1]
      BY <1>1, <1>2, <3>1
    <3>3. /\ v.blockBFTInfos[i - 1].height = cur - ((i - 1) - 1)
          /\ v.blockBFTInfos[i - 1].height > GenesisHeight
      BY <3>2 DEF WindowContiguous, cur
    <3> QED
      BY <1>2, <1>3, <3>1, <3>2, <3>3 DEF cur
  <2> QED
    BY <2>1, <2>2
<1> QED
  BY <1>2, <1>3, <1>4 DEF WindowContiguous, w

\* A quorum is not lost while weights grow and the parameters stay.
LEMMA QuorumGrows ==
    ASSUME NEW u, NEW w, IsBFTVotes(u), IsBFTVotes(w), SameWindow(u, w),
           IsParamsStore(bftParams), ParamsExist(w),
           NEW i \in 1 .. Len(w.blockBFTInfos)
    PROVE  /\ HasPrevoteQuorum(bftParams, w.blockBFTInfos[i]) =>
                 HasPrevoteQuorum(bftParams, u.blockBFTInfos[i])
           /\ HasPrecommitQuorum(bftParams, w.blockBFTInfos[i]) =>
                 HasPrecommitQuorum(bftParams, u.blockBFTInfos[i])
           /\ HasPrecommitQuorum(bftParams, w.blockBFTInfos[i]) =>
                 w.blockBFTInfos[i].precommitWeight > 0
<1> DEFINE h == w.blockBFTInfos[i].height
           p == At(bftParams, h)
<1>1. /\ h \in Nat /\ i \in 1 .. Len(u.blockBFTInfos)
      /\ i \in DOMAIN w.blockBFTInfos
      /\ u.blockBFTInfos[i].prevoteWeight \in Nat
      /\ u.blockBFTInfos[i].precommitWeight \in Nat
      /\ w.blockBFTInfos[i].prevoteWeight \in Nat
      /\ w.blockBFTInfos[i].precommitWeight \in Nat
  BY VotesTypeFacts DEF SameWindow
<1>2. IsBFTParams(p)
  BY <1>1, AtType DEF ParamsExist
<1>3. /\ p.prevoteThreshold \in Nat \ {0}
      /\ p.precommitThreshold \in Nat \ {0}
  BY ZenonT(40), <1>2 DEF IsBFTParams
<1>4. /\ u.blockBFTInfos[i].height = h
      /\ u.blockBFTInfos[i].prevoteWeight >= w.blockBFTInfos[i].prevoteWeight
      /\ u.blockBFTInfos[i].precommitWeight >= w.blockBFTInfos[i].precommitWeight
  BY DEF SameWindow
<1> DEFINE a == u.blockBFTInfos[i]
           b == w.blockBFTInfos[i]
<1>5. /\ b.prevoteWeight >= p.prevoteThreshold =>
            a.prevoteWeight >= p.prevoteThreshold
      /\ b.precommitWeight >= p.precommitThreshold =>
            a.precommitWeight >= p.precommitThreshold
      /\ b.precommitWeight >= p.precommitThreshold => b.precommitWeight > 0
  <2> DEFINE s == p.prevoteThreshold
             t == p.precommitThreshold
             x == a.prevoteWeight
             y == a.precommitWeight
             xx == b.prevoteWeight
             yy == b.precommitWeight
  <2>1. /\ s \in Nat /\ t \in Nat /\ t # 0
        /\ x \in Nat /\ y \in Nat /\ xx \in Nat /\ yy \in Nat
        /\ x >= xx /\ y >= yy
    BY ZenonT(40), <1>1, <1>3, <1>4
  <2> HIDE DEF s, t, x, y, xx, yy
  <2>2. (xx >= s => x >= s) /\ (yy >= t => y >= t) /\ (yy >= t => yy > 0)
    BY <2>1
  <2> QED
    BY ZenonT(40), <2>2 DEF s, t, x, y, xx, yy
<1> QED
  BY ZenonT(40), <1>4, <1>5 DEF HasPrevoteQuorum, HasPrecommitQuorum

\* Counting the votes of a window whose older blocks are as the invariant
\* says: the two maxima do not decrease, and are justified again.
LEMMA CountVotesSound ==
    ASSUME NEW w, IsBFTVotes(w), Len(w.blockBFTInfos) >= 1,
           WindowContiguous(w), PrecommitsRest(w, bftParams),
           IsParamsStore(bftParams), ParamsExist(w), ~ VotesFail(w),
           GenesisHeight <= w.maxHeightCertified,
           w.maxHeightCertified <= w.maxHeightPrecommited,
           w.maxHeightPrecommited <= w.maxHeightPrevoted,
           w.maxHeightPrevoted <= CurrentHeight(w),
           \A i \in 1 .. Len(w.blockBFTInfos) :
              /\ w.blockBFTInfos[i].height = w.maxHeightPrevoted =>
                    HasPrevoteQuorum(bftParams, w.blockBFTInfos[i])
              /\ w.blockBFTInfos[i].height = w.maxHeightPrecommited =>
                    HasPrecommitQuorum(bftParams, w.blockBFTInfos[i])
    PROVE  LET q == CountVotes(w)
           IN  /\ IsBFTVotes(q)
               /\ VotesSound(q, bftParams)
               /\ Len(q.blockBFTInfos) = Len(w.blockBFTInfos)
               /\ CurrentHeight(q) = CurrentHeight(w)
               /\ \A i \in 1 .. Len(w.blockBFTInfos) :
                     q.blockBFTInfos[i].height = w.blockBFTInfos[i].height
               /\ q.maxHeightPrevoted >= w.maxHeightPrevoted
               /\ q.maxHeightPrecommited >= w.maxHeightPrecommited
               /\ q.maxHeightCertified = w.maxHeightCertified
<1> DEFINE u == UpdatePrevotesPrecommits(w)
           p == UpdateMaxHeightPrevoted(u)
           q == UpdateMaxHeightPrecommitted(p)
           infos == u.blockBFTInfos
           n == Len(infos)
           Q1 == {i \in DOMAIN infos : HasPrevoteQuorum(bftParams, infos[i])}
           Q2 == {i \in DOMAIN infos : HasPrecommitQuorum(bftParams, infos[i])}
           m1 == IF Q1 = {} THEN u.maxHeightPrevoted ELSE infos[Min(Q1)].height
           m2 == IF Q2 = {} THEN u.maxHeightPrecommited
                 ELSE infos[Min(Q2)].height
<1>1. /\ IsBFTVotes(u)
      /\ SameWindow(u, w)
      /\ u.maxHeightPrevoted = w.maxHeightPrevoted
      /\ u.maxHeightPrecommited = w.maxHeightPrecommited
      /\ u.maxHeightCertified = w.maxHeightCertified
      /\ \A i \in 1 .. Len(w.blockBFTInfos) :
            infos[i].precommitWeight # w.blockBFTInfos[i].precommitWeight =>
                HasPrevoteQuorum(bftParams, w.blockBFTInfos[i])
  BY UpdateVotes
<1>2. CountVotes(w) = q
  BY DEF CountVotes
<1>3. p = [u EXCEPT !.maxHeightPrevoted = m1]
  BY DEF UpdateMaxHeightPrevoted
<1> HIDE DEF u, p
<1>4. /\ n \in Nat /\ n = Len(w.blockBFTInfos) /\ n >= 1
      /\ DOMAIN infos = 1 .. n /\ DOMAIN w.blockBFTInfos = 1 .. n
      /\ \A i \in 1 .. n : /\ infos[i].height = w.blockBFTInfos[i].height
                           /\ infos[i].height \in Nat
                           /\ infos[i].precommitWeight \in Nat
                           /\ w.blockBFTInfos[i].precommitWeight \in Nat
      /\ w.maxHeightPrevoted \in Nat /\ w.maxHeightPrecommited \in Nat
      /\ w.maxHeightCertified \in Nat
      /\ CurrentHeight(w) \in Nat
  BY ZenonT(40), <1>1, VotesTypeFacts DEF SameWindow
<1>5. CurrentHeight(u) = CurrentHeight(w)
  BY <1>4 DEF CurrentHeight
<1>6. WindowContiguous(u)
  BY Zenon, <1>4, <1>5 DEF WindowContiguous
<1>7. ASSUME NEW i \in 1 .. n
      PROVE  /\ HasPrevoteQuorum(bftParams, w.blockBFTInfos[i]) =>
                    HasPrevoteQuorum(bftParams, infos[i])
             /\ HasPrecommitQuorum(bftParams, w.blockBFTInfos[i]) =>
                    HasPrecommitQuorum(bftParams, infos[i])
  BY ZenonT(40), <1>1, <1>4, QuorumGrows
<1>8. /\ m1 \in Nat /\ w.maxHeightPrevoted <= m1 /\ m1 <= CurrentHeight(w)
      /\ \A i \in Q1 : infos[i].height <= m1
      /\ \A i \in 1 .. n : infos[i].height = m1 => i \in Q1
  <2>1. \A i \in 1 .. n : infos[i].height = u.maxHeightPrevoted => i \in Q1
    BY ZenonT(40), <1>1, <1>4, <1>7
  <2> QED
    BY ZenonT(40), <1>1, <1>4, <1>5, <1>6, <2>1, NewMaximum
<1>9. /\ m2 \in Nat /\ w.maxHeightPrecommited <= m2 /\ m2 <= CurrentHeight(w)
      /\ \A i \in 1 .. n : infos[i].height = m2 => i \in Q2
  <2>1. \A i \in 1 .. n : infos[i].height = u.maxHeightPrecommited => i \in Q2
    BY ZenonT(40), <1>1, <1>4, <1>7
  <2>2. u.maxHeightPrecommited <= CurrentHeight(u)
    BY <1>1, <1>4, <1>5
  <2> QED
    BY Zenon, <1>1, <1>4, <1>5, <1>6, <2>1, <2>2, NewMaximum
<1>10. PrecommitsRest(u, bftParams)
  <2> SUFFICES ASSUME NEW i \in 1 .. n, infos[i].precommitWeight > 0
               PROVE  HasPrevoteQuorum(bftParams, infos[i])
    BY <1>4 DEF PrecommitsRest
  <2>1. HasPrevoteQuorum(bftParams, w.blockBFTInfos[i])
    BY ZenonT(40), <1>1, <1>4 DEF PrecommitsRest
  <2> QED
    BY <1>7, <2>1
<1>11. m2 <= m1
  <2>1. CASE Q2 = {}
    <3>1. m2 = w.maxHeightPrecommited
      BY <1>1, <2>1
    <3> HIDE DEF m1, m2
    <3> QED
      BY <1>4, <1>8, <3>1
  <2>2. CASE Q2 # {}
    <3>1. Min(Q2) \in Q2
      <4>1. Q2 \subseteq Nat
        BY <1>4
      <4> HIDE DEF Q2
      <4> QED
        BY Zenon, <2>2, <4>1, MinOfNaturals
    <3>2. Min(Q2) \in 1 .. Len(u.blockBFTInfos) /\ SameWindow(u, u)
          /\ ParamsExist(u)
      <4>1. \A i \in 1 .. n : /\ infos[i].prevoteWeight \in Nat
                              /\ infos[i].precommitWeight \in Nat
        BY ZenonT(40), <1>1, VotesTypeFacts
      <4>2. Min(Q2) \in 1 .. n
        BY ZenonT(40), <1>4, <3>1
      <4>3. SameWindow(u, u)
        BY <1>4, <4>1 DEF SameWindow
      <4>4. ParamsExist(u)
        BY ZenonT(40), <1>4 DEF ParamsExist
      <4> QED
        BY <4>2, <4>3, <4>4
    <3>3. infos[Min(Q2)].precommitWeight > 0
      BY Zenon, <1>1, <3>1, <3>2, QuorumGrows
    <3>4. Min(Q2) \in Q1
      BY Zenon, <1>4, <1>10, <3>2, <3>3 DEF PrecommitsRest
    <3> QED
      BY Zenon, <1>8, <2>2, <3>4
  <2> QED
    BY ZenonT(40), <2>1, <2>2
<1> HIDE DEF m1, m2
<1>12. /\ p.blockBFTInfos = infos
       /\ p.maxHeightPrevoted = m1
       /\ p.maxHeightPrecommited = u.maxHeightPrecommited
       /\ p.maxHeightCertified = u.maxHeightCertified
       /\ p.activeValidatorsVoteInfo = u.activeValidatorsVoteInfo
       /\ IsBFTVotes(p)
  BY Zenon, <1>1, <1>3, <1>8 DEF IsBFTVotes
<1>13. q = [p EXCEPT !.maxHeightPrecommited = m2]
  BY <1>12 DEF UpdateMaxHeightPrecommitted, m2
<1> HIDE DEF q
<1>14. /\ q.blockBFTInfos = infos
       /\ q.maxHeightPrevoted = m1
       /\ q.maxHeightPrecommited = m2
       /\ q.maxHeightCertified = u.maxHeightCertified
       /\ IsBFTVotes(q)
  BY Zenon, <1>9, <1>12, <1>13 DEF IsBFTVotes
<1>15. CurrentHeight(q) = CurrentHeight(w)
  BY <1>4, <1>14 DEF CurrentHeight
<1>16. Ordered(q)
  <2>1. w.maxHeightCertified <= m2
    BY <1>4, <1>9
  <2> QED
    BY ZenonT(40), <1>1, <1>8, <1>11, <1>14, <1>15, <2>1 DEF Ordered
<1>17. PrecommitsRest(q, bftParams) /\ WindowContiguous(q)
  BY ZenonT(40), <1>5, <1>6, <1>10, <1>14, <1>15 DEF PrecommitsRest, WindowContiguous
<1>18. MaxHeightsJustified(q, bftParams)
  BY Zenon, <1>4, <1>8, <1>9, <1>14 DEF MaxHeightsJustified
<1> QED
  BY ZenonT(40), <1>1, <1>2, <1>4, <1>8, <1>9, <1>14, <1>15, <1>16, <1>17, <1>18
  DEF VotesSound

\* BeforeTransactionsExecute on a verified header preserves what the invariant
\* says about the votes, lowers no height, and never needs older parameters.
LEMMA ApplyHeaderSound ==
    ASSUME VotesInv, NEW header, IsHeader(header), Executable(header)
    PROVE  LET z == ApplyHeader(header)
           IN  /\ IsBFTVotes(z)
               /\ VotesSound(z, bftParams)
               /\ Len(z.blockBFTInfos) >= 1
               /\ CurrentHeight(z) = CurrentHeight(bftVotes) + 1
               /\ z.maxHeightPrevoted >= bftVotes.maxHeightPrevoted
               /\ z.maxHeightPrecommited >= bftVotes.maxHeightPrecommited
               /\ z.maxHeightCertified >= bftVotes.maxHeightCertified
               /\ NeededFrom(z) = MinHeightBFTParamsRequired(z)
               /\ NeededFrom(z) \in Nat
               /\ NeededFrom(bftVotes) \in Nat
               /\ NeededFrom(z) >= NeededFrom(bftVotes)
               /\ NeededFrom(z) <= CurrentHeight(z)
<1> DEFINE v == bftVotes
           w == InsertBlockBFTInfo(v, header)
           q == CountVotes(w)
           z == UpdateMaxHeightCertified(q, header)
           cur == CurrentHeight(v)
           n == Len(w.blockBFTInfos)
<1>1. /\ IsBFTVotes(v) /\ IsParamsStore(bftParams)
      /\ Ordered(v) /\ PrecommitsRest(v, bftParams)
      /\ WindowContiguous(v) /\ MaxHeightsJustified(v, bftParams)
  BY VotesInvParts DEF TypeOK, IsParamsStore, VotesSound
<1>2. /\ header.height = cur + 1
      /\ ParamsExist(w) /\ ~ VotesFail(w)
      /\ VerifyAggregateCommit(v, header.aggregateCommit)
  BY DEF Executable, VerifyBlock
<1>3. /\ DOMAIN v.blockBFTInfos = 1 .. Len(v.blockBFTInfos)
      /\ Len(v.blockBFTInfos) \in Nat /\ cur \in Nat
      /\ v.maxHeightPrevoted \in Nat /\ v.maxHeightPrecommited \in Nat
      /\ v.maxHeightCertified \in Nat
      /\ \A i \in 1 .. Len(v.blockBFTInfos) : v.blockBFTInfos[i].height \in Nat
  BY <1>1, VotesTypeFacts
<1>4. /\ GenesisHeight <= cur
      /\ GenesisHeight <= v.maxHeightCertified
      /\ v.maxHeightCertified <= v.maxHeightPrecommited
      /\ v.maxHeightPrecommited <= v.maxHeightPrevoted
      /\ v.maxHeightPrevoted <= cur
  BY <1>1, <1>3, HeightsAssumption DEF Ordered
<1>5. WindowContiguous(w) /\ CurrentHeight(w) = cur + 1
  BY <1>1, <1>2, <1>4, InsertWindow
<1>6. /\ IsBFTVotes(w)
      /\ w.maxHeightPrevoted = v.maxHeightPrevoted
      /\ w.maxHeightPrecommited = v.maxHeightPrecommited
      /\ w.maxHeightCertified = v.maxHeightCertified
      /\ n >= 1 /\ n <= Len(v.blockBFTInfos) + 1
      /\ w.blockBFTInfos[1].height = cur + 1
      /\ w.blockBFTInfos[1].precommitWeight = 0
      /\ \A i \in 2 .. n : i - 1 \in 1 .. Len(v.blockBFTInfos)
                           /\ w.blockBFTInfos[i] = v.blockBFTInfos[i - 1]
  BY <1>1, <1>2, InsertType
<1> HIDE DEF w
<1>7. n \in Nat /\ DOMAIN w.blockBFTInfos = 1 .. n
  BY <1>6, VotesTypeFacts
<1>8. PrecommitsRest(w, bftParams)
  <2> SUFFICES ASSUME NEW i \in 1 .. n, w.blockBFTInfos[i].precommitWeight > 0
               PROVE  HasPrevoteQuorum(bftParams, w.blockBFTInfos[i])
    BY <1>7 DEF PrecommitsRest
  <2>1. i \in 2 .. n
    BY <1>6, <1>7
  <2> QED
    BY Zenon, <1>1, <1>3, <1>6, <2>1 DEF PrecommitsRest
<1>9. ASSUME NEW i \in 1 .. n
      PROVE  /\ w.blockBFTInfos[i].height = w.maxHeightPrevoted =>
                    HasPrevoteQuorum(bftParams, w.blockBFTInfos[i])
             /\ w.blockBFTInfos[i].height = w.maxHeightPrecommited =>
                    HasPrecommitQuorum(bftParams, w.blockBFTInfos[i])
  <2>1. CASE i = 1
    BY <1>3, <1>4, <1>6, <2>1
  <2>2. CASE i # 1
    <3>1. i \in 2 .. n
      BY <1>7, <2>2
    <3>2. /\ i - 1 \in DOMAIN v.blockBFTInfos
          /\ w.blockBFTInfos[i] = v.blockBFTInfos[i - 1]
      BY ZenonT(40), <1>3, <1>6, <3>1
    <3> QED
      BY ZenonT(40), <1>1, <1>6, <3>2 DEF MaxHeightsJustified
  <2> QED
    BY <2>1, <2>2
<1>10. /\ w.maxHeightCertified <= w.maxHeightPrecommited
       /\ w.maxHeightPrecommited <= w.maxHeightPrevoted
       /\ w.maxHeightPrevoted <= CurrentHeight(w)
       /\ GenesisHeight <= w.maxHeightCertified
  BY <1>3, <1>4, <1>5, <1>6
<1>11. /\ IsBFTVotes(q)
       /\ VotesSound(q, bftParams)
       /\ Len(q.blockBFTInfos) = n
       /\ CurrentHeight(q) = CurrentHeight(w)
       /\ q.maxHeightPrevoted >= v.maxHeightPrevoted
       /\ q.maxHeightPrecommited >= v.maxHeightPrecommited
       /\ q.maxHeightCertified = v.maxHeightCertified
  BY ZenonT(40), <1>1, <1>2, <1>5, <1>6, <1>8, <1>9, <1>10, CountVotesSound
<1> HIDE DEF q
<1> DEFINE c == IF header.aggregateCommit.empty THEN q.maxHeightCertified
                ELSE header.aggregateCommit.height
<1>12. q.maxHeightPrevoted \in Nat /\ q.maxHeightPrecommited \in Nat
       /\ DOMAIN q.blockBFTInfos = 1 .. n
  BY <1>11, VotesTypeFacts
<1>13. /\ c \in Nat /\ c >= v.maxHeightCertified
       /\ c <= q.maxHeightPrecommited
  <2>1. CASE header.aggregateCommit.empty
    BY <1>3, <1>4, <1>11, <1>12, <2>1
  <2>2. CASE ~ header.aggregateCommit.empty
    <3>1. /\ header.aggregateCommit.height > v.maxHeightCertified
          /\ header.aggregateCommit.height <= v.maxHeightPrecommited
      BY <1>2, <2>2 DEF VerifyAggregateCommit
    <3>2. header.aggregateCommit.height \in Nat
      BY DEF IsHeader
    <3> QED
      BY <1>3, <1>11, <1>12, <2>2, <3>1, <3>2
  <2> QED
    BY <2>1, <2>2
<1>14. z = [q EXCEPT !.maxHeightCertified = c]
  BY DEF UpdateMaxHeightCertified
<1>15. z = ApplyHeader(header)
  BY DEF ApplyHeader, q, w
<1> HIDE DEF c, z
<1>16. /\ IsBFTVotes(z)
       /\ z.blockBFTInfos = q.blockBFTInfos
       /\ z.maxHeightPrevoted = q.maxHeightPrevoted
       /\ z.maxHeightPrecommited = q.maxHeightPrecommited
       /\ z.maxHeightCertified = c
  BY <1>11, <1>13, <1>14 DEF IsBFTVotes
<1>17. CurrentHeight(z) = cur + 1
  BY <1>5, <1>11, <1>16 DEF CurrentHeight
<1>18. VotesSound(z, bftParams)
  <2>1. Ordered(z)
    BY <1>3, <1>4, <1>5, <1>11, <1>12, <1>13, <1>16, <1>17, HeightsAssumption
    DEF VotesSound, Ordered
  <2> QED
    BY ZenonT(40), <1>5, <1>11, <1>16, <1>17, <2>1
    DEF VotesSound, PrecommitsRest, WindowContiguous, MaxHeightsJustified
<1>19. /\ n \in DOMAIN z.blockBFTInfos
       /\ z.blockBFTInfos[n].height = CurrentHeight(z) - (n - 1)
  <2>1. n \in DOMAIN z.blockBFTInfos
    BY <1>6, <1>7, <1>12, <1>16
  <2>2. WindowContiguous(z)
    BY <1>18 DEF VotesSound
  <2> HIDE DEF n
  <2> QED
    BY <2>1, <2>2 DEF WindowContiguous
<1>20. /\ NeededFrom(z) = MinHeightBFTParamsRequired(z)
       /\ NeededFrom(z) = IF cur + 1 - (n - 1) <= c + 1
                          THEN cur + 1 - (n - 1) ELSE c + 1
  <2> DEFINE o == z.blockBFTInfos[n].height
  <2>1. /\ NeededFrom(z) = MinHeightBFTParamsRequired(z)
        /\ NeededFrom(z) = IF o <= c + 1 THEN o ELSE c + 1
    BY <1>6, <1>7, <1>11, <1>16 DEF NeededFrom, MinHeightBFTParamsRequired
  <2>2. o = cur + 1 - (n - 1)
    <3>1. o = CurrentHeight(z) - (n - 1)
      BY <1>19
    <3>2. CurrentHeight(z) = cur + 1 /\ cur \in Nat /\ n \in Nat
      BY <1>3, <1>7, <1>17
    <3> HIDE DEF o, n, cur
    <3> QED
      BY <3>1, <3>2
  <2> HIDE DEF o
  <2> QED
    BY <2>1, <2>2
<1>21. cur + 1 - (n - 1) \in Nat
  <2>1. z.blockBFTInfos[n].height \in Nat /\ CurrentHeight(z) = cur + 1
    BY ZenonT(40), <1>16, <1>17, <1>19, VotesTypeFacts
  <2> DEFINE o == z.blockBFTInfos[n].height
  <2>2. o = CurrentHeight(z) - (n - 1)
    BY <1>19
  <2>3. cur \in Nat /\ n \in Nat
    BY <1>3, <1>7
  <2> HIDE DEF o, n, cur
  <2> QED
    BY <2>1, <2>2, <2>3 DEF o
<1>22. NeededFrom(z) \in Nat /\ NeededFrom(z) <= cur + 1
  <2>1. n >= 1 /\ n \in Nat /\ cur \in Nat
    BY <1>3, <1>6, <1>7
  <2> HIDE DEF n, cur
  <2> QED
    BY <1>13, <1>20, <1>21, <2>1
<1> DEFINE m == Len(v.blockBFTInfos)
<1>23. NeededFrom(v) \in Nat /\ NeededFrom(z) >= NeededFrom(v)
  <2>0. n <= m + 1 /\ n >= 1 /\ n \in Nat /\ m \in Nat
    BY <1>3, <1>6, <1>7
  <2>1. CASE m = 0
    <3>1. NeededFrom(v) = v.maxHeightCertified + 1
      BY <2>1 DEF NeededFrom
    <3>2. cur \in Nat /\ v.maxHeightCertified \in Nat /\ v.maxHeightCertified <= cur
      BY <1>3, <1>4
    <3> HIDE DEF n, m, cur
    <3>3. n = 1
      BY <2>0, <2>1
    <3>4. NeededFrom(z) = IF cur + 1 <= c + 1 THEN cur + 1 ELSE c + 1
      BY <1>20, <3>2, <3>3
    <3> QED
      BY <1>13, <3>1, <3>2, <3>4
  <2>2. CASE m # 0
    <3>1. m \in 1 .. m /\ v.blockBFTInfos[m].height = cur - (m - 1)
      <4>1. m \in 1 .. m /\ m \in DOMAIN v.blockBFTInfos
        BY <1>3, <2>2
      <4> HIDE DEF m
      <4> QED
        BY <1>1, <4>1 DEF WindowContiguous
    <3>2. v.blockBFTInfos[m].height \in Nat
      BY ZenonT(40), <1>3, <3>1
    <3>3. NeededFrom(v) = IF cur - (m - 1) <= v.maxHeightCertified + 1
                          THEN cur - (m - 1) ELSE v.maxHeightCertified + 1
      BY <2>2, <3>1 DEF NeededFrom, MinHeightBFTParamsRequired
    <3> HIDE DEF n, m, cur
    <3>4. cur - (m - 1) \in Nat /\ cur + 1 - (n - 1) >= cur - (m - 1)
      BY <1>3, <2>0, <3>1, <3>2
    <3> QED
      BY <1>3, <1>13, <1>20, <1>22, <2>0, <3>3, <3>4
  <2> QED
    BY <2>1, <2>2
<1> QED
  BY ZenonT(40), <1>3, <1>6, <1>7, <1>11, <1>12, <1>13, <1>15, <1>16, <1>17, <1>18, <1>20,
     <1>22, <1>23

-----------------------------------------------------------------------------
(* The stores after one block.                                             *)

\* deleteBFTParams and deleteGeneratorKeys only take entries away.
LEMMA StoreDelete ==
    ASSUME NEW store, IsStore(store), NEW r
    PROVE  LET d == DeleteUpTo(store, r)
           IN  /\ IsStore(d)
               /\ DOMAIN d \subseteq DOMAIN store
               /\ \A k \in DOMAIN d : d[k] = store[k]
BY DEF DeleteUpTo, RestrictDomain, Restrict, IsStore

\* SetBFTParameters and SetGeneratorKeys add one entry, and keep the others.
LEMMA StorePut ==
    ASSUME NEW store, IsStore(store), NEW n \in Nat, NEW x
    PROVE  LET p == Put(store, n, x)
           IN  /\ IsStore(p)
               /\ DOMAIN p = DOMAIN store \cup {n}
               /\ \A k \in DOMAIN p : p[k] = IF k = n THEN x ELSE store[k]
BY DEF Put, IsStore

\* Parameters that pass the checks of SetBFTParameters have positive
\* thresholds.
LEMMA ParamsType ==
    ASSUME NEW p \in NextParams \cup {GenesisParams}, ValidParams(p)
    PROVE  IsBFTParams(BFTParamsOf(p))
<1> DEFINE W == AggregateBFTWeight(BFTValidatorsOf(p))
           b == BFTParamsOf(p)
<1>1. /\ IsLabiParams(p)
      /\ W \div 3 + 1 <= p.precommitThreshold
      /\ W \div 3 + 1 <= p.certificateThreshold
  BY ParamsAssumption DEF ValidParams
<1>2. IsWeights(BFTValidatorsOf(p))
  BY <1>1 DEF IsLabiParams, IsWeights, BFTValidatorsOf, RestrictDomain, Restrict
<1>3. W \in Nat
  <2> DEFINE f == BFTValidatorsOf(p)
  <2>1. IsFiniteSet(DOMAIN f) /\ \A x \in DOMAIN f : f[x] \in Nat
    BY <1>2, ParamsAssumption, FS_Subset DEF IsWeights
  <2>2. SumFunctionOnSet(f, DOMAIN f) \in Nat
    BY <2>1, SumFunctionFacts
  <2> QED
    BY <2>2 DEF AggregateBFTWeight, SumFunction
<1>4. /\ b.prevoteThreshold = (W * 2) \div 3 + 1
      /\ b.precommitThreshold = p.precommitThreshold
      /\ b.certificateThreshold = p.certificateThreshold
      /\ b.validators = BFTValidatorsOf(p)
      /\ b = [prevoteThreshold |-> b.prevoteThreshold,
              precommitThreshold |-> b.precommitThreshold,
              certificateThreshold |-> b.certificateThreshold,
              validators |-> b.validators]
  BY DEF BFTParamsOf
<1>5. p.precommitThreshold \in Nat /\ p.certificateThreshold \in Nat
  BY <1>1 DEF IsLabiParams
<1> HIDE DEF W, b
<1>6. /\ (W * 2) \div 3 + 1 \in Nat \ {0}
      /\ W \div 3 + 1 \in Nat \ {0}
  BY <1>3
<1> QED
  BY <1>1, <1>2, <1>4, <1>5, <1>6 DEF IsBFTParams, b

\* What the deletions of BeforeTransactionsExecute leave in the store.
LEMMA ParamsKept ==
    ASSUME VotesInv, NEW r \in Nat, r >= NeededFrom(bftVotes),
           NeededFrom(bftVotes) \in Nat
    PROVE  LET d == DeleteUpTo(bftParams, r)
           IN  /\ IsParamsStore(d)
               /\ \A k \in DOMAIN d : k <= CurrentHeight(bftVotes) + 1
               /\ \A h \in Nat : h >= r =>
                     /\ ExistsAt(bftParams, h)
                     /\ ExistsAt(d, h)
                     /\ At(d, h) = At(bftParams, h)
<1>1. /\ IsStore(bftParams) /\ ParamsInWindow(bftVotes, bftParams)
      /\ IsParamsStore(bftParams)
  BY DEF VotesInv, TypeOK, IsParamsStore
<1>2. IsParamsStore(DeleteUpTo(bftParams, r))
  BY <1>1, StoreDelete DEF IsParamsStore
<1>3. \A k \in DOMAIN DeleteUpTo(bftParams, r) : k <= CurrentHeight(bftVotes) + 1
  BY <1>1, StoreDelete DEF ParamsInWindow
<1>4. ASSUME NEW h \in Nat, h >= r
      PROVE  ExistsAt(bftParams, h)
  <2>1. PICK k \in DOMAIN bftParams : k <= NeededFrom(bftVotes)
    BY <1>1 DEF ParamsInWindow, ExistsAt, KeysUpTo
  <2>2. k \in Nat
    BY <1>1 DEF IsStore
  <2> QED
    BY <1>4, <2>1, <2>2 DEF ExistsAt, KeysUpTo
<1> QED
  BY <1>1, <1>2, <1>3, <1>4, AtDeleteUpTo

\* SetBFTParameters adds parameters for the next height at most.
LEMMA ParamsSet ==
    ASSUME NEW z, IsBFTVotes(z), NEW d, IsParamsStore(d),
           \A k \in DOMAIN d : k <= CurrentHeight(z) + 1,
           NEW p \in NextParams \cup {GenesisParams}, ValidParams(p)
    PROVE  LET e == SetBFTParameters(z, d, p)
           IN  /\ IsParamsStore(e)
               /\ \A k \in DOMAIN e : k <= CurrentHeight(z) + 1
               /\ \A h \in Nat : h <= CurrentHeight(z) /\ ExistsAt(d, h) =>
                     ExistsAt(e, h) /\ At(e, h) = At(d, h)
<1> DEFINE next == CurrentHeight(z) + 1
           b == BFTParamsOf(p)
           e == Put(d, next, b)
<1>1. CurrentHeight(z) \in Nat /\ next \in Nat
  BY VotesTypeFacts
<1>2. CASE SameParams(z, d, p)
  BY <1>2 DEF SetBFTParameters
<1>3. CASE ~ SameParams(z, d, p)
  <2>1. SetBFTParameters(z, d, p) = e
    BY <1>3 DEF SetBFTParameters
  <2>2. IsBFTParams(b)
    BY ParamsType
  <2>3. IsStore(d)
    BY DEF IsParamsStore
  <2> HIDE DEF b, e
  <2>4. /\ IsStore(e) /\ DOMAIN e = DOMAIN d \cup {next}
        /\ \A k \in DOMAIN e : e[k] = IF k = next THEN b ELSE d[k]
    BY <1>1, <2>3 DEF e, Put, IsStore
  <2>5. IsParamsStore(e)
    BY <2>2, <2>4 DEF IsParamsStore
  <2>6. \A k \in DOMAIN e : k <= next
    BY <1>1, <2>4
  <2>7. ASSUME NEW h \in Nat, h <= CurrentHeight(z), ExistsAt(d, h)
        PROVE  ExistsAt(e, h) /\ At(e, h) = At(d, h)
    <3>1. h < next /\ h \in Int
      BY <1>1, <2>7
    <3> HIDE DEF next
    <3> QED
      BY <1>1, <2>3, <2>7, <3>1, AtPut DEF e
  <2> QED
    BY <2>1, <2>5, <2>6, <2>7
<1> QED
  BY <1>2, <1>3

\* SetBFTParameters changes no other field of the struct than the active
\* validators.
LEMMA ActiveSet ==
    ASSUME NEW z, IsBFTVotes(z), NEW d,
           NEW p \in NextParams \cup {GenesisParams}
    PROVE  LET x == SetActiveValidators(z, d, p)
           IN  /\ IsBFTVotes(x)
               /\ x.blockBFTInfos = z.blockBFTInfos
               /\ x.maxHeightPrevoted = z.maxHeightPrevoted
               /\ x.maxHeightPrecommited = z.maxHeightPrecommited
               /\ x.maxHeightCertified = z.maxHeightCertified
<1> DEFINE next == CurrentHeight(z) + 1
           old == z.activeValidatorsVoteInfo
           D == DOMAIN BFTValidatorsOf(p)
           f == [a \in D |->
                   IF a \in DOMAIN old THEN old[a]
                   ELSE [minActiveHeight |-> next,
                         largestHeightPrecommit |-> next - 1]]
           x == SetActiveValidators(z, d, p)
           T == [minActiveHeight : Nat, largestHeightPrecommit : Nat]
<1>1. next \in Nat /\ next - 1 \in Nat
  BY VotesTypeFacts
<1>2. D \subseteq Validators
  BY ParamsAssumption
  DEF IsLabiParams, IsWeights, BFTValidatorsOf, RestrictDomain, Restrict
<1>3. old \in [DOMAIN old -> T]
  BY DEF IsBFTVotes
<1>4. f \in [D -> T]
  <2> HIDE DEF D, next, old
  <2> QED
    BY <1>1, <1>3
<1>5. CASE SameParams(z, d, p)
  BY <1>5 DEF SetActiveValidators
<1>6. CASE ~ SameParams(z, d, p)
  <2>1. x = [z EXCEPT !.activeValidatorsVoteInfo = f]
    BY <1>6 DEF SetActiveValidators
  <2> HIDE DEF f, x, D
  <2>2. /\ x.blockBFTInfos = z.blockBFTInfos
        /\ x.maxHeightPrevoted = z.maxHeightPrevoted
        /\ x.maxHeightPrecommited = z.maxHeightPrecommited
        /\ x.maxHeightCertified = z.maxHeightCertified
        /\ x.activeValidatorsVoteInfo = f
    BY <2>1 DEF IsBFTVotes
  <2>3. DOMAIN f = D
    BY <1>4
  <2>4. IsBFTVotes(x)
    BY ZenonT(40), <1>2, <1>4, <2>1, <2>2, <2>3 DEF IsBFTVotes
  <2> QED
    BY <2>2, <2>4 DEF x
<1> QED
  BY <1>5, <1>6

-----------------------------------------------------------------------------
(* The invariant.                                                          *)

\* What VotesSound says depends on the parameters of the needed heights only.
LEMMA SoundElsewhere ==
    ASSUME NEW z, NEW x, NEW s, NEW e, IsBFTVotes(z), IsBFTVotes(x),
           VotesSound(z, s), Len(z.blockBFTInfos) >= 1,
           x.blockBFTInfos = z.blockBFTInfos,
           x.maxHeightPrevoted = z.maxHeightPrevoted,
           x.maxHeightPrecommited = z.maxHeightPrecommited,
           x.maxHeightCertified = z.maxHeightCertified,
           NeededFrom(z) \in Nat, NeededFrom(z) <= CurrentHeight(z),
           \A h \in Nat : NeededFrom(z) <= h /\ h <= CurrentHeight(z) =>
               ExistsAt(e, h) /\ At(e, h) = At(s, h),
           \A k \in DOMAIN e : k <= CurrentHeight(z) + 1
    PROVE  VotesSound(x, e) /\ ParamsInWindow(x, e) /\ NeededFrom(x) = NeededFrom(z)
           /\ CurrentHeight(x) = CurrentHeight(z)
<1> DEFINE n == Len(z.blockBFTInfos)
           cur == CurrentHeight(z)
<1>1. /\ n \in Nat /\ DOMAIN z.blockBFTInfos = 1 .. n /\ cur \in Nat
      /\ \A i \in 1 .. n : z.blockBFTInfos[i].height \in Nat
      /\ z.maxHeightCertified \in Nat
  BY VotesTypeFacts
<1>2. CurrentHeight(x) = cur /\ NeededFrom(x) = NeededFrom(z)
  BY DEF CurrentHeight, NeededFrom, MinHeightBFTParamsRequired
<1>3. \A i \in 1 .. n : z.blockBFTInfos[i].height = cur - (i - 1)
  BY Zenon, <1>1 DEF VotesSound, WindowContiguous
<1>4. NeededFrom(z) <= z.blockBFTInfos[n].height
  BY <1>1 DEF NeededFrom, MinHeightBFTParamsRequired
<1>5. ASSUME NEW i \in 1 .. n
      PROVE  /\ z.blockBFTInfos[i].height \in Nat
             /\ NeededFrom(z) <= z.blockBFTInfos[i].height
             /\ z.blockBFTInfos[i].height <= cur
  <2>1. /\ n \in 1 .. n
        /\ z.blockBFTInfos[n].height = cur - (n - 1)
        /\ z.blockBFTInfos[i].height = cur - (i - 1)
        /\ z.blockBFTInfos[i].height \in Nat
    <3>1. n \in 1 .. n
      BY <1>1
    <3> HIDE DEF n, cur
    <3> QED
      BY <1>1, <1>3, <3>1
  <2> DEFINE hn == z.blockBFTInfos[n].height
             hi == z.blockBFTInfos[i].height
  <2>2. hn = cur - (n - 1) /\ hi = cur - (i - 1) /\ NeededFrom(z) <= hn
        /\ hi \in Nat /\ n \in Nat /\ i \in 1 .. n /\ cur \in Nat
    BY <1>1, <1>4, <2>1
  <2> HIDE DEF hn, hi, n, cur
  <2>3. NeededFrom(z) <= hi /\ hi <= cur /\ hi \in Nat
    BY <2>2
  <2> QED
    BY <2>3 DEF hi
<1>6. ASSUME NEW i \in 1 .. n
      PROVE  /\ HasPrevoteQuorum(e, z.blockBFTInfos[i]) <=>
                    HasPrevoteQuorum(s, z.blockBFTInfos[i])
             /\ HasPrecommitQuorum(e, z.blockBFTInfos[i]) <=>
                    HasPrecommitQuorum(s, z.blockBFTInfos[i])
  BY ZenonT(40), <1>5 DEF HasPrevoteQuorum, HasPrecommitQuorum
<1>7. Ordered(x)
  BY <1>2 DEF VotesSound, Ordered
<1>8. PrecommitsRest(x, e)
  BY <1>1, <1>6 DEF VotesSound, PrecommitsRest
<1>9. WindowContiguous(x)
  BY <1>1, <1>2 DEF VotesSound, WindowContiguous
<1>10. MaxHeightsJustified(x, e)
  BY ZenonT(40), <1>1, <1>6 DEF VotesSound, MaxHeightsJustified
<1>11. ParamsInWindow(x, e)
  BY <1>2 DEF ParamsInWindow
<1> QED
  BY ZenonT(40), <1>2, <1>7, <1>8, <1>9, <1>10, <1>11 DEF VotesSound

\* The votes recorded for a block are votes of a validator for a height.
LEMMA RecordVotesType ==
    ASSUME TypeOK, NEW header, IsHeader(header), RecordVotes(header)
    PROVE  prevotes' \subseteq Validators \X Nat /\ precommits' \subseteq Validators \X Nat
<1> DEFINE w == InsertBlockBFTInfo(bftVotes, header)
           n == Len(w.blockBFTInfos)
<1>1. /\ IsBFTVotes(w) /\ DOMAIN w.blockBFTInfos = 1 .. n
      /\ \A i \in 1 .. n : w.blockBFTInfos[i].height \in Nat
  BY ZenonT(40), InsertType, VotesTypeFacts DEF TypeOK
<1>2. PrevotePositions(w) \subseteq 1 .. n /\ PrecommitPositions(w) \subseteq 1 .. n
  BY ZenonT(40), <1>1 DEF PrevotePositions, PrecommitPositions, VisitedForPrecommit
<1>3. /\ prevotes' \subseteq prevotes \cup
             {<<header.generatorAddress, w.blockBFTInfos[i].height>> :
                 i \in PrevotePositions(w)}
      /\ precommits' \subseteq precommits \cup
             {<<header.generatorAddress, w.blockBFTInfos[i].height>> :
                 i \in PrecommitPositions(w)}
  BY DEF RecordVotes
<1> HIDE DEF w, n
<1>4. ASSUME NEW S \in SUBSET (1 .. n)
      PROVE  {<<header.generatorAddress, w.blockBFTInfos[i].height>> : i \in S}
                \subseteq Validators \X Nat
  BY <1>1 DEF IsHeader
<1> QED
  BY <1>2, <1>3, <1>4 DEF TypeOK

\* What one block does, with or without new parameters.
BlockStep(z) ==
    /\ bftVotes'.maxHeightPrevoted = z.maxHeightPrevoted
    /\ bftVotes'.maxHeightPrecommited = z.maxHeightPrecommited
    /\ bftVotes'.maxHeightCertified = z.maxHeightCertified
    /\ NeededFrom(bftVotes') = NeededFrom(z)
    /\ Len(bftVotes'.blockBFTInfos) >= 1
    /\ CurrentHeight(bftVotes') = CurrentHeight(z)
    /\ \A h \in Nat : NeededFrom(z) <= h /\ h <= CurrentHeight(z) =>
           ExistsAt(bftParams', h) /\ At(bftParams', h) = At(bftParams, h)

\* A block that leaves the validators as they are.
LEMMA ExecuteBlockSound ==
    ASSUME VotesInv, NEW header, IsHeader(header), ExecuteBlock(header)
    PROVE  VotesInv' /\ BlockStep(ApplyHeader(header))
<1> DEFINE z == ApplyHeader(header)
           r == MinHeightBFTParamsRequired(z)
           d == DeleteUpTo(bftParams, r)
<1>1. /\ Executable(header) /\ RecordVotes(header)
      /\ bftVotes' = z /\ bftParams' = d
      /\ generatorKeys' = DeleteUpTo(generatorKeys, r)
  BY DEF ExecuteBlock
<1>2. /\ IsBFTVotes(z) /\ VotesSound(z, bftParams)
      /\ Len(z.blockBFTInfos) >= 1
      /\ CurrentHeight(z) = CurrentHeight(bftVotes) + 1
      /\ NeededFrom(z) = r /\ r \in Nat /\ NeededFrom(bftVotes) \in Nat
      /\ r >= NeededFrom(bftVotes) /\ r <= CurrentHeight(z)
  BY <1>1, ApplyHeaderSound
<1>3. TypeOK
  BY DEF VotesInv
<1> HIDE DEF z, r, d
<1>4. /\ IsParamsStore(d)
      /\ \A k \in DOMAIN d : k <= CurrentHeight(bftVotes) + 1
      /\ \A h \in Nat : h >= r => ExistsAt(d, h) /\ At(d, h) = At(bftParams, h)
  BY <1>2, ParamsKept DEF d
<1>5. CurrentHeight(bftVotes) \in Nat /\ CurrentHeight(z) \in Nat
  BY <1>2, <1>3, VotesTypeFacts DEF TypeOK
<1>6. /\ \A k \in DOMAIN d : k \in Nat /\ k <= CurrentHeight(z) + 1
      /\ \A h \in Nat : NeededFrom(z) <= h /\ h <= CurrentHeight(z) =>
            ExistsAt(d, h) /\ At(d, h) = At(bftParams, h)
  BY <1>2, <1>4, <1>5 DEF IsParamsStore, IsStore
<1>7. VotesSound(z, d) /\ ParamsInWindow(z, d)
  BY Zenon, <1>2, <1>6, SoundElsewhere
<1>8. TypeOK'
  <2>1. /\ IsStore(generatorKeys')
        /\ \A k \in DOMAIN generatorKeys' : generatorKeys'[k] \subseteq Validators
    BY <1>1, <1>3, StoreDelete DEF TypeOK
  <2>2. prevotes' \subseteq Validators \X Nat /\ precommits' \subseteq Validators \X Nat
    BY <1>1, <1>3, RecordVotesType
  <2> QED
    BY ZenonT(40), <1>1, <1>2, <1>4, <2>1, <2>2 DEF TypeOK, IsParamsStore
<1>9. VotesInv'
  BY ZenonT(40), <1>1, <1>7, <1>8
  DEF VotesInv, VotesSound, Ordered, PrecommitsRest, HeightsOrdered,
      PrecommitsRestOnPrevoteQuorum
<1>10. BlockStep(z)
  BY <1>1, <1>2, <1>6 DEF BlockStep
<1> QED
  BY <1>9, <1>10 DEF z

\* A block after which the application sets the validators.
LEMMA ExecuteBlockAndSetParamsSound ==
    ASSUME VotesInv, NEW header, IsHeader(header), NEW p \in NextParams,
           ExecuteBlockAndSetParams(header, p)
    PROVE  VotesInv' /\ BlockStep(ApplyHeader(header))
<1> DEFINE z == ApplyHeader(header)
           r == MinHeightBFTParamsRequired(z)
           d == DeleteUpTo(bftParams, r)
           g == DeleteUpTo(generatorKeys, r)
           x == SetActiveValidators(z, d, p)
           e == SetBFTParameters(z, d, p)
<1>1. /\ Executable(header) /\ RecordVotes(header) /\ ValidParams(p)
      /\ bftVotes' = x /\ bftParams' = e
      /\ generatorKeys' = SetGeneratorKeys(z, g, p)
  BY DEF ExecuteBlockAndSetParams
<1>2. /\ IsBFTVotes(z) /\ VotesSound(z, bftParams)
      /\ Len(z.blockBFTInfos) >= 1
      /\ CurrentHeight(z) = CurrentHeight(bftVotes) + 1
      /\ NeededFrom(z) = r /\ r \in Nat /\ NeededFrom(bftVotes) \in Nat
      /\ r >= NeededFrom(bftVotes) /\ r <= CurrentHeight(z)
  BY <1>1, ApplyHeaderSound
<1>3. TypeOK
  BY DEF VotesInv
<1> HIDE DEF z, r, d, g, x, e
<1>4. /\ IsParamsStore(d)
      /\ \A k \in DOMAIN d : k <= CurrentHeight(bftVotes) + 1
      /\ \A h \in Nat : h >= r => ExistsAt(d, h) /\ At(d, h) = At(bftParams, h)
  BY <1>2, ParamsKept DEF d
<1>5. CurrentHeight(bftVotes) \in Nat /\ CurrentHeight(z) \in Nat
  BY <1>2, <1>3, VotesTypeFacts DEF TypeOK
<1>6. \A k \in DOMAIN d : k <= CurrentHeight(z) + 1
  BY <1>2, <1>4, <1>5 DEF IsParamsStore, IsStore
<1>7. /\ IsParamsStore(e)
      /\ \A k \in DOMAIN e : k <= CurrentHeight(z) + 1
      /\ \A h \in Nat : h <= CurrentHeight(z) /\ ExistsAt(d, h) =>
            ExistsAt(e, h) /\ At(e, h) = At(d, h)
  BY <1>1, <1>2, <1>4, <1>6, ParamsSet DEF e
<1>8. \A h \in Nat : NeededFrom(z) <= h /\ h <= CurrentHeight(z) =>
         ExistsAt(e, h) /\ At(e, h) = At(bftParams, h)
  BY <1>2, <1>4, <1>7
<1>9. /\ IsBFTVotes(x)
      /\ x.blockBFTInfos = z.blockBFTInfos
      /\ x.maxHeightPrevoted = z.maxHeightPrevoted
      /\ x.maxHeightPrecommited = z.maxHeightPrecommited
      /\ x.maxHeightCertified = z.maxHeightCertified
  BY <1>2, ActiveSet DEF x
<1>10. /\ VotesSound(x, e) /\ ParamsInWindow(x, e)
       /\ NeededFrom(x) = NeededFrom(z) /\ CurrentHeight(x) = CurrentHeight(z)
  BY ZenonT(40), <1>2, <1>7, <1>8, <1>9, SoundElsewhere
<1>11. TypeOK'
  <2>1. IsStore(g) /\ \A k \in DOMAIN g : g[k] \subseteq Validators
    BY <1>3, StoreDelete DEF TypeOK, g
  <2>2. DOMAIN p.weights \subseteq Validators
    BY ParamsAssumption DEF IsLabiParams, IsWeights
  <2> DEFINE next == CurrentHeight(z) + 1
             G == DOMAIN p.weights
  <2>3. generatorKeys' = Put(g, next, G) /\ next \in Nat
    BY <1>1, <1>5 DEF SetGeneratorKeys
  <2>4. /\ IsStore(generatorKeys')
        /\ \A k \in DOMAIN generatorKeys' : generatorKeys'[k] \subseteq Validators
    <3> HIDE DEF next, G
    <3> QED
      BY <2>1, <2>2, <2>3 DEF Put, IsStore, G
  <2>5. prevotes' \subseteq Validators \X Nat /\ precommits' \subseteq Validators \X Nat
    BY <1>1, <1>3, RecordVotesType
  <2> QED
    BY ZenonT(40), <1>1, <1>7, <1>9, <2>4, <2>5 DEF TypeOK, IsParamsStore
<1>12. VotesInv'
  BY ZenonT(40), <1>1, <1>10, <1>11
  DEF VotesInv, VotesSound, Ordered, PrecommitsRest, HeightsOrdered,
      PrecommitsRestOnPrevoteQuorum
<1>13. BlockStep(z)
  BY ZenonT(40), <1>1, <1>2, <1>8, <1>9, <1>10 DEF BlockStep
<1> QED
  BY <1>12, <1>13 DEF z

\* The headers offered to verifyBlock are headers of the model.
LEMMA HeadersOnTop ==
    ASSUME VotesInv, NEW generator \in Validators,
           NEW maxHeightGenerated \in ClaimedHeights, NEW commit \in AggregateCommits
    PROVE  IsHeader(HeaderOnTop(generator, maxHeightGenerated, commit))
<1>1. /\ CurrentHeight(bftVotes) \in Nat /\ bftVotes.maxHeightPrevoted \in Nat
      /\ bftVotes.maxHeightCertified \in Nat
  BY VotesTypeFacts DEF VotesInv, TypeOK
<1>2. maxHeightGenerated \in Nat
  BY <1>1, HeightsAssumption DEF ClaimedHeights
<1>3. commit.height \in Nat
  <2>1. CASE commit \in [empty : {TRUE}, height : {bftVotes.maxHeightCertified}]
    BY <1>1, <2>1
  <2>2. CASE commit \in [empty : {FALSE}, height : 0 .. CurrentHeight(bftVotes)]
    BY <1>1, <2>2
  <2> QED
    BY Zenon, <2>1, <2>2 DEF AggregateCommits
<1> QED
  BY <1>1, <1>2, <1>3 DEF IsHeader, HeaderOnTop

\* Every step executes a block.
LEMMA StepsAreBlocks ==
    ASSUME VotesInv, Next
    PROVE  \E header : /\ IsHeader(header) /\ Executable(header)
                       /\ VotesInv' /\ BlockStep(ApplyHeader(header))
<1>1. PICK generator \in Validators, maxHeightGenerated \in ClaimedHeights,
           commit \in AggregateCommits :
         LET header == HeaderOnTop(generator, maxHeightGenerated, commit)
         IN  \/ ExecuteBlock(header)
             \/ \E p \in NextParams : ExecuteBlockAndSetParams(header, p)
  BY DEF Next
<1> DEFINE header == HeaderOnTop(generator, maxHeightGenerated, commit)
<1>2. IsHeader(header)
  BY HeadersOnTop
<1> HIDE DEF header
<1>3. CASE ExecuteBlock(header)
  BY <1>2, <1>3, ExecuteBlockSound DEF ExecuteBlock
<1>4. CASE \E p \in NextParams : ExecuteBlockAndSetParams(header, p)
  BY <1>2, <1>4, ExecuteBlockAndSetParamsSound DEF ExecuteBlockAndSetParams
<1> QED
  BY <1>1, <1>3, <1>4 DEF header

\* After the genesis block.
LEMMA InitVotesInv == Init => VotesInv
<1> SUFFICES ASSUME Init PROVE VotesInv
  OBVIOUS
<1> DEFINE genesis == [maxHeightPrevoted        |-> GenesisHeight,
                       maxHeightPrecommited     |-> GenesisHeight,
                       maxHeightCertified       |-> GenesisHeight,
                       blockBFTInfos            |-> << >>,
                       activeValidatorsVoteInfo |-> << >>]
           p == GenesisParams
           next == GenesisHeight + 1
<1>1. /\ bftVotes = SetActiveValidators(genesis, << >>, p)
      /\ bftParams = SetBFTParameters(genesis, << >>, p)
      /\ generatorKeys = SetGeneratorKeys(genesis, << >>, p)
      /\ prevotes = {} /\ precommits = {}
  BY DEF Init
<1>2. IsBFTVotes(genesis)
  <2>1. << >> \in Seq(BFTBlockHeaders) /\ Len(<< >>) = 0 /\ DOMAIN << >> = {}
    OBVIOUS
  <2>2. << >> \in [DOMAIN << >> -> [minActiveHeight : Nat, largestHeightPrecommit : Nat]]
    BY <2>1
  <2>3. 0 <= maxLengthBlock
    BY HeightsAssumption DEF maxLengthBlock
  <2> QED
    BY <2>1, <2>2, <2>3, HeightsAssumption DEF IsBFTVotes
<1>3. CurrentHeight(genesis) = GenesisHeight
  BY DEF CurrentHeight
<1>4. /\ IsBFTVotes(bftVotes)
      /\ bftVotes.blockBFTInfos = << >>
      /\ bftVotes.maxHeightPrevoted = GenesisHeight
      /\ bftVotes.maxHeightPrecommited = GenesisHeight
      /\ bftVotes.maxHeightCertified = GenesisHeight
  <2> HIDE DEF genesis
  <2>1. /\ genesis.blockBFTInfos = << >>
        /\ genesis.maxHeightPrevoted = GenesisHeight
        /\ genesis.maxHeightPrecommited = GenesisHeight
        /\ genesis.maxHeightCertified = GenesisHeight
    BY DEF genesis
  <2> QED
    BY <1>1, <1>2, <2>1, ActiveSet
<1>5. CurrentHeight(bftVotes) = GenesisHeight /\ NeededFrom(bftVotes) = next
  BY <1>4 DEF CurrentHeight, NeededFrom
<1>6. /\ DOMAIN bftParams = {next} /\ IsStore(bftParams)
      /\ bftParams[next] = BFTParamsOf(p)
  <2>1. ~ SameParams(genesis, << >>, p)
    BY DEF SameParams, ExistsAt, KeysUpTo
  <2>2. bftParams = Put(<< >>, next, BFTParamsOf(p))
    BY <1>1, <1>3, <2>1 DEF SetBFTParameters
  <2> QED
    BY <2>2, HeightsAssumption DEF Put, IsStore
<1>7. IsBFTParams(BFTParamsOf(p))
  BY ParamsType, ParamsAssumption
<1>8. TypeOK
  <2>1. generatorKeys = Put(<< >>, next, DOMAIN p.weights)
    BY <1>1, <1>3 DEF SetGeneratorKeys
  <2>2. DOMAIN p.weights \subseteq Validators
    BY ParamsAssumption DEF IsLabiParams, IsWeights
  <2>3. /\ IsStore(generatorKeys)
        /\ \A k \in DOMAIN generatorKeys : generatorKeys[k] \subseteq Validators
    BY <2>1, <2>2, HeightsAssumption DEF Put, IsStore
  <2> QED
    BY ZenonT(40), <1>1, <1>4, <1>6, <1>7, <2>3 DEF TypeOK
<1>9. VotesSound(bftVotes, bftParams)
  <2>1. DOMAIN bftVotes.blockBFTInfos = {}
    BY <1>4
  <2> QED
    BY <1>4, <1>5, <2>1, HeightsAssumption
    DEF VotesSound, Ordered, PrecommitsRest, WindowContiguous, MaxHeightsJustified
<1>10. ParamsInWindow(bftVotes, bftParams)
  BY <1>5, <1>6, HeightsAssumption DEF ParamsInWindow, ExistsAt, KeysUpTo
<1> QED
  BY <1>8, <1>9, <1>10, VotesInvParts

\* No step breaks the inductive invariant.
LEMMA NextVotesInv == VotesInv /\ [Next]_vars => VotesInv'
<1> SUFFICES ASSUME VotesInv, [Next]_vars PROVE VotesInv'
  OBVIOUS
<1>1. CASE Next
  BY <1>1, StepsAreBlocks
<1>2. CASE UNCHANGED vars
  BY Zenon, <1>2
  DEF vars, VotesInv, TypeOK, HeightsOrdered, PrecommitsRestOnPrevoteQuorum,
      WindowContiguous, MaxHeightsJustified, ParamsInWindow, HasPrevoteQuorum,
      HasPrecommitQuorum
<1> QED
  BY <1>1, <1>2

-----------------------------------------------------------------------------
(* Theorems.                                                               *)

\* The inductive invariant of the votes (BeforeTransactionsExecute,
\* SetBFTParameters, SetGeneratorKeys) holds after every sequence of blocks.
THEOREM VotesInvariant == Spec => []VotesInv
<1>1. Init => VotesInv
  BY InitVotesInv
<1>2. VotesInv /\ [Next]_vars => VotesInv'
  BY NextVotesInv
<1> QED
  BY <1>1, <1>2, PTL DEF Spec

\* The structs and stores of liskbft keep their types.
THEOREM VotesTypeCorrect == Spec => []TypeOK
<1>1. VotesInv => TypeOK
  BY DEF VotesInv
<1> QED
  BY <1>1, VotesInvariant, PTL

\* maxHeightCertified <= maxHeightPrecommited <= maxHeightPrevoted <= height of
\* the chain, whatever headers verifyBlock accepts.
THEOREM VotesHeightsOrdered == Spec => []HeightsOrdered
<1>1. VotesInv => HeightsOrdered
  BY DEF VotesInv
<1> QED
  BY <1>1, VotesInvariant, PTL

\* No block gets a precommit without a quorum of prevotes.
THEOREM VotesPrecommitsRest == Spec => []PrecommitsRestOnPrevoteQuorum
<1>1. VotesInv => PrecommitsRestOnPrevoteQuorum
  BY DEF VotesInv
<1> QED
  BY <1>1, VotesInvariant, PTL

\* Finality never goes back: no executed block lowers one of the three heights.
THEOREM VotesHeightsNeverDecrease == Spec => HeightsNeverDecrease
<1> DEFINE A == /\ bftVotes'.maxHeightPrevoted >= bftVotes.maxHeightPrevoted
                /\ bftVotes'.maxHeightPrecommited >= bftVotes.maxHeightPrecommited
                /\ bftVotes'.maxHeightCertified >= bftVotes.maxHeightCertified
<1>1. VotesInv /\ [Next]_vars => [A]_vars
  <2> SUFFICES ASSUME VotesInv, Next PROVE A
    BY DEF vars
  <2>1. PICK header : /\ IsHeader(header) /\ Executable(header)
                      /\ BlockStep(ApplyHeader(header))
    BY StepsAreBlocks
  <2> QED
    BY <2>1, ApplyHeaderSound DEF BlockStep
<1> QED
  BY <1>1, VotesInvariant, PTL DEF Spec, HeightsNeverDecrease

\* The parameters of a height that is still needed never change.
THEOREM VotesRequiredParamsStable == Spec => RequiredParamsStable
<1> DEFINE A == \A h \in MinHeightBFTParamsRequired(bftVotes') ..
                          CurrentHeight(bftVotes') :
                    /\ ExistsAt(bftParams', h)
                    /\ At(bftParams', h) = At(bftParams, h)
<1>1. VotesInv /\ [Next]_vars => [A]_vars
  <2> SUFFICES ASSUME VotesInv, Next PROVE A
    BY DEF vars
  <2>1. PICK header : /\ IsHeader(header) /\ Executable(header)
                      /\ BlockStep(ApplyHeader(header))
    BY StepsAreBlocks
  <2> DEFINE z == ApplyHeader(header)
  <2>2. /\ NeededFrom(z) \in Nat /\ IsBFTVotes(z)
        /\ NeededFrom(z) = MinHeightBFTParamsRequired(z)
    BY <2>1, ApplyHeaderSound
  <2>3. CurrentHeight(z) \in Nat
    BY <2>2, VotesTypeFacts
  <2>4. VotesInv'
    BY NextVotesInv
  <2>5. Len(bftVotes'.blockBFTInfos) >= 1 /\ Len(bftVotes'.blockBFTInfos) \in Nat
    BY <2>1, <2>4 DEF BlockStep, VotesInv, TypeOK, IsBFTVotes
  <2>6. MinHeightBFTParamsRequired(bftVotes') = NeededFrom(bftVotes')
    BY <2>5 DEF NeededFrom
  <2> HIDE DEF z
  <2> QED
    BY <2>1, <2>2, <2>3, <2>6 DEF BlockStep, z
<1> QED
  BY <1>1, VotesInvariant, PTL DEF Spec, RequiredParamsStable
=============================================================================
