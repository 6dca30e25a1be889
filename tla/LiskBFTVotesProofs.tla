------------------------- MODULE LiskBFTVotesProofs -------------------------
(***************************************************************************)
(* Proofs about LiskBFT: whose votes are counted.  The weights of a block  *)
(* are those of distinct voters, a validator precommits only what it has   *)
(* prevoted, and the votes of an accepted header never raise an error.     *)
(***************************************************************************)
EXTENDS LiskBFTProofs

-----------------------------------------------------------------------------
(* The window.                                                             *)

\* Comparisons of heights.
LEMMA OrderFacts ==
    ASSUME NEW x \in Nat, NEW y \in Nat
    PROVE  /\ x > y => y <= x
           /\ x <= y => ~ (x >= y + 1) /\ x <= y + 1
           /\ (y + 1) - 1 = y
           /\ ~ (x >= y) => x < y
OBVIOUS

\* The fields of a block of the window that the votes depend on.
LEMMA InfoTypes ==
    ASSUME NEW v, IsBFTVotes(v), NEW i \in 1 .. Len(v.blockBFTInfos)
    PROVE  /\ v.blockBFTInfos[i].generatorAddress \in Validators
           /\ v.blockBFTInfos[i].height \in Nat
           /\ v.blockBFTInfos[i].maxHeightGenerated \in Nat
           /\ v.blockBFTInfos[i].maxHeightPrevoted \in Nat
           /\ v.blockBFTInfos[i].prevoteWeight \in Nat
           /\ v.blockBFTInfos[i].precommitWeight \in Nat
<1>1. v.blockBFTInfos[i] \in BFTBlockHeaders
  BY VotesTypeFacts
<1> QED
  BY <1>1 DEF BFTBlockHeaders

\* The vote info of an active validator.
LEMMA ActiveTypes ==
    ASSUME NEW v, IsBFTVotes(v), NEW a \in DOMAIN v.activeValidatorsVoteInfo
    PROVE  /\ a \in Validators
           /\ v.activeValidatorsVoteInfo[a].minActiveHeight \in Nat
           /\ v.activeValidatorsVoteInfo[a].largestHeightPrecommit \in Nat
<1> DEFINE active == v.activeValidatorsVoteInfo
<1>1. /\ active \in [DOMAIN active ->
            [minActiveHeight : Nat, largestHeightPrecommit : Nat]]
      /\ DOMAIN active \subseteq Validators
  BY DEF IsBFTVotes
<1>2. active[a] \in [minActiveHeight : Nat, largestHeightPrecommit : Nat]
  BY <1>1
<1> QED
  BY <1>1, <1>2

\* insertBlockBFTInfo copies what the header claims.
LEMMA InsertClaims ==
    ASSUME NEW v, IsBFTVotes(v), NEW header, IsHeader(header)
    PROVE  LET newest == InsertBlockBFTInfo(v, header).blockBFTInfos[1]
           IN  /\ newest.maxHeightGenerated = header.maxHeightGenerated
               /\ newest.maxHeightPrevoted = header.maxHeightPrevoted
<1> DEFINE infos == v.blockBFTInfos
           w == InsertBlockBFTInfo(v, header)
           size == IF Len(infos) + 1 <= maxLengthBlock
                   THEN Len(infos) + 1 ELSE maxLengthBlock
           new == [generatorAddress   |-> header.generatorAddress,
                   height             |-> header.height,
                   maxHeightGenerated |-> header.maxHeightGenerated,
                   maxHeightPrevoted  |-> header.maxHeightPrevoted,
                   prevoteWeight      |-> 0,
                   precommitWeight    |-> 0]
           f == [i \in 1 .. size |-> IF i = 1 THEN new ELSE infos[i - 1]]
<1>1. Len(infos) \in Nat /\ maxLengthBlock \in Nat /\ maxLengthBlock >= 1
  BY VotesTypeFacts, HeightsAssumption DEF maxLengthBlock
<1>2. 1 \in 1 .. size
  BY <1>1
<1>3. w = [v EXCEPT !.blockBFTInfos = f]
  BY DEF InsertBlockBFTInfo
<1> HIDE DEF size, w
<1>4. f[1] = new
  BY <1>2
<1> HIDE DEF f
<1>5. w.blockBFTInfos = f
  BY <1>3 DEF IsBFTVotes
<1> QED
  BY <1>4, <1>5 DEF w

\* Positions and heights of a contiguous window.
LEMMA WindowHeights ==
    ASSUME NEW v, IsBFTVotes(v), WindowContiguous(v), Len(v.blockBFTInfos) >= 1,
           NEW i \in 1 .. Len(v.blockBFTInfos)
    PROVE  /\ v.blockBFTInfos[i].height = v.blockBFTInfos[1].height - (i - 1)
           /\ v.blockBFTInfos[i].height \in Nat
           /\ CurrentHeight(v) = v.blockBFTInfos[1].height
BY VotesTypeFacts DEF WindowContiguous, CurrentHeight

-----------------------------------------------------------------------------
(* getHeightNotPrevoted.                                                   *)

\* One round of the loop, which goes on with f.
FollowStep(infos, f, h) ==
    IF infos[1].height - h >= Len(infos)
    THEN infos[Len(infos)].height - 1
    ELSE LET own == infos[infos[1].height - h + 1]
         IN  IF \/ own.generatorAddress # infos[1].generatorAddress
                \/ own.maxHeightGenerated >= h
             THEN h
             ELSE f[own.maxHeightGenerated]

IsFollow(f, infos, n) == f = [h \in 0 .. n |-> FollowStep(infos, f, h)]

\* The function that GetHeightNotPrevoted defines.
LEMMA FollowIsRecursion ==
    ASSUME NEW v
    PROVE  LET infos == v.blockBFTInfos
               f == CHOOSE f : IsFollow(f, infos, infos[1].height)
           IN  GetHeightNotPrevoted(v) = f[infos[1].maxHeightGenerated]
BY DEF GetHeightNotPrevoted, IsFollow, FollowStep

\* The loop only goes down.
LEMMA FollowGoesDown ==
    ASSUME NEW v, IsBFTVotes(v), WindowContiguous(v), Len(v.blockBFTInfos) >= 1,
           NEW h \in 0 .. v.blockBFTInfos[1].height, NEW f, NEW g,
           \A k \in 0 .. h - 1 : f[k] = g[k]
    PROVE  FollowStep(v.blockBFTInfos, f, h) = FollowStep(v.blockBFTInfos, g, h)
<1> DEFINE infos == v.blockBFTInfos
           top == infos[1].height
           k == top - h + 1
<1>1. top \in Nat /\ Len(infos) \in Nat
  BY VotesTypeFacts, InfoTypes
<1>2. CASE top - h >= Len(infos)
  BY ZenonT(40), <1>2 DEF FollowStep
<1>3. CASE ~ (top - h >= Len(infos))
  <2>1. k \in 1 .. Len(infos)
    BY <1>1, <1>3
  <2>2. infos[k].maxHeightGenerated \in Nat
    BY ZenonT(40), <2>1, InfoTypes
  <2> DEFINE m == infos[k].maxHeightGenerated
  <2>3. ~ (m >= h) => f[m] = g[m]
    <3> HIDE DEF m
    <3>1. m \in Nat
      BY ZenonT(40), <2>2 DEF m
    <3> QED
      BY <3>1
  <2> QED
    BY ZenonT(40), <1>3, <2>3 DEF FollowStep
<1> QED
  BY <1>2, <1>3

\* The recursion is well defined.
LEMMA FollowExists ==
    ASSUME NEW v, IsBFTVotes(v), WindowContiguous(v), Len(v.blockBFTInfos) >= 1
    PROVE  LET infos == v.blockBFTInfos
           IN  IsFollow(CHOOSE f : IsFollow(f, infos, infos[1].height),
                        infos, infos[1].height)
<1> DEFINE infos == v.blockBFTInfos
           top == infos[1].height
           B == {n \in 0 .. top : ~ \E f : IsFollow(f, infos, n)}
<1>0. top \in Nat
  BY VotesTypeFacts, InfoTypes
<1>1. SUFFICES ASSUME B # {} PROVE FALSE
  BY <1>0
<1>2. PICK n \in B : \A m \in B : n <= m
  <2>1. B \subseteq Nat
    BY <1>0
  <2> HIDE DEF B
  <2> QED
    BY Zenon, <1>1, <2>1, MinOfNaturals
<1>3. n \in 0 .. top /\ ~ \E f : IsFollow(f, infos, n)
  BY <1>2
<1>4. \E g : \A h \in 0 .. n - 1 : g[h] = FollowStep(infos, g, h)
  <2>1. CASE n = 0
    BY <2>1
  <2>2. CASE n # 0
    <3>1. n - 1 \in 0 .. top /\ ~ (n <= n - 1)
      BY <1>0, <1>3, <2>2
    <3>2. \E g : IsFollow(g, infos, n - 1)
      BY <1>2, <3>1
    <3> QED
      BY <3>2 DEF IsFollow
  <2> QED
    BY <2>1, <2>2
<1>5. PICK g : \A h \in 0 .. n - 1 : g[h] = FollowStep(infos, g, h)
  BY <1>4
<1> DEFINE f == [h \in 0 .. n |-> FollowStep(infos, g, h)]
<1>6. \A h \in 0 .. n - 1 : f[h] = g[h]
  BY <1>0, <1>3, <1>5
<1>7. ASSUME NEW h \in 0 .. n
      PROVE  FollowStep(infos, g, h) = FollowStep(infos, f, h)
  <2> HIDE DEF f
  <2>1. h \in 0 .. top
    BY <1>0, <1>3
  <2>2. \A k \in 0 .. h - 1 : f[k] = g[k]
    <3> HIDE DEF top, B
    <3> QED
      BY <1>0, <1>3, <1>6
  <2> QED
    BY <2>1, <2>2, FollowGoesDown
<1>8. IsFollow(f, infos, n)
  BY <1>7 DEF IsFollow
<1> QED
  BY <1>3, <1>8

\* Every block of the generator in the window, but the newest, has left a
\* prevote for the heights above the height it continues from.
OwnBlocksPrevoted(v, votes) ==
    LET infos == v.blockBFTInfos
        gen == infos[1].generatorAddress
    IN  \A i, j \in 2 .. Len(infos) :
            /\ i <= j
            /\ infos[i].generatorAddress = gen
            /\ infos[j].height > infos[i].maxHeightGenerated
            /\ infos[j].height >= v.activeValidatorsVoteInfo[gen].minActiveHeight
            => <<gen, infos[j].height>> \in votes

\* Above getHeightNotPrevoted the generator has prevoted every height up to
\* the one its newest block continues from.
LEMMA FollowPrevoted ==
    ASSUME NEW v, IsBFTVotes(v), WindowContiguous(v), Len(v.blockBFTInfos) >= 1,
           v.blockBFTInfos[1].maxHeightGenerated < v.blockBFTInfos[1].height,
           NEW votes, OwnBlocksPrevoted(v, votes),
           NEW j \in 1 .. Len(v.blockBFTInfos),
           v.blockBFTInfos[j].height >= GetHeightNotPrevoted(v) + 1,
           v.blockBFTInfos[j].height <= v.blockBFTInfos[1].maxHeightGenerated,
           LET gen == v.blockBFTInfos[1].generatorAddress
           IN  v.blockBFTInfos[j].height >=
                   v.activeValidatorsVoteInfo[gen].minActiveHeight
    PROVE  <<v.blockBFTInfos[1].generatorAddress, v.blockBFTInfos[j].height>>
               \in votes
<1> DEFINE infos == v.blockBFTInfos
           gen == infos[1].generatorAddress
           top == infos[1].height
           len == Len(infos)
           f == CHOOSE f : IsFollow(f, infos, top)
           hj == infos[j].height
           B == {h \in 0 .. top - 1 : hj >= f[h] + 1 /\ hj <= h}
<1>1. /\ len \in Nat /\ top \in Nat /\ infos[1].maxHeightGenerated \in Nat
      /\ hj \in Nat /\ hj = top - (j - 1)
  <2>1. len \in Nat /\ 1 \in 1 .. len
    BY VotesTypeFacts
  <2> QED
    BY ZenonT(40), <2>1, InfoTypes, WindowHeights
<1>2. IsFollow(f, infos, top)
  BY ZenonT(40), FollowExists
<1>3. GetHeightNotPrevoted(v) = f[infos[1].maxHeightGenerated]
  BY Zenon, FollowIsRecursion
<1> HIDE DEF f
<1>4. SUFFICES ASSUME <<gen, hj>> \notin votes PROVE FALSE
  OBVIOUS
<1>5. B # {}
  <2>1. infos[1].maxHeightGenerated \in 0 .. top - 1
    BY <1>1
  <2> QED
    BY ZenonT(40), <1>3, <2>1
<1>6. PICK h \in B : \A k \in B : h <= k
  <2>1. B \subseteq Nat
    BY <1>1
  <2> HIDE DEF B
  <2> QED
    BY Zenon, <1>5, <2>1, MinOfNaturals
<1>7. h \in 0 .. top - 1 /\ hj >= f[h] + 1 /\ hj <= h
  BY ZenonT(40), <1>6
<1> DEFINE k == top - h + 1
<1>8. f[h] = FollowStep(infos, f, h)
  <2>1. h \in 0 .. top
    BY <1>1, <1>7
  <2> HIDE DEF top, infos
  <2> QED
    BY Zenon, <1>2, <2>1 DEF IsFollow
<1>9. top - h < len
  <2> HIDE DEF top, hj, B
  <2>1. SUFFICES ASSUME top - h >= len PROVE FALSE
    BY <1>1, <1>7
  <2> QED
    BY <1>1, <1>7, <2>1
<1>10. k \in 2 .. len /\ k <= j
  <2>1. h \in Nat /\ h <= top - 1 /\ hj <= h /\ j \in Nat
    BY <1>1, <1>7
  <2> HIDE DEF top, hj, len, B
  <2> QED
    BY <1>1, <1>9, <2>1
<1>11. /\ infos[k].maxHeightGenerated \in Nat
       /\ infos[k].height = h
  <2>1. k \in 1 .. len
    BY <1>10
  <2>2. infos[k].height = top - (k - 1) /\ infos[k].maxHeightGenerated \in Nat
    BY Zenon, <2>1, InfoTypes, WindowHeights
  <2> DEFINE hk == infos[k].height
  <2> HIDE DEF hk, top
  <2> QED
    BY <1>1, <1>7, <2>2 DEF hk
<1> DEFINE m == infos[k].maxHeightGenerated
<1>12. infos[k].generatorAddress = gen /\ m < h /\ f[h] = f[m]
  <2>1. f[h] # h
    BY <1>1, <1>7
  <2>2. f[h] = IF \/ infos[k].generatorAddress # gen \/ m >= h
               THEN h ELSE f[m]
    <3>1. ~ (top - h >= len)
      BY <1>1, <1>7, <1>9
    <3> QED
      BY <1>8, <3>1, Zenon DEF FollowStep
  <2> HIDE DEF m, k
  <2>3. m \in Nat
    BY ZenonT(40), <1>11 DEF m, k
  <2>4. h \in Nat
    BY <1>1, <1>7
  <2> QED
    BY ZenonT(40), <2>1, <2>2, <2>3, <2>4, OrderFacts DEF k
<1>13. ~ (hj > m)
  <2>1. j \in 2 .. len
    BY <1>1, <1>10
  <2> QED
    BY ZenonT(40), <1>4, <1>10, <1>12, <2>1 DEF OwnBlocksPrevoted
<1>14. m \in B /\ ~ (h <= m)
  <2>1. m \in Nat
    BY ZenonT(40), <1>11
  <2> HIDE DEF m, hj, top
  <2> QED
    BY <1>1, <1>7, <1>12, <1>13, <2>1
<1> QED
  BY ZenonT(40), <1>6, <1>14

-----------------------------------------------------------------------------
(* Contradicting headers.                                                  *)

\* A header above another one of its generator, with at least its
\* maxHeightPrevoted, that does not contradict it continues from it or later.
LEMMA ContinuesHeader ==
    ASSUME NEW b, NEW c,
           b.height \in Nat, b.maxHeightGenerated \in Nat, b.maxHeightPrevoted \in Nat,
           c.height \in Nat, c.maxHeightGenerated \in Nat, c.maxHeightPrevoted \in Nat,
           b.generatorAddress = c.generatorAddress, b.height < c.height,
           b.maxHeightPrevoted <= c.maxHeightPrevoted,
           ~ AreDistinctHeadersContradicting(b, c)
    PROVE  b.height <= c.maxHeightGenerated
BY DEF AreDistinctHeadersContradicting, OrderedBefore

\* A header that does not contradict the newest header of its generator
\* continues from this header or from a later height: comparing with the
\* newest one is enough, since maxHeightPrevoted never decreases.
LEMMA ContinuesOwnBlocks ==
    ASSUME NEW v, IsBFTVotes(v), WindowContiguous(v),
           NEW header, IsHeader(header), ~ Contradicting(v, header),
           header.height = CurrentHeight(v) + 1,
           \A k \in DOMAIN v.blockBFTInfos :
              v.blockBFTInfos[k].maxHeightPrevoted <= header.maxHeightPrevoted,
           NEW i \in 1 .. Len(v.blockBFTInfos),
           v.blockBFTInfos[i].generatorAddress = header.generatorAddress
    PROVE  v.blockBFTInfos[i].height <= header.maxHeightGenerated
<1> DEFINE infos == v.blockBFTInfos
           Q == {k \in 1 .. Len(infos) :
                    infos[k].generatorAddress = header.generatorAddress}
           m == Min(Q)
           b == infos[m]
<1>1. Len(infos) \in Nat /\ DOMAIN infos = 1 .. Len(infos) /\ CurrentHeight(v) \in Nat
  BY VotesTypeFacts
<1>2. m \in Q /\ \A k \in Q : m <= k
  <2>1. Q \subseteq Nat /\ Q # {}
    BY <1>1
  <2> HIDE DEF Q
  <2> QED
    BY Zenon, <2>1, MinOfNaturals
<1>3. m \in 1 .. Len(infos) /\ b.generatorAddress = header.generatorAddress /\ m <= i
  BY ZenonT(40), <1>2
<1>4. \A k \in 1 .. m - 1 : infos[k].generatorAddress # header.generatorAddress
  <2>1. ASSUME NEW k \in 1 .. m - 1,
               infos[k].generatorAddress = header.generatorAddress
        PROVE  FALSE
    <3>1. k \in 1 .. Len(infos) /\ ~ (m <= k)
      BY <1>1, <1>3
    <3> QED
      BY ZenonT(40), <1>2, <2>1, <3>1
  <2> QED
    BY <2>1
<1> HIDE DEF m
<1>5. ~ AreDistinctHeadersContradicting(b, header)
  BY ZenonT(40), <1>1, <1>3, <1>4 DEF Contradicting
<1>6. /\ b.height \in Nat /\ b.maxHeightGenerated \in Nat
      /\ b.maxHeightPrevoted \in Nat
      /\ infos[i].height \in Nat
      /\ header.maxHeightGenerated \in Nat /\ header.maxHeightPrevoted \in Nat
      /\ header.height \in Nat
  BY ZenonT(40), <1>3, InfoTypes DEF IsHeader
<1>7. b.height = CurrentHeight(v) - (m - 1) /\ infos[i].height = CurrentHeight(v) - (i - 1)
  BY ZenonT(40), <1>1, <1>3 DEF WindowContiguous
<1>8. b.height < header.height /\ infos[i].height <= b.height
  <2> DEFINE x == b.height
             y == infos[i].height
             c == CurrentHeight(v)
  <2>1. /\ x = c - (m - 1) /\ y = c - (i - 1) /\ header.height = c + 1
        /\ c \in Nat /\ m \in Nat /\ i \in Nat /\ m >= 1 /\ m <= i
    BY <1>1, <1>3, <1>7
  <2> HIDE DEF x, y, c
  <2>2. x < c + 1 /\ y <= x
    BY <2>1
  <2> QED
    BY <2>1, <2>2 DEF x, y
<1>9. b.maxHeightPrevoted <= header.maxHeightPrevoted
  BY <1>1, <1>3
<1> HIDE DEF b
<1>10. b.height <= header.maxHeightGenerated
  BY ZenonT(40), <1>3, <1>5, <1>6, <1>8, <1>9, ContinuesHeader
<1> QED
  BY <1>6, <1>8, <1>10

-----------------------------------------------------------------------------
(* Which votes a block adds.                                               *)

\* The positions of the window that the newest block prevotes and precommits.
Prevoted(w) == IF ImpliesVotes(w) THEN PrevotePositions(w) ELSE {}
Precommitted(w) == IF ImpliesVotes(w) THEN PrecommitPositions(w) ELSE {}

\* The weight of the newest block's generator at the height of position i.
GeneratorWeight(w, i) ==
    At(bftParams, w.blockBFTInfos[i].height).validators[
        w.blockBFTInfos[1].generatorAddress]

\* What updatePrevotesPrecommits makes of w.
Updated(u, w) ==
    LET infos  == w.blockBFTInfos
        active == w.activeValidatorsVoteInfo
    IN  /\ Len(u.blockBFTInfos) = Len(infos)
        /\ \A i \in 1 .. Len(infos) :
              LET new == u.blockBFTInfos[i]
              IN  /\ new.generatorAddress = infos[i].generatorAddress
                  /\ new.height = infos[i].height
                  /\ new.maxHeightGenerated = infos[i].maxHeightGenerated
                  /\ new.maxHeightPrevoted = infos[i].maxHeightPrevoted
                  /\ new.prevoteWeight =
                        IF i \in Prevoted(w)
                        THEN infos[i].prevoteWeight + GeneratorWeight(w, i)
                        ELSE infos[i].prevoteWeight
                  /\ new.precommitWeight =
                        IF i \in Precommitted(w)
                        THEN infos[i].precommitWeight + GeneratorWeight(w, i)
                        ELSE infos[i].precommitWeight
        /\ DOMAIN u.activeValidatorsVoteInfo = DOMAIN active
        /\ \A a \in DOMAIN active :
              LET new == u.activeValidatorsVoteInfo[a]
              IN  /\ new.minActiveHeight = active[a].minActiveHeight
                  /\ new.largestHeightPrecommit =
                        IF a = infos[1].generatorAddress /\ Precommitted(w) # {}
                        THEN infos[Min(Precommitted(w))].height
                        ELSE active[a].largestHeightPrecommit

\* updatePrevotesPrecommits adds one weight per visited position and moves
\* largestHeightPrecommit of the generator.
LEMMA UpdateIsExact ==
    ASSUME NEW w, IsBFTVotes(w), Len(w.blockBFTInfos) >= 1
    PROVE  Updated(UpdatePrevotesPrecommits(w), w)
<1> DEFINE infos == w.blockBFTInfos
           gen == infos[1].generatorAddress
           active == w.activeValidatorsVoteInfo
           weight(i) == At(bftParams, infos[i].height).validators[gen]
           precommitted == PrecommitPositions(w)
           prevoted == PrevotePositions(w)
           largest == IF precommitted = {} THEN active[gen].largestHeightPrecommit
                      ELSE infos[Min(precommitted)].height
           g == [i \in DOMAIN infos |->
                    [infos[i] EXCEPT
                       !.precommitWeight =
                           IF i \in precommitted THEN @ + weight(i) ELSE @,
                       !.prevoteWeight =
                           IF i \in prevoted THEN @ + weight(i) ELSE @]]
           u == UpdatePrevotesPrecommits(w)
<1>1. /\ infos \in Seq(BFTBlockHeaders)
      /\ Len(infos) \in Nat
      /\ DOMAIN infos = 1 .. Len(infos)
      /\ \A i \in 1 .. Len(infos) : infos[i] \in BFTBlockHeaders
      /\ active \in [DOMAIN active ->
            [minActiveHeight : Nat, largestHeightPrecommit : Nat]]
  BY DEF IsBFTVotes
<1>2. CASE ~ ImpliesVotes(w)
  <2>1. u = w /\ Prevoted(w) = {} /\ Precommitted(w) = {}
    BY <1>2 DEF UpdatePrevotesPrecommits, Prevoted, Precommitted
  <2> HIDE DEF u
  <2> QED
    BY <2>1 DEF u, Updated
<1>3. CASE ImpliesVotes(w)
  <2>1. /\ Prevoted(w) = prevoted /\ Precommitted(w) = precommitted
        /\ gen \in DOMAIN active
    BY <1>3 DEF Prevoted, Precommitted, ImpliesVotes
  <2>2. \A i \in 1 .. Len(infos) : weight(i) = GeneratorWeight(w, i)
    BY DEF GeneratorWeight
  <2>3. u = [w EXCEPT
               !.blockBFTInfos = g,
               !.activeValidatorsVoteInfo =
                   [active EXCEPT ![gen].largestHeightPrecommit = largest]]
    BY ZenonT(40), <1>1, <1>3, <2>1 DEF UpdatePrevotesPrecommits, IsBFTVotes
  <2> HIDE DEF weight, precommitted, prevoted, largest, u
  <2>4. /\ u.blockBFTInfos = g
        /\ u.activeValidatorsVoteInfo =
               [active EXCEPT ![gen].largestHeightPrecommit = largest]
    BY <2>3 DEF IsBFTVotes
  <2>5. ASSUME NEW i \in 1 .. Len(infos)
        PROVE  /\ g[i].generatorAddress = infos[i].generatorAddress
               /\ g[i].height = infos[i].height
               /\ g[i].maxHeightGenerated = infos[i].maxHeightGenerated
               /\ g[i].maxHeightPrevoted = infos[i].maxHeightPrevoted
               /\ g[i].prevoteWeight =
                     IF i \in prevoted THEN infos[i].prevoteWeight + weight(i)
                     ELSE infos[i].prevoteWeight
               /\ g[i].precommitWeight =
                     IF i \in precommitted
                     THEN infos[i].precommitWeight + weight(i)
                     ELSE infos[i].precommitWeight
    <3> DEFINE b == infos[i]
               x == IF i \in precommitted THEN b.precommitWeight + weight(i)
                    ELSE b.precommitWeight
               y == IF i \in prevoted THEN b.prevoteWeight + weight(i)
                    ELSE b.prevoteWeight
    <3>1. b \in BFTBlockHeaders
      BY <1>1
    <3>2. g[i] = [b EXCEPT !.precommitWeight = x, !.prevoteWeight = y]
      BY Zenon, <1>1
    <3> HIDE DEF b, x, y, g
    <3>3. /\ g[i].generatorAddress = b.generatorAddress
          /\ g[i].height = b.height
          /\ g[i].maxHeightGenerated = b.maxHeightGenerated
          /\ g[i].maxHeightPrevoted = b.maxHeightPrevoted
          /\ g[i].precommitWeight = x
          /\ g[i].prevoteWeight = y
      BY <3>1, <3>2 DEF BFTBlockHeaders
    <3> QED
      BY <3>3 DEF b, x, y
  <2>6. Len(g) = Len(infos)
    <3>1. DOMAIN g = 1 .. Len(infos)
      BY <1>1
    <3> QED
      BY <1>1, <3>1
  <2> HIDE DEF g
  <2>7. ASSUME NEW a \in DOMAIN active
        PROVE  LET new == u.activeValidatorsVoteInfo[a]
               IN  /\ new.minActiveHeight = active[a].minActiveHeight
                   /\ new.largestHeightPrecommit =
                         IF a = gen THEN largest
                         ELSE active[a].largestHeightPrecommit
    <3>1. active[a] \in [minActiveHeight : Nat, largestHeightPrecommit : Nat]
      BY <1>1
    <3>2. u.activeValidatorsVoteInfo[a] =
             IF a = gen THEN [active[a] EXCEPT !.largestHeightPrecommit = largest]
             ELSE active[a]
      BY ZenonT(40), <2>1, <2>4
    <3> QED
      BY <3>1, <3>2
  <2>8. DOMAIN u.activeValidatorsVoteInfo = DOMAIN active
    BY ZenonT(40), <2>4
  <2> QED
    BY ZenonT(40), <2>1, <2>2, <2>4, <2>5, <2>6, <2>7, <2>8 DEF Updated, largest, u
<1> QED
  BY <1>2, <1>3

\* The rest of BeforeTransactionsExecute leaves the weights and the active
\* validators as updatePrevotesPrecommits made them.
LEMMA ApplyIsExact ==
    ASSUME NEW header, NEW w, w = InsertBlockBFTInfo(bftVotes, header),
           IsBFTVotes(UpdatePrevotesPrecommits(w)), Len(w.blockBFTInfos) >= 1,
           IsBFTVotes(w)
    PROVE  Updated(ApplyHeader(header), w)
<1> DEFINE u == UpdatePrevotesPrecommits(w)
           Q1 == {i \in DOMAIN u.blockBFTInfos :
                     HasPrevoteQuorum(bftParams, u.blockBFTInfos[i])}
           m1 == IF Q1 = {} THEN u.maxHeightPrevoted
                 ELSE u.blockBFTInfos[Min(Q1)].height
           p == [u EXCEPT !.maxHeightPrevoted = m1]
           Q2 == {i \in DOMAIN p.blockBFTInfos :
                     HasPrecommitQuorum(bftParams, p.blockBFTInfos[i])}
           m2 == IF Q2 = {} THEN p.maxHeightPrecommited
                 ELSE p.blockBFTInfos[Min(Q2)].height
           q == [p EXCEPT !.maxHeightPrecommited = m2]
           c == IF header.aggregateCommit.empty THEN q.maxHeightCertified
                ELSE header.aggregateCommit.height
           z == [q EXCEPT !.maxHeightCertified = c]
<1>1. p = UpdateMaxHeightPrevoted(u)
  BY DEF UpdateMaxHeightPrevoted
<1>2. q = UpdateMaxHeightPrecommitted(p)
  BY DEF UpdateMaxHeightPrecommitted
<1>3. z = UpdateMaxHeightCertified(q, header)
  BY DEF UpdateMaxHeightCertified
<1>4. z = ApplyHeader(header)
  <2> HIDE DEF u, p, q, z
  <2> QED
    BY <1>1, <1>2, <1>3 DEF ApplyHeader, CountVotes, u
<1>5. Updated(u, w)
  BY UpdateIsExact
<1>6. /\ p.blockBFTInfos = u.blockBFTInfos
      /\ p.activeValidatorsVoteInfo = u.activeValidatorsVoteInfo
  <2> HIDE DEF u, m1
  <2> QED
    BY DEF IsBFTVotes, u
<1>7. /\ z.blockBFTInfos = u.blockBFTInfos
      /\ z.activeValidatorsVoteInfo = u.activeValidatorsVoteInfo
  <2> HIDE DEF u, m1, m2, c
  <2> QED
    BY DEF IsBFTVotes, u
<1> HIDE DEF z, u, p, c, m1, m2
<1> QED
  BY <1>4, <1>5, <1>7 DEF Updated

\* The votes that are recorded are those that are counted.
LEMMA RecordedVotes ==
    ASSUME NEW header, IsHeader(header), IsBFTVotes(bftVotes), RecordVotes(header),
           NEW w, w = InsertBlockBFTInfo(bftVotes, header)
    PROVE  LET gen == w.blockBFTInfos[1].generatorAddress
           IN  /\ prevotes' = prevotes \cup
                    {<<gen, w.blockBFTInfos[i].height>> : i \in Prevoted(w)}
               /\ precommits' = precommits \cup
                    {<<gen, w.blockBFTInfos[i].height>> : i \in Precommitted(w)}
<1>1. w.blockBFTInfos[1].generatorAddress = header.generatorAddress
  BY InsertType
<1> QED
  BY ZenonT(40), <1>1 DEF RecordVotes, Prevoted, Precommitted

\* A window position, its height and the bounds of the generator.
LEMMA PositionTypes ==
    ASSUME NEW w, IsBFTVotes(w), Len(w.blockBFTInfos) >= 1, WindowContiguous(w)
    PROVE  /\ Prevoted(w) \subseteq 1 .. Len(w.blockBFTInfos)
           /\ Precommitted(w) \subseteq 1 .. Len(w.blockBFTInfos)
           /\ Len(w.blockBFTInfos) \in Nat
           /\ \A i, j \in 1 .. Len(w.blockBFTInfos) :
                 j <= i => w.blockBFTInfos[i].height <= w.blockBFTInfos[j].height
           /\ \A i, j \in 1 .. Len(w.blockBFTInfos) :
                 w.blockBFTInfos[i].height = w.blockBFTInfos[j].height => i = j
<1> DEFINE infos == w.blockBFTInfos
<1>1. Len(infos) \in Nat /\ DOMAIN infos = 1 .. Len(infos)
  BY VotesTypeFacts
<1>2. ASSUME NEW i \in 1 .. Len(infos), NEW j \in 1 .. Len(infos)
      PROVE  /\ j <= i => infos[i].height <= infos[j].height
             /\ infos[i].height = infos[j].height => i = j
  <2> DEFINE hi == infos[i].height
             hj == infos[j].height
             top == infos[1].height
  <2>1. hi = top - (i - 1) /\ hj = top - (j - 1) /\ top \in Nat
    BY <1>1, WindowHeights, InfoTypes
  <2> HIDE DEF hi, hj, top
  <2>2. (j <= i => hi <= hj) /\ (hi = hj => i = j)
    BY <2>1
  <2> QED
    BY <2>2 DEF hi, hj
<1> QED
  BY ZenonT(40), <1>1, <1>2
  DEF Prevoted, Precommitted, PrevotePositions, PrecommitPositions, VisitedForPrecommit

\* What is known of a prevoted position, and which positions are prevoted.
LEMMA PrevotedPositions ==
    ASSUME NEW w, IsBFTVotes(w), Len(w.blockBFTInfos) >= 1, WindowContiguous(w),
           NEW i \in 1 .. Len(w.blockBFTInfos)
    PROVE  LET infos == w.blockBFTInfos
               gen == infos[1].generatorAddress
               active == w.activeValidatorsVoteInfo
           IN  i \in Prevoted(w) <=>
                  /\ gen \in DOMAIN active
                  /\ infos[i].height > infos[1].maxHeightGenerated
                  /\ infos[i].height >= active[gen].minActiveHeight
<1> DEFINE infos == w.blockBFTInfos
           gen == infos[1].generatorAddress
           active == w.activeValidatorsVoteInfo
           m == infos[1].maxHeightGenerated
<1>1. /\ Len(infos) \in Nat /\ DOMAIN infos = 1 .. Len(infos) /\ m \in Nat
      /\ \A j \in 1 .. Len(infos) : infos[j].height \in Nat
  BY VotesTypeFacts, InfoTypes
<1>2. \A j \in 1 .. i : j \in 1 .. Len(infos) /\ infos[i].height <= infos[j].height
  BY <1>1, PositionTypes
<1>3. 1 \in 1 .. i /\ i \in 1 .. i
  BY <1>1
<1>4. ASSUME i \in Prevoted(w)
      PROVE  /\ gen \in DOMAIN active /\ infos[i].height > m
             /\ infos[i].height >= active[gen].minActiveHeight
  <2>1. ImpliesVotes(w) /\ i \in PrevotePositions(w)
    BY <1>4 DEF Prevoted
  <2>2. infos[i].height >= m + 1 /\ infos[i].height >= active[gen].minActiveHeight
    BY ZenonT(40), <1>3, <2>1 DEF PrevotePositions
  <2> QED
    BY <1>1, <2>1, <2>2 DEF ImpliesVotes
<1>5. ASSUME gen \in DOMAIN active, infos[i].height > m,
             infos[i].height >= active[gen].minActiveHeight
      PROVE  i \in Prevoted(w)
  <2> DEFINE a == active[gen].minActiveHeight
  <2>1. a \in Nat
    BY ZenonT(40), <1>5, ActiveTypes
  <2>2. \A j \in 1 .. i : infos[j].height >= m + 1 /\ infos[j].height >= a
    <3> TAKE j \in 1 .. i
    <3> DEFINE hi == infos[i].height
               hj == infos[j].height
    <3>1. hi \in Nat /\ hj \in Nat /\ hi <= hj /\ hi > m /\ hi >= a
      BY ZenonT(40), <1>1, <1>2, <1>5
    <3> HIDE DEF hi, hj, a, m
    <3>2. hj >= m + 1 /\ hj >= a
      BY <1>1, <2>1, <3>1
    <3> QED
      BY <3>2 DEF hj
  <2>3. m < infos[1].height
    <3> DEFINE h1 == infos[1].height
    <3>1. h1 \in Nat /\ h1 >= m + 1
      BY <1>1, <1>3, <2>2
    <3> HIDE DEF h1, m
    <3>2. m < h1
      BY <1>1, <3>1
    <3> QED
      BY <3>2 DEF h1
  <2>4. ImpliesVotes(w)
    BY ZenonT(40), <1>5, <2>3 DEF ImpliesVotes
  <2>5. i \in PrevotePositions(w)
    BY ZenonT(40), <1>1, <2>2 DEF PrevotePositions
  <2> QED
    BY <2>4, <2>5 DEF Prevoted
<1> QED
  BY ZenonT(40), <1>4, <1>5

\* What is known of a precommitted position.
LEMMA PrecommittedPositions ==
    ASSUME NEW w, IsBFTVotes(w), Len(w.blockBFTInfos) >= 1, WindowContiguous(w),
           NEW i \in Precommitted(w)
    PROVE  LET infos == w.blockBFTInfos
               gen == infos[1].generatorAddress
               active == w.activeValidatorsVoteInfo
           IN  /\ ImpliesVotes(w)
               /\ i \in 1 .. Len(infos)
               /\ infos[i].height >= active[gen].minActiveHeight
               /\ infos[i].height >= GetHeightNotPrevoted(w) + 1
               /\ infos[i].height > active[gen].largestHeightPrecommit
<1> DEFINE infos == w.blockBFTInfos
           gen == infos[1].generatorAddress
           active == w.activeValidatorsVoteInfo
<1>1. ImpliesVotes(w) /\ i \in VisitedForPrecommit(w)
  BY DEF Precommitted, PrecommitPositions
<1>2. i \in 1 .. Len(infos) /\ Len(infos) \in Nat
  BY PositionTypes
<1>3. i \in 1 .. i
  BY <1>2
<1>4. /\ infos[i].height >= active[gen].minActiveHeight
      /\ infos[i].height >= GetHeightNotPrevoted(w) + 1
      /\ infos[i].height >= active[gen].largestHeightPrecommit + 1
  BY ZenonT(40), <1>1, <1>3 DEF VisitedForPrecommit
<1>5. infos[i].height \in Nat /\ active[gen].largestHeightPrecommit \in Nat
  BY ZenonT(40), <1>1, <1>2, InfoTypes, ActiveTypes DEF ImpliesVotes
<1> DEFINE l == active[gen].largestHeightPrecommit
           h == infos[i].height
<1>6. h > l
  <2> HIDE DEF l, h
  <2>1. h \in Nat /\ l \in Nat /\ h >= l + 1
    BY ZenonT(40), <1>4, <1>5 DEF l, h
  <2> QED
    BY <2>1
<1> QED
  BY ZenonT(40), <1>1, <1>2, <1>4, <1>6

\* What is precommitted has been prevoted before, or is prevoted by the same
\* block.
LEMMA PrecommittedArePrevoted ==
    ASSUME NEW w, IsBFTVotes(w), Len(w.blockBFTInfos) >= 1, WindowContiguous(w),
           NEW votes, OwnBlocksPrevoted(w, votes), NEW i \in Precommitted(w)
    PROVE  \/ i \in Prevoted(w)
           \/ <<w.blockBFTInfos[1].generatorAddress, w.blockBFTInfos[i].height>>
                  \in votes
<1> DEFINE infos == w.blockBFTInfos
           gen == infos[1].generatorAddress
           active == w.activeValidatorsVoteInfo
           m == infos[1].maxHeightGenerated
<1>1. /\ ImpliesVotes(w)
      /\ i \in 1 .. Len(infos)
      /\ infos[i].height >= active[gen].minActiveHeight
      /\ infos[i].height >= GetHeightNotPrevoted(w) + 1
  BY ZenonT(40), PrecommittedPositions
<1>2. gen \in DOMAIN active /\ m < infos[1].height
  BY <1>1 DEF ImpliesVotes
<1>3. infos[i].height \in Nat /\ m \in Nat
  <2>1. 1 \in 1 .. Len(infos)
    BY <1>1, VotesTypeFacts
  <2> QED
    BY ZenonT(40), <1>1, <2>1, InfoTypes
<1>4. CASE infos[i].height > m
  BY ZenonT(40), <1>1, <1>2, <1>4, PrevotedPositions
<1>5. CASE infos[i].height <= m
  BY ZenonT(40), <1>1, <1>2, <1>5, FollowPrevoted
<1> QED
  BY <1>3, <1>4, <1>5

-----------------------------------------------------------------------------
(* The votes of an accepted header raise no error.                         *)

\* The parameters of every height of the window and of the next one are kept.
LEMMA NeededBelowWindow ==
    ASSUME VotesInv
    PROVE  /\ NeededFrom(bftVotes) \in Nat
           /\ NeededFrom(bftVotes) <= CurrentHeight(bftVotes) + 1
           /\ \A i \in 1 .. Len(bftVotes.blockBFTInfos) :
                 NeededFrom(bftVotes) <= bftVotes.blockBFTInfos[i].height
           /\ \A h \in Nat : NeededFrom(bftVotes) <= h => ExistsAt(bftParams, h)
<1> DEFINE v == bftVotes
           infos == v.blockBFTInfos
           n == Len(infos)
           cur == CurrentHeight(v)
           needed == NeededFrom(v)
           c == v.maxHeightCertified
<1>1. /\ IsBFTVotes(v) /\ IsStore(bftParams) /\ WindowContiguous(v)
      /\ ParamsInWindow(v, bftParams) /\ HeightsOrdered
  BY DEF VotesInv, TypeOK
<1>2. /\ n \in Nat /\ cur \in Nat /\ c \in Nat /\ DOMAIN infos = 1 .. n
      /\ v.maxHeightPrevoted \in Nat /\ v.maxHeightPrecommited \in Nat
  BY <1>1, VotesTypeFacts
<1>3. c <= cur
  BY <1>1, <1>2 DEF HeightsOrdered
<1>4. \A i \in 1 .. n : infos[i].height = cur - (i - 1) /\ infos[i].height \in Nat
  BY Zenon, <1>1, <1>2, VotesTypeFacts DEF WindowContiguous
<1>5. /\ needed \in Nat /\ needed <= cur + 1
      /\ \A i \in 1 .. n : needed <= infos[i].height
  <2>1. CASE n = 0
    <3>1. needed = c + 1
      BY <2>1 DEF NeededFrom
    <3> HIDE DEF needed, c, cur, n
    <3> QED
      BY <1>2, <1>3, <2>1, <3>1
  <2>2. CASE n # 0
    <3> DEFINE o == infos[n].height
    <3>1. needed = IF o <= c + 1 THEN o ELSE c + 1
      BY <2>2 DEF NeededFrom, MinHeightBFTParamsRequired
    <3>2. n \in 1 .. n
      BY <1>2, <2>2
    <3>3. o = cur - (n - 1) /\ o \in Nat
      <4> HIDE DEF n
      <4> QED
        BY <1>4, <3>2
    <3> HIDE DEF needed, c, cur, n, o
    <3>4. needed \in Nat /\ needed <= o /\ o <= cur
      BY <1>2, <3>1, <3>2, <3>3
    <3>5. \A i \in 1 .. n : needed <= infos[i].height
      <4> TAKE i \in 1 .. n
      <4> DEFINE hi == infos[i].height
      <4>1. hi = cur - (i - 1) /\ hi \in Nat
        BY <1>4
      <4> HIDE DEF hi
      <4>2. needed <= hi
        BY <1>2, <3>3, <3>4, <4>1
      <4> QED
        BY <4>2 DEF hi
    <3>6. needed <= cur + 1
      BY <1>2, <3>3, <3>4
    <3> QED
      BY <3>4, <3>5, <3>6
  <2> QED
    BY <2>1, <2>2
<1>6. ASSUME NEW h \in Nat, needed <= h
      PROVE  ExistsAt(bftParams, h)
  <2>1. PICK k \in DOMAIN bftParams : k <= needed
    BY <1>1 DEF ParamsInWindow, ExistsAt, KeysUpTo
  <2>2. k \in Nat
    BY <1>1 DEF IsStore
  <2> HIDE DEF needed
  <2>3. k <= h
    BY <1>5, <1>6, <2>1, <2>2
  <2> QED
    BY <2>3 DEF ExistsAt, KeysUpTo
<1> QED
  BY <1>5, <1>6

\* What is known of the window with the new header on top.
LEMMA InsertedWindow ==
    ASSUME VotesInv, NEW header, IsHeader(header), VerifyBlock(header),
           NEW w, w = InsertBlockBFTInfo(bftVotes, header)
    PROVE  LET infos == w.blockBFTInfos
               needed == NeededFrom(bftVotes)
           IN  /\ IsBFTVotes(w) /\ WindowContiguous(w) /\ Len(infos) >= 1
               /\ infos[1].height = CurrentHeight(bftVotes) + 1
               /\ infos[1].generatorAddress = header.generatorAddress
               /\ infos[1].maxHeightGenerated = header.maxHeightGenerated
               /\ infos[1].maxHeightPrevoted = bftVotes.maxHeightPrevoted
               /\ \A i \in 1 .. Len(infos) :
                     /\ infos[i].height \in Nat
                     /\ needed <= infos[i].height
                     /\ infos[i].height <= CurrentHeight(bftVotes) + 1
               /\ \A i \in 2 .. Len(infos) :
                     /\ i - 1 \in 1 .. Len(bftVotes.blockBFTInfos)
                     /\ infos[i] = bftVotes.blockBFTInfos[i - 1]
               /\ w.activeValidatorsVoteInfo = bftVotes.activeValidatorsVoteInfo
<1> DEFINE v == bftVotes
           infos == w.blockBFTInfos
           n == Len(infos)
           cur == CurrentHeight(v)
           needed == NeededFrom(v)
<1>1. /\ IsBFTVotes(v) /\ WindowContiguous(v) /\ HeightsOrdered
  BY DEF VotesInv, TypeOK
<1>2. /\ cur \in Nat /\ v.maxHeightPrevoted \in Nat
      /\ v.maxHeightPrecommited \in Nat /\ v.maxHeightCertified \in Nat
  BY <1>1, VotesTypeFacts
<1>3. cur >= GenesisHeight
  BY <1>1, <1>2, HeightsAssumption DEF HeightsOrdered
<1>4. header.height = cur + 1 /\ header.maxHeightPrevoted = v.maxHeightPrevoted
  BY DEF VerifyBlock
<1>5. /\ IsBFTVotes(w) /\ n >= 1
      /\ infos[1].height = cur + 1
      /\ infos[1].generatorAddress = header.generatorAddress
      /\ w.activeValidatorsVoteInfo = v.activeValidatorsVoteInfo
      /\ \A i \in 2 .. n : /\ i - 1 \in 1 .. Len(v.blockBFTInfos)
                           /\ infos[i] = v.blockBFTInfos[i - 1]
  BY <1>1, <1>4, InsertType
<1>6. WindowContiguous(w)
  BY ZenonT(40), <1>1, <1>3, <1>4, InsertWindow
<1>7. infos[1].maxHeightGenerated = header.maxHeightGenerated
      /\ infos[1].maxHeightPrevoted = v.maxHeightPrevoted
  BY <1>1, <1>4, InsertClaims
<1>8. ASSUME NEW i \in 1 .. n
      PROVE  infos[i].height \in Nat /\ needed <= infos[i].height
             /\ infos[i].height <= cur + 1
  <2>1. needed \in Nat /\ needed <= cur + 1
    BY NeededBelowWindow
  <2>2. n \in Nat
    BY ZenonT(40), <1>5, VotesTypeFacts
  <2> DEFINE hi == infos[i].height
  <2>3. hi \in Nat /\ hi = (cur + 1) - (i - 1)
    BY ZenonT(40), <1>5, <1>6, WindowHeights
  <2>4. needed <= hi
    <3>1. CASE i = 1
      BY ZenonT(40), <1>5, <2>1, <3>1
    <3>2. CASE i # 1
      <4>1. i \in 2 .. n
        BY <2>2, <3>2
      <4>2. i - 1 \in 1 .. Len(v.blockBFTInfos) /\ infos[i] = v.blockBFTInfos[i - 1]
        BY <1>5, <4>1
      <4> QED
        BY <4>2, NeededBelowWindow
    <3> QED
      BY <3>1, <3>2
  <2>5. hi <= cur + 1
    <3> HIDE DEF hi, cur, n
    <3> QED
      BY <1>2, <2>2, <2>3
  <2> QED
    BY <2>3, <2>4, <2>5
<1> QED
  BY ZenonT(40), <1>5, <1>6, <1>7, <1>8

\* A header that verifyBlock accepts is executed without error.
LEMMA AcceptedIsExecutable ==
    ASSUME VotersInv, NEW header, IsHeader(header), VerifyBlock(header)
    PROVE  Executable(header)
<1> DEFINE w == InsertBlockBFTInfo(bftVotes, header)
           infos == w.blockBFTInfos
           gen == infos[1].generatorAddress
           active == w.activeValidatorsVoteInfo
           cur == CurrentHeight(bftVotes)
           needed == NeededFrom(bftVotes)
<1>1. VotesInv /\ ActiveAreValidators(bftVotes, bftParams)
  BY DEF VotersInv
<1>2. /\ IsBFTVotes(w) /\ WindowContiguous(w) /\ Len(infos) >= 1
      /\ \A i \in 1 .. Len(infos) :
            /\ infos[i].height \in Nat
            /\ needed <= infos[i].height
            /\ infos[i].height <= cur + 1
      /\ active = bftVotes.activeValidatorsVoteInfo
  BY ZenonT(40), <1>1, InsertedWindow
<1>3. needed \in Nat /\ cur \in Nat /\ DOMAIN infos = 1 .. Len(infos)
  BY ZenonT(40), <1>1, <1>2, NeededBelowWindow, VotesTypeFacts DEF VotesInv, TypeOK
<1> HIDE DEF w
<1>4. ParamsExist(w)
  BY ZenonT(40), <1>1, <1>2, <1>3, NeededBelowWindow DEF ParamsExist
<1>5. ASSUME ImpliesVotes(w),
             NEW i \in PrecommitPositions(w) \cup PrevotePositions(w)
      PROVE  gen \in DOMAIN At(bftParams, infos[i].height).validators
  <2>1. gen \in DOMAIN active
    BY <1>5 DEF ImpliesVotes
  <2>2. i \in Prevoted(w) \/ i \in Precommitted(w)
    BY <1>5 DEF Prevoted, Precommitted
  <2>3. i \in 1 .. Len(infos) /\ infos[i].height >= active[gen].minActiveHeight
    BY ZenonT(40), <1>2, <2>2, PositionTypes, PrevotedPositions, PrecommittedPositions
  <2>4. infos[i].height \in needed .. cur + 1
    BY <1>2, <1>3, <2>3
  <2> QED
    BY ZenonT(40), <1>1, <1>2, <2>1, <2>3, <2>4 DEF ActiveAreValidators
<1>6. ~ VotesFail(w)
  BY <1>5 DEF VotesFail
<1> QED
  BY <1>4, <1>6 DEF Executable, w

\* VotersInv is enough for ExecutionNeverFails.
LEMMA VotersInvNeverFails == VotersInv => ExecutionNeverFails
<1> SUFFICES ASSUME VotersInv,
                    NEW generator \in Validators, NEW m \in ClaimedHeights,
                    VerifyBlock(HeaderOnTop(generator, m,
                        [empty |-> TRUE, height |-> bftVotes.maxHeightCertified]))
             PROVE  LET commit == [empty |-> TRUE,
                                   height |-> bftVotes.maxHeightCertified]
                        header == HeaderOnTop(generator, m, commit)
                        v == InsertBlockBFTInfo(bftVotes, header)
                    IN  ParamsExist(v) /\ ~ VotesFail(v)
  BY ZenonT(40) DEF ExecutionNeverFails
<1> DEFINE commit == [empty |-> TRUE, height |-> bftVotes.maxHeightCertified]
           header == HeaderOnTop(generator, m, commit)
<1>1. /\ CurrentHeight(bftVotes) \in Nat /\ bftVotes.maxHeightPrevoted \in Nat
      /\ bftVotes.maxHeightCertified \in Nat
  BY ZenonT(40), VotesTypeFacts DEF VotersInv, VotesInv, TypeOK
<1>2. IsHeader(header)
  <2>1. m \in Nat
    BY <1>1, HeightsAssumption DEF ClaimedHeights
  <2> QED
    BY <1>1, <2>1 DEF IsHeader, HeaderOnTop
<1> HIDE DEF header
<1>3. Executable(header)
  BY <1>2, AcceptedIsExecutable DEF header
<1> QED
  BY <1>3 DEF Executable, header

-----------------------------------------------------------------------------
(* One block keeps votes, claims and vote infos in agreement.              *)

CountedOnce(v, store, pre, com) ==
    \A i \in DOMAIN v.blockBFTInfos :
        LET info    == v.blockBFTInfos[i]
            weights == At(store, info.height).validators
        IN  /\ info.prevoteWeight =
                  SumFunctionOnSet(weights, VotersOf(pre, info.height))
            /\ info.precommitWeight =
                  SumFunctionOnSet(weights, VotersOf(com, info.height))

VotersSound(v, store, pre, com) ==
    /\ CountedOnce(v, store, pre, com)
    /\ com \subseteq pre
    /\ VotesWithinBounds(v, pre, com)
    /\ ActiveAreValidators(v, store)
    /\ PrevotesHaveBlocks(v, store, pre)
    /\ BlocksHavePrevotes(v, pre)

\* VotersInv in terms of these.
LEMMA VotersInvParts ==
    VotersInv <=> VotesInv /\ VotersSound(bftVotes, bftParams, prevotes, precommits)
BY DEF VotersInv, VotersSound, CountedOnce, VotesCountedOnce, PrecommittersPrevoted

\* The votes of an accepted header, up to the end of BeforeTransactionsExecute:
\* w is the struct with the header inserted, z the struct at the end.
Block(header, w, z) ==
    /\ IsHeader(header)
    /\ Executable(header)
    /\ RecordVotes(header)
    /\ w = InsertBlockBFTInfo(bftVotes, header)
    /\ z = ApplyHeader(header)

\* What the lemmas above say of such a block.
LEMMA BlockFacts ==
    ASSUME VotersInv, NEW header, NEW w, NEW z, Block(header, w, z)
    PROVE  LET infos == w.blockBFTInfos
               gen == infos[1].generatorAddress
               cur == CurrentHeight(bftVotes)
           IN  /\ IsBFTVotes(w) /\ WindowContiguous(w)
               /\ Len(infos) \in Nat /\ Len(infos) >= 1 /\ cur \in Nat
               /\ infos[1].height = cur + 1
               /\ gen = header.generatorAddress /\ gen \in Validators
               /\ infos[1].maxHeightGenerated = header.maxHeightGenerated
               /\ infos[1].maxHeightPrevoted = bftVotes.maxHeightPrevoted
               /\ ParamsExist(w) /\ ~ VotesFail(w)
               /\ Updated(z, w)
               /\ IsBFTVotes(z)
               /\ DOMAIN z.blockBFTInfos = 1 .. Len(infos)
               /\ CurrentHeight(z) = cur + 1
               /\ z.maxHeightPrevoted >= bftVotes.maxHeightPrevoted
               /\ NeededFrom(z) \in Nat /\ NeededFrom(bftVotes) \in Nat
               /\ NeededFrom(z) >= NeededFrom(bftVotes)
               /\ prevotes' = prevotes \cup
                    {<<gen, infos[i].height>> : i \in Prevoted(w)}
               /\ precommits' = precommits \cup
                    {<<gen, infos[i].height>> : i \in Precommitted(w)}
<1>1. /\ VotesInv /\ IsHeader(header) /\ Executable(header) /\ RecordVotes(header)
      /\ w = InsertBlockBFTInfo(bftVotes, header) /\ z = ApplyHeader(header)
  BY DEF VotersInv, Block
<1>2. /\ VerifyBlock(header) /\ ParamsExist(w) /\ ~ VotesFail(w)
  BY <1>1 DEF Executable
<1>3. /\ IsBFTVotes(bftVotes) /\ IsParamsStore(bftParams)
  BY <1>1 DEF VotesInv, TypeOK, IsParamsStore
<1>4. LET infos == w.blockBFTInfos
      IN  /\ IsBFTVotes(w) /\ WindowContiguous(w) /\ Len(infos) >= 1
          /\ infos[1].height = CurrentHeight(bftVotes) + 1
          /\ infos[1].generatorAddress = header.generatorAddress
          /\ infos[1].maxHeightGenerated = header.maxHeightGenerated
          /\ infos[1].maxHeightPrevoted = bftVotes.maxHeightPrevoted
  BY ZenonT(40), <1>1, <1>2, InsertedWindow
<1>5. /\ CurrentHeight(bftVotes) \in Nat /\ Len(w.blockBFTInfos) \in Nat
      /\ header.generatorAddress \in Validators
  BY ZenonT(40), <1>1, <1>3, <1>4, VotesTypeFacts DEF IsHeader
<1>6. IsBFTVotes(UpdatePrevotesPrecommits(w))
  BY ZenonT(40), <1>2, <1>3, <1>4, UpdateVotes
<1>7. Updated(z, w)
  BY ZenonT(40), <1>1, <1>4, <1>6, ApplyIsExact
<1>8. /\ IsBFTVotes(z)
      /\ CurrentHeight(z) = CurrentHeight(bftVotes) + 1
      /\ z.maxHeightPrevoted >= bftVotes.maxHeightPrevoted
      /\ NeededFrom(z) \in Nat /\ NeededFrom(bftVotes) \in Nat
      /\ NeededFrom(z) >= NeededFrom(bftVotes)
  BY <1>1, ApplyHeaderSound
<1>9. DOMAIN z.blockBFTInfos = 1 .. Len(w.blockBFTInfos)
  BY ZenonT(40), <1>7, <1>8, VotesTypeFacts DEF Updated
<1>10. LET gen == w.blockBFTInfos[1].generatorAddress
       IN  /\ prevotes' = prevotes \cup
                {<<gen, w.blockBFTInfos[i].height>> : i \in Prevoted(w)}
           /\ precommits' = precommits \cup
                {<<gen, w.blockBFTInfos[i].height>> : i \in Precommitted(w)}
  BY <1>1, <1>3, RecordedVotes
<1> QED
  BY ZenonT(40), <1>2, <1>4, <1>5, <1>7, <1>8, <1>9, <1>10

\* The votes the newest block has brought.
LEMMA BlockVotes ==
    ASSUME VotersInv, NEW header, NEW w, NEW z, Block(header, w, z)
    PROVE  LET infos == w.blockBFTInfos
               gen == infos[1].generatorAddress
           IN  /\ prevotes' = prevotes \cup
                    {<<gen, infos[i].height>> : i \in Prevoted(w)}
               /\ precommits' = precommits \cup
                    {<<gen, infos[i].height>> : i \in Precommitted(w)}
BY BlockFacts

\* The older blocks of the window.
LEMMA OlderBlocks ==
    ASSUME VotersInv, NEW header, NEW w, NEW z, Block(header, w, z),
           NEW i \in 2 .. Len(w.blockBFTInfos)
    PROVE  /\ i - 1 \in DOMAIN bftVotes.blockBFTInfos
           /\ i - 1 \in 1 .. Len(bftVotes.blockBFTInfos)
           /\ w.blockBFTInfos[i] = bftVotes.blockBFTInfos[i - 1]
<1>1. VotesInv /\ IsHeader(header) /\ VerifyBlock(header)
      /\ w = InsertBlockBFTInfo(bftVotes, header) /\ IsBFTVotes(bftVotes)
  BY DEF VotersInv, Block, Executable, VotesInv, TypeOK
<1>2. DOMAIN bftVotes.blockBFTInfos = 1 .. Len(bftVotes.blockBFTInfos)
  BY <1>1, VotesTypeFacts
<1> QED
  BY ZenonT(40), <1>1, <1>2, InsertedWindow

\* Nobody has voted for the new height before.
LEMMA NewHeightHasNoVotes ==
    ASSUME VotersInv, NEW header, NEW w, NEW z, Block(header, w, z), NEW a
    PROVE  /\ <<a, w.blockBFTInfos[1].height>> \notin prevotes
           /\ <<a, w.blockBFTInfos[1].height>> \notin precommits
<1>1. w.blockBFTInfos[1].height = CurrentHeight(bftVotes) + 1
      /\ CurrentHeight(bftVotes) \in Nat
  BY ZenonT(40), BlockFacts
<1>2. VotesWithinBounds(bftVotes, prevotes, precommits)
  BY DEF VotersInv
<1> DEFINE c == CurrentHeight(bftVotes)
           x == <<a, c + 1>>
<1>3. x[2] = c + 1 /\ ~ (c + 1 <= c)
  BY <1>1
<1>4. x \notin prevotes \cup precommits
  BY <1>2, <1>3 DEF VotesWithinBounds
<1> QED
  BY <1>1, <1>4

\* A prevote is counted at most once: the new header continues from every own
\* block of the window, so the heights above were not prevoted by them.
LEMMA PrevotesAreFresh ==
    ASSUME VotersInv, NEW header, NEW w, NEW z, Block(header, w, z),
           NEW i \in Prevoted(w)
    PROVE  <<w.blockBFTInfos[1].generatorAddress, w.blockBFTInfos[i].height>>
               \notin prevotes
<1> DEFINE infos == w.blockBFTInfos
           old == bftVotes.blockBFTInfos
           gen == infos[1].generatorAddress
<1>1. /\ IsBFTVotes(w) /\ WindowContiguous(w)
      /\ Len(infos) \in Nat /\ Len(infos) >= 1
      /\ gen = header.generatorAddress /\ gen \in Validators
      /\ infos[1].maxHeightGenerated = header.maxHeightGenerated
  BY ZenonT(40), BlockFacts
<1>2. /\ IsBFTVotes(bftVotes) /\ WindowContiguous(bftVotes) /\ IsHeader(header)
      /\ ~ Contradicting(bftVotes, header)
      /\ header.height = CurrentHeight(bftVotes) + 1
      /\ header.maxHeightPrevoted = bftVotes.maxHeightPrevoted
      /\ PrevotesHaveBlocks(bftVotes, bftParams, prevotes)
      /\ \A k \in DOMAIN old :
            old[k].maxHeightPrevoted <= bftVotes.maxHeightPrevoted
  BY ZenonT(40) DEF VotersInv, VotesInv, TypeOK, Block, Executable, VerifyBlock,
         VotesWithinBounds
<1>3. i \in 1 .. Len(infos)
  BY <1>1, PositionTypes
<1>4. SUFFICES ASSUME <<gen, infos[i].height>> \in prevotes PROVE FALSE
  OBVIOUS
<1>5. i # 1
  BY <1>4, NewHeightHasNoVotes
<1>6. i \in 2 .. Len(infos)
  BY <1>1, <1>3, <1>5
<1>7. i - 1 \in DOMAIN old /\ i - 1 \in 1 .. Len(old) /\ infos[i] = old[i - 1]
  BY <1>6, OlderBlocks
<1>8. PICK k \in 1 .. i - 1 : old[k].generatorAddress = gen
  BY ZenonT(40), <1>1, <1>2, <1>4, <1>7 DEF PrevotesHaveBlocks
<1>9. Len(old) \in Nat
  BY <1>2, VotesTypeFacts
<1>10. k \in 1 .. Len(old)
  BY <1>7, <1>8, <1>9
<1>11. old[k].height <= header.maxHeightGenerated
  BY ZenonT(40), <1>1, <1>2, <1>8, <1>10, ContinuesOwnBlocks
<1>12. k + 1 \in 2 .. Len(infos) /\ k + 1 <= i
  BY <1>1, <1>6, <1>8
<1>13. infos[k + 1] = old[k]
  <2>1. infos[k + 1] = old[k + 1 - 1] /\ k + 1 - 1 = k
    BY <1>8, <1>12, OlderBlocks
  <2> QED
    BY <2>1
<1>14. infos[i].height <= infos[k + 1].height
  <2>1. k + 1 \in 1 .. Len(infos)
    BY <1>12
  <2> QED
    BY ZenonT(40), <1>1, <1>3, <1>12, <2>1, PositionTypes
<1>15. infos[i].height > header.maxHeightGenerated
  BY ZenonT(40), <1>1, <1>3, PrevotedPositions
<1>16. infos[i].height \in Nat /\ old[k].height \in Nat
       /\ header.maxHeightGenerated \in Nat
  BY ZenonT(40), <1>1, <1>2, <1>3, <1>10, InfoTypes DEF IsHeader
<1> DEFINE x == infos[i].height
           y == old[k].height
<1>17. x <= y /\ y <= header.maxHeightGenerated /\ x > header.maxHeightGenerated
  BY ZenonT(40), <1>11, <1>13, <1>14, <1>15
<1> HIDE DEF x, y
<1> QED
  BY <1>16, <1>17 DEF x, y

\* A precommit is counted at most once: only heights above the generator's
\* largestHeightPrecommit are visited.
LEMMA PrecommitsAreFresh ==
    ASSUME VotersInv, NEW header, NEW w, NEW z, Block(header, w, z),
           NEW i \in Precommitted(w)
    PROVE  <<w.blockBFTInfos[1].generatorAddress, w.blockBFTInfos[i].height>>
               \notin precommits
<1> DEFINE infos == w.blockBFTInfos
           gen == infos[1].generatorAddress
           active == w.activeValidatorsVoteInfo
           x == <<gen, infos[i].height>>
           l == active[gen].largestHeightPrecommit
           h == infos[i].height
<1>1. /\ IsBFTVotes(w) /\ WindowContiguous(w) /\ Len(infos) >= 1
  BY ZenonT(40), BlockFacts
<1>2. active = bftVotes.activeValidatorsVoteInfo
  BY ZenonT(40), InsertedWindow DEF VotersInv, Block, Executable
<1>3. ImpliesVotes(w) /\ i \in 1 .. Len(infos) /\ h > l
  BY ZenonT(40), <1>1, PrecommittedPositions
<1>4. gen \in DOMAIN active
  BY <1>3 DEF ImpliesVotes
<1>5. h \in Nat /\ l \in Nat
  BY ZenonT(40), <1>1, <1>3, <1>4, InfoTypes, ActiveTypes
<1>6. ASSUME x \in precommits PROVE FALSE
  <2>1. x[2] <= bftVotes.activeValidatorsVoteInfo[x[1]].largestHeightPrecommit
    BY ZenonT(40), <1>2, <1>4, <1>6 DEF VotersInv, VotesWithinBounds
  <2>2. h <= l
    BY ZenonT(40), <1>2, <2>1
  <2> HIDE DEF h, l
  <2> QED
    BY <1>3, <1>5, <2>2
<1> QED
  BY <1>6

\* The generator was a validator of every height it votes for.
LEMMA NewVotersAreValidators ==
    ASSUME VotersInv, NEW header, NEW w, NEW z, Block(header, w, z),
           NEW i \in Prevoted(w) \cup Precommitted(w)
    PROVE  /\ w.blockBFTInfos[1].generatorAddress \in
                 DOMAIN At(bftParams, w.blockBFTInfos[i].height).validators
           /\ GeneratorWeight(w, i) \in Nat
<1> DEFINE infos == w.blockBFTInfos
           gen == infos[1].generatorAddress
           p == At(bftParams, infos[i].height)
<1>1. /\ IsBFTVotes(w) /\ WindowContiguous(w) /\ Len(infos) >= 1
      /\ ParamsExist(w) /\ ~ VotesFail(w)
  BY ZenonT(40), BlockFacts
<1>2. i \in 1 .. Len(infos) /\ DOMAIN infos = 1 .. Len(infos) /\ infos[i].height \in Nat
  BY ZenonT(40), <1>1, PositionTypes, VotesTypeFacts
<1>3. gen \in DOMAIN p.validators
  BY <1>1 DEF VotesFail, Prevoted, Precommitted
<1>4. IsParamsStore(bftParams)
  BY DEF VotersInv, VotesInv, TypeOK, IsParamsStore
<1>5. IsBFTParams(p)
  BY <1>1, <1>2, <1>4, AtType DEF ParamsExist
<1> QED
  BY ZenonT(40), <1>3, <1>5 DEF IsBFTParams, IsWeights, GeneratorWeight

\* One more voter adds its weight.
LEMMA WeightAdded ==
    ASSUME NEW f, IsWeights(f), NEW S, S \subseteq DOMAIN f,
           NEW a \in DOMAIN f, a \notin S
    PROVE  SumFunctionOnSet(f, S \cup {a}) = SumFunctionOnSet(f, S) + f[a]
<1>1. IsFiniteSet(S) /\ (\A x \in S : f[x] \in Nat) /\ f[a] \in Nat
  BY ParamsAssumption, FS_Subset DEF IsWeights
<1> QED
  BY <1>1, SumFunctionFacts

\* A vote after the block is an earlier one, or one of the positions counted.
LEMMA VotesAfter ==
    ASSUME VotersInv, NEW header, NEW w, NEW z, Block(header, w, z),
           NEW k \in 1 .. Len(w.blockBFTInfos), NEW a
    PROVE  LET gen == w.blockBFTInfos[1].generatorAddress
               h == w.blockBFTInfos[k].height
           IN  /\ <<a, h>> \in prevotes' <=>
                     <<a, h>> \in prevotes \/ (k \in Prevoted(w) /\ a = gen)
               /\ <<a, h>> \in precommits' <=>
                     <<a, h>> \in precommits \/ (k \in Precommitted(w) /\ a = gen)
<1> DEFINE infos == w.blockBFTInfos
           gen == infos[1].generatorAddress
           h == infos[k].height
<1>1. /\ IsBFTVotes(w) /\ WindowContiguous(w) /\ Len(infos) >= 1
      /\ prevotes' = prevotes \cup {<<gen, infos[i].height>> : i \in Prevoted(w)}
      /\ precommits' = precommits \cup {<<gen, infos[i].height>> : i \in Precommitted(w)}
  BY ZenonT(40), BlockFacts
<1>2. /\ Prevoted(w) \subseteq 1 .. Len(infos)
      /\ Precommitted(w) \subseteq 1 .. Len(infos)
      /\ \A j \in 1 .. Len(infos) : infos[j].height = h => j = k
  BY ZenonT(40), <1>1, PositionTypes
<1>3. ASSUME NEW P \in SUBSET (1 .. Len(infos))
      PROVE  <<a, h>> \in {<<gen, infos[j].height>> : j \in P} <=> k \in P /\ a = gen
  BY <1>2
<1> QED
  BY ZenonT(40), <1>1, <1>2, <1>3

\* The weights of the window are still those of the recorded votes.
LEMMA BlockCountedOnce ==
    ASSUME VotersInv, NEW header, NEW w, NEW z, Block(header, w, z)
    PROVE  CountedOnce(z, bftParams, prevotes', precommits')
<1> DEFINE infos == w.blockBFTInfos
           gen == infos[1].generatorAddress
<1>1. /\ IsBFTVotes(w) /\ WindowContiguous(w) /\ Len(infos) \in Nat
      /\ Len(infos) >= 1 /\ gen \in Validators /\ ParamsExist(w)
      /\ Updated(z, w) /\ DOMAIN z.blockBFTInfos = 1 .. Len(infos)
      /\ infos[1].height = CurrentHeight(bftVotes) + 1
  BY ZenonT(40), BlockFacts
<1>2. /\ VotersSound(bftVotes, bftParams, prevotes, precommits)
      /\ IsParamsStore(bftParams) /\ IsBFTVotes(bftVotes)
  BY VotersInvParts DEF VotesInv, TypeOK, IsParamsStore
<1>3. DOMAIN infos = 1 .. Len(infos)
  BY <1>1, VotesTypeFacts
<1> SUFFICES ASSUME NEW i \in 1 .. Len(infos)
             PROVE  LET info == z.blockBFTInfos[i]
                        f == At(bftParams, info.height).validators
                    IN  /\ info.prevoteWeight =
                              SumFunctionOnSet(f, VotersOf(prevotes', info.height))
                        /\ info.precommitWeight =
                              SumFunctionOnSet(f, VotersOf(precommits', info.height))
  BY ZenonT(40), <1>1 DEF CountedOnce
<1> DEFINE h == infos[i].height
           f == At(bftParams, h).validators
<1>4. h \in Nat /\ ExistsAt(bftParams, h)
  BY ZenonT(40), <1>1, <1>3, InfoTypes DEF ParamsExist
<1>5. /\ VotersOf(prevotes, h) \subseteq DOMAIN f
      /\ VotersOf(precommits, h) \subseteq VotersOf(prevotes, h)
      /\ infos[i].prevoteWeight = SumFunctionOnSet(f, VotersOf(prevotes, h))
      /\ infos[i].precommitWeight = SumFunctionOnSet(f, VotersOf(precommits, h))
  <2>1. CASE i = 1
    <3>1. VotersOf(prevotes, h) = {} /\ VotersOf(precommits, h) = {}
      BY <2>1, NewHeightHasNoVotes DEF VotersOf
    <3>2. infos[1].prevoteWeight = 0 /\ infos[1].precommitWeight = 0
      BY ZenonT(40), <1>2, InsertType DEF Block
    <3>3. SumFunctionOnSet(f, {}) = 0
      BY SumFunctionFacts, FS_EmptySet
    <3> QED
      BY ZenonT(40), <2>1, <3>1, <3>2, <3>3
  <2>2. CASE i # 1
    <3>1. i \in 2 .. Len(infos)
      BY <1>1, <2>2
    <3>2. i - 1 \in DOMAIN bftVotes.blockBFTInfos
          /\ infos[i] = bftVotes.blockBFTInfos[i - 1]
      BY <3>1, OlderBlocks
    <3>3. /\ infos[i].prevoteWeight = SumFunctionOnSet(f, VotersOf(prevotes, h))
          /\ infos[i].precommitWeight = SumFunctionOnSet(f, VotersOf(precommits, h))
      BY ZenonT(40), <1>2, <3>2 DEF VotersSound, CountedOnce
    <3>4. VotersOf(prevotes, h) \subseteq DOMAIN f
      BY ZenonT(40), <1>2, <3>2 DEF VotersSound, PrevotesHaveBlocks, VotersOf
    <3>5. VotersOf(precommits, h) \subseteq VotersOf(prevotes, h)
      BY <1>2 DEF VotersSound, VotersOf
    <3> QED
      BY ZenonT(40), <3>3, <3>4, <3>5
  <2> QED
    BY ZenonT(40), <2>1, <2>2
<1>6. /\ z.blockBFTInfos[i].height = h
      /\ z.blockBFTInfos[i].prevoteWeight =
            IF i \in Prevoted(w) THEN infos[i].prevoteWeight + f[gen]
            ELSE infos[i].prevoteWeight
      /\ z.blockBFTInfos[i].precommitWeight =
            IF i \in Precommitted(w) THEN infos[i].precommitWeight + f[gen]
            ELSE infos[i].precommitWeight
  BY ZenonT(40), <1>1 DEF Updated, GeneratorWeight
<1>7. /\ i \in Prevoted(w) => gen \in DOMAIN f /\ <<gen, h>> \notin prevotes
      /\ i \in Precommitted(w) => gen \in DOMAIN f /\ <<gen, h>> \notin precommits
  BY ZenonT(40), NewVotersAreValidators, PrevotesAreFresh, PrecommitsAreFresh
<1>8. \A a \in Validators :
         /\ <<a, h>> \in prevotes' <=>
               <<a, h>> \in prevotes \/ (i \in Prevoted(w) /\ a = gen)
         /\ <<a, h>> \in precommits' <=>
               <<a, h>> \in precommits \/ (i \in Precommitted(w) /\ a = gen)
  BY ZenonT(40), VotesAfter
<1>9. IsWeights(f)
  BY <1>2, <1>4, AtType DEF IsBFTParams
<1>10. SumFunctionOnSet(f, VotersOf(prevotes', h)) =
          IF i \in Prevoted(w) THEN infos[i].prevoteWeight + f[gen]
          ELSE infos[i].prevoteWeight
  <2> HIDE DEF gen, h, f
  <2>1. VotersOf(prevotes, h) \subseteq DOMAIN f
    BY <1>5
  <2>2. CASE i \in Prevoted(w)
    <3>1. VotersOf(prevotes', h) = VotersOf(prevotes, h) \cup {gen}
      BY ZenonT(40), <1>1, <1>8, <2>2 DEF VotersOf
    <3>2. gen \in DOMAIN f /\ gen \notin VotersOf(prevotes, h)
      BY <1>7, <2>2 DEF VotersOf
    <3> QED
      BY <1>5, <1>9, <2>1, <2>2, <3>1, <3>2, WeightAdded
  <2>3. CASE i \notin Prevoted(w)
    <3>1. VotersOf(prevotes', h) = VotersOf(prevotes, h)
      BY <1>8, <2>3 DEF VotersOf
    <3> QED
      BY ZenonT(40), <1>5, <2>3, <3>1
  <2> QED
    BY ZenonT(40), <2>2, <2>3
<1>11. SumFunctionOnSet(f, VotersOf(precommits', h)) =
          IF i \in Precommitted(w) THEN infos[i].precommitWeight + f[gen]
          ELSE infos[i].precommitWeight
  <2> HIDE DEF gen, h, f
  <2>1. VotersOf(precommits, h) \subseteq DOMAIN f
    BY <1>5
  <2>2. CASE i \in Precommitted(w)
    <3>1. VotersOf(precommits', h) = VotersOf(precommits, h) \cup {gen}
      BY ZenonT(40), <1>1, <1>8, <2>2 DEF VotersOf
    <3>2. gen \in DOMAIN f /\ gen \notin VotersOf(precommits, h)
      BY <1>7, <2>2 DEF VotersOf
    <3> QED
      BY <1>5, <1>9, <2>1, <2>2, <3>1, <3>2, WeightAdded
  <2>3. CASE i \notin Precommitted(w)
    <3>1. VotersOf(precommits', h) = VotersOf(precommits, h)
      BY <1>8, <2>3 DEF VotersOf
    <3> QED
      BY ZenonT(40), <1>5, <2>3, <3>1
  <2> QED
    BY ZenonT(40), <2>2, <2>3
<1> QED
  BY ZenonT(40), <1>6, <1>10, <1>11

\* The generator's older blocks have left their prevotes.
LEMMA BlockOwnBlocks ==
    ASSUME VotersInv, NEW header, NEW w, NEW z, Block(header, w, z), ImpliesVotes(w)
    PROVE  OwnBlocksPrevoted(w, prevotes)
<1> DEFINE infos == w.blockBFTInfos
           old == bftVotes.blockBFTInfos
           gen == infos[1].generatorAddress
           active == w.activeValidatorsVoteInfo
<1>1. Len(infos) \in Nat
  BY ZenonT(40), BlockFacts
<1>2. active = bftVotes.activeValidatorsVoteInfo
  BY ZenonT(40), InsertedWindow DEF VotersInv, Block, Executable
<1>3. gen \in DOMAIN active
  BY DEF ImpliesVotes
<1> SUFFICES ASSUME NEW i \in 2 .. Len(infos), NEW j \in 2 .. Len(infos),
                    i <= j, infos[i].generatorAddress = gen,
                    infos[j].height > infos[i].maxHeightGenerated,
                    infos[j].height >= active[gen].minActiveHeight
             PROVE  <<gen, infos[j].height>> \in prevotes
  BY ZenonT(40) DEF OwnBlocksPrevoted
<1>4. /\ i - 1 \in DOMAIN old /\ infos[i] = old[i - 1]
      /\ j - 1 \in DOMAIN old /\ infos[j] = old[j - 1]
  BY ZenonT(40), OlderBlocks
<1>5. i - 1 <= j - 1
  BY <1>1
<1>6. BlocksHavePrevotes(bftVotes, prevotes)
  BY DEF VotersInv
<1> QED
  BY ZenonT(40), <1>2, <1>3, <1>4, <1>5, <1>6 DEF BlocksHavePrevotes

\* Precommits are of prevoted blocks.
LEMMA BlockPrecommittersPrevoted ==
    ASSUME VotersInv, NEW header, NEW w, NEW z, Block(header, w, z)
    PROVE  precommits' \subseteq prevotes'
<1> DEFINE infos == w.blockBFTInfos
           gen == infos[1].generatorAddress
<1>0. IsBFTVotes(w) /\ WindowContiguous(w) /\ Len(infos) >= 1
  BY ZenonT(40), BlockFacts
<1>1. /\ IsBFTVotes(w) /\ WindowContiguous(w) /\ Len(infos) >= 1
      /\ prevotes' = prevotes \cup {<<gen, infos[i].height>> : i \in Prevoted(w)}
      /\ precommits' = precommits \cup {<<gen, infos[i].height>> : i \in Precommitted(w)}
  BY <1>0, BlockVotes
<1>2. precommits \subseteq prevotes
  BY DEF VotersInv, PrecommittersPrevoted
<1>3. ASSUME NEW i \in Precommitted(w)
      PROVE  <<gen, infos[i].height>> \in prevotes'
  <2>1. ImpliesVotes(w)
    BY ZenonT(40), <1>1, PrecommittedPositions
  <2>2. i \in Prevoted(w) \/ <<gen, infos[i].height>> \in prevotes
    BY ZenonT(40), <1>1, <2>1, BlockOwnBlocks, PrecommittedArePrevoted
  <2> QED
    BY ZenonT(40), <1>1, <2>2
<1> QED
  BY ZenonT(40), <1>1, <1>2, <1>3

\* largestHeightPrecommit only grows, and covers the new precommits.
LEMMA BlockLargestPrecommit ==
    ASSUME VotersInv, NEW header, NEW w, NEW z, Block(header, w, z),
           NEW a \in DOMAIN z.activeValidatorsVoteInfo
    PROVE  LET gen == w.blockBFTInfos[1].generatorAddress
               l == z.activeValidatorsVoteInfo[a].largestHeightPrecommit
           IN  /\ a \in DOMAIN bftVotes.activeValidatorsVoteInfo
               /\ bftVotes.activeValidatorsVoteInfo[a].largestHeightPrecommit \in Nat
               /\ l \in Nat
               /\ bftVotes.activeValidatorsVoteInfo[a].largestHeightPrecommit <= l
               /\ a = gen => \A i \in Precommitted(w) : w.blockBFTInfos[i].height <= l
<1> DEFINE infos == w.blockBFTInfos
           gen == infos[1].generatorAddress
           active == w.activeValidatorsVoteInfo
           P == Precommitted(w)
           l == z.activeValidatorsVoteInfo[a].largestHeightPrecommit
           k == active[a].largestHeightPrecommit
<1>1. /\ IsBFTVotes(w) /\ WindowContiguous(w) /\ Len(infos) >= 1
      /\ Updated(z, w) /\ IsBFTVotes(z)
  BY ZenonT(40), BlockFacts
<1>2. active = bftVotes.activeValidatorsVoteInfo
  BY ZenonT(40), InsertedWindow DEF VotersInv, Block, Executable
<1>3. a \in DOMAIN active /\ l = IF a = gen /\ P # {} THEN infos[Min(P)].height ELSE k
  BY ZenonT(40), <1>1 DEF Updated
<1>4. l \in Nat /\ k \in Nat
  BY ZenonT(40), <1>1, <1>3, ActiveTypes
<1>5. P \subseteq 1 .. Len(infos)
      /\ \A i, j \in 1 .. Len(infos) : j <= i => infos[i].height <= infos[j].height
  BY <1>1, PositionTypes
<1>6. CASE a = gen /\ P # {}
  <2> DEFINE m == Min(P)
  <2>1. m \in P /\ \A i \in P : m <= i
    <3>1. P \subseteq Nat
      BY <1>5
    <3> HIDE DEF P
    <3> QED
      BY ZenonT(40), <1>6, <3>1, MinOfNaturals
  <2>2. \A i \in P : infos[i].height <= infos[m].height
    BY <1>5, <2>1
  <2>3. infos[m].height > k
    BY ZenonT(40), <1>1, <1>6, <2>1, PrecommittedPositions
  <2>4. k <= l
    <3> HIDE DEF k, l
    <3> QED
      BY ZenonT(40), <1>3, <1>4, <1>6, <2>3, OrderFacts
  <2> QED
    BY ZenonT(40), <1>2, <1>3, <1>4, <1>6, <2>2, <2>4
<1>7. CASE ~ (a = gen /\ P # {})
  BY <1>2, <1>3, <1>4, <1>7
<1> QED
  BY ZenonT(40), <1>6, <1>7

\* The bounds of the votes move with the chain.
LEMMA BlockWithinBounds ==
    ASSUME VotersInv, NEW header, NEW w, NEW z, Block(header, w, z)
    PROVE  VotesWithinBounds(z, prevotes', precommits')
<1> DEFINE infos == w.blockBFTInfos
           gen == infos[1].generatorAddress
           cur == CurrentHeight(bftVotes)
<1>1. /\ IsBFTVotes(w) /\ WindowContiguous(w) /\ Len(infos) >= 1
      /\ Len(infos) \in Nat /\ cur \in Nat
      /\ infos[1].height = cur + 1
      /\ infos[1].maxHeightPrevoted = bftVotes.maxHeightPrevoted
      /\ Updated(z, w) /\ IsBFTVotes(z)
      /\ DOMAIN z.blockBFTInfos = 1 .. Len(infos)
      /\ CurrentHeight(z) = cur + 1
      /\ z.maxHeightPrevoted >= bftVotes.maxHeightPrevoted
  BY ZenonT(40), BlockFacts
<1>7. /\ prevotes' = prevotes \cup {<<gen, infos[i].height>> : i \in Prevoted(w)}
      /\ precommits' = precommits \cup {<<gen, infos[i].height>> : i \in Precommitted(w)}
  BY BlockVotes
<1>2. /\ Prevoted(w) \subseteq 1 .. Len(infos)
      /\ Precommitted(w) \subseteq 1 .. Len(infos)
      /\ \A i \in 1 .. Len(infos) : infos[i].height <= cur + 1
  <2>1. 1 \in 1 .. Len(infos) /\ \A i \in 1 .. Len(infos) : 1 <= i
    BY <1>1
  <2>2. \A i \in 1 .. Len(infos) : infos[i].height <= infos[1].height
    BY ZenonT(40), <1>1, <2>1, PositionTypes
  <2>3. Prevoted(w) \subseteq 1 .. Len(infos) /\ Precommitted(w) \subseteq 1 .. Len(infos)
    BY ZenonT(40), <1>1, PositionTypes
  <2> HIDE DEF cur, infos
  <2> QED
    BY ZenonT(40), <1>1, <2>2, <2>3
<1>3. /\ VotesWithinBounds(bftVotes, prevotes, precommits)
      /\ prevotes \subseteq Validators \X Nat /\ precommits \subseteq Validators \X Nat
      /\ IsBFTVotes(bftVotes)
  BY DEF VotersInv, VotesInv, TypeOK
<1>4. ASSUME NEW x \in prevotes' \cup precommits'
      PROVE  x[2] <= cur + 1
  <2>1. CASE x \in prevotes \cup precommits
    <3>1. x[2] <= cur /\ x[2] \in Nat
      BY <1>3, <2>1 DEF VotesWithinBounds
    <3> HIDE DEF cur
    <3> QED
      BY <1>1, <3>1
  <2>2. CASE x \notin prevotes \cup precommits
    <3>1. PICK i \in 1 .. Len(infos) : x = <<gen, infos[i].height>>
      BY ZenonT(40), <1>2, <1>4, <1>7, <2>2
    <3> QED
      BY <1>2, <3>1
  <2> QED
    BY <2>1, <2>2
<1>5. ASSUME NEW i \in 1 .. Len(infos)
      PROVE  z.blockBFTInfos[i].maxHeightPrevoted <= z.maxHeightPrevoted
  <2> DEFINE y == infos[i].maxHeightPrevoted
  <2>1. z.blockBFTInfos[i].maxHeightPrevoted = y
    BY ZenonT(40), <1>1 DEF Updated
  <2>2. /\ y \in Nat /\ z.maxHeightPrevoted \in Nat
        /\ bftVotes.maxHeightPrevoted \in Nat
    BY ZenonT(40), <1>1, <1>3, InfoTypes, VotesTypeFacts
  <2>3. y <= bftVotes.maxHeightPrevoted
    <3>1. CASE i = 1
      BY <1>1, <2>2, <3>1
    <3>2. CASE i # 1
      <4>1. i \in 2 .. Len(infos)
        BY <1>1, <3>2
      <4> QED
        BY <1>3, <4>1, OlderBlocks DEF VotesWithinBounds
    <3> QED
      BY <3>1, <3>2
  <2> HIDE DEF y
  <2> QED
    BY <1>1, <2>1, <2>2, <2>3
<1>6. ASSUME NEW x \in precommits', x[1] \in DOMAIN z.activeValidatorsVoteInfo
      PROVE  x[2] <= z.activeValidatorsVoteInfo[x[1]].largestHeightPrecommit
  <2> DEFINE a == x[1]
             l == z.activeValidatorsVoteInfo[a].largestHeightPrecommit
             k == bftVotes.activeValidatorsVoteInfo[a].largestHeightPrecommit
  <2>1. /\ a \in DOMAIN bftVotes.activeValidatorsVoteInfo
        /\ k \in Nat /\ l \in Nat /\ k <= l
        /\ a = gen => \A i \in Precommitted(w) : infos[i].height <= l
    BY ZenonT(40), <1>6, BlockLargestPrecommit
  <2>2. CASE x \in precommits
    <3>1. x[2] <= k /\ x[2] \in Nat
      BY ZenonT(40), <1>3, <2>1, <2>2 DEF VotesWithinBounds
    <3> HIDE DEF k, l
    <3> QED
      BY <2>1, <3>1 DEF l
  <2>3. CASE x \notin precommits
    <3>1. PICK i \in Precommitted(w) : x = <<gen, infos[i].height>>
      BY ZenonT(40), <1>6, <1>7, <2>3
    <3>2. a = gen /\ x[2] = infos[i].height
      BY <3>1
    <3> QED
      BY ZenonT(40), <2>1, <3>1, <3>2
  <2> QED
    BY <2>2, <2>3
<1> QED
  BY ZenonT(40), <1>1, <1>4, <1>5, <1>6 DEF VotesWithinBounds

\* A prevote has a block of the prevoter above it.
LEMMA BlockPrevotesHaveBlocks ==
    ASSUME VotersInv, NEW header, NEW w, NEW z, Block(header, w, z)
    PROVE  PrevotesHaveBlocks(z, bftParams, prevotes')
<1> DEFINE infos == w.blockBFTInfos
           old == bftVotes.blockBFTInfos
           gen == infos[1].generatorAddress
<1>1. /\ Updated(z, w) /\ DOMAIN z.blockBFTInfos = 1 .. Len(infos)
      /\ Len(infos) \in Nat
  BY ZenonT(40), BlockFacts
<1>2. \A i \in 1 .. Len(infos) :
         /\ z.blockBFTInfos[i].generatorAddress = infos[i].generatorAddress
         /\ z.blockBFTInfos[i].height = infos[i].height
  BY ZenonT(40), <1>1 DEF Updated
<1>3. PrevotesHaveBlocks(bftVotes, bftParams, prevotes)
  BY DEF VotersInv
<1>4. ASSUME NEW j \in 1 .. Len(infos), NEW a \in Validators,
             <<a, infos[j].height>> \in prevotes'
      PROVE  /\ \E i \in 1 .. j : infos[i].generatorAddress = a
             /\ a \in DOMAIN At(bftParams, infos[j].height).validators
  <2>1. \/ <<a, infos[j].height>> \in prevotes
        \/ j \in Prevoted(w) /\ a = gen
    BY ZenonT(40), <1>4, VotesAfter
  <2>2. CASE <<a, infos[j].height>> \in prevotes
    <3>1. j # 1
      BY <2>2, NewHeightHasNoVotes
    <3>2. j \in 2 .. Len(infos)
      BY <1>1, <3>1
    <3>3. j - 1 \in DOMAIN old /\ infos[j] = old[j - 1]
      BY <3>2, OlderBlocks
    <3>4. /\ \E i \in 1 .. j - 1 : old[i].generatorAddress = a
          /\ a \in DOMAIN At(bftParams, infos[j].height).validators
      BY ZenonT(40), <1>3, <2>2, <3>3 DEF PrevotesHaveBlocks
    <3>5. PICK i \in 1 .. j - 1 : old[i].generatorAddress = a
      BY <3>4
    <3>6. i + 1 \in 2 .. Len(infos) /\ i + 1 \in 1 .. j /\ i + 1 - 1 = i
      BY <1>1, <3>2
    <3>7. infos[i + 1] = old[i]
      <4>1. infos[i + 1] = old[i + 1 - 1]
        BY <3>6, OlderBlocks
      <4> QED
        BY <3>6, <4>1
    <3> QED
      BY ZenonT(40), <3>4, <3>5, <3>6, <3>7
  <2>3. CASE j \in Prevoted(w) /\ a = gen
    <3>1. 1 \in 1 .. j
      BY <1>1
    <3> QED
      BY ZenonT(40), <2>3, <3>1, NewVotersAreValidators
  <2> QED
    BY ZenonT(40), <2>1, <2>2, <2>3
<1>5. \A j \in 1 .. Len(infos) : \A i \in 1 .. j : i \in 1 .. Len(infos)
  BY <1>1
<1> QED
  BY <1>1, <1>2, <1>4, <1>5 DEF PrevotesHaveBlocks

\* A block of an active validator has left its prevotes.
LEMMA BlockBlocksHavePrevotes ==
    ASSUME VotersInv, NEW header, NEW w, NEW z, Block(header, w, z)
    PROVE  BlocksHavePrevotes(z, prevotes')
<1> DEFINE infos == w.blockBFTInfos
           old == bftVotes.blockBFTInfos
           gen == infos[1].generatorAddress
           active == w.activeValidatorsVoteInfo
<1>1. /\ Updated(z, w) /\ DOMAIN z.blockBFTInfos = 1 .. Len(infos)
      /\ Len(infos) \in Nat /\ IsBFTVotes(w) /\ WindowContiguous(w)
      /\ Len(infos) >= 1
  BY ZenonT(40), BlockFacts
<1>8. prevotes' = prevotes \cup {<<gen, infos[i].height>> : i \in Prevoted(w)}
  BY BlockVotes
<1>2. \A i \in 1 .. Len(infos) :
         /\ z.blockBFTInfos[i].generatorAddress = infos[i].generatorAddress
         /\ z.blockBFTInfos[i].height = infos[i].height
         /\ z.blockBFTInfos[i].maxHeightGenerated = infos[i].maxHeightGenerated
  BY ZenonT(40), <1>1 DEF Updated
<1>3. /\ DOMAIN z.activeValidatorsVoteInfo = DOMAIN active
      /\ \A a \in DOMAIN active :
            z.activeValidatorsVoteInfo[a].minActiveHeight = active[a].minActiveHeight
  BY ZenonT(40), <1>1 DEF Updated
<1>4. active = bftVotes.activeValidatorsVoteInfo
  BY ZenonT(40), InsertedWindow DEF VotersInv, Block, Executable
<1>5. ASSUME NEW i \in 1 .. Len(infos), NEW j \in 1 .. Len(infos), i <= j,
             infos[i].generatorAddress \in DOMAIN active,
             infos[j].height > infos[i].maxHeightGenerated,
             infos[j].height >=
                 active[infos[i].generatorAddress].minActiveHeight
      PROVE  <<infos[i].generatorAddress, infos[j].height>> \in prevotes'
  <2>1. CASE i = 1
    <3>1. j \in Prevoted(w)
      BY ZenonT(40), <1>1, <1>5, <2>1, PrevotedPositions
    <3> QED
      BY ZenonT(40), <1>8, <2>1, <3>1
  <2>2. CASE i # 1
    <3>1. i \in 2 .. Len(infos) /\ j \in 2 .. Len(infos) /\ i - 1 <= j - 1
      BY <1>1, <1>5, <2>2
    <3>2. /\ i - 1 \in DOMAIN old /\ infos[i] = old[i - 1]
          /\ j - 1 \in DOMAIN old /\ infos[j] = old[j - 1]
      BY <3>1, OlderBlocks
    <3>3. BlocksHavePrevotes(bftVotes, prevotes)
      BY DEF VotersInv
    <3>4. <<infos[i].generatorAddress, infos[j].height>> \in prevotes
      BY ZenonT(40), <1>4, <1>5, <3>1, <3>2, <3>3 DEF BlocksHavePrevotes
    <3> QED
      BY ZenonT(40), <1>8, <3>4
  <2> QED
    BY <2>1, <2>2
<1> DEFINE zs == z.blockBFTInfos
           za == z.activeValidatorsVoteInfo
<1>6. ASSUME NEW i \in DOMAIN zs, NEW j \in DOMAIN zs, i <= j,
             zs[i].generatorAddress \in DOMAIN za,
             zs[j].height > zs[i].maxHeightGenerated,
             zs[j].height >= za[zs[i].generatorAddress].minActiveHeight
      PROVE  <<zs[i].generatorAddress, zs[j].height>> \in prevotes'
  <2>1. i \in 1 .. Len(infos) /\ j \in 1 .. Len(infos)
    BY <1>1
  <2>2. /\ zs[i].generatorAddress = infos[i].generatorAddress
        /\ zs[i].maxHeightGenerated = infos[i].maxHeightGenerated
        /\ zs[j].height = infos[j].height
    BY ZenonT(40), <1>2, <2>1
  <2>3. /\ infos[i].generatorAddress \in DOMAIN active
        /\ za[infos[i].generatorAddress].minActiveHeight
               = active[infos[i].generatorAddress].minActiveHeight
    BY ZenonT(40), <1>3, <1>6, <2>2
  <2> QED
    BY ZenonT(40), <1>5, <1>6, <2>1, <2>2, <2>3
<1> QED
  BY ZenonT(40), <1>6 DEF BlocksHavePrevotes

\* A height above all keys has the parameters of the last one.
LEMMA AtAboveKeys ==
    ASSUME NEW store, IsStore(store), NEW n \in Nat, ExistsAt(store, n),
           \A k \in DOMAIN store : k <= n
    PROVE  ExistsAt(store, n + 1) /\ At(store, n + 1) = At(store, n)
<1>1. KeysUpTo(store, n + 1) = KeysUpTo(store, n)
  BY DEF KeysUpTo, IsStore
<1> QED
  BY <1>1 DEF ExistsAt, At

\* The active validators are those of the height after the block too, as long
\* as no parameters are set.
LEMMA BlockActive ==
    ASSUME VotersInv, NEW header, NEW w, NEW z, Block(header, w, z)
    PROVE  ActiveAreValidators(z, bftParams)
<1> DEFINE active == bftVotes.activeValidatorsVoteInfo
           cur == CurrentHeight(bftVotes)
<1>1. /\ Updated(z, w) /\ CurrentHeight(z) = cur + 1 /\ cur \in Nat
      /\ NeededFrom(z) \in Nat /\ NeededFrom(bftVotes) \in Nat
      /\ NeededFrom(z) >= NeededFrom(bftVotes)
  BY ZenonT(40), BlockFacts
<1>2. w.activeValidatorsVoteInfo = active
  BY ZenonT(40), InsertedWindow DEF VotersInv, Block, Executable
<1>3. /\ DOMAIN z.activeValidatorsVoteInfo = DOMAIN active
      /\ \A a \in DOMAIN active :
            z.activeValidatorsVoteInfo[a].minActiveHeight = active[a].minActiveHeight
  BY ZenonT(40), <1>1, <1>2 DEF Updated
<1>4. /\ IsStore(bftParams) /\ VotesInv
      /\ \A k \in DOMAIN bftParams : k <= cur + 1
      /\ ActiveAreValidators(bftVotes, bftParams)
  BY ZenonT(40) DEF VotersInv, VotesInv, TypeOK, ParamsInWindow
<1>5. NeededFrom(bftVotes) <= cur + 1 /\ cur + 1 \in Nat
      /\ ExistsAt(bftParams, cur + 1)
  BY <1>1, <1>4, NeededBelowWindow
<1>6. At(bftParams, (cur + 1) + 1) = At(bftParams, cur + 1)
  BY ZenonT(40), <1>4, <1>5, AtAboveKeys
<1> DEFINE next == cur + 1
<1>7. next \in Nat /\ CurrentHeight(z) = next
      /\ At(bftParams, next + 1) = At(bftParams, next)
      /\ DOMAIN active = DOMAIN At(bftParams, next).validators
      /\ \A a \in DOMAIN active, h \in NeededFrom(bftVotes) .. next :
            h >= active[a].minActiveHeight => a \in DOMAIN At(bftParams, h).validators
  BY ZenonT(40), <1>1, <1>4, <1>5, <1>6 DEF ActiveAreValidators
<1> HIDE DEF next, active
<1>8. ASSUME NEW a \in DOMAIN active, NEW h \in NeededFrom(z) .. next + 1,
             h >= active[a].minActiveHeight
      PROVE  a \in DOMAIN At(bftParams, h).validators
  <2>1. CASE h = next + 1
    BY <1>7, <2>1
  <2>2. CASE h # next + 1
    <3>1. h \in NeededFrom(bftVotes) .. next
      BY <1>1, <1>7, <2>2
    <3> QED
      BY ZenonT(40), <1>7, <1>8, <3>1
  <2> QED
    BY <2>1, <2>2
<1> QED
  BY ZenonT(40), <1>3, <1>7, <1>8 DEF ActiveAreValidators

\* One block keeps all parts.
LEMMA BlockSound ==
    ASSUME VotersInv, NEW header, NEW w, NEW z, Block(header, w, z)
    PROVE  VotersSound(z, bftParams, prevotes', precommits')
BY ZenonT(40), BlockCountedOnce, BlockPrecommittersPrevoted, BlockWithinBounds, BlockActive,
   BlockPrevotesHaveBlocks, BlockBlocksHavePrevotes DEF VotersSound

-----------------------------------------------------------------------------
(* The stores after the block.                                             *)

\* x has the blocks of z and an active validator of x is one of z or starts at
\* the next height.
ActiveContinues(x, z) ==
    LET next == CurrentHeight(z) + 1
        active == x.activeValidatorsVoteInfo
        old == z.activeValidatorsVoteInfo
    IN  \A a \in DOMAIN active :
            \/ a \in DOMAIN old /\ active[a] = old[a]
            \/ active[a].minActiveHeight = next
               /\ active[a].largestHeightPrecommit = next - 1

\* The heights of a window are needed ones.
LEMMA NeededAtMostWindow ==
    ASSUME NEW z, IsBFTVotes(z), WindowContiguous(z), Len(z.blockBFTInfos) >= 1,
           NEW i \in 1 .. Len(z.blockBFTInfos)
    PROVE  /\ z.blockBFTInfos[i].height \in Nat
           /\ NeededFrom(z) <= z.blockBFTInfos[i].height
           /\ z.blockBFTInfos[i].height <= CurrentHeight(z)
<1> DEFINE n == Len(z.blockBFTInfos)
           cur == CurrentHeight(z)
           hn == z.blockBFTInfos[n].height
           hi == z.blockBFTInfos[i].height
<1>1. /\ n \in Nat /\ DOMAIN z.blockBFTInfos = 1 .. n /\ cur \in Nat
      /\ \A k \in 1 .. n : z.blockBFTInfos[k].height \in Nat
      /\ z.maxHeightCertified \in Nat
  BY VotesTypeFacts
<1>2. n \in 1 .. n
  BY <1>1
<1>3. NeededFrom(z) <= hn
  BY <1>1, <1>2 DEF NeededFrom, MinHeightBFTParamsRequired
<1>4. hn = cur - (n - 1) /\ hi = cur - (i - 1) /\ hi \in Nat
  BY Zenon, <1>1, <1>2 DEF WindowContiguous
<1>5. NeededFrom(z) \in Int
  BY <1>1, <1>2 DEF NeededFrom, MinHeightBFTParamsRequired
<1>6. i \in 1 .. n
  OBVIOUS
<1> DEFINE needed == NeededFrom(z)
<1>7. needed <= hn /\ needed \in Int /\ n \in Nat /\ cur \in Nat
  BY ZenonT(40), <1>1, <1>3, <1>5
<1> HIDE DEF n, cur, hn, hi, needed
<1>8. needed <= hi /\ hi <= cur /\ hi \in Nat
  BY <1>4, <1>6, <1>7
<1> QED
  BY <1>8 DEF hi, cur, needed

\* What is sound of z with a store s is sound of x with a store e that agrees
\* with s on the needed heights.
LEMMA VotersElsewhere ==
    ASSUME NEW z, NEW x, NEW s, NEW e, NEW pre, NEW com,
           IsBFTVotes(z), WindowContiguous(z), Len(z.blockBFTInfos) >= 1,
           VotersSound(z, s, pre, com),
           x.blockBFTInfos = z.blockBFTInfos,
           x.maxHeightPrevoted = z.maxHeightPrevoted,
           x.maxHeightCertified = z.maxHeightCertified,
           ActiveContinues(x, z),
           \A h \in Nat : NeededFrom(z) <= h /\ h <= CurrentHeight(z) =>
               At(e, h) = At(s, h),
           ActiveAreValidators(x, e)
    PROVE  VotersSound(x, e, pre, com)
<1> DEFINE infos == z.blockBFTInfos
           n == Len(infos)
           cur == CurrentHeight(z)
           next == cur + 1
           active == x.activeValidatorsVoteInfo
           old == z.activeValidatorsVoteInfo
<1>1. n \in Nat /\ DOMAIN infos = 1 .. n /\ cur \in Nat /\ n >= 1
  BY VotesTypeFacts
<1>2. CurrentHeight(x) = cur
  BY DEF CurrentHeight
<1>3. \A i \in 1 .. n : /\ infos[i].height \in Nat
                        /\ NeededFrom(z) <= infos[i].height
                        /\ infos[i].height <= cur
  BY ZenonT(40), <1>1, NeededAtMostWindow
<1>4. \A i \in 1 .. n : At(e, infos[i].height) = At(s, infos[i].height)
  BY <1>3
<1>5. CountedOnce(x, e, pre, com)
  BY ZenonT(40), <1>1, <1>4 DEF VotersSound, CountedOnce
<1>6. VotesWithinBounds(x, pre, com)
  <2>1. VotesWithinBounds(z, pre, com)
    BY DEF VotersSound
  <2>2. ASSUME NEW y \in com, y[1] \in DOMAIN active
        PROVE  y[2] <= active[y[1]].largestHeightPrecommit
    <3>1. CASE y[1] \in DOMAIN old /\ active[y[1]] = old[y[1]]
      BY ZenonT(40), <2>1, <2>2, <3>1 DEF VotesWithinBounds
    <3>2. CASE active[y[1]].largestHeightPrecommit = next - 1
      <4>1. y[2] <= cur
        BY ZenonT(40), <2>1, <2>2 DEF VotesWithinBounds
      <4>2. next - 1 = cur
        BY ZenonT(40), <1>1, OrderFacts
      <4> QED
        BY ZenonT(40), <3>2, <4>1, <4>2
    <3> QED
      BY ZenonT(40), <2>2, <3>1, <3>2 DEF ActiveContinues
  <2> QED
    BY ZenonT(40), <1>2, <2>1, <2>2 DEF VotesWithinBounds
<1>7. PrevotesHaveBlocks(x, e, pre)
  <2>1. PrevotesHaveBlocks(z, s, pre)
    BY ZenonT(40) DEF VotersSound
  <2>2. ASSUME NEW j \in DOMAIN x.blockBFTInfos, NEW a \in Validators,
               <<a, x.blockBFTInfos[j].height>> \in pre
        PROVE  /\ \E i \in 1 .. j : x.blockBFTInfos[i].generatorAddress = a
               /\ a \in DOMAIN At(e, x.blockBFTInfos[j].height).validators
    <3>1. j \in 1 .. n /\ <<a, infos[j].height>> \in pre
      BY ZenonT(40), <1>1, <2>2
    <3>2. /\ \E i \in 1 .. j : infos[i].generatorAddress = a
          /\ a \in DOMAIN At(s, infos[j].height).validators
      BY ZenonT(40), <1>1, <2>1, <3>1 DEF PrevotesHaveBlocks
    <3> QED
      BY ZenonT(40), <1>4, <3>1, <3>2
  <2> QED
    BY ZenonT(40), <2>2 DEF PrevotesHaveBlocks
<1>8. BlocksHavePrevotes(x, pre)
  <2> SUFFICES ASSUME NEW i \in 1 .. n, NEW j \in 1 .. n, i <= j,
                      infos[i].generatorAddress \in DOMAIN active,
                      infos[j].height > infos[i].maxHeightGenerated,
                      infos[j].height >=
                          active[infos[i].generatorAddress].minActiveHeight
               PROVE  <<infos[i].generatorAddress, infos[j].height>> \in pre
    BY ZenonT(40), <1>1 DEF BlocksHavePrevotes
  <2> DEFINE a == infos[i].generatorAddress
             h == infos[j].height
  <2>1. ~ (active[a].minActiveHeight = next)
    <3>1. h \in Nat /\ h <= cur
      BY ZenonT(40), <1>3
    <3>2. ~ (h >= next)
      <4> HIDE DEF h, cur
      <4> QED
        BY ZenonT(40), <1>1, <3>1, OrderFacts
    <3> QED
      BY ZenonT(40), <3>2
  <2>2. a \in DOMAIN old /\ active[a] = old[a]
    BY ZenonT(40), <2>1 DEF ActiveContinues
  <2> QED
    BY ZenonT(40), <1>1, <2>2 DEF VotersSound, BlocksHavePrevotes
<1> QED
  BY ZenonT(40), <1>5, <1>6, <1>7, <1>8 DEF VotersSound

\* SetBFTParameters: who stays keeps the vote info, who is new starts at the
\* next height.
LEMMA ActiveAfterSet ==
    ASSUME NEW z, IsBFTVotes(z), NEW d, NEW p
    PROVE  ActiveContinues(SetActiveValidators(z, d, p), z)
<1> DEFINE next == CurrentHeight(z) + 1
           old == z.activeValidatorsVoteInfo
           D == DOMAIN BFTValidatorsOf(p)
           new == [minActiveHeight |-> next, largestHeightPrecommit |-> next - 1]
           f == [a \in D |-> IF a \in DOMAIN old THEN old[a] ELSE new]
           x == SetActiveValidators(z, d, p)
<1>1. CASE SameParams(z, d, p)
  BY <1>1 DEF SetActiveValidators, ActiveContinues
<1>2. CASE ~ SameParams(z, d, p)
  <2>1. x = [z EXCEPT !.activeValidatorsVoteInfo = f]
    BY <1>2 DEF SetActiveValidators
  <2>2. x.activeValidatorsVoteInfo = f
    <3> HIDE DEF f, x
    <3> QED
      BY <2>1 DEF IsBFTVotes
  <2>3. /\ new.minActiveHeight = next
        /\ new.largestHeightPrecommit = next - 1
    OBVIOUS
  <2>4. /\ DOMAIN f = D
        /\ \A a \in D : f[a] = IF a \in DOMAIN old THEN old[a] ELSE new
    OBVIOUS
  <2> HIDE DEF D, new, f
  <2> QED
    BY ZenonT(40), <2>2, <2>3, <2>4 DEF ActiveContinues
<1> QED
  BY <1>1, <1>2

\* ... and the new active validators are those of the new parameters.
LEMMA ValidatorsAfterSet ==
    ASSUME NEW z, IsBFTVotes(z), NeededFrom(z) \in Nat, NEW d, IsParamsStore(d),
           \A k \in DOMAIN d : k <= CurrentHeight(z) + 1,
           \A h \in Nat : h >= NeededFrom(z) => ExistsAt(d, h),
           ActiveAreValidators(z, d),
           NEW p \in NextParams, ValidParams(p)
    PROVE  ActiveAreValidators(SetActiveValidators(z, d, p), SetBFTParameters(z, d, p))
<1> DEFINE cur == CurrentHeight(z)
           next == cur + 1
           old == z.activeValidatorsVoteInfo
           x == SetActiveValidators(z, d, p)
           e == SetBFTParameters(z, d, p)
           active == x.activeValidatorsVoteInfo
           D == DOMAIN BFTValidatorsOf(p)
<1>1. CASE SameParams(z, d, p)
  BY <1>1 DEF SetActiveValidators, SetBFTParameters
<1>2. CASE ~ SameParams(z, d, p)
  <2>1. cur \in Nat /\ next \in Nat /\ NeededFrom(z) \in Nat
    BY VotesTypeFacts
  <2>2. /\ x.blockBFTInfos = z.blockBFTInfos
        /\ x.maxHeightPrevoted = z.maxHeightPrevoted
        /\ x.maxHeightCertified = z.maxHeightCertified
    BY ActiveSet
  <2>3. CurrentHeight(x) = cur /\ NeededFrom(x) = NeededFrom(z)
    BY ZenonT(40), <2>2 DEF CurrentHeight, NeededFrom, MinHeightBFTParamsRequired
  <2>4. DOMAIN active = D
    <3> DEFINE f == [a \in D |-> IF a \in DOMAIN old THEN old[a]
                                 ELSE [minActiveHeight |-> next,
                                       largestHeightPrecommit |-> next - 1]]
    <3>1. x = [z EXCEPT !.activeValidatorsVoteInfo = f]
      BY <1>2 DEF SetActiveValidators
    <3>2. x.activeValidatorsVoteInfo = f
      <4> HIDE DEF f, x
      <4> QED
        BY <3>1 DEF IsBFTVotes
    <3>3. DOMAIN f = D
      OBVIOUS
    <3> QED
      BY ZenonT(40), <3>2, <3>3
  <2>5. At(e, next) = BFTParamsOf(p)
    <3>1. e = Put(d, next, BFTParamsOf(p))
      BY <1>2 DEF SetBFTParameters
    <3>2. IsStore(d)
      BY DEF IsParamsStore
    <3> HIDE DEF e, next
    <3> QED
      BY <2>1, <3>1, <3>2, AtPut DEF next
  <2>6. DOMAIN At(e, next).validators = D
    BY <2>5 DEF BFTParamsOf
  <2>7. \A h \in Nat : h <= cur /\ ExistsAt(d, h) => At(e, h) = At(d, h)
    BY ParamsSet
  <2>8. ActiveContinues(x, z)
    BY ActiveAfterSet
  <2> HIDE DEF x, e, D, active
  <2>9. ASSUME NEW a \in DOMAIN active, NEW h \in NeededFrom(z) .. next,
               h >= active[a].minActiveHeight
        PROVE  a \in DOMAIN At(e, h).validators
    <3>1. CASE h = next
      BY ZenonT(40), <2>4, <2>6, <3>1
    <3>2. CASE h # next
      <4>1. h \in Nat /\ h <= cur /\ NeededFrom(z) <= h /\ ~ (h >= next)
        BY <2>1, <3>2
      <4>2. a \in DOMAIN old /\ active[a] = old[a]
        BY ZenonT(40), <2>8, <2>9, <4>1 DEF ActiveContinues, active
      <4>3. a \in DOMAIN At(d, h).validators
        BY ZenonT(40), <2>9, <4>2 DEF ActiveAreValidators
      <4> QED
        BY ZenonT(40), <2>7, <4>1, <4>3
    <3> QED
      BY <3>1, <3>2
  <2> QED
    BY ZenonT(40), <2>3, <2>4, <2>6, <2>9 DEF ActiveAreValidators, active, x, e
<1> QED
  BY <1>1, <1>2

\* The active validators of a block do not depend on the parameters it deletes.
LEMMA ActiveAfterDelete ==
    ASSUME NEW z, IsBFTVotes(z), NeededFrom(z) \in Nat,
           NeededFrom(z) <= CurrentHeight(z), NEW s, NEW d,
           \A h \in Nat : h >= NeededFrom(z) => At(d, h) = At(s, h),
           ActiveAreValidators(z, s)
    PROVE  ActiveAreValidators(z, d)
<1>1. CurrentHeight(z) \in Nat
  BY VotesTypeFacts
<1>2. /\ CurrentHeight(z) + 1 \in Nat /\ CurrentHeight(z) + 1 >= NeededFrom(z)
      /\ \A h \in NeededFrom(z) .. CurrentHeight(z) + 1 :
            h \in Nat /\ h >= NeededFrom(z)
  BY <1>1
<1> QED
  BY <1>2 DEF ActiveAreValidators

-----------------------------------------------------------------------------
(* Init and Next.                                                          *)

\* A block that leaves the validators alone.
LEMMA ExecuteBlockVoters ==
    ASSUME VotersInv, NEW header, IsHeader(header), ExecuteBlock(header)
    PROVE  VotersInv'
<1> DEFINE w == InsertBlockBFTInfo(bftVotes, header)
           z == ApplyHeader(header)
           r == MinHeightBFTParamsRequired(z)
           d == DeleteUpTo(bftParams, r)
<1>1. /\ Executable(header) /\ RecordVotes(header)
      /\ bftVotes' = z /\ bftParams' = d
  BY DEF ExecuteBlock
<1>2. VotesInv /\ VotesInv'
  BY ExecuteBlockSound DEF VotersInv
<1>3. Block(header, w, z)
  BY <1>1 DEF Block
<1>4. VotersSound(z, bftParams, prevotes', precommits')
  BY <1>3, BlockSound
<1>5. /\ IsBFTVotes(z) /\ VotesSound(z, bftParams) /\ Len(z.blockBFTInfos) >= 1
      /\ NeededFrom(z) = r /\ r \in Nat /\ NeededFrom(bftVotes) \in Nat
      /\ r >= NeededFrom(bftVotes) /\ r <= CurrentHeight(z)
  BY ZenonT(40), <1>1, <1>2, ApplyHeaderSound
<1> HIDE DEF w, z, r, d
<1>6. \A h \in Nat : h >= NeededFrom(z) => At(d, h) = At(bftParams, h)
  BY ZenonT(40), <1>2, <1>5, ParamsKept DEF d
<1>7. ActiveAreValidators(z, d)
  BY ZenonT(40), <1>4, <1>5, <1>6, ActiveAfterDelete DEF VotersSound
<1>8. ActiveContinues(z, z) /\ WindowContiguous(z)
  BY <1>5 DEF ActiveContinues, VotesSound
<1>9. VotersSound(z, d, prevotes', precommits')
  BY ZenonT(40), <1>4, <1>5, <1>6, <1>7, <1>8, VotersElsewhere
<1> QED
  BY ZenonT(40), <1>1, <1>2, <1>9
  DEF VotersInv, VotersSound, CountedOnce, VotesCountedOnce, PrecommittersPrevoted

\* A block after which the application sets the validators.
LEMMA ExecuteBlockAndSetParamsVoters ==
    ASSUME VotersInv, NEW header, IsHeader(header), NEW p \in NextParams,
           ExecuteBlockAndSetParams(header, p)
    PROVE  VotersInv'
<1> DEFINE w == InsertBlockBFTInfo(bftVotes, header)
           z == ApplyHeader(header)
           r == MinHeightBFTParamsRequired(z)
           d == DeleteUpTo(bftParams, r)
           x == SetActiveValidators(z, d, p)
           e == SetBFTParameters(z, d, p)
<1>1. /\ Executable(header) /\ RecordVotes(header) /\ ValidParams(p)
      /\ bftVotes' = x /\ bftParams' = e
  BY DEF ExecuteBlockAndSetParams
<1>2. VotesInv /\ VotesInv'
  BY ExecuteBlockAndSetParamsSound DEF VotersInv
<1>3. Block(header, w, z)
  BY <1>1 DEF Block
<1>4. VotersSound(z, bftParams, prevotes', precommits')
  BY <1>3, BlockSound
<1>5. /\ IsBFTVotes(z) /\ VotesSound(z, bftParams) /\ Len(z.blockBFTInfos) >= 1
      /\ CurrentHeight(z) = CurrentHeight(bftVotes) + 1
      /\ NeededFrom(z) = r /\ r \in Nat /\ NeededFrom(bftVotes) \in Nat
      /\ r >= NeededFrom(bftVotes) /\ r <= CurrentHeight(z)
  BY ZenonT(40), <1>1, <1>2, ApplyHeaderSound
<1> HIDE DEF w, z, r, d, x, e
<1>6. /\ IsParamsStore(d)
      /\ \A k \in DOMAIN d : k <= CurrentHeight(bftVotes) + 1
      /\ \A h \in Nat : h >= NeededFrom(z) =>
            ExistsAt(d, h) /\ At(d, h) = At(bftParams, h)
  BY ZenonT(40), <1>2, <1>5, ParamsKept DEF d
<1>7. CurrentHeight(bftVotes) \in Nat /\ CurrentHeight(z) \in Nat
  BY ZenonT(40), <1>2, <1>5, VotesTypeFacts DEF VotesInv, TypeOK
<1>8. \A k \in DOMAIN d : k <= CurrentHeight(z) + 1
  BY <1>5, <1>6, <1>7 DEF IsParamsStore, IsStore
<1>9. ActiveAreValidators(z, d)
  BY ZenonT(40), <1>4, <1>5, <1>6, ActiveAfterDelete DEF VotersSound
<1>10. ActiveAreValidators(x, e)
  BY ZenonT(40), <1>1, <1>5, <1>6, <1>8, <1>9, ValidatorsAfterSet DEF x, e
<1>11. ActiveContinues(x, z) /\ WindowContiguous(z)
  BY <1>5, ActiveAfterSet DEF x, VotesSound
<1>12. /\ x.blockBFTInfos = z.blockBFTInfos
       /\ x.maxHeightPrevoted = z.maxHeightPrevoted
       /\ x.maxHeightCertified = z.maxHeightCertified
  BY <1>5, ActiveSet DEF x
<1>13. \A h \in Nat : NeededFrom(z) <= h /\ h <= CurrentHeight(z) =>
          At(e, h) = At(bftParams, h)
  <2>1. \A h \in Nat : h <= CurrentHeight(z) /\ ExistsAt(d, h) =>
           At(e, h) = At(d, h)
    BY <1>1, <1>5, <1>6, <1>8, ParamsSet DEF e
  <2> QED
    BY ZenonT(40), <1>5, <1>6, <2>1
<1>14. VotersSound(x, e, prevotes', precommits')
  BY ZenonT(40), <1>4, <1>5, <1>10, <1>11, <1>12, <1>13, VotersElsewhere
<1> QED
  BY ZenonT(40), <1>1, <1>2, <1>14
  DEF VotersInv, VotersSound, CountedOnce, VotesCountedOnce, PrecommittersPrevoted

\* After the genesis block.
LEMMA InitVotersInv == Init => VotersInv
<1> SUFFICES ASSUME Init PROVE VotersInv
  OBVIOUS
<1> DEFINE genesis == [maxHeightPrevoted        |-> GenesisHeight,
                       maxHeightPrecommited     |-> GenesisHeight,
                       maxHeightCertified       |-> GenesisHeight,
                       blockBFTInfos            |-> << >>,
                       activeValidatorsVoteInfo |-> << >>]
           p == GenesisParams
           next == GenesisHeight + 1
           D == DOMAIN BFTValidatorsOf(p)
           f == [a \in D |-> [minActiveHeight |-> next,
                              largestHeightPrecommit |-> next - 1]]
<1>1. /\ bftVotes = SetActiveValidators(genesis, << >>, p)
      /\ bftParams = SetBFTParameters(genesis, << >>, p)
      /\ prevotes = {} /\ precommits = {}
  BY DEF Init
<1>2. ~ SameParams(genesis, << >>, p) /\ CurrentHeight(genesis) = GenesisHeight
  BY DEF SameParams, ExistsAt, KeysUpTo, CurrentHeight
<1>3. bftVotes.activeValidatorsVoteInfo = f /\ bftVotes.blockBFTInfos = << >>
      /\ bftVotes.maxHeightPrevoted = GenesisHeight
      /\ bftVotes.maxHeightCertified = GenesisHeight
  BY <1>1, <1>2 DEF SetActiveValidators
<1>4. CurrentHeight(bftVotes) = GenesisHeight /\ NeededFrom(bftVotes) = next
      /\ next \in Nat
  BY <1>3, HeightsAssumption DEF CurrentHeight, NeededFrom
<1>5. At(bftParams, next) = BFTParamsOf(p)
  <2>1. bftParams = Put(<< >>, next, BFTParamsOf(p))
    BY <1>1, <1>2 DEF SetBFTParameters
  <2>2. IsStore(<< >>) /\ \A k \in DOMAIN << >> : k <= next
    BY DEF IsStore
  <2> HIDE DEF next
  <2> QED
    BY <1>4, <2>1, <2>2, AtPut
<1>6. ActiveAreValidators(bftVotes, bftParams)
  <2>1. DOMAIN At(bftParams, next).validators = D
    BY <1>5 DEF BFTParamsOf
  <2>2. DOMAIN f = D /\ \A h \in next .. next : h = next
    BY <1>4
  <2> HIDE DEF D, f, next
  <2> QED
    BY ZenonT(40), <1>3, <1>4, <2>1, <2>2 DEF ActiveAreValidators, next
<1>7. DOMAIN bftVotes.blockBFTInfos = {}
  BY <1>3
<1>8. VotersSound(bftVotes, bftParams, prevotes, precommits)
  BY ZenonT(40), <1>1, <1>6, <1>7
  DEF VotersSound, CountedOnce, VotesWithinBounds, PrevotesHaveBlocks,
      BlocksHavePrevotes
<1> QED
  BY ZenonT(40), <1>8, InitVotesInv, VotersInvParts

\* No step breaks the agreement of votes, claims and vote infos.
LEMMA NextVotersInv == VotersInv /\ [Next]_vars => VotersInv'
<1> SUFFICES ASSUME VotersInv, [Next]_vars PROVE VotersInv'
  OBVIOUS
<1>1. VotesInv /\ VotesInv'
  BY NextVotesInv DEF VotersInv
<1>2. CASE Next
  <2>1. PICK generator \in Validators, maxHeightGenerated \in ClaimedHeights,
             commit \in AggregateCommits :
           LET header == HeaderOnTop(generator, maxHeightGenerated, commit)
           IN  \/ ExecuteBlock(header)
               \/ \E p \in NextParams : ExecuteBlockAndSetParams(header, p)
    BY <1>2 DEF Next
  <2> DEFINE header == HeaderOnTop(generator, maxHeightGenerated, commit)
  <2>2. IsHeader(header)
    BY <1>1, HeadersOnTop
  <2> HIDE DEF header
  <2> QED
    BY ZenonT(40), <2>1, <2>2, ExecuteBlockVoters, ExecuteBlockAndSetParamsVoters DEF header
<1>3. CASE UNCHANGED vars
  <2>1. /\ bftVotes' = bftVotes /\ bftParams' = bftParams
        /\ prevotes' = prevotes /\ precommits' = precommits
    BY <1>3 DEF vars
  <2>2. VotersSound(bftVotes, bftParams, prevotes, precommits)
    BY VotersInvParts
  <2>3. VotersSound(bftVotes', bftParams', prevotes', precommits')
    BY <2>1, <2>2
  <2> QED
    BY ZenonT(40), <1>1, <2>3
    DEF VotersInv, VotersSound, CountedOnce, VotesCountedOnce, PrecommittersPrevoted
<1> QED
  BY <1>2, <1>3

-----------------------------------------------------------------------------
(* Theorems.                                                               *)

\* The recorded votes, the claims of the headers in the window and the vote
\* infos that updatePrevotesPrecommits writes agree after every sequence of
\* blocks.
THEOREM VotersInvariant == Spec => []VotersInv
<1> QED
  BY InitVotersInv, NextVotersInv, PTL DEF Spec

\* The weights of a block are those of the validators that voted for it, each
\* counted once, whatever maxHeightGenerated the headers claim.
THEOREM EachVoteCountedOnce == Spec => []VotesCountedOnce
<1>1. VotersInv => VotesCountedOnce
  BY DEF VotersInv
<1> QED
  BY <1>1, VotersInvariant, PTL

\* A validator precommits only heights it has prevoted (getHeightNotPrevoted).
THEOREM PrecommitsFollowPrevotes == Spec => []PrecommittersPrevoted
<1>1. VotersInv => PrecommittersPrevoted
  BY DEF VotersInv
<1> QED
  BY <1>1, VotersInvariant, PTL

\* BeforeTransactionsExecute raises no error for a header that verifyBlock
\* accepts: the parameters of every height of the window are there, and a
\* validator that votes is one of those parameters.
THEOREM AcceptedBlocksExecute == Spec => []ExecutionNeverFails
<1>1. VotersInv => ExecutionNeverFails
  BY VotersInvNeverFails
<1> QED
  BY <1>1, VotersInvariant, PTL
=============================================================================
