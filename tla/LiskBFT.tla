------------------------------ MODULE LiskBFT ------------------------------
(***************************************************************************)
(* The BFT votes of consensus/liskbft: how the header of a block executed  *)
(* on top of the chain is turned into prevotes and precommits, how these   *)
(* move maxHeightPrevoted, maxHeightPrecommited and maxHeightCertified,    *)
(* and how the validators, their weights and the thresholds (the BFT       *)
(* parameters) change with the height.                                     *)
(*                                                                         *)
(* One step of the model executes one block: the conditions of             *)
(* consensus/verify.go on its header, Module.BeforeTransactionsExecute,    *)
(* and, when the application answers with new validators,                  *)
(* API.SetBFTParameters and API.SetGeneratorKeys.  Slots are abstracted:   *)
(* any generator of the current list has a later slot.  Signatures are     *)
(* taken as valid.                                                         *)
(***************************************************************************)
EXTENDS Integers, Sequences, FiniteSets, FiniteSetsExt, Functions

CONSTANTS
    Validators,     \* the addresses
    BatchSize,      \* at most this many validators have a BFT weight
    GenesisHeight,  \* height of the genesis block
    GenesisParams,  \* the application's answer to InitGenesisState
    NextParams,     \* its possible answers to AfterTransactionsExecute
    MaxHeight,      \* bound: the largest height, math.MaxUint32 in the code
    MaxAhead        \* bound: how far above its height a header may claim that
                    \* its generator has already generated a block

VARIABLES
    bftVotes,       \* the BFTVotes struct
    bftParams,      \* height -> BFTParams that hold from this height on
    generatorKeys,  \* height -> generators that hold from this height on
    prevotes,       \* history: {<<validator, height>>} of all prevotes
    precommits      \* history: {<<validator, height>>} of all precommits

vars == <<bftVotes, bftParams, generatorKeys, prevotes, precommits>>

Heights == 0 .. MaxHeight

\* Arithmetic on heights wraps.
Wrap(n) == n % (MaxHeight + 1)

maxLengthBlock == 3 * BatchSize

AggregateBFTWeight(weights) == SumFunction(weights)

\* What the application answers: a BFT weight for every generator (zero for
\* those that only generate blocks) and the two thresholds.
IsWeights(f) == DOMAIN f \subseteq Validators /\ f \in [DOMAIN f -> Nat]

IsLabiParams(p) ==
    /\ IsWeights(p.weights)
    /\ p.precommitThreshold \in Nat
    /\ p.certificateThreshold \in Nat

\* GetBFTValidatorAndGenerators: only positive weights are BFT validators.
BFTValidatorsOf(p) ==
    RestrictDomain(p.weights, LAMBDA a : p.weights[a] > 0)

\* The checks at the start of SetBFTParameters.
ValidParams(p) ==
    LET W == AggregateBFTWeight(BFTValidatorsOf(p))
    IN  /\ Cardinality(DOMAIN BFTValidatorsOf(p)) <= BatchSize
        /\ W \div 3 + 1 <= p.precommitThreshold /\ p.precommitThreshold <= W
        /\ W \div 3 + 1 <= p.certificateThreshold /\ p.certificateThreshold <= W

ASSUME HeightsAssumption ==
    /\ BatchSize \in Nat \ {0}
    /\ GenesisHeight \in Nat
    /\ MaxHeight \in Nat
    /\ MaxAhead \in Nat
    /\ GenesisHeight <= MaxHeight

\* The genesis block is executed only with valid parameters; a sum of weights
\* stays far below 2^63, so W * 2 does not wrap.
ASSUME ParamsAssumption ==
    /\ IsFiniteSet(Validators)
    /\ \A p \in NextParams \cup {GenesisParams} : IsLabiParams(p)
    /\ ValidParams(GenesisParams)

-----------------------------------------------------------------------------
(* Stores keyed by height: an entry holds from its key on (util.go).       *)

KeysUpTo(store, height) == {k \in DOMAIN store : k <= height}

\* getBFTParams and getGeneratorKeys: the entry with the largest key <= height.
ExistsAt(store, height) == KeysUpTo(store, height) # {}
At(store, height) == store[Max(KeysUpTo(store, height))]

\* Mutant: the largest key up to the height is deleted too.
DeleteUpToInclusive(store, height) ==
    RestrictDomain(store, LAMBDA k : k > height)

\* deleteBFTParams and deleteGeneratorKeys: of the keys <= height only the
\* largest stays.
DeleteUpTo(store, height) ==
    RestrictDomain(store,
        LAMBDA k : k > height \/ \A l \in KeysUpTo(store, height) : l <= k)

\* A Set of one key.
Put(store, height, value) ==
    [k \in DOMAIN store \cup {height} |->
        IF k = height THEN value ELSE store[k]]

-----------------------------------------------------------------------------
(* Contradicting headers (contradiction.go).                               *)

\* b1 is ordered before b2 unless the three comparisons say otherwise.
OrderedBefore(b1, b2) ==
    ~ \/ b1.maxHeightGenerated > b2.maxHeightGenerated
      \/ /\ b1.maxHeightGenerated = b2.maxHeightGenerated
         /\ b1.maxHeightPrevoted > b2.maxHeightPrevoted
      \/ /\ b1.maxHeightGenerated = b2.maxHeightGenerated
         /\ b1.maxHeightPrevoted = b2.maxHeightPrevoted
         /\ b1.height > b2.height

AreDistinctHeadersContradicting(b1, b2) ==
    LET earlier == IF OrderedBefore(b1, b2) THEN b1 ELSE b2
        later   == IF OrderedBefore(b1, b2) THEN b2 ELSE b1
    IN  /\ b1.generatorAddress = b2.generatorAddress
        /\ \/ /\ earlier.maxHeightPrevoted = later.maxHeightPrevoted
              /\ earlier.height >= later.height
           \/ earlier.height > later.maxHeightGenerated
           \/ earlier.maxHeightPrevoted > later.maxHeightPrevoted

\* Only the newest header of the same generator in the window is compared.
Contradicting(v, header) ==
    \E i \in DOMAIN v.blockBFTInfos :
        /\ v.blockBFTInfos[i].generatorAddress = header.generatorAddress
        /\ \A j \in 1 .. i - 1 :
              v.blockBFTInfos[j].generatorAddress # header.generatorAddress
        /\ AreDistinctHeadersContradicting(v.blockBFTInfos[i], header)

-----------------------------------------------------------------------------
(* The steps of Module.BeforeTransactionsExecute, each on the BFTVotes     *)
(* struct v.  blockBFTInfos is ordered by height, newest first.            *)

\* Mutant: the window is not truncated.
InsertBlockBFTInfoUntruncated(v, header) ==
    [v EXCEPT !.blockBFTInfos =
        [i \in 1 .. Len(v.blockBFTInfos) + 1 |->
            IF i = 1
            THEN [generatorAddress   |-> header.generatorAddress,
                  height             |-> header.height,
                  maxHeightGenerated |-> header.maxHeightGenerated,
                  maxHeightPrevoted  |-> header.maxHeightPrevoted,
                  prevoteWeight      |-> 0,
                  precommitWeight    |-> 0]
            ELSE v.blockBFTInfos[i - 1]]]

InsertBlockBFTInfo(v, header) ==
    LET infos == v.blockBFTInfos
        size  == IF Len(infos) + 1 <= maxLengthBlock
                 THEN Len(infos) + 1 ELSE maxLengthBlock
    IN  [v EXCEPT !.blockBFTInfos =
            [i \in 1 .. size |->
                IF i = 1
                THEN [generatorAddress   |-> header.generatorAddress,
                      height             |-> header.height,
                      maxHeightGenerated |-> header.maxHeightGenerated,
                      maxHeightPrevoted  |-> header.maxHeightPrevoted,
                      prevoteWeight      |-> 0,
                      precommitWeight    |-> 0]
                ELSE infos[i - 1]]]

\* Mutant: the generator's own blocks are not followed.
GetHeightNotPrevotedOldest(v) ==
    v.blockBFTInfos[Len(v.blockBFTInfos)].height - 1

\* Follow the generator's own blocks down from the newest: the first height
\* that its blocks do not claim to continue from.
GetHeightNotPrevoted(v) ==
    LET infos  == v.blockBFTInfos
        newest == infos[1]
        follow[h \in 0 .. newest.height] ==
            IF newest.height - h >= Len(infos)
            THEN infos[Len(infos)].height - 1
            ELSE LET own == infos[newest.height - h + 1]
                 IN  IF \/ own.generatorAddress # newest.generatorAddress
                        \/ own.maxHeightGenerated >= h
                     THEN h
                     ELSE follow[own.maxHeightGenerated]
    IN  follow[newest.maxHeightGenerated]

\* A block header only implies votes if maxHeightGenerated < height, and if
\* its generator is an active validator.
ImpliesVotes(v) ==
    LET newest == v.blockBFTInfos[1]
    IN  /\ newest.maxHeightGenerated < newest.height
        /\ newest.generatorAddress \in DOMAIN v.activeValidatorsVoteInfo

\* The positions the first loop of updatePrevotesPrecommits visits before its
\* break: heights from the maximum of three lower bounds up.
VisitedForPrecommit(v) ==
    LET info == v.activeValidatorsVoteInfo[v.blockBFTInfos[1].generatorAddress]
        notPrevoted == GetHeightNotPrevoted(v)
    IN  {i \in DOMAIN v.blockBFTInfos :
            \A j \in 1 .. i :
                /\ v.blockBFTInfos[j].height >= info.minActiveHeight
                /\ v.blockBFTInfos[j].height >= notPrevoted + 1
                /\ v.blockBFTInfos[j].height >= info.largestHeightPrecommit + 1}

\* The thresholds are those of the block's own height.
HasPrevoteQuorum(store, info) ==
    info.prevoteWeight >= At(store, info.height).prevoteThreshold

HasPrecommitQuorum(store, info) ==
    info.precommitWeight >= At(store, info.height).precommitThreshold

\* Mutant: the quorum of prevotes is not asked for.
PrecommitAllVisited(v) == VisitedForPrecommit(v)

\* Of the visited blocks, those that already have a quorum of prevotes.
PrecommitPositions(v) ==
    {i \in VisitedForPrecommit(v) :
        HasPrevoteQuorum(bftParams, v.blockBFTInfos[i])}

\* The positions the second loop visits.
PrevotePositions(v) ==
    LET newest == v.blockBFTInfos[1]
        info   == v.activeValidatorsVoteInfo[newest.generatorAddress]
    IN  {i \in DOMAIN v.blockBFTInfos :
            \A j \in 1 .. i :
                /\ v.blockBFTInfos[j].height >= newest.maxHeightGenerated + 1
                /\ v.blockBFTInfos[j].height >= info.minActiveHeight}

\* The error "Validator ... does not exist in BFT parameters at height ...".
VotesFail(v) ==
    /\ ImpliesVotes(v)
    /\ \E i \in PrecommitPositions(v) \cup PrevotePositions(v) :
          v.blockBFTInfos[1].generatorAddress \notin
              DOMAIN At(bftParams, v.blockBFTInfos[i].height).validators

\* Mutant: the weight is that of the newest block's height.
UpdateWithNewestWeight(v) ==
    LET gen == v.blockBFTInfos[1].generatorAddress
        weight == At(bftParams, v.blockBFTInfos[1].height).validators[gen]
        precommitted == PrecommitPositions(v)
        prevoted     == PrevotePositions(v)
    IN  IF ~ ImpliesVotes(v) THEN v ELSE
        [v EXCEPT
           !.blockBFTInfos =
              [i \in DOMAIN v.blockBFTInfos |->
                 [v.blockBFTInfos[i] EXCEPT
                    !.precommitWeight =
                        IF i \in precommitted THEN @ + weight ELSE @,
                    !.prevoteWeight =
                        IF i \in prevoted THEN @ + weight ELSE @]],
           !.activeValidatorsVoteInfo[gen].largestHeightPrecommit =
              IF precommitted = {} THEN @
              ELSE v.blockBFTInfos[Min(precommitted)].height]

UpdatePrevotesPrecommits(v) ==
    LET gen == v.blockBFTInfos[1].generatorAddress
        weight(i) ==
            At(bftParams, v.blockBFTInfos[i].height).validators[gen]
        precommitted == PrecommitPositions(v)
        prevoted     == PrevotePositions(v)
    IN  IF ~ ImpliesVotes(v) THEN v ELSE
        [v EXCEPT
           !.blockBFTInfos =
              [i \in DOMAIN v.blockBFTInfos |->
                 [v.blockBFTInfos[i] EXCEPT
                    !.precommitWeight =
                        IF i \in precommitted THEN @ + weight(i) ELSE @,
                    !.prevoteWeight =
                        IF i \in prevoted THEN @ + weight(i) ELSE @]],
           !.activeValidatorsVoteInfo[gen].largestHeightPrecommit =
              IF precommitted = {} THEN @
              ELSE v.blockBFTInfos[Min(precommitted)].height]

\* Mutant: the loop takes the oldest block with enough weight.
UpdateMaxHeightPrevotedOldest(v) ==
    LET quorum == {i \in DOMAIN v.blockBFTInfos :
                      HasPrevoteQuorum(bftParams, v.blockBFTInfos[i])}
    IN  [v EXCEPT !.maxHeightPrevoted =
            IF quorum = {} THEN @ ELSE v.blockBFTInfos[Max(quorum)].height]

\* The newest block with enough weight; nothing changes without one.
UpdateMaxHeightPrevoted(v) ==
    LET quorum == {i \in DOMAIN v.blockBFTInfos :
                      HasPrevoteQuorum(bftParams, v.blockBFTInfos[i])}
    IN  [v EXCEPT !.maxHeightPrevoted =
            IF quorum = {} THEN @ ELSE v.blockBFTInfos[Min(quorum)].height]

UpdateMaxHeightPrecommitted(v) ==
    LET quorum == {i \in DOMAIN v.blockBFTInfos :
                      HasPrecommitQuorum(bftParams, v.blockBFTInfos[i])}
    IN  [v EXCEPT !.maxHeightPrecommited =
            IF quorum = {} THEN @ ELSE v.blockBFTInfos[Min(quorum)].height]

UpdateMaxHeightCertified(v, header) ==
    [v EXCEPT !.maxHeightCertified =
        IF header.aggregateCommit.empty THEN @ ELSE header.aggregateCommit.height]

CountVotes(v) ==
    UpdateMaxHeightPrecommitted(
        UpdateMaxHeightPrevoted(UpdatePrevotesPrecommits(v)))

\* The height the parameters must be kept from.
MinHeightBFTParamsRequired(v) ==
    LET oldest == v.blockBFTInfos[Len(v.blockBFTInfos)].height
    IN  IF oldest <= v.maxHeightCertified + 1
        THEN oldest ELSE v.maxHeightCertified + 1

-----------------------------------------------------------------------------
(* SetBFTParameters and SetGeneratorKeys (api.go).                         *)

CurrentHeight(v) ==
    IF Len(v.blockBFTInfos) > 0
    THEN v.blockBFTInfos[1].height ELSE v.maxHeightPrevoted

BFTParamsOf(p) ==
    [prevoteThreshold     |->
        (AggregateBFTWeight(BFTValidatorsOf(p)) * 2) \div 3 + 1,
     precommitThreshold   |-> p.precommitThreshold,
     certificateThreshold |-> p.certificateThreshold,
     validators           |-> BFTValidatorsOf(p)]

\* If there is no change in the parameters no update is made.
SameParams(v, store, p) ==
    /\ ExistsAt(store, CurrentHeight(v))
    /\ LET current == At(store, CurrentHeight(v))
       IN  /\ current.validators = BFTValidatorsOf(p)
           /\ current.precommitThreshold = p.precommitThreshold
           /\ current.certificateThreshold = p.certificateThreshold

SetBFTParameters(v, store, p) ==
    IF SameParams(v, store, p) THEN store
    ELSE Put(store, CurrentHeight(v) + 1, BFTParamsOf(p))

\* Mutant: a new validator is active one height too early.
SetActiveValidatorsEarly(v, store, p) ==
    LET next == CurrentHeight(v) + 1
    IN  IF SameParams(v, store, p) THEN v ELSE
        [v EXCEPT !.activeValidatorsVoteInfo =
            [a \in DOMAIN BFTValidatorsOf(p) |->
                IF a \in DOMAIN v.activeValidatorsVoteInfo
                THEN v.activeValidatorsVoteInfo[a]
                ELSE [minActiveHeight |-> next - 1,
                      largestHeightPrecommit |-> next - 1]]]

\* A validator that stays keeps its vote info; a new one starts at the next
\* height.
SetActiveValidators(v, store, p) ==
    LET next == CurrentHeight(v) + 1
    IN  IF SameParams(v, store, p) THEN v ELSE
        [v EXCEPT !.activeValidatorsVoteInfo =
            [a \in DOMAIN BFTValidatorsOf(p) |->
                IF a \in DOMAIN v.activeValidatorsVoteInfo
                THEN v.activeValidatorsVoteInfo[a]
                ELSE [minActiveHeight |-> next,
                      largestHeightPrecommit |-> next - 1]]]

SetGeneratorKeys(v, store, p) ==
    Put(store, CurrentHeight(v) + 1, DOMAIN p.weights)

-----------------------------------------------------------------------------
(* Verification of a header (verify.go) and of its aggregate commit.       *)

\* NextHeightBFTParameters(height): the keys above height.
KeysAbove(store, height) == {k \in DOMAIN store : k > height}

\* Mutants: a commit above the precommitted height, or one that does not grow.
VerifyAggregateCommitUnfinal(v, commit) ==
    \/ commit.empty /\ commit.height = v.maxHeightCertified
    \/ /\ ~ commit.empty
       /\ commit.height > v.maxHeightCertified
       /\ ExistsAt(bftParams, commit.height)

VerifyAggregateCommitAnyOrder(v, commit) ==
    \/ commit.empty /\ commit.height = v.maxHeightCertified
    \/ /\ ~ commit.empty
       /\ commit.height <= v.maxHeightPrecommited
       /\ ExistsAt(bftParams, commit.height)

\* The comparison with the next parameters is made only when there are none,
\* against the uint32 0 - 1.
VerifyAggregateCommit(v, commit) ==
    \/ commit.empty /\ commit.height = v.maxHeightCertified
    \/ /\ ~ commit.empty
       /\ commit.height > v.maxHeightCertified
       /\ commit.height <= v.maxHeightPrecommited
       /\ ~ /\ KeysAbove(bftParams, v.maxHeightCertified + 1) = {}
            /\ commit.height > Wrap(0 - 1)
       /\ ExistsAt(bftParams, commit.height)

VerifyBlock(header) ==
    /\ VerifyAggregateCommit(bftVotes, header.aggregateCommit)
    /\ header.height = CurrentHeight(bftVotes) + 1
    /\ header.maxHeightPrevoted = bftVotes.maxHeightPrevoted
    /\ ~ Contradicting(bftVotes, header)
    /\ ExistsAt(generatorKeys, header.height)
    /\ header.generatorAddress \in At(generatorKeys, header.height)

ClaimedHeights == 0 .. CurrentHeight(bftVotes) + 1 + MaxAhead

AggregateCommits ==
         [empty : {TRUE}, height : {bftVotes.maxHeightCertified}]
    \cup [empty : {FALSE}, height : 0 .. CurrentHeight(bftVotes)]

\* The headers a generator may put on top of the chain.  The two fields that
\* verifyBlock compares with the node's own values have these values.
HeaderOnTop(generator, maxHeightGenerated, commit) ==
    [height             |-> CurrentHeight(bftVotes) + 1,
     generatorAddress   |-> generator,
     maxHeightGenerated |-> maxHeightGenerated,
     maxHeightPrevoted  |-> bftVotes.maxHeightPrevoted,
     aggregateCommit    |-> commit]

-----------------------------------------------------------------------------
Init ==
    LET genesis == [maxHeightPrevoted        |-> GenesisHeight,
                    maxHeightPrecommited     |-> GenesisHeight,
                    maxHeightCertified       |-> GenesisHeight,
                    blockBFTInfos            |-> << >>,
                    activeValidatorsVoteInfo |-> << >>]
    IN  /\ bftVotes = SetActiveValidators(genesis, << >>, GenesisParams)
        /\ bftParams = SetBFTParameters(genesis, << >>, GenesisParams)
        /\ generatorKeys = SetGeneratorKeys(genesis, << >>, GenesisParams)
        /\ prevotes = {}
        /\ precommits = {}

\* A header that verifyBlock accepts and whose votes raise no error.
ParamsExist(v) ==
    \A i \in DOMAIN v.blockBFTInfos :
        ExistsAt(bftParams, v.blockBFTInfos[i].height)

Executable(header) ==
    /\ VerifyBlock(header)
    /\ ParamsExist(InsertBlockBFTInfo(bftVotes, header))
    /\ ~ VotesFail(InsertBlockBFTInfo(bftVotes, header))

\* Module.BeforeTransactionsExecute on the votes.
ApplyHeader(header) ==
    UpdateMaxHeightCertified(
        CountVotes(InsertBlockBFTInfo(bftVotes, header)), header)

RecordVotes(header) ==
    LET v == InsertBlockBFTInfo(bftVotes, header)
        pairs(positions) ==
            IF ImpliesVotes(v)
            THEN {<<header.generatorAddress, v.blockBFTInfos[i].height>> :
                     i \in positions}
            ELSE {}
    IN  /\ prevotes' = prevotes \cup pairs(PrevotePositions(v))
        /\ precommits' = precommits \cup pairs(PrecommitPositions(v))

\* Executing a verified block whose execution leaves the validators alone.
ExecuteBlock(header) ==
    /\ Executable(header)
    /\ RecordVotes(header)
    /\ \E v \in {ApplyHeader(header)} :
          LET required == MinHeightBFTParamsRequired(v)
          IN  /\ bftVotes' = v
              /\ bftParams' = DeleteUpTo(bftParams, required)
              /\ generatorKeys' = DeleteUpTo(generatorKeys, required)

\* The same when the application answers with validators for the next height.
ExecuteBlockAndSetParams(header, p) ==
    /\ Executable(header)
    /\ ValidParams(p)
    /\ RecordVotes(header)
    /\ \E v \in {ApplyHeader(header)} :
          LET required == MinHeightBFTParamsRequired(v)
              params == DeleteUpTo(bftParams, required)
              keys == DeleteUpTo(generatorKeys, required)
          IN  /\ bftVotes' = SetActiveValidators(v, params, p)
              /\ bftParams' = SetBFTParameters(v, params, p)
              /\ generatorKeys' = SetGeneratorKeys(v, keys, p)

Next ==
    /\ CurrentHeight(bftVotes) < MaxHeight
    /\ \E generator \in Validators, maxHeightGenerated \in ClaimedHeights,
          commit \in AggregateCommits :
          LET header == HeaderOnTop(generator, maxHeightGenerated, commit)
          IN  /\ Executable(header)
              /\ \/ ExecuteBlock(header)
                 \/ \E p \in NextParams : ExecuteBlockAndSetParams(header, p)

Spec == Init /\ [][Next]_vars

-----------------------------------------------------------------------------
(* Properties.                                                             *)

BFTBlockHeaders ==
    [generatorAddress : Validators, height : Nat, maxHeightGenerated : Nat,
     maxHeightPrevoted : Nat, prevoteWeight : Nat, precommitWeight : Nat]

IsBFTParams(p) ==
    /\ p = [prevoteThreshold |-> p.prevoteThreshold,
            precommitThreshold |-> p.precommitThreshold,
            certificateThreshold |-> p.certificateThreshold,
            validators |-> p.validators]
    /\ p.prevoteThreshold \in Nat \ {0}
    /\ p.precommitThreshold \in Nat \ {0}
    /\ p.certificateThreshold \in Nat \ {0}
    /\ IsWeights(p.validators)

IsStore(store) ==
    DOMAIN store \subseteq Nat /\ store = [k \in DOMAIN store |-> store[k]]

IsBFTVotes(v) ==
    /\ v \in [maxHeightPrevoted : Nat, maxHeightPrecommited : Nat,
              maxHeightCertified : Nat, blockBFTInfos : Seq(BFTBlockHeaders),
              activeValidatorsVoteInfo :
                 [DOMAIN v.activeValidatorsVoteInfo ->
                     [minActiveHeight : Nat, largestHeightPrecommit : Nat]]]
    /\ DOMAIN v.activeValidatorsVoteInfo \subseteq Validators
    /\ Len(v.blockBFTInfos) <= maxLengthBlock

\* The fields of the BFTVotes struct and the entries of the two stores have
\* the types that validator.go and api.go give them.
TypeOK ==
    /\ IsBFTVotes(bftVotes)
    /\ IsStore(bftParams)
    /\ \A k \in DOMAIN bftParams : IsBFTParams(bftParams[k])
    /\ IsStore(generatorKeys)
    /\ \A k \in DOMAIN generatorKeys : generatorKeys[k] \subseteq Validators
    /\ prevotes \subseteq Validators \X Nat
    /\ precommits \subseteq Validators \X Nat

\* A block is certified only after it is final, final only after it has a
\* quorum of prevotes, and no height above the chain is ever reached: the
\* three heights that BeforeTransactionsExecute maintains are ordered.
HeightsOrdered ==
    /\ GenesisHeight <= bftVotes.maxHeightCertified
    /\ bftVotes.maxHeightCertified <= bftVotes.maxHeightPrecommited
    /\ bftVotes.maxHeightPrecommited <= bftVotes.maxHeightPrevoted
    /\ bftVotes.maxHeightPrevoted <= CurrentHeight(bftVotes)

\* Executing a block never lowers one of the three heights, whatever leaves
\* the window of blockBFTInfos and whoever becomes or stops being a validator.
HeightsNeverDecrease ==
    [][ /\ bftVotes'.maxHeightPrevoted >= bftVotes.maxHeightPrevoted
        /\ bftVotes'.maxHeightPrecommited >= bftVotes.maxHeightPrecommited
        /\ bftVotes'.maxHeightCertified >= bftVotes.maxHeightCertified ]_vars

\* Every block that has any precommit has a quorum of prevotes under the
\* parameters of its own height (updatePrevotesPrecommits reads both from
\* separate stores, and the parameters change with the height).
PrecommitsRestOnPrevoteQuorum ==
    \A i \in DOMAIN bftVotes.blockBFTInfos :
        bftVotes.blockBFTInfos[i].precommitWeight > 0 =>
            HasPrevoteQuorum(bftParams, bftVotes.blockBFTInfos[i])

\* Voters of a block of the window, by the recorded votes.
VotersOf(votes, height) == {a \in Validators : <<a, height>> \in votes}

\* The weights of a block are the sum of the weights of distinct voters: the
\* contradiction check (of the newest own header only), minActiveHeight and
\* largestHeightPrecommit together keep updatePrevotesPrecommits from counting
\* a validator twice, also when it leaves the validators and comes back.
VotesCountedOnce ==
    \A i \in DOMAIN bftVotes.blockBFTInfos :
        LET info    == bftVotes.blockBFTInfos[i]
            weights == At(bftParams, info.height).validators
        IN  /\ info.prevoteWeight =
                  SumFunctionOnSet(weights, VotersOf(prevotes, info.height))
            /\ info.precommitWeight =
                  SumFunctionOnSet(weights, VotersOf(precommits, info.height))

\* A validator precommits only what it has prevoted: getHeightNotPrevoted
\* stops the precommits where the generator's own blocks stop continuing each
\* other.
PrecommittersPrevoted == precommits \subseteq prevotes

\* The errors "BFT parameters should always exist" (validator.go:371) and
\* "Validator ... does not exist in BFT parameters" (validator.go:209, 239)
\* are unreachable for a header that verifyBlock accepts.
ExecutionNeverFails ==
    \A generator \in Validators, maxHeightGenerated \in ClaimedHeights :
        LET commit == [empty |-> TRUE, height |-> bftVotes.maxHeightCertified]
            header == HeaderOnTop(generator, maxHeightGenerated, commit)
        IN  VerifyBlock(header) =>
                \A v \in {InsertBlockBFTInfo(bftVotes, header)} :
                    ParamsExist(v) /\ ~ VotesFail(v)

\* The parameters that hold at a height that is still needed, that of a block
\* in the window or of a block to be certified, never change: neither
\* deleteBFTParams nor SetBFTParameters rewrites the past.
RequiredParamsStable ==
    [][ \A h \in MinHeightBFTParamsRequired(bftVotes') .. CurrentHeight(bftVotes') :
          /\ ExistsAt(bftParams', h)
          /\ At(bftParams', h) = At(bftParams, h) ]_vars

\* The positions of the window are consecutive heights down from the tip, as
\* getHeightNotPrevoted's index arithmetic expects.
WindowContiguous(v) ==
    \A i \in DOMAIN v.blockBFTInfos :
        /\ v.blockBFTInfos[i].height = CurrentHeight(v) - (i - 1)
        /\ v.blockBFTInfos[i].height > GenesisHeight

\* While the blocks at the two heights are in the window they have the quorum
\* that made them the maximum, and no block above has one.
MaxHeightsJustified(v, store) ==
    \A i \in DOMAIN v.blockBFTInfos :
        LET info == v.blockBFTInfos[i]
        IN  /\ HasPrevoteQuorum(store, info) => info.height <= v.maxHeightPrevoted
            /\ info.height = v.maxHeightPrevoted => HasPrevoteQuorum(store, info)
            /\ info.height = v.maxHeightPrecommited =>
                   HasPrecommitQuorum(store, info)

\* The smallest height whose parameters are still needed.
NeededFrom(v) ==
    IF Len(v.blockBFTInfos) = 0 THEN v.maxHeightCertified + 1
    ELSE MinHeightBFTParamsRequired(v)

ParamsInWindow(v, store) ==
    /\ ExistsAt(store, NeededFrom(v))
    /\ \A k \in DOMAIN store : k <= CurrentHeight(v) + 1

\* The inductive strengthening of HeightsOrdered and of
\* PrecommitsRestOnPrevoteQuorum: what BeforeTransactionsExecute relies on
\* from one block to the next.
VotesInv ==
    /\ TypeOK
    /\ HeightsOrdered
    /\ PrecommitsRestOnPrevoteQuorum
    /\ WindowContiguous(bftVotes)
    /\ MaxHeightsJustified(bftVotes, bftParams)
    /\ ParamsInWindow(bftVotes, bftParams)

\* The active validators are those of the next height, and each has been a
\* validator at every needed height since its minActiveHeight.
ActiveAreValidators(v, store) ==
    LET active == v.activeValidatorsVoteInfo
        next   == CurrentHeight(v) + 1
    IN  /\ DOMAIN active = DOMAIN At(store, next).validators
        /\ \A a \in DOMAIN active, h \in NeededFrom(v) .. next :
              h >= active[a].minActiveHeight =>
                  a \in DOMAIN At(store, h).validators

\* A validator has prevoted a block of the window only with a block of its own
\* at this height or above, and was then a validator of the prevoted height.
PrevotesHaveBlocks(v, store, votes) ==
    \A j \in DOMAIN v.blockBFTInfos, a \in Validators :
        LET h == v.blockBFTInfos[j].height
        IN  <<a, h>> \in votes =>
                /\ \E i \in 1 .. j : v.blockBFTInfos[i].generatorAddress = a
                /\ a \in DOMAIN At(store, h).validators

\* A block of an active validator has prevoted every height of the window from
\* the height it continues from up to its own.
BlocksHavePrevotes(v, votes) ==
    LET infos  == v.blockBFTInfos
        active == v.activeValidatorsVoteInfo
    IN  \A i, j \in DOMAIN infos :
            LET a == infos[i].generatorAddress
            IN  /\ i <= j
                /\ a \in DOMAIN active
                /\ infos[j].height > infos[i].maxHeightGenerated
                /\ infos[j].height >= active[a].minActiveHeight
                => <<a, infos[j].height>> \in votes

\* No vote is ahead of the chain, no block claims more prevotes than there are,
\* and an active validator has no precommit above its largestHeightPrecommit.
VotesWithinBounds(v, pre, com) ==
    /\ \A x \in pre \cup com : x[2] <= CurrentHeight(v)
    /\ \A i \in DOMAIN v.blockBFTInfos :
          v.blockBFTInfos[i].maxHeightPrevoted <= v.maxHeightPrevoted
    /\ \A x \in com : x[1] \in DOMAIN v.activeValidatorsVoteInfo =>
          x[2] <= v.activeValidatorsVoteInfo[x[1]].largestHeightPrecommit

\* The inductive strengthening of VotesCountedOnce, PrecommittersPrevoted and
\* ExecutionNeverFails: the recorded votes, the claims of the headers in the
\* window and the vote infos of the active validators agree.
VotersInv ==
    /\ VotesInv
    /\ VotesCountedOnce
    /\ PrecommittersPrevoted
    /\ VotesWithinBounds(bftVotes, prevotes, precommits)
    /\ ActiveAreValidators(bftVotes, bftParams)
    /\ PrevotesHaveBlocks(bftVotes, bftParams, prevotes)
    /\ BlocksHavePrevotes(bftVotes, prevotes)

\* The error text at certificate.go:250: an aggregate commit may not skip the
\* height at which the BFT parameters change next.
CertificatesFollowParams ==
    [][ \A k \in KeysAbove(bftParams, bftVotes.maxHeightCertified + 1) :
          bftVotes'.maxHeightCertified # bftVotes.maxHeightCertified =>
              bftVotes'.maxHeightCertified <= k - 1 ]_vars
=============================================================================
