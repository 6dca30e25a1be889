# A TLA+ verification of lisk-engine

These modules model lisk-engine, a blockchain engine in Go: how a node counts
BFT votes and decides what is final, how its state database caches, commits and
reverts, how it adds, removes and synchronises blocks against an application
with a database of its own, how it stores and serves blocks, pools
transactions, requests and downloads blocks from peers, and encodes everything
it stores or sends. TLC checks the models on small instances; TLAPS proves the
main results for every value of the constants.
`PROJECT.json` lists components, runs, mutants, the source lines behind every
definition, hazards and theorems.

To check: `tlc -config <cfg> <module>` for a run, `tlapm <module>.tla` for
`LiskBFTProofs`, `LiskBFTVotesProofs`, `DiffDBProofs`, `BlockProcessingProofs`,
`ChainStoreProofs`, `TxPoolProofs`, `DownloadProofs` and the library
`SetTheorems`. `LiskBFTVotesProofs` and `BlockProcessingProofs` are the longest,
with ten to twenty minutes each.

## The system

| Part (`src/pkg/`) | State | Operations | What makes it hard |
|---|---|---|---|
| `consensus/liskbft` | `BFTVotes`, BFT parameters and generator keys by height | execute a header, set parameters | window of limited length, parameters that change under votes, validators that leave and return |
| `consensus/verify.go`, `certificate.go` | none | accept a block, an aggregate commit | heights near the change of parameters |
| `db/diffdb` | cache over a store, snapshots, Diffs | get, set, del, range, snapshot, commit, revert | what a key was before the cache saw it |
| `consensus/execute.go` | chain, Diffs, temp blocks, finalized height | process, processValidated, deleteBlock | two databases written one after the other |
| `consensus/forkchoice`, `sync` | last received time; the sync under way | fork choice, fast sync, block sync, restore | failure half way |
| `framework/handler.go` | application state, its Diffs, one execution context | Init, InitStateMachine, Commit, Revert, Clear | the context is shared, and tested, set and cleared without a lock |
| `engine` | what has been started | start, stop | abi.Init runs last |
| `generator` | record of generated blocks | check, forge | runs beside the Executer |
| `blockchain` | tables, block cache | add, remove, read blocks, reload the cache | reads beside writes, recursive read lock |
| `consensus/certificate` | pool of single commits | add, select, aggregate, clean up | late and duplicated commits |
| `txpool` | per-account lists, heap | add, evict, promote, remove | nested locks, replaced transactions |
| `p2p` | pending requests, penalties, counters | request, respond, time out, ban | late responses, locks around channels |
| `consensus/sync/download.go` | a channel of blocks | start, stop | a reader that has left |
| `codec` and the generated codecs | none | encode, decode, decode strictly | one meaning for one sequence of bytes |
| `event` | subscribers | publish, subscribe, close | unbuffered channels under a lock |
| `statemachine` | event log, context | execute one transaction | snapshot and restore |
| `trie` | nodes | update, prove, verify | pure algorithms |

A received block goes through the fork choice (`execute.go`), is verified
(`verify.go`), executed by the application over the ABI (`handler.go`), counted
by the BFT module, committed by the application, and then added to the chain in
one batch with the Diff of the BFT state. `deleteBlock` goes the other way.
The synchronisers call both.

## Modules

**LiskBFT** (`consensus/liskbft`, `verify.go`, `certificate.go`,
`contradiction`). One step executes one block: `ExecuteBlock`, or
`ExecuteBlockAndSetParams` when the application answers with new validators.
`bftVotes` is the struct; `bftParams` and `generatorKeys` are functions from
heights. `prevotes` and `precommits` are history variables: who voted for
which height, in order to state that nobody is counted twice.
Slots are abstracted (any generator of the list has a later slot) and
signatures are valid. Heights wrap at `MaxHeight + 1`, weights do not: their
sums are assumed to be far below 2^63.

**DiffDB** (`db/diffdb`) and **KVStore**, the map it promises to be. One action
per method of `Database`; `Revert` is the caller's RevertDiff in a new
Database. `past` remembers the store before each Diff. The refinement mapping
takes the view through the cache as the abstract map. Iterate and prefixed
views are left out.

**BlockProcessing** (`execute.go`, `forkchoice`, `sync`, `handler.go`,
`engine.go`, the generator's use of the context). Blocks are a tree given by a
constant. Each write of a database, and each call of the ABI, is a step of its
own; `mode` and `phase` are the Executer's program counter. The engine's
database is `chain, stateDiffs, finalizedHeight, temp`; the application's is
`app, appDiffs`. `Crash` empties memory; `Restart` and the five `Init...`
actions are Engine.Start.

One execution context of the ABIHandler serves the Executer and the generator,
and no lock guards it, so each access is a step: InitStateMachine's test
(`...Enter`) and its assignment (`...Begin`), checkState at the head of a call and
the use of the context after it, and Clear, which removes whatever is there.
`context` has the ID it was set with, the height of its header and the changes
in its diffStore; `batch` is what Commit has taken out of the diffStore and not
yet written. `overlapped` is history: a context was set where there was one.
A nil context that is used ends the process, which is `Crash`. Abstractions:
- every block changes the application's state, and a root is named by its block;
  changes other than the block's own lead to no root of a block;
- the calls that execute a block are one step, and so are all of the generator's
  changes between two of its checkStates;
- `sound` stands for all checks on a block but those on its place and time, `bft`
  for the precommitted height after it (what LiskBFT computes);
- any block may be received at any time, a peer answers from one branch, a
  download may fail at any block; the limits of block sync's search for a
  common block (3 trials of 9 heights) are not reached by these trees;
- engine and application stop together; the block cache holds the last block;
- Init is a node that has started with the genesis block.

**Codec** (`codec`), **Messages** and **Transport**. Codec has Reader and Writer
byte by byte, for each kind of field; a schema is the list of fields a
generated codec visits, and Messages has the schema of all 102 structs that
have one, so that `Encode(schema, m)` and `Decode(schema, data)` stand for the
generated methods. Transport is the life of one message: built, sent, perhaps
altered in one byte, received, and kept as the encoding of what was decoded
(the ID of a block or transaction is the hash of that). `WordBits` and
`HalfBits` stand for 64 and 32, with the property that the last byte of the
longest varint holds one bit. NFC and UTF-8 are external, and modelled on one
letter and its decomposition.

**ChainStore** (`blockchain/chain.go`, `data_access.go`, `block_cache.go`).
`store` is the database, one set or function for each prefix of the keys;
`cache` is the struct. AddBlock and RemoveBlock write one batch, then wait for
the cache's lock, then change the cache: three steps. A request on another
goroutine reads the cache or one table in a step; the read lock that `last`
takes twice is two steps. Blocks are a height and a fork, each with
transactions, assets and events. `seen` is history: for each height of the
request, the blocks that were on the chain there since it began, or that there
was none. On the chain means in the database; a block under removal counts until
the cache has dropped it too, since until then RemoveBlock has not returned.

**TxPool** (`txpool`). `allTransactions`, `feePriorityQueue` and `perAccount`
are the three indexes. Add, remove and the whole of a list's methods are atomic
under their mutexes; `reorg` runs a goroutine for each account, with a step for
each time it takes a lock and one for the calls of the application. A goroutine
of reorg keeps the list it was started with (`orphan`: the list was dropped from
the pool since). An Add that must evict waits for the mutex it holds (`held`).
The fee stands for the fee priority. `verified` is history: what reorg verified
and did not find invalid.

**Messaging** (`p2p/message_protocol.go`, `conngater.go`, `peer.go`,
`sync/request.go`) and **Download** (`sync/download.go`, `downloadAndValidate`),
which extends it. A call has two goroutines: the outer waits for the answer or
its deadline, the inner sends, registers a channel, waits, removes the channel
and retries. `resMu` is the mutex, held across the send on the unbuffered
channel. Peers answer at most once, at any time, or never. Download adds the
Downloader's loop, its channel and the consumer of the fast sync; Stop and the
ban of a peer with an invalid block are one step with the validation. `start`
and `lastFetched` are the IDs the next request goes on from; `ofBranch` is
history: every answer so far was the blocks of `Branch` after the one asked for,
in pieces of any length, which is how HandleRPCEndpointGetBlocksFromID answers.
One Downloader runs at a time; a new one starts when the old one and its
consumer have ended.

The components share no variables. BlockProcessing takes the chain store's
batch, the download and the BFT module's result as given steps; these modules
show what it relies on: a batch leaves the tables in agreement, a download
without an error is complete, and the precommitted height never falls.

## Runs

| Run | Checks | Result |
|---|---|---|
| votes_weights_change | PrecommitsRestOnPrevoteQuorum, VotesCountedOnce, PrecommittersPrevoted, VotersInv | hold |
| votes_rotation | TypeOK, HeightsOrdered, ExecutionNeverFails, HeightsNeverDecrease, RequiredParamsStable | hold |
| certificate_skips_parameters | CertificatesFollowParams | violated |
| diffdb_snapshots | CachesFaithful, RangeMatchesView, ImplementsKVStore | hold |
| diffdb_history | TypeOK, RevertUndoesCommit, OperationsMatch | hold |
| block_sync | TypeOK, AppAgrees, DeletableAboveFinalized, SyncImproves, TieBreakKeepsHeight, ProcessingEnds | hold |
| crash_anywhere | StopIsRepairable, RevertAvailable, StateSurvivesOverlap, FinalizedNeverReverted | hold |
| restore_after_failed_sync | RestoreRecovers | violated |
| transport | RoundTrip, StrictIsCanonical, KeptIsStable | hold |
| chain_store | CacheIsEndOfChain, EventsKept, TablesAgree, ReadsAreOfTheChain | hold |
| tx_pool | ListsSound, ProcessablesVerified, PoolIndexesAgree | hold |
| download | AnswerIsOwn, ChannelsAreOwned, DownloadIsComplete, CallsReturn, RequestsEnd | hold |

What the two violations show:
- `certificate.go:249` tests `err != nil` where the text of its error needs
  `err == nil`, so an aggregate commit may skip a change of the parameters.
- `restoreBlocks` deletes the failed sync's blocks with saveTemp, over the temp
  blocks it is about to apply: on g, a1, a2, a sync that applies b2 and fails on
  b3 ends on g, a1, b2.

**Deviations without a run of their own.** The first four have a configuration
that lets TLC find them (`MCBlockProcessing_context.cfg`, `_tie.cfg`, `_ahead.cfg`,
`_startup.cfg`); the others are in the models as steps.
- InitStateMachine tests the context (`handler.go:104`) and sets it (`:109`)
  without a lock, and Clear (`:363`) does not ask whose it is. So the generator
  and the Executer can work in one context (`ContextIsExecuters` fails), a
  Commit can store its Diff and the application's height under the height of the
  generator's header, so that the block cannot be reverted later, and
  a call can find no context after its checkState, which ends the process. What
  is still true then is StateSurvivesOverlap.
- The generator can take the execution context inside a tie break; both
  attempts to apply a block then fail and the node is one block short.
- A node that stops after abi.Commit and before AddBlock does not start again:
  the revert in abi.Init reads the height from a context that is nil.
- abi.Init, called after the Executer was started, may revert a block that is
  being added, and report success.
- `blockCache.last` takes its read lock twice; a writer that waits in between
  and the reader wait for each other (`UpdateReturns` of ChainStore fails under
  its `FairSpec`).
- A block is read table by table: one that is removed meanwhile is returned
  without its transactions or assets (`ReadsAreWhole` of ChainStore).
- After as many removals as the cache holds blocks, `LastBlock` is nil. The range of
  `getBlocksFromID` wraps when the chain got shorter since the header was read.
- A pool over its limit evicts under the lock it already holds. A replaced
  transaction stays in allTransactions (`PooledAreListed` of TxPool), and
  removing it when its account has no list left dereferences nil.
- The handler of an answer that comes as its request times out holds resMu for
  good (`Wedged`): later requests end by their callers' deadline only. An
  answer that comes before its channel is registered is lost.
- A Downloader that finds its channel full after Stop never ends. A download cut
  short by the node's shutdown is returned without an error. Neither it nor
  downloadAndValidate checks that a block follows the one before
  (`download.go:89-96`, `fast_sync.go:76-86`): an answer that leaves blocks out is
  found out when the blocks are applied. After a first answer without blocks the
  next request has no ID, for which a peer running this code bans the node.
- A transaction that the application calls pending is promoted: verifyTransactions
  (`txpool.go:449-467`) answers Ok for it, so that the branch at `txpool.go:360-363`,
  "if the transaction is just pending keep", is never taken.
- A boolean cut off after its key is an index out of range in `readBool`
  (`reader.go:401`), which panics and is not reported as an error (`Panicked`,
  which the altered CommitRequest reaches). A size in the upper half of the words
  makes the end of a nested struct or packed array negative (`reader.go:69,
  306, 334`), which reads as an empty one without an error (`EndOf`).
- `ReadUInt32` truncates, nested structs are decoded leniently, and a nil struct is
  decoded as a new one: DecodeStrict accepts one encoding only of structs with
  none of these, which StrictIsCanonical says in its premise.

**Bounds.** LiskBFT: five heights. With BatchSize 1 the window is three blocks,
so in votes_rotation blocks and parameters are dropped; with BatchSize 2 nothing
is dropped, and weights and claims vary instead. `MaxAhead` is 0: no header
claims a generated height above its own. DiffDB: two keys and two values, or one
key with two snapshots and three Diffs. BlockProcessing: seven or ten blocks
with forks at two heights, blocks that fail, a finalized block below a fork;
five to eight slots, so that tie breaks come in time and too late.
crash_anywhere has five blocks and three slots, one stop and one forging: its
branch wins a tie break, finalizes its own first block and fails on its third.
Transport: words of 15 and 8 bits, every field at its boundary values with the
others full; eight structs, among them blocks and transactions, altered in one
byte (the others are only encoded and decoded). ChainStore: two forks of three
blocks, a cache of two, so that it evicts and runs empty; one restart, one
request for up to two blocks. TxPool: five transactions of two accounts, with a
replacement and a nonce too many, a pool of three and lists of two. Download:
two calls of two attempts each, a channel of one, a branch of three blocks of
which the sync aims at the second, answers that are partial, empty, complete,
invalid, or leave a block out. The proofs have no such bounds.

**Deadlock** is checked where the system goes on for ever: in the DiffDB runs.
The others stop when their bounds are used up, or where the code does.

**Fairness.** block_sync assumes `WF_vars(Work)`: one goroutine
(`Executer.Start`) runs each block to its end, and every step of it is a call
that returns. download assumes weak fairness of each call's two goroutines, of
the handlers of answers, of the Downloader and of its consumer: the runtime
runs a goroutine that can go on, and timers fire. Nothing is assumed about
arrivals, clock, generator, peers or their answers.

**Mutants.** Every property of a passing run has a mutant in `PROJECT.json`: a
plausible bug (a dropped guard, an off-by-one, a missing reset) under which TLC
finds it violated.

## Proofs

**LiskBFTProofs**, from `HeightsAssumption` and `ParamsAssumption`. The
invariant is `VotesInv`. HeightsOrdered is not inductive: maxHeightPrevoted
moves to the highest block of the window with a quorum, and to know that this
does not lower it one needs that the block that justified the old value is
still in the window, or below it, and still has its quorum. VotesInv adds that
the window is contiguous, that the maximal heights are justified, and that the
parameters needed by the window exist. The step lemma goes through inserting
the header, counting votes, new maxima, deletion of old parameters, and new
parameters. From it: TypeOK, HeightsOrdered, PrecommitsRestOnPrevoteQuorum,
HeightsNeverDecrease, RequiredParamsStable.

**LiskBFTVotesProofs**, from the same assumptions, of which it needs that the
validators are finitely many (a weight is a sum over voters). The invariant is
`VotersInv`, which votes_weights_change checks too. A prevote is counted
for the heights above the header's maxHeightGenerated; that none of them was
counted before rests on the contradiction check, which sees the
newest own header in the window only. So VotersInv says both directions: who has
prevoted a height has a block in the window at that height or above
(`PrevotesHaveBlocks`), and a block has prevoted all heights between its
maxHeightGenerated and its own (`BlocksHavePrevotes`), in each case while the
validator is active; `ActiveAreValidators` ties minActiveHeight to the stored
parameters, so that a validator that leaves and comes back is judged by its
second term; `VotesWithinBounds` ties largestHeightPrecommit to the precommits.
What getHeightNotPrevoted computes by following the generator's own headers
is shown by induction over the heights (`FollowPrevoted`), and that the update
adds each new voter's weight exactly once by `UpdateIsExact`. From VotersInv:
VotesCountedOnce, PrecommittersPrevoted, ExecutionNeverFails.

**SetTheorems** has the facts these proofs share: smallest members (which serve
as induction), largest ones, that a finite set of numbers has an ascending
order, and that SumFunctionOnSet, a recursion over subsets, grows by an element's
weight whatever the order.

**DiffDBProofs**, from `KeysAssumption`, `BoundsAssumption`, `NoneAssumption`.
`DiffInv` says that cache and snapshots are faithful to the store (`init` is the
stored value of every cached key) and that taking back the Diffs leads through
the past stores. From it: CachesFaithful, RevertUndoesCommit, the refinement
`ImplementsKVStore`, and `OperationsMatch`, which says which abstract operation
each concrete one is, and TypeOK. RangeMatchesView follows from CachesFaithful
and from `RangeResultIsView`: the first n keys of the cache and the first n of
the store contain the first n of both, for any limit, in both directions; as the
property says, with a limit this is the view only if no key of the range is
deleted in the cache. The argument ranks the keys, so they are a finite set.

**BlockProcessingProofs**, from `TreeAssumption`, `BoundsAssumption` and
`NilAssumption`, for every tree of blocks and any number of forgings and stops.
FinalizedNeverReverted rests on a check that deleteBlock makes several steps
before it removes the block, so `BlockInv` says that what was checked when the
work on a block began still holds (`WorkInv`), that the chain is a path of the
tree (`ChainInv`), where the application is at each step until the first stop
(`AppInv`), and who may hold the context at each step of Executer and generator
while none was replaced (`HolderInv`). AppInv does not need the context to be
the Executer's: what Commit writes after it has compared the roots is the
block's own change (WorkInv), whoever has the context by then. Most actions
touch neither database and leave no block half done: one lemma (`QuietStep`)
serves them all. From BlockInv, without a condition: FinalizedNeverReverted,
DeletableAboveFinalized, StateSurvivesOverlap, StopIsRepairable and
RevertAvailable (the last two say themselves what they leave out when contexts
overlapped); and while no context was replaced: AppAgrees until the node stops,
and ContextIsExecuters. Which blocks a sync asks for does not matter to any of
these: a block is applied only if it fits.

It does matter to SyncImproves: the synchroniser compares headers once, and
many steps later the chain is the better one. `SyncInv` says at each of these
steps that the block the chain will end with, the last one still to be applied
or the last one of the chain, wins over the block it began with, and that
deletion stops at the common block. It needs what Branch, CommonHeights and
BlocksAbove compute, so Branch is shown to be the path down from a block, its
length by a smallest counterexample, and the ascending order of the temp blocks
to exist (a CHOOSE). `TypeInv` goes with it, and gives TypeOK. That the genesis
header has maxHeightPrevoted 0 is part of TreeAssumption
(`blockchain/genesis.go:25` sets it to the height of the block).

`AgainInv` says that verifyBlock's conditions still hold of every block of the
chain, on the block below it and by today's clock. TieBreakKeepsHeight rests on
it: when the new block of a tie break fails, the old one is applied again and
must not be refused. `TieInv` follows the old block through deletion and both
attempts, and `AloneInv` says that the context is the Executer's or nobody's.
`TieBreakSound` assumes that there is no forging and no stop, as the run does.
With either it is false: the generator can take the context between the attempts
(see the deviations), and a stop between the deletion and the attempt leaves the
node without the block.

**DownloadProofs**, from `MessagingAssumption` and `DownloadAssumption`.
`NetInv` adds to AnswerIsOwn where an answer may be: with the goroutine that
waited for it until the caller takes it, while the attempt does not change;
ChannelsAreOwned is inductive with it. `DownloadInv` says what a closed channel
still holds or has given away: it ends with the block aimed at, or with the
error, unless the consumer has failed or the node is being stopped. `BranchInv`
says that, as long as the answers were of one branch, the blocks the consumer
has, those in the channel and those the Downloader still holds are together its
first ones, and that the next request starts from the last of them. From them:
NetTypeOK, AnswerIsOwn, ChannelsAreOwned, DownloadIsComplete.

**ChainStoreProofs**, from `ChainStoreAssumption`: any cache size, number of
heights, requests and stops. The tables and the cache are changed in different
steps, so `CacheInv` says what the cache is at each: the end of the chain, the
end of the chain without the block just written, or with the block just erased.
`ReaderInv` says that `seen` has what is on the chain while a request is served,
that what a fetch has found so far is in it, and that a part it has missed means
that the block was off the chain. That the cache may still hold a block the
database no longer has, or not yet one that it has, is what makes this need
CacheInv. From `ChainStoreInv`: TablesAgree, EventsKept, CacheIsEndOfChain,
ReadsAreOfTheChain.

**TxPoolProofs**, from `TxPoolAssumption`: any transactions, accounts and limits.
`PoolInv` adds to the three properties what a goroutine of reorg holds between
two locks (`WorkerSound`): what it is about to promote has been verified, and
its list is the account's unless it was dropped from the pool. That Promote
compares IDs is what makes this enough: the nonces it adds are of the very
transactions that were verified. Sorted nonces are a CHOOSE of an ascending
sequence, shown to exist and to be unique. From PoolInv: ListsSound,
ProcessablesVerified, PoolIndexesAgree.

**Only model-checked:** RoundTrip, StrictIsCanonical and KeptIsStable of
Transport (whose Codec is recursive: its fields nest, so that RECURSIVE operators
describe it, which are beyond the prover), and liveness under fairness
(ProcessingEnds, CallsReturn, RequestsEnd), which is beyond it too.

## Not modelled

`PROJECT.json` gives the reason for each component. In short:
- Cryptography, the transport below the message protocol, RPC and
  configuration are libraries or input and output.
- The pool of single commits and the generator's record of generated blocks
  decide what a generator proposes. LiskBFT and BlockProcessing let a
  generator propose anything the verification accepts, so no property rests on
  them; what they themselves promise is not checked.
- The execution of one transaction belongs to the application. Its snapshot
  and restore are DiffDB's; the event log is a list in memory.
- The event emitter, the choice of the best peer and the rate limits change no
  state that is modelled.
- The Merkle trees are pure algorithms over hashes, without concurrency.
- Views made with WithPrefix, and the closing of the engine's parts, are listed
  as hazards without a property.
- There is one node. That nodes agree on what they finalize would need LiskBFT
  composed with itself over a network; one node alone has 150,000 states in
  the instances above.
