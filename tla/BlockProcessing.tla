--------------------------- MODULE BlockProcessing ---------------------------
(***************************************************************************)
(* How a node changes its chain: consensus.Executer with the fork choice   *)
(* and the two synchronisers, the engine's database, and the application   *)
(* behind the ABI (framework.ABIHandler), which has a database of its own. *)
(*                                                                         *)
(* The two databases are written one after the other.  A node may stop     *)
(* between the writes; the generator shares the application's one          *)
(* execution context with the Executer, and no lock guards it; and the     *)
(* engine calls abi.Init after its other goroutines have been started.     *)
(*                                                                         *)
(* Blocks form a tree, given by header.  The bft field is what the state   *)
(* after a block says is precommitted (module LiskBFT), sound is whether   *)
(* every check on the block but those on its place and time succeeds.  A   *)
(* state root is named by the block that leads to it.                      *)
(***************************************************************************)
EXTENDS Integers, Sequences, FiniteSets

CONSTANTS
    Blocks,
    Genesis,
    header,         \* Blocks -> fields of the header
    Validators,     \* the addresses of createSyncContext's CurrentValidators
    None,
    MaxSlot,        \* bound: the last slot of the clock
    MaxForgings,    \* bound: how often the generator prepares a block
    MaxCrashes      \* bound: how often the node stops

VARIABLES
    (* the engine's database *)
    chain,              \* block at each height, from the genesis block
    stateDiffs,         \* heights whose Diff is stored
    finalizedHeight,
    temp,               \* height -> temp block
    (* the application's database *)
    app,                \* its recorded height and root, and the blocks whose writes it has
    appDiffs,           \* height -> the block whose Diff is stored there
    (* memory *)
    context,            \* ABIHandler.executionContext, or None
    mode,               \* what the Executer is doing
    phase,              \* how far the block it is working on is
    batch,              \* the changes ABIHandler.Commit is about to write
    todo,               \* the blocks it is going to apply
    common,             \* the height it deletes down to
    lastBlockReceived,  \* slot of the time, or None
    initCall,           \* how far the engine's call of abi.Init is
    forging,            \* Generator.forge: its step and the height of its block, or None
    (* the environment *)
    now,                \* slot of the current time
    forgings,
    crashes,
    original,           \* history: the chain when the last sync began
    overlapped          \* history: a context was replaced while in use

engineDB == <<chain, stateDiffs, finalizedHeight, temp>>
appDB == <<app, appDiffs>>
plan == <<mode, todo, common, original>>
control == <<plan, phase, batch>>
outside == <<initCall, forging, now, forgings, crashes, overlapped>>
vars == <<engineDB, appDB, control, context, lastBlockReceived, outside>>

Headers ==
    [height : Nat, previousBlockID : Blocks \cup {None}, slot : Nat,
     generatorAddress : STRING, maxHeightPrevoted : Nat, bft : Nat, sound : BOOLEAN]

ASSUME TreeAssumption ==
    /\ Genesis \in Blocks /\ None \notin Blocks
    /\ header \in [Blocks -> Headers]
    /\ header[Genesis].height = 0 /\ header[Genesis].previousBlockID = None
    /\ header[Genesis].maxHeightPrevoted = 0
    /\ \A b \in Blocks \ {Genesis} :
          LET parent == header[b].previousBlockID
          IN  /\ parent \in Blocks
              /\ header[b].height = header[parent].height + 1
              /\ header[parent].bft <= header[b].bft
              /\ header[b].bft < header[b].height

ASSUME BoundsAssumption ==
    MaxSlot \in Nat /\ MaxForgings \in Nat /\ MaxCrashes \in Nat

(* An execution context has the ID of a block, or None for the generator's,*)
(* the height in its header, and in its diffStore the changes of blocks.   *)
(* None of them is nil, nor is the generator's state.                      *)
Contexts == [id : Blocks \cup {None}, height : Nat, writes : SUBSET (Blocks \cup {None})]
Forging == [step : {"checked", "entering", "forging", "calling"}, height : Nat]

ASSUME NilAssumption == None \notin Contexts /\ None \notin Forging

Height(b) == header[b].height
Parent(b) == header[b].previousBlockID
LastBlock == chain[Len(chain)]
BlocksOf(c) == {c[i] : i \in DOMAIN c}

\* A block and those below it, in the tree.
Branch(b) ==
    LET path[n \in 0 .. Height(b)] ==
            IF n = 0 THEN {b}
            ELSE path[n - 1] \cup {Parent(c) : c \in path[n - 1] \ {Genesis}}
    IN  path[Height(b)]

\* The blocks of b's branch above a height, in ascending order.
BlocksAbove(b, h) ==
    [i \in 1 .. Height(b) - h |-> CHOOSE c \in Branch(b) : Height(c) = h + i]

-----------------------------------------------------------------------------
(* forkchoice.forkChoice                                                   *)

IsValidBlock(b) == Parent(b) = LastBlock

IsDuplicateBlock(b) ==
    /\ Height(b) = Height(LastBlock)
    /\ header[b].maxHeightPrevoted = header[LastBlock].maxHeightPrevoted
    /\ Parent(b) = Parent(LastBlock)

IsDoubleForging(b) ==
    IsDuplicateBlock(b) /\ header[b].generatorAddress = header[LastBlock].generatorAddress

ReceivedLastBlockWithinForgingSlot ==
    lastBlockReceived = None \/ lastBlockReceived = header[LastBlock].slot

IsTieBreak(b) ==
    /\ IsDuplicateBlock(b)
    /\ header[LastBlock].slot < header[b].slot
    /\ ~ ReceivedLastBlockWithinForgingSlot
    /\ now = header[b].slot

\* Mutant: a higher block wins whatever its prevotes.
IsDifferentChainByHeight(b) == Height(LastBlock) < Height(b)

IsDifferentChain(b) ==
    \/ header[LastBlock].maxHeightPrevoted < header[b].maxHeightPrevoted
    \/ /\ Height(LastBlock) < Height(b)
       /\ header[LastBlock].maxHeightPrevoted = header[b].maxHeightPrevoted

-----------------------------------------------------------------------------
(* Executer.process                                                        *)

idle == mode = "idle"

Start(m, blocks, height) ==
    /\ mode' = m
    /\ phase' = "none"
    /\ todo' = blocks
    /\ common' = height
    /\ original' = chain
    /\ UNCHANGED batch

Stop ==
    /\ mode' = "idle"
    /\ phase' = "none"
    /\ todo' = << >>
    /\ UNCHANGED <<common, original, batch>>

ReceiveValidBlock(b) ==
    /\ idle /\ b # LastBlock /\ IsValidBlock(b)
    /\ lastBlockReceived' = now
    /\ Start("apply", <<b>>, Height(LastBlock))
    /\ UNCHANGED <<engineDB, appDB, context, outside>>

\* The last block is deleted, and applied again if the new one fails.
ReceiveTieBreak(b) ==
    /\ idle /\ b # LastBlock /\ ~ IsValidBlock(b) /\ ~ IsDoubleForging(b)
    /\ IsTieBreak(b)
    /\ lastBlockReceived' = now
    /\ Start("tieDelete", <<b, LastBlock>>, Height(LastBlock) - 1)
    /\ UNCHANGED <<engineDB, appDB, context, outside>>

StartsSync(b) ==
    /\ idle /\ b # LastBlock /\ ~ IsValidBlock(b) /\ ~ IsDoubleForging(b)
    /\ ~ IsTieBreak(b) /\ IsDifferentChain(b)

TwoRounds == 2 * Cardinality(Validators)
ThreeRounds == 3 * Cardinality(Validators)
Difference(m, n) == IF m < n THEN n - m ELSE m - n

ShouldFastSync(b) ==
    /\ Difference(Height(b), Height(LastBlock)) <= TwoRounds
    /\ header[b].generatorAddress \in Validators

ShouldSync == now - header[chain[finalizedHeight + 1]].slot > ThreeRounds

CommonHeights(b) == {Height(c) : c \in Branch(b) \cap BlocksOf(chain)}

HighestOf(S) == CHOOSE h \in S : \A g \in S : g <= h

\* fastSyncer.Sync, up to the first deletion.  The peer has the received block;
\* its answers are those of a peer on that block's branch.
ReceiveFastSync(b) ==
    /\ StartsSync(b) /\ ShouldFastSync(b)
    /\ LET height == HighestOf(CommonHeights(b))
       IN  /\ Height(LastBlock) - height < TwoRounds - 1
           /\ height >= finalizedHeight
           /\ Height(b) - height <= TwoRounds
           /\ Start("fastDelete", BlocksAbove(b, height), height)
    /\ UNCHANGED <<engineDB, appDB, lastBlockReceived, context, outside>>

\* The heights getCommonBlockHeader asks the peer for: in steps of a round down
\* from the round before the last block's, and the finalized one when the steps
\* go below it.  A step below 0 wraps around and finds nothing.
SearchHeights ==
    LET round  == Cardinality(Validators)
        start  == ((Height(LastBlock) + round - 1) \div round - 1) * round
        steps  == {h \in finalizedHeight .. start : (start - h) % round = 0}
    IN  steps \cup (IF \A h \in steps : h >= round THEN {finalizedHeight} ELSE {})

\* blockSyncer.Sync with the branch of some peer's last block.
ReceiveBlockSync(b, last) ==
    /\ StartsSync(b) /\ ~ ShouldFastSync(b) /\ ShouldSync
    /\ last # Genesis /\ (IsDifferentChain(last) \/ LastBlock = Genesis)
    /\ LET heights == CommonHeights(last) \cap SearchHeights
       IN  /\ heights # {}
           /\ Start("syncDelete", BlocksAbove(last, HighestOf(heights)), HighestOf(heights))
    /\ UNCHANGED <<engineDB, appDB, lastBlockReceived, context, outside>>

-----------------------------------------------------------------------------
(* Executer.deleteBlock, and the loops of deleteTillCommonBlock            *)

Deleting == mode \in {"tieDelete", "fastDelete", "restoreDelete", "syncDelete"}

\* Mutant: the finalized block itself may be deleted.
DeletableOffByOne == Height(LastBlock) >= finalizedHeight

Deletable == Height(LastBlock) > finalizedHeight

\* ABIHandler.InitStateMachine tests whether there is a context, and sets its own
\* some time after that, whatever is there by then.
InitStateMachineEnters == context = None

InitStateMachineSets(id, height) ==
    /\ context' = [id |-> id, height |-> height, writes |-> {}]
    /\ overlapped' = (overlapped \/ context # None)

\* ABIHandler.checkState, which the other calls begin with.
CheckState(id) == context # None /\ context.id = id

\* The caller's context, with these changes in its diffStore.
ContextHas(id, writes) == CheckState(id) /\ context.writes = writes

DeleteEnter ==
    /\ Deleting /\ phase = "none" /\ Height(LastBlock) # common
    /\ Deletable /\ InitStateMachineEnters
    /\ phase' = "entering"
    /\ UNCHANGED <<engineDB, appDB, plan, batch, context, lastBlockReceived, outside>>

\* Its errors end the tie break or the sync.
DeleteRefused ==
    /\ Deleting /\ phase = "none" /\ Height(LastBlock) # common
    /\ ~ InitStateMachineEnters \/ ~ Deletable
    /\ Stop
    /\ UNCHANGED <<engineDB, appDB, lastBlockReceived, context, outside>>

DeleteBegin ==
    /\ Deleting /\ phase = "entering"
    /\ InitStateMachineSets(LastBlock, Height(LastBlock))
    /\ phase' = "executing"
    /\ UNCHANGED <<engineDB, appDB, plan, batch, lastBlockReceived, initCall, forging, now,
                   forgings, crashes>>

\* The application's Diff at the height is the block's: no other leads to the
\* root that the engine expects.
RevertibleByApp(b) == Height(b) \in DOMAIN appDiffs /\ appDiffs[Height(b)] = b

Reverts == /\ Height(LastBlock) \in stateDiffs
           /\ CheckState(LastBlock) /\ RevertibleByApp(LastBlock)

\* ABIHandler.Revert, up to the comparison of the roots.
AppRevert ==
    /\ Deleting /\ phase = "executing" /\ Reverts
    /\ phase' = "writing"
    /\ UNCHANGED <<engineDB, appDB, plan, batch, context, lastBlockReceived, outside>>

\* Clear, which deleteBlock defers, leaves no context, whoever's it is.
AppRevertFails ==
    /\ Deleting /\ phase = "executing" /\ ~ Reverts
    /\ Stop
    /\ context' = None
    /\ UNCHANGED <<engineDB, appDB, lastBlockReceived, outside>>

\* Mutant: the height is not stepped back.
AppRevertWriteSameHeight ==
    /\ Deleting /\ phase = "writing" /\ context # None
    /\ app' = [height |-> context.height, root |-> Parent(LastBlock),
               applied |-> app.applied \ {LastBlock}]
    /\ phase' = "written"
    /\ UNCHANGED <<engineDB, appDiffs, plan, batch, context, lastBlockReceived, outside>>

\* Mutant: the engine's Diff is deleted before its block is.
AppRevertWriteDropsDiff ==
    /\ Deleting /\ phase = "writing" /\ context # None
    /\ app' = [height |-> context.height - 1, root |-> Parent(LastBlock),
               applied |-> app.applied \ {LastBlock}]
    /\ stateDiffs' = stateDiffs \ {Height(LastBlock)}
    /\ phase' = "written"
    /\ UNCHANGED <<chain, finalizedHeight, temp, appDiffs, plan, batch, context,
                   lastBlockReceived, outside>>

\* The height it records is read from the context there is by now; when that is
\* nil the node dies (Crash).  The Diff stays.
AppRevertWrite ==
    /\ Deleting /\ phase = "writing" /\ context # None
    /\ app' = [height |-> context.height - 1, root |-> Parent(LastBlock),
               applied |-> app.applied \ {LastBlock}]
    /\ phase' = "written"
    /\ UNCHANGED <<engineDB, appDiffs, plan, batch, context, lastBlockReceived, outside>>

\* Mutant: the temp block is stored at the height of the block below.
RemoveBlockTempBelow ==
    /\ Deleting /\ phase = "written"
    /\ chain' = SubSeq(chain, 1, Len(chain) - 1)
    /\ stateDiffs' = stateDiffs \ {Height(LastBlock)}
    /\ temp' = IF mode = "tieDelete" THEN temp
               ELSE [h \in DOMAIN temp \cup {Height(LastBlock) - 1} |->
                        IF h = Height(LastBlock) - 1 THEN LastBlock ELSE temp[h]]
    /\ context' = None
    /\ phase' = "none"
    /\ UNCHANGED <<finalizedHeight, appDB, plan, batch, lastBlockReceived, outside>>

RemoveBlock ==
    /\ Deleting /\ phase = "written"
    /\ chain' = SubSeq(chain, 1, Len(chain) - 1)
    /\ stateDiffs' = stateDiffs \ {Height(LastBlock)}
    /\ temp' = IF mode = "tieDelete" THEN temp
               ELSE [h \in DOMAIN temp \cup {Height(LastBlock)} |->
                        IF h = Height(LastBlock) THEN LastBlock ELSE temp[h]]
    /\ context' = None
    /\ phase' = "none"
    /\ UNCHANGED <<finalizedHeight, appDB, plan, batch, lastBlockReceived, outside>>

AscendingBlocks(t) ==
    LET order == CHOOSE f \in [1 .. Cardinality(DOMAIN t) -> DOMAIN t] :
                    \A i, j \in DOMAIN f : i < j => Height(t[f[i]]) < Height(t[f[j]])
    IN  [i \in DOMAIN order |-> t[order[i]]]

DeleteDone ==
    /\ Deleting /\ phase = "none" /\ Height(LastBlock) = common
    /\ mode' = CASE mode = "tieDelete" -> "tieApply"
                 [] mode = "fastDelete" -> "fastApply"
                 [] mode = "restoreDelete" -> "restoreApply"
                 [] mode = "syncDelete" -> "syncApply"
    /\ todo' = IF mode = "restoreDelete" THEN AscendingBlocks(temp) ELSE todo
    /\ UNCHANGED <<engineDB, appDB, phase, batch, common, original, context,
                   lastBlockReceived, outside>>

-----------------------------------------------------------------------------
(* Executer.processValidated                                               *)

Applying == mode \in {"apply", "tieApply", "fastApply", "restoreApply", "syncApply"}

\* verifyBlock: the place and the time of the block.
VerifyBlock(b) ==
    /\ b \in Blocks /\ Parent(b) = LastBlock
    /\ header[b].slot <= now
    /\ header[b].slot > header[LastBlock].slot

\* Mutant: restoreBlocks starts again when it fails.
ApplyFailedRetries ==
    /\ phase' = "none"
    /\ mode' = CASE mode = "tieApply" -> "apply"
                 [] mode \in {"fastApply", "restoreApply"} -> "restoreDelete"
                 [] OTHER -> "idle"
    /\ todo' = IF mode = "tieApply" THEN Tail(todo) ELSE << >>
    /\ UNCHANGED <<common, original, batch>>

\* Mutant: the block that was deleted for the tie break is forgotten.
ApplyFailedForgets ==
    /\ phase' = "none"
    /\ mode' = IF mode = "fastApply" THEN "restoreDelete" ELSE "idle"
    /\ todo' = << >>
    /\ UNCHANGED <<common, original, batch>>

\* What the callers do when a block is not applied.
ApplyFailed ==
    /\ phase' = "none"
    /\ mode' = CASE mode = "tieApply" -> "apply"
                 [] mode = "fastApply" -> "restoreDelete"
                 [] OTHER -> "idle"
    /\ todo' = IF mode = "tieApply" THEN Tail(todo) ELSE << >>
    /\ UNCHANGED <<common, original, batch>>

ApplyEnter ==
    /\ Applying /\ phase = "none" /\ todo # << >>
    /\ VerifyBlock(Head(todo)) /\ InitStateMachineEnters
    /\ phase' = "entering"
    /\ UNCHANGED <<engineDB, appDB, plan, batch, context, lastBlockReceived, outside>>

ApplyRefused ==
    /\ Applying /\ phase = "none" /\ todo # << >>
    /\ ~ InitStateMachineEnters \/ ~ VerifyBlock(Head(todo))
    /\ ApplyFailed
    /\ UNCHANGED <<engineDB, appDB, lastBlockReceived, context, outside>>

ApplyBegin ==
    /\ Applying /\ phase = "entering"
    /\ InitStateMachineSets(Head(todo), Height(Head(todo)))
    /\ phase' = "executing"
    /\ UNCHANGED <<engineDB, appDB, plan, batch, lastBlockReceived, initCall, forging, now,
                   forgings, crashes>>

\* The block executes to its root on the state of the blocks below it only.
Executes(b) == header[b].sound /\ app.applied = Branch(b) \ {b}

\* A call that loses the context after its checkState leaves its changes in the
\* generator's diffStore, where they are never committed, or dies (Crash).
AppExecute ==
    /\ Applying /\ phase = "executing"
    /\ Executes(Head(todo)) /\ CheckState(Head(todo))
    /\ context' = [context EXCEPT !.writes = @ \cup {Head(todo)}]
    /\ phase' = "executed"
    /\ UNCHANGED <<engineDB, appDB, plan, batch, lastBlockReceived, outside>>

\* The generator's changes in the diffStore may also be why the block fails.
AppExecuteFails ==
    /\ Applying /\ phase = "executing"
    /\ ~ (Executes(Head(todo)) /\ ContextHas(Head(todo), {}))
    /\ ApplyFailed
    /\ context' = None
    /\ UNCHANGED <<engineDB, appDB, lastBlockReceived, outside>>

\* Mutant: the root is not compared with the expected one.
AppCommitAnyRoot ==
    /\ Applying /\ phase = "executed" /\ CheckState(Head(todo))
    /\ batch' = context.writes
    /\ phase' = "writing"
    /\ UNCHANGED <<engineDB, appDB, plan, context, lastBlockReceived, outside>>

\* ABIHandler.Commit, up to the comparison of the roots: the changes in the
\* diffStore lead to the block's root when they are the block's and no others.
AppCommit ==
    /\ Applying /\ phase = "executed" /\ ContextHas(Head(todo), {Head(todo)})
    /\ batch' = context.writes
    /\ phase' = "writing"
    /\ UNCHANGED <<engineDB, appDB, plan, context, lastBlockReceived, outside>>

AppCommitFails ==
    /\ Applying /\ phase = "executed" /\ ~ ContextHas(Head(todo), {Head(todo)})
    /\ ApplyFailed
    /\ context' = None
    /\ UNCHANGED <<engineDB, appDB, lastBlockReceived, outside>>

\* Mutant: the Diff is not stored.
AppCommitWriteWithoutDiff ==
    /\ Applying /\ phase = "writing" /\ context # None
    /\ app' = [height |-> context.height, root |-> Head(todo), applied |-> app.applied \cup batch]
    /\ batch' = {}
    /\ phase' = "written"
    /\ UNCHANGED <<engineDB, appDiffs, plan, context, lastBlockReceived, outside>>

\* The key of the Diff and the height it records are read from the context one
\* after the other: each is the block's own height, or that of a context the
\* generator has set since.
AppCommitWrite ==
    /\ Applying /\ phase = "writing" /\ context # None
    /\ app' = [height |-> context.height, root |-> Head(todo), applied |-> app.applied \cup batch]
    /\ \E key \in {Height(Head(todo)), context.height} :
          appDiffs' = [h \in DOMAIN appDiffs \cup {key} |->
                          IF h = key THEN Head(todo) ELSE appDiffs[h]]
    /\ batch' = {}
    /\ phase' = "written"
    /\ UNCHANGED <<engineDB, plan, context, lastBlockReceived, outside>>

Bigger(m, n) == IF m < n THEN n ELSE m

\* Mutant: the Diff of the block above the finalized one goes too.
KeptDiffsAbove(b) ==
    IF header[b].bft > finalizedHeight
    THEN {h \in stateDiffs : h > header[b].bft + 1} ELSE stateDiffs

\* When finality moves, the Diffs below it are deleted.
KeptDiffs(b) ==
    IF header[b].bft > finalizedHeight
    THEN {h \in stateDiffs : h >= header[b].bft} ELSE stateDiffs

\* One batch: block, Diff, finalized height, and temp block to remove.
AddBlock ==
    /\ Applying /\ phase = "written"
    /\ LET b == Head(todo)
       IN  /\ chain' = Append(chain, b)
           /\ stateDiffs' = KeptDiffs(b) \cup {Height(b)}
           /\ finalizedHeight' = Bigger(header[b].bft, finalizedHeight)
           /\ temp' = IF mode = "restoreApply"
                      THEN [h \in DOMAIN temp \ {Height(b)} |-> temp[h]] ELSE temp
    /\ context' = None
    /\ phase' = "none"
    /\ todo' = IF mode = "tieApply" THEN << >> ELSE Tail(todo)
    /\ UNCHANGED <<appDB, mode, common, original, batch, lastBlockReceived, outside>>

\* After a sync the temp blocks are cleared.
ApplyDone ==
    /\ Applying /\ phase = "none" /\ todo = << >>
    /\ Stop
    /\ temp' = IF mode \in {"fastApply", "syncApply"} THEN << >> ELSE temp
    /\ UNCHANGED <<chain, stateDiffs, finalizedHeight, appDB, lastBlockReceived, context,
                   outside>>

\* The block synchroniser applies blocks as they arrive; a request fails.
DownloadFails ==
    /\ mode = "syncApply" /\ phase = "none" /\ todo # << >>
    /\ Stop
    /\ UNCHANGED <<engineDB, appDB, lastBlockReceived, context, outside>>

-----------------------------------------------------------------------------
(* The other users of the ABI, the clock, and stopping                     *)

Up == mode \notin {"down", "halted"}

Syncing == mode \in {"fastDelete", "fastApply", "restoreDelete", "restoreApply",
                     "syncDelete", "syncApply"}

\* Generator.forge, up to the call of InitStateMachine: what it has seen may
\* have changed by then.
GeneratorCheck ==
    /\ Up /\ forgings < MaxForgings /\ forging = None
    /\ ~ Syncing /\ now # header[LastBlock].slot
    /\ forging' = [step |-> "checked", height |-> Height(LastBlock) + 1]
    /\ forgings' = forgings + 1
    /\ UNCHANGED <<engineDB, appDB, control, context, lastBlockReceived, initCall, now,
                   crashes, overlapped>>

GeneratorAt(step) == forging # None /\ forging.step = step

GeneratorEnter ==
    /\ GeneratorAt("checked")
    /\ forging' = IF InitStateMachineEnters THEN [forging EXCEPT !.step = "entering"] ELSE None
    /\ UNCHANGED <<engineDB, appDB, control, context, lastBlockReceived, initCall, now,
                   forgings, crashes, overlapped>>

GeneratorBegin ==
    /\ GeneratorAt("entering")
    /\ InitStateMachineSets(None, forging.height)
    /\ forging' = [forging EXCEPT !.step = "forging"]
    /\ UNCHANGED <<engineDB, appDB, control, lastBlockReceived, initCall, now, forgings,
                   crashes>>

\* A call that changes the state: what is in the context by the time it is used
\* after checkState is changed.  A nil context kills the node (Crash).
GeneratorCall ==
    /\ GeneratorAt("forging") /\ CheckState(None)
    /\ forging' = [forging EXCEPT !.step = "calling"]
    /\ UNCHANGED <<engineDB, appDB, control, context, lastBlockReceived, initCall, now,
                   forgings, crashes, overlapped>>

GeneratorChanges ==
    /\ GeneratorAt("calling") /\ context # None
    /\ context' = [context EXCEPT !.writes = @ \cup {None}]
    /\ forging' = [forging EXCEPT !.step = "forging"]
    /\ UNCHANGED <<engineDB, appDB, control, lastBlockReceived, initCall, now, forgings,
                   crashes, overlapped>>

\* Its Commit is a dry run.  Whether its calls succeed or fail, Clear leaves no
\* context, whoever's it is.
GeneratorEnd ==
    /\ GeneratorAt("forging")
    /\ context' = None
    /\ forging' = None
    /\ UNCHANGED <<engineDB, appDB, control, lastBlockReceived, initCall, now, forgings,
                   crashes, overlapped>>

Tick ==
    /\ now < MaxSlot
    /\ now' = now + 1
    /\ UNCHANGED <<engineDB, appDB, control, context, lastBlockReceived, initCall,
                   forging, forgings, crashes, overlapped>>

LoseMemory(m) ==
    /\ mode' = m
    /\ phase' = "none"
    /\ todo' = << >>
    /\ batch' = {}
    /\ context' = None
    /\ lastBlockReceived' = None
    /\ forging' = None
    /\ UNCHANGED <<common, original, overlapped>>

\* The node stops, or a nil context is dereferenced (ABIHandler runs in the engine's
\* process).
Crash ==
    /\ Up /\ crashes < MaxCrashes
    /\ crashes' = crashes + 1
    /\ LoseMemory("down")
    /\ initCall' = [step |-> "pending"]
    /\ UNCHANGED <<engineDB, appDB, now, forgings>>

\* Engine.Start, up to and including the goroutines it starts.
Restart ==
    /\ mode = "down"
    /\ LoseMemory("idle")
    /\ UNCHANGED <<engineDB, appDB, initCall, now, forgings, crashes>>

InitAt(step) == Up /\ initCall.step = step

\* Engine.Start, after that: the arguments of abi.Init.
InitRequest ==
    /\ InitAt("pending")
    /\ initCall' = [step |-> "called", LastBlockHeight |-> Height(LastBlock),
                    LastStateRoot |-> LastBlock]
    /\ UNCHANGED <<engineDB, appDB, control, context, lastBlockReceived, forging, now,
                   forgings, crashes, overlapped>>

\* ABIHandler.Init reads the application's height and root.
InitBegin ==
    /\ InitAt("called") /\ app.height >= initCall.LastBlockHeight
    /\ initCall' = [step |-> "reverting", LastBlockHeight |-> initCall.LastBlockHeight,
                    LastStateRoot |-> initCall.LastStateRoot,
                    currentHeight |-> app.height, currentRoot |-> app.root]
    /\ UNCHANGED <<engineDB, appDB, control, context, lastBlockReceived, forging, now,
                   forgings, crashes, overlapped>>

\* An application that is ahead is reverted one block.  The height it records is
\* that of the execution context, less 1.
InitReverts ==
    /\ InitAt("reverting") /\ initCall.currentHeight > initCall.LastBlockHeight
    /\ context # None /\ initCall.currentHeight \in DOMAIN appDiffs
    /\ LET b    == appDiffs[initCall.currentHeight]
           root == IF b = initCall.currentRoot THEN Parent(b) ELSE None
       IN  /\ app' = [height |-> context.height - 1, root |-> root,
                      applied |-> app.applied \ {b}]
           /\ initCall' = [initCall EXCEPT !.currentHeight = @ - 1, !.currentRoot = root]
    /\ UNCHANGED <<engineDB, appDiffs, control, context, lastBlockReceived, forging, now,
                   forgings, crashes, overlapped>>

InitSucceeds ==
    /\ InitAt("reverting") /\ initCall.currentHeight = initCall.LastBlockHeight
    /\ initCall.currentRoot = initCall.LastStateRoot
    /\ initCall' = [step |-> "done"]
    /\ UNCHANGED <<engineDB, appDB, control, context, lastBlockReceived, forging, now,
                   forgings, crashes, overlapped>>

\* Engine.Start returns an error, or, without an execution context to take the
\* height from, the application dies.
InitFails ==
    /\ \/ InitAt("called") /\ app.height < initCall.LastBlockHeight
       \/ /\ InitAt("reverting")
          /\ IF initCall.currentHeight = initCall.LastBlockHeight
             THEN initCall.currentRoot # initCall.LastStateRoot
             ELSE context = None \/ initCall.currentHeight \notin DOMAIN appDiffs
    /\ LoseMemory("halted")
    /\ UNCHANGED <<engineDB, appDB, initCall, now, forgings, crashes>>

-----------------------------------------------------------------------------
\* A node that has started, with the genesis block only.
Init ==
    /\ chain = <<Genesis>> /\ stateDiffs = {0} /\ finalizedHeight = 0 /\ temp = << >>
    /\ app = [height |-> 0, root |-> Genesis, applied |-> {Genesis}]
    /\ appDiffs = [h \in {0} |-> Genesis]
    /\ context = None
    /\ mode = "idle" /\ phase = "none" /\ batch = {} /\ todo = << >> /\ common = 0
    /\ lastBlockReceived = None /\ initCall = [step |-> "done"] /\ forging = None
    /\ now = 0 /\ forgings = 0 /\ crashes = 0
    /\ original = chain /\ overlapped = FALSE

Receive ==
    \E b \in Blocks :
        \/ ReceiveValidBlock(b)
        \/ ReceiveTieBreak(b)
        \/ ReceiveFastSync(b)
        \/ \E last \in Blocks : ReceiveBlockSync(b, last)

\* The Executer's goroutine at work on a block it has received.
Work ==
    \/ DeleteEnter \/ DeleteRefused \/ DeleteBegin
    \/ AppRevert \/ AppRevertFails \/ AppRevertWrite \/ RemoveBlock \/ DeleteDone
    \/ ApplyEnter \/ ApplyRefused \/ ApplyBegin \/ AppExecute \/ AppExecuteFails
    \/ AppCommit \/ AppCommitFails \/ AppCommitWrite \/ AddBlock
    \/ ApplyDone \/ DownloadFails

Generate ==
    \/ GeneratorCheck \/ GeneratorEnter \/ GeneratorBegin \/ GeneratorCall
    \/ GeneratorChanges \/ GeneratorEnd

Startup == InitRequest \/ InitBegin \/ InitReverts \/ InitSucceeds \/ InitFails

Next == Receive \/ Work \/ Generate \/ Startup \/ Tick \/ Crash \/ Restart

Spec == Init /\ [][Next]_vars

\* The goroutine goes on with what it has begun.
FairSpec == Spec /\ WF_vars(Work)

-----------------------------------------------------------------------------
(* Properties                                                              *)

Modes == {"idle", "apply", "tieDelete", "tieApply", "fastDelete", "fastApply",
          "restoreDelete", "restoreApply", "syncDelete", "syncApply", "down", "halted"}

Phases == {"none", "entering", "executing", "executed", "writing", "written"}

\* The variables have their types, the engine's blocks form a branch of the tree,
\* and a temp block is stored at its height.
TypeOK ==
    /\ chain \in Seq(Blocks) /\ Len(chain) > 0 /\ BlocksOf(chain) = Branch(LastBlock)
    /\ \A i \in DOMAIN chain : Height(chain[i]) = i - 1
    /\ stateDiffs \subseteq Nat
    /\ finalizedHeight \in Nat
    /\ \A h \in DOMAIN temp : Height(temp[h]) = h
    /\ app.height \in Nat /\ app.root \in Blocks \cup {None} /\ app.applied \subseteq Blocks
    /\ \A h \in DOMAIN appDiffs :
          appDiffs[h] \in Blocks /\ (overlapped \/ Height(appDiffs[h]) = h)
    /\ context \in Contexts \cup {None} /\ forging \in Forging \cup {None}
    /\ mode \in Modes /\ phase \in Phases /\ batch \subseteq Blocks \cup {None}
    /\ todo \in Seq(Blocks) /\ original \in Seq(Blocks)
    /\ common \in Nat /\ now \in 0 .. MaxSlot
    /\ forgings \in 0 .. MaxForgings /\ crashes \in 0 .. MaxCrashes
    /\ lastBlockReceived \in Nat \cup {None} /\ overlapped \in BOOLEAN

\* Whatever the Executer, the synchronisers and the failures of both do, the
\* blocks up to the finalized height stay (the guard of deleteBlock), and that
\* height does not go down.
FinalizedNeverReverted ==
    [][/\ finalizedHeight <= finalizedHeight'
       /\ \A i \in 1 .. finalizedHeight + 1 : i \in DOMAIN chain' /\ chain'[i] = chain[i]]_vars

\* Every block above the finalized one can be deleted: processValidated removes
\* only Diffs that deleteBlock will never ask for.
DeletableAboveFinalized == finalizedHeight + 1 .. Height(LastBlock) \subseteq stateDiffs

\* Between two blocks the application has executed exactly the engine's chain:
\* every path through processValidated, deleteBlock, the tie break and the two
\* synchronisers keeps the two databases together.
AppAgrees ==
    phase = "none" =>
        app = [height |-> Height(LastBlock), root |-> LastBlock, applied |-> BlocksOf(chain)]

\* One execution context serves the Executer and the generator, and no lock keeps
\* one from replacing, changing or clearing that of the other.  All the same, up
\* to the first stop the application has, between two blocks, the root and the
\* state of the engine's last block: what checkState lets through by chance does
\* not lead to the root that Commit and Revert are given.
StateSurvivesOverlap ==
    (crashes = 0 /\ phase = "none") => app.root = LastBlock /\ app.applied = BlocksOf(chain)

\* A context belongs to the block it was set for until that block is done: what
\* the error of InitStateMachine says.
ContextIsExecuters ==
    phase \in {"executing", "executed", "writing", "written"} =>
        CheckState(IF Deleting THEN LastBlock ELSE Head(todo))

\* Wherever a node stops, the two databases agree, or the one block between them
\* can be taken back from the side that has it: by the application's Diff when
\* it has committed what the engine has not added, unless two contexts overlapped;
\* by the engine's Diff when the application has reverted what the engine has not
\* removed.
StopIsRepairable ==
    (mode = "down" /\ crashes = 1) =>
        \/ app.root = LastBlock /\ app.applied = BlocksOf(chain)
        \/ /\ app.root \in Blocks \ BlocksOf(chain) /\ Parent(app.root) = LastBlock
           /\ app.applied = BlocksOf(chain) \cup {app.root}
           /\ overlapped \/ RevertibleByApp(app.root)
        \/ /\ app.root = Parent(LastBlock)
           /\ app.applied = BlocksOf(chain) \ {LastBlock}
           /\ Height(LastBlock) \in stateDiffs

\* The application can revert every block of the engine's chain: the Diff it has
\* stored under a height is that of the block there, however often that block
\* has been replaced, and wherever the node stopped.  Overlapping contexts break
\* this: Commit may store the Diff under the height of the generator's.
RevertAvailable ==
    ~ overlapped =>
        \A i \in DOMAIN chain : i - 1 \in DOMAIN appDiffs /\ appDiffs[i - 1] = chain[i]

\* Once abi.Init has accepted the application's state, the application has
\* executed exactly the engine's chain.
AgreesOnceStarted == (mode # "down" /\ initCall.step = "done") => AppAgrees

\* Block b wins over block c in the fork choice.
Wins(b, c) ==
    \/ header[c].maxHeightPrevoted < header[b].maxHeightPrevoted
    \/ header[c].maxHeightPrevoted = header[b].maxHeightPrevoted /\ Height(c) < Height(b)

\* A synchronisation that goes through ends on a chain that wins over the one
\* the node had.
SyncImproves ==
    [][(mode \in {"fastApply", "syncApply"} /\ todo = << >> /\ mode' = "idle")
          => Wins(LastBlock, original[Len(original)])]_vars

\* A tie break, and a block applied on top, never leaves the node with fewer
\* blocks than it had: the block that was deleted is applied again.
TieBreakKeepsHeight ==
    [][(mode \in {"apply", "tieApply"} /\ mode' = "idle")
          => Len(chain') >= Len(original)]_vars

\* When fastSyncer.restoreBlocks ends, the blocks that the sync deleted are back.
RestoreRecovers ==
    [][(mode = "restoreApply" /\ mode' = "idle") => BlocksOf(original) \subseteq BlocksOf(chain')]_vars

\* ABIHandler.Init reverts an application that is ahead of the engine: it is
\* never why a node does not start.
AheadIsReverted == mode = "halted" => app.height <= initCall.LastBlockHeight

\* The work on a received block ends, and the next block can be received.
ProcessingEnds == (mode # "idle") ~> (mode = "idle")
=============================================================================
