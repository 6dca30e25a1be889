----------------------- MODULE BlockProcessingProofs -----------------------
(***************************************************************************)
(* The safety of BlockProcessing for every tree of blocks, every number of *)
(* stops and any generator: what is final stays, what is not can be        *)
(* deleted, the two databases can be brought together again, contexts that *)
(* overlap never make the application's state another one, and a           *)
(* synchronisation that goes through ends on a better chain.  And, without *)
(* a generator and stops: a tie break never loses a block.                 *)
(***************************************************************************)
EXTENDS BlockProcessing, SetTheorems, TLAPS

(* The chain is a path of the tree from the genesis block.                 *)
ChainInv ==
    /\ chain \in Seq(Blocks) /\ Len(chain) > 0
    /\ \A i \in 1 .. Len(chain) : Height(chain[i]) = i - 1
    /\ \A i \in 2 .. Len(chain) : Parent(chain[i]) = chain[i - 1]
    /\ finalizedHeight \in Nat /\ finalizedHeight < Len(chain)

(* What holds while a block is being deleted or applied: the checks that   *)
(* were made when the work began still hold, what Commit writes are the    *)
(* block's changes and no others, and without an overlap its Diff is under *)
(* the height of the block.                                                *)
WorkInv ==
    phase # "none" =>
        \/ /\ Deleting /\ phase \in {"entering", "executing", "writing", "written"}
           /\ Height(LastBlock) > finalizedHeight
        \/ /\ Applying
           /\ Head(todo) \in Blocks /\ Parent(Head(todo)) = LastBlock
           /\ phase = "writing" => batch = {Head(todo)}
           /\ phase = "written" => overlapped \/ RevertibleByApp(Head(todo))

(* The block the Executer works on, and when it has set a context for it.  *)
Working == IF Deleting THEN LastBlock ELSE Head(todo)
InContext == phase \in {"executing", "executed", "writing", "written"}

(* The generator between its InitStateMachine and its Clear.               *)
Generating == forging # None /\ forging.step \in {"forging", "calling"}

(* Until two contexts overlap, the one there is belongs to whoever is      *)
(* between InitStateMachine and Clear, so the two never are both.          *)
HolderInv ==
    /\ context \in Contexts \cup {None} /\ forging \in Forging \cup {None}
    /\ overlapped \in BOOLEAN
    /\ ~ overlapped =>
          /\ InContext => CheckState(Working) /\ context.height = Height(Working)
          /\ Generating => CheckState(None)

(* The application has this root and state, and records this height unless *)
(* contexts have overlapped.                                               *)
AppIs(height, root, applied) ==
    /\ app = [height |-> app.height, root |-> root, applied |-> applied]
    /\ overlapped \/ app.height = height

(* Where the application is, until the node stops for the first time.      *)
AppInv ==
    crashes = 0 =>
        /\ initCall.step = "done"
        /\ phase # "written" => AppIs(Height(LastBlock), LastBlock, BlocksOf(chain))
        /\ phase = "written" /\ Deleting =>
              AppIs(Height(LastBlock) - 1, Parent(LastBlock), BlocksOf(chain) \ {LastBlock})
        /\ phase = "written" /\ Applying =>
              AppIs(Height(Head(todo)), Head(todo), BlocksOf(chain) \cup {Head(todo)})

BlockInv ==
    /\ ChainInv /\ WorkInv /\ HolderInv /\ AppInv
    /\ crashes \in Nat
    /\ DeletableAboveFinalized /\ RevertAvailable /\ StopIsRepairable

-----------------------------------------------------------------------------
(* A block of the chain that is the last is at the height of the chain.    *)
LEMMA LastIsHighest ==
    ASSUME ChainInv
    PROVE  /\ LastBlock \in Blocks /\ Height(LastBlock) = Len(chain) - 1
           /\ Len(chain) \in Nat
  BY DEF ChainInv, LastBlock

(* A block whose parent is a block is one above it.                        *)
LEMMA ChildIsHigher ==
    ASSUME NEW b \in Blocks, Parent(b) \in Blocks
    PROVE  /\ b # Genesis /\ Height(b) = Height(Parent(b)) + 1
           /\ header[b].bft \in Nat /\ header[b].bft < Height(b)
           /\ Height(b) \in Nat
  <1>1. b # Genesis
    BY TreeAssumption DEF Parent
  <1>2. header[b] \in Headers
    BY TreeAssumption
  <1> QED
    BY <1>1, <1>2, TreeAssumption DEF Parent, Height, Headers

(* The block that is worked on is a block of the tree.                     *)
LEMMA WorkingIsBlock ==
    ASSUME ChainInv, WorkInv, phase # "none"
    PROVE  Working \in Blocks /\ Working # None /\ Height(Working) \in Nat
  <1>1. Working \in Blocks
    BY LastIsHighest DEF WorkInv, Working
  <1>2. header[Working] \in Headers
    BY <1>1, TreeAssumption
  <1> QED
    BY <1>1, <1>2, TreeAssumption DEF Height, Headers

-----------------------------------------------------------------------------
(* Whose the context is.                                                   *)

(* Until contexts overlap, the Executer and the generator never hold it    *)
(* together.                                                               *)
LEMMA HolderIsAlone ==
    ASSUME ChainInv, WorkInv, HolderInv, ~ overlapped, InContext
    PROVE  ~ Generating
  BY WorkingIsBlock DEF HolderInv, InContext, CheckState

(* What setting a context does, whatever was there.                        *)
LEMMA ContextSet ==
    ASSUME NEW id \in Blocks \cup {None}, NEW height \in Nat,
           HolderInv, InitStateMachineSets(id, height)
    PROVE  /\ context' \in Contexts /\ context' # None
           /\ context'.id = id /\ context'.height = height
           /\ overlapped' \in BOOLEAN
           /\ ~ overlapped' => ~ overlapped /\ context = None
  <1>1. context' = [id |-> id, height |-> height, writes |-> {}]
    BY Zenon DEF InitStateMachineSets
  <1>2. context' \in Contexts /\ context'.id = id /\ context'.height = height
    BY <1>1 DEF Contexts
  <1>3. context' # None
    BY Zenon, <1>2, NilAssumption
  <1>4. overlapped' = (overlapped \/ context # None)
    BY Zenon DEF InitStateMachineSets
  <1>5. overlapped' \in BOOLEAN /\ (~ overlapped' => ~ overlapped /\ context = None)
    BY Zenon, <1>4 DEF HolderInv
  <1> QED
    BY Zenon, <1>2, <1>3, <1>5

(* Changes in a context leave it its owner.                                *)
LEMMA ContextWritten ==
    ASSUME NEW b \in Blocks \cup {None}, context \in Contexts,
           context' = [context EXCEPT !.writes = @ \cup {b}]
    PROVE  /\ context' \in Contexts /\ context' # None
           /\ context'.id = context.id /\ context'.height = context.height
  <1>1. /\ context' \in Contexts
        /\ context'.id = context.id /\ context'.height = context.height
    BY DEF Contexts
  <1> QED
    BY Zenon, <1>1, NilAssumption

(* A step of the generator's goroutine leaves the height of its block.     *)
LEMMA GeneratorStep ==
    ASSUME NEW step \in {"checked", "entering", "forging", "calling"},
           forging \in Forging, forging' = [forging EXCEPT !.step = step]
    PROVE  /\ forging' \in Forging /\ forging' # None
           /\ forging'.step = step /\ forging'.height = forging.height
  <1>1. /\ forging' \in Forging
        /\ forging'.step = step /\ forging'.height = forging.height
    BY DEF Forging
  <1> QED
    BY Zenon, <1>1, NilAssumption

(* A step that leaves the context and the generator alone, and sets or     *)
(* keeps no context of the Executer's that was not there.                  *)
LEMMA HolderQuiet ==
    ASSUME HolderInv, UNCHANGED <<context, forging, overlapped>>,
           ~ InContext' \/ (InContext /\ Working' = Working)
    PROVE  HolderInv'
  <1>1. Generating' = Generating
    BY Zenon DEF Generating
  <1>2. CheckState(None)' = CheckState(None) /\ CheckState(Working)' = (context # None /\ context.id = Working')
    BY Zenon DEF CheckState
  <1> QED
    BY Zenon, <1>1, <1>2 DEF HolderInv, CheckState, Height

(* The Executer clears the context.                                        *)
LEMMA HolderClears ==
    ASSUME ChainInv, WorkInv, HolderInv, InContext, phase' = "none", context' = None,
           UNCHANGED <<forging, overlapped>>
    PROVE  HolderInv'
  <1>1. ~ overlapped => ~ Generating
    BY Zenon, HolderIsAlone
  <1>2. ~ InContext' /\ Generating' = Generating
    BY DEF InContext, Generating
  <1> QED
    BY Zenon, <1>1, <1>2 DEF HolderInv

(* The Executer sets a context for the block it works on.                  *)
LEMMA HolderSets ==
    ASSUME ChainInv, WorkInv, HolderInv, phase # "none", Working' = Working,
           InitStateMachineSets(Working, Height(Working)), UNCHANGED forging
    PROVE  HolderInv'
  <1>1. Working \in Blocks \cup {None} /\ Height(Working) \in Nat
    BY Zenon, WorkingIsBlock
  <1>2. /\ context' \in Contexts /\ context' # None
        /\ context'.id = Working /\ context'.height = Height(Working)
        /\ overlapped' \in BOOLEAN
        /\ ~ overlapped' => ~ overlapped /\ context = None
    BY Zenon, <1>1, ContextSet
  <1>3. Generating' = Generating
    BY Zenon DEF Generating
  <1>4. ~ overlapped' => ~ Generating
    BY Zenon, <1>2 DEF HolderInv, CheckState
  <1> QED
    BY Zenon, <1>2, <1>3, <1>4 DEF HolderInv, CheckState, Height

(* Nobody holds a context when memory is lost.                             *)
LEMMA HolderLoses ==
    ASSUME HolderInv, phase' = "none", context' = None, forging' = None, UNCHANGED overlapped
    PROVE  HolderInv'
  BY DEF HolderInv, InContext, Generating

-----------------------------------------------------------------------------
(* Every step keeps whose the context is.                                  *)

(* The generator's steps leave the Executer where it is.                   *)
LEMMA GeneratorHolds ==
    ASSUME ChainInv, WorkInv, HolderInv, Generate
    PROVE  HolderInv'
  <1>0. InContext' = InContext /\ Working' = Working /\ Height(Working)' = Height(Working)
    BY ZenonT(40) DEF Generate, GeneratorCheck, GeneratorEnter, GeneratorBegin, GeneratorCall, GeneratorChanges,
           GeneratorEnd, engineDB, control, plan, InContext, Working, Deleting, LastBlock, Height
  <1>1. /\ context \in Contexts \cup {None} /\ forging \in Forging \cup {None}
        /\ overlapped \in BOOLEAN
    BY Zenon DEF HolderInv
  <1>2. CASE GeneratorCheck
    <2>1. /\ forging' = [step |-> "checked", height |-> Height(LastBlock) + 1]
          /\ UNCHANGED <<context, overlapped>>
      BY <1>2 DEF GeneratorCheck
    <2>2. Height(LastBlock) + 1 \in Nat
      BY LastIsHighest
    <2>3. forging' \in Forging /\ ~ Generating'
      BY <2>1, <2>2 DEF Forging, Generating
    <2> QED
      BY Zenon, <1>0, <1>1, <2>1, <2>3 DEF HolderInv, CheckState, Height
  <1>3. CASE GeneratorEnter
    <2>1. /\ forging \in Forging /\ UNCHANGED <<context, overlapped>>
          /\ forging' = None \/ forging' = [forging EXCEPT !.step = "entering"]
      BY Zenon, <1>1, <1>3 DEF GeneratorEnter, GeneratorAt
    <2>2. forging' \in Forging \cup {None} /\ ~ Generating'
      BY <2>1, GeneratorStep DEF Generating
    <2> QED
      BY Zenon, <1>0, <1>1, <2>1, <2>2 DEF HolderInv, CheckState, Height
  <1>4. CASE GeneratorBegin
    <2>1. /\ forging \in Forging /\ forging' = [forging EXCEPT !.step = "forging"]
          /\ InitStateMachineSets(None, forging.height)
      BY Zenon, <1>1, <1>4 DEF GeneratorBegin, GeneratorAt
    <2>2. forging.height \in Nat
      BY <2>1 DEF Forging
    <2>3. /\ context' \in Contexts /\ context' # None /\ context'.id = None
          /\ overlapped' \in BOOLEAN
          /\ ~ overlapped' => ~ overlapped /\ context = None
      BY Zenon, <2>1, <2>2, ContextSet
    <2>4. forging' \in Forging
      BY <2>1, GeneratorStep
    <2>5. ~ overlapped' => ~ InContext
      BY Zenon, <2>3 DEF HolderInv, CheckState
    <2> QED
      BY Zenon, <1>0, <2>3, <2>4, <2>5 DEF HolderInv, CheckState
  <1>5. CASE GeneratorCall
    <2>1. /\ forging \in Forging /\ forging' = [forging EXCEPT !.step = "calling"]
          /\ CheckState(None) /\ UNCHANGED <<context, overlapped>>
      BY Zenon, <1>1, <1>5 DEF GeneratorCall, GeneratorAt
    <2>2. forging' \in Forging
      BY <2>1, GeneratorStep
    <2> QED
      BY Zenon, <1>0, <1>1, <2>1, <2>2 DEF HolderInv, CheckState, Height
  <1>6. CASE GeneratorChanges
    <2>1. /\ forging \in Forging /\ forging' = [forging EXCEPT !.step = "forging"]
          /\ forging.step = "calling" /\ forging # None
          /\ context \in Contexts /\ context' = [context EXCEPT !.writes = @ \cup {None}]
          /\ context # None /\ UNCHANGED overlapped
      BY Zenon, <1>1, <1>6 DEF GeneratorChanges, GeneratorAt
    <2>2. /\ context' \in Contexts /\ context' # None
          /\ context'.id = context.id /\ context'.height = context.height
      BY Zenon, <2>1, ContextWritten
    <2>3. forging' \in Forging
      BY <2>1, GeneratorStep
    <2>4. Generating
      BY <2>1 DEF Generating
    <2> QED
      BY Zenon, <1>0, <1>1, <2>1, <2>2, <2>3, <2>4 DEF HolderInv, CheckState
  <1>7. CASE GeneratorEnd
    <2>1. /\ forging # None /\ forging.step = "forging"
          /\ forging' = None /\ context' = None /\ UNCHANGED overlapped
      BY Zenon, <1>7 DEF GeneratorEnd, GeneratorAt
    <2>2. Generating /\ ~ Generating'
      BY <2>1 DEF Generating
    <2>3. ~ overlapped => ~ InContext
      BY Zenon, <2>2, HolderIsAlone
    <2> QED
      BY Zenon, <1>0, <1>1, <2>1, <2>2, <2>3 DEF HolderInv
  <1> QED
    BY Zenon, <1>2, <1>3, <1>4, <1>5, <1>6, <1>7 DEF Generate

(* So do the Executer's.                                                   *)
LEMMA WorkHolds ==
    ASSUME ChainInv, WorkInv, HolderInv, Work
    PROVE  HolderInv'
  <1>1. CASE AppRevertFails \/ RemoveBlock \/ AppExecuteFails \/ AppCommitFails \/ AddBlock
    <2>1. InContext
      BY <1>1 DEF AppRevertFails, RemoveBlock, AppExecuteFails, AppCommitFails, AddBlock, InContext
    <2>2. phase' = "none" /\ context' = None /\ UNCHANGED <<forging, overlapped>>
      BY ZenonT(40), <1>1 DEF AppRevertFails, RemoveBlock, AppExecuteFails, AppCommitFails, AddBlock, Stop,
             ApplyFailed, outside
    <2> QED
      BY Zenon, <2>1, <2>2, HolderClears
  <1>2. CASE DeleteBegin \/ ApplyBegin
    <2>1. phase # "none" /\ Working' = Working /\ UNCHANGED forging
      BY ZenonT(40), <1>2 DEF DeleteBegin, ApplyBegin, plan, engineDB, Working, Deleting, LastBlock
    <2>2. InitStateMachineSets(Working, Height(Working))
      BY ZenonT(40), <1>2 DEF DeleteBegin, ApplyBegin, Working, Deleting, Applying
    <2> QED
      BY Zenon, <2>1, <2>2, HolderSets
  <1>3. CASE AppRevert \/ AppRevertWrite \/ AppCommit \/ AppCommitWrite
    <2>1. InContext
      BY <1>3 DEF AppRevert, AppRevertWrite, AppCommit, AppCommitWrite, InContext
    <2>2. UNCHANGED <<context, forging, overlapped>> /\ Working' = Working
      BY ZenonT(40), <1>3 DEF AppRevert, AppRevertWrite, AppCommit, AppCommitWrite, plan, engineDB, outside,
             Working, Deleting, LastBlock
    <2> QED
      BY Zenon, <2>1, <2>2, HolderQuiet
  <1>4. CASE AppExecute
    <2>1. /\ context # None /\ context' = [context EXCEPT !.writes = @ \cup {Head(todo)}]
          /\ Applying /\ phase = "executing" /\ UNCHANGED <<forging, overlapped>>
      BY Zenon, <1>4 DEF AppExecute, CheckState, outside
    <2>2. Working' = Working /\ Head(todo) = Working
      BY ZenonT(40), <1>4 DEF AppExecute, plan, engineDB, Working, Deleting, Applying, LastBlock
    <2>3. Head(todo) \in Blocks \cup {None} /\ InContext
      BY <2>1, <2>2, WorkingIsBlock DEF InContext
    <2>4. /\ context' \in Contexts /\ context' # None
          /\ context'.id = context.id /\ context'.height = context.height
      BY Zenon, <2>1, <2>3, ContextWritten DEF HolderInv
    <2>5. Generating' = Generating /\ (~ overlapped => ~ Generating)
      BY Zenon, <2>1, <2>3, HolderIsAlone DEF Generating
    <2> QED
      BY Zenon, <2>1, <2>2, <2>3, <2>4, <2>5 DEF HolderInv, CheckState, Height
  <1>5. CASE DeleteEnter \/ DeleteRefused \/ DeleteDone \/ ApplyEnter \/ ApplyRefused \/ ApplyDone
             \/ DownloadFails
    <2>1. UNCHANGED <<context, forging, overlapped>>
      BY ZenonT(40), <1>5 DEF DeleteEnter, DeleteRefused, DeleteDone, ApplyEnter, ApplyRefused, ApplyDone,
             DownloadFails, outside
    <2>2. ~ InContext'
      BY <1>5 DEF DeleteEnter, DeleteRefused, DeleteDone, ApplyEnter, ApplyRefused, ApplyDone,
             DownloadFails, Stop, ApplyFailed, InContext
    <2> QED
      BY Zenon, <2>1, <2>2, HolderQuiet
  <1> QED
    BY ZenonT(40), <1>1, <1>2, <1>3, <1>4, <1>5 DEF Work

(* So does everything else.                                                *)
LEMMA HolderStep ==
    ASSUME ChainInv, WorkInv, HolderInv, [Next]_vars
    PROVE  HolderInv'
  <1>1. CASE Receive
    <2>1. phase' = "none" /\ UNCHANGED <<context, forging, overlapped>>
      BY ZenonT(40), <1>1 DEF Receive, ReceiveValidBlock, ReceiveTieBreak, ReceiveFastSync, ReceiveBlockSync,
             Start, outside
    <2> QED
      BY <2>1, HolderQuiet DEF InContext
  <1>2. CASE InitFails \/ Crash \/ Restart
    BY ZenonT(40), <1>2, HolderLoses DEF InitFails, Crash, Restart, LoseMemory
  <1>3. CASE InitRequest \/ InitBegin \/ InitReverts \/ InitSucceeds \/ Tick \/ UNCHANGED vars
    <2>1. UNCHANGED <<context, forging, overlapped, control, engineDB>>
      BY ZenonT(40), <1>3 DEF InitRequest, InitBegin, InitReverts, InitSucceeds, Tick, vars, outside
    <2>2. InContext' = InContext /\ Working' = Working
      BY Zenon, <2>1 DEF control, plan, engineDB, InContext, Working, Deleting, LastBlock
    <2> QED
      BY Zenon, <2>1, <2>2, HolderQuiet
  <1> QED
    BY ZenonT(40), <1>1, <1>2, <1>3, GeneratorHolds, WorkHolds DEF Next, Startup

-----------------------------------------------------------------------------
(* The rest of the invariant, one lemma for each kind of step.             *)

(* A step that changes neither database and ends where the Executer has    *)
(* not written, or leaves it where it was.                                 *)
LEMMA QuietStep ==
    ASSUME BlockInv, HolderInv', WorkInv',
           UNCHANGED <<chain, stateDiffs, finalizedHeight, app, appDiffs, crashes>>,
           overlapped => overlapped',
           \/ phase' # "written" /\ (phase # "written" \/ crashes # 0)
           \/ UNCHANGED <<phase, mode, todo>>,
           initCall' = initCall \/ crashes # 0,
           mode' = "down" => mode = "down"
    PROVE  BlockInv'
  <1>1. ChainInv' /\ DeletableAboveFinalized' /\ crashes' \in Nat
    BY DEF BlockInv, ChainInv, DeletableAboveFinalized, LastBlock
  <1>2. RevertAvailable'
    BY Zenon DEF BlockInv, RevertAvailable
  <1>3. AppInv'
    <2>1. ASSUME NEW height, NEW root, NEW applied, AppIs(height, root, applied)
          PROVE  AppIs(height, root, applied)'
      BY Zenon, <2>1 DEF AppIs
    <2>2. LastBlock' = LastBlock /\ BlocksOf(chain)' = BlocksOf(chain)
      BY Zenon DEF LastBlock, BlocksOf
    <2>3. AppInv
      BY Zenon DEF BlockInv
    <2>4. CASE phase' # "written" /\ (phase # "written" \/ crashes # 0)
      <3>1. crashes = 0 => AppIs(Height(LastBlock), LastBlock, BlocksOf(chain)) /\ initCall'.step = "done"
        BY Zenon, <2>3, <2>4 DEF AppInv
      <3>2. crashes = 0 => AppIs(Height(LastBlock), LastBlock, BlocksOf(chain))'
        BY Zenon, <3>1, <2>2 DEF AppIs, Height
      <3> QED
        BY Zenon, <2>4, <3>1, <3>2 DEF AppInv
    <2>5. CASE UNCHANGED <<phase, mode, todo>>
      BY ZenonT(40), <2>2, <2>3, <2>5 DEF AppInv, AppIs, Deleting, Applying, Height, Parent
    <2> QED
      BY Zenon, <2>4, <2>5
  <1>4. StopIsRepairable'
    BY Zenon DEF BlockInv, StopIsRepairable, LastBlock, BlocksOf, RevertibleByApp, Height, Parent
  <1> QED
    BY Zenon, <1>1, <1>2, <1>3, <1>4 DEF BlockInv

(* A step that leaves the Executer between two blocks, or where it was.    *)
LEMMA IdleStep ==
    ASSUME BlockInv, HolderInv',
           UNCHANGED <<chain, stateDiffs, finalizedHeight, app, appDiffs, crashes>>,
           overlapped => overlapped',
           \/ phase' = "none" /\ (phase # "written" \/ crashes # 0)
           \/ UNCHANGED <<phase, mode, todo, batch>>,
           initCall' = initCall \/ crashes # 0,
           mode' = "down" => mode = "down"
    PROVE  BlockInv'
  <1>1. WorkInv'
    <2>1. CASE phase' = "none"
      BY Zenon, <2>1 DEF WorkInv
    <2>2. CASE UNCHANGED <<phase, mode, todo, batch>>
      BY ZenonT(40), <2>2 DEF BlockInv, WorkInv, LastBlock, Deleting, Applying, RevertibleByApp, Height, Parent
    <2> QED
      BY Zenon, <2>1, <2>2
  <1>2. \/ phase' # "written" /\ (phase # "written" \/ crashes # 0)
        \/ UNCHANGED <<phase, mode, todo>>
    BY Zenon
  <1> QED
    BY Zenon, <1>1, <1>2, QuietStep

(* A context that is set overlaps with one that is there, and what has     *)
(* overlapped stays so.                                                    *)
LEMMA OverlapStays ==
    ASSUME HolderInv, NEW id, NEW height, InitStateMachineSets(id, height), overlapped
    PROVE  overlapped'
  BY Zenon DEF InitStateMachineSets, HolderInv

(* The steps of a block up to the writes: deleteBlock and processValidated *)
(* have made their checks, and enter and set the context; the block is     *)
(* executed, or reverted; the roots are compared.                          *)
LEMMA BeginInv ==
    ASSUME BlockInv, HolderInv',
           \/ DeleteEnter \/ DeleteBegin \/ AppRevert
           \/ ApplyEnter \/ ApplyBegin \/ AppExecute \/ AppCommit
    PROVE  BlockInv'
  <1>1. /\ UNCHANGED <<engineDB, appDB, plan, initCall, crashes>>
        /\ phase # "written" /\ phase' # "written"
    BY DEF DeleteEnter, DeleteBegin, AppRevert, ApplyEnter, ApplyBegin, AppExecute, AppCommit, outside
  <1>2. overlapped => overlapped'
    BY ZenonT(40), OverlapStays DEF DeleteEnter, DeleteBegin, AppRevert, ApplyEnter, ApplyBegin, AppExecute,
           AppCommit, outside, BlockInv
  <1>3. /\ LastBlock' = LastBlock /\ Head(todo)' = Head(todo) /\ finalizedHeight' = finalizedHeight
        /\ Deleting' = Deleting /\ Applying' = Applying /\ mode' = mode
    BY Zenon, <1>1 DEF engineDB, plan, LastBlock, Deleting, Applying
  <1>4. CASE DeleteEnter \/ DeleteBegin \/ AppRevert
    <2>1. Deleting /\ phase' \in {"entering", "executing", "writing"}
      BY <1>4 DEF DeleteEnter, DeleteBegin, AppRevert
    <2>2. Height(LastBlock) > finalizedHeight
      <3>1. CASE DeleteEnter
        BY Zenon, <3>1 DEF DeleteEnter, Deletable
      <3>2. CASE DeleteBegin \/ AppRevert
        <4>1. phase # "none" /\ ~ Applying
          BY <3>2 DEF DeleteBegin, AppRevert, Deleting, Applying
        <4> QED
          BY Zenon, <4>1 DEF BlockInv, WorkInv
      <3> QED
        BY Zenon, <1>4, <3>1, <3>2
    <2>3. WorkInv'
      BY <1>3, <2>1, <2>2 DEF WorkInv, Height
    <2> QED
      BY Zenon, <1>1, <1>2, <1>3, <2>3, QuietStep DEF engineDB, appDB
  <1>5. CASE ApplyEnter \/ ApplyBegin \/ AppExecute \/ AppCommit
    <2>1. Applying /\ ~ Deleting
      BY <1>5 DEF ApplyEnter, ApplyBegin, AppExecute, AppCommit, Applying, Deleting
    <2>2. Head(todo) \in Blocks /\ Parent(Head(todo)) = LastBlock
      <3>1. CASE ApplyEnter
        BY Zenon, <3>1 DEF ApplyEnter, VerifyBlock
      <3>2. CASE ApplyBegin \/ AppExecute \/ AppCommit
        <4>1. phase # "none"
          BY <3>2 DEF ApplyBegin, AppExecute, AppCommit
        <4> QED
          BY Zenon, <2>1, <4>1 DEF BlockInv, WorkInv
      <3> QED
        BY Zenon, <1>5, <3>1, <3>2
    <2>3. phase' = "writing" => batch' = {Head(todo)}
      BY <1>5 DEF ApplyEnter, ApplyBegin, AppExecute, AppCommit, ContextHas
    <2>4. WorkInv'
      BY Zenon, <1>1, <1>3, <2>1, <2>2, <2>3 DEF WorkInv, Parent
    <2> QED
      BY Zenon, <1>1, <1>2, <1>3, <2>4, QuietStep DEF engineDB, appDB
  <1> QED
    BY Zenon, <1>4, <1>5

(* The application has reverted the last block, the engine has it still.   *)
LEMMA AppRevertWriteInv == BlockInv /\ HolderInv' /\ AppRevertWrite => BlockInv'
  <1> SUFFICES ASSUME BlockInv, HolderInv', AppRevertWrite PROVE BlockInv'
    OBVIOUS
  <1>0. /\ Deleting /\ phase = "writing" /\ phase' = "written"
        /\ app' = [height |-> context.height - 1, root |-> Parent(LastBlock),
                   applied |-> app.applied \ {LastBlock}]
        /\ UNCHANGED <<chain, stateDiffs, finalizedHeight, appDiffs, mode, todo, initCall, crashes, overlapped>>
    BY Zenon DEF AppRevertWrite, engineDB, plan, outside
  <1>1. ChainInv' /\ DeletableAboveFinalized' /\ crashes' \in Nat
    BY <1>0 DEF BlockInv, ChainInv, DeletableAboveFinalized, LastBlock
  <1>2. RevertAvailable'
    BY Zenon, <1>0 DEF BlockInv, RevertAvailable
  <1>3. ~ Applying /\ ~ Applying' /\ Deleting' /\ mode' # "down"
    BY <1>0 DEF Deleting, Applying
  <1>4. Height(LastBlock) > finalizedHeight
    BY <1>0, <1>3 DEF BlockInv, WorkInv
  <1>5. LastBlock' = LastBlock /\ BlocksOf(chain)' = BlocksOf(chain)
    BY Zenon, <1>0 DEF LastBlock, BlocksOf
  <1>6. WorkInv'
    BY <1>0, <1>3, <1>4, <1>5 DEF WorkInv, Height
  <1>7. AppInv'
    <2>1. ASSUME crashes = 0
          PROVE  initCall.step = "done" /\ app.applied = BlocksOf(chain)
      <3>1. AppIs(Height(LastBlock), LastBlock, BlocksOf(chain)) /\ initCall.step = "done"
        BY <1>0, <2>1 DEF BlockInv, AppInv
      <3> QED
        BY <3>1 DEF AppIs
    <2>2. ~ overlapped => context.height = Height(LastBlock)
      BY <1>0 DEF BlockInv, HolderInv, InContext, Working
    <2>3. ASSUME crashes = 0
          PROVE  AppIs(Height(LastBlock) - 1, Parent(LastBlock), BlocksOf(chain) \ {LastBlock})'
      <3>1. app' = [height |-> context.height - 1, root |-> Parent(LastBlock),
                    applied |-> BlocksOf(chain) \ {LastBlock}]
        BY Zenon, <1>0, <2>1, <2>3
      <3>2. app'.height = context.height - 1
        BY <3>1
      <3> QED
        BY Zenon, <1>0, <1>5, <2>2, <3>1, <3>2 DEF AppIs, Height, Parent
    <2> QED
      BY Zenon, <1>0, <1>3, <2>1, <2>3 DEF AppInv
  <1>8. StopIsRepairable'
    BY Zenon, <1>3 DEF StopIsRepairable
  <1> QED
    BY Zenon, <1>1, <1>2, <1>6, <1>7, <1>8 DEF BlockInv

(* The application has committed a block the engine has not added yet.     *)
LEMMA AppCommitWriteInv == BlockInv /\ HolderInv' /\ AppCommitWrite => BlockInv'
  <1> SUFFICES ASSUME BlockInv, HolderInv', AppCommitWrite PROVE BlockInv'
    OBVIOUS
  <1> DEFINE b == Head(todo)
  <1>0. /\ Applying /\ phase = "writing" /\ phase' = "written"
        /\ app' = [height |-> context.height, root |-> b, applied |-> app.applied \cup batch]
        /\ UNCHANGED <<chain, stateDiffs, finalizedHeight, mode, todo, initCall, crashes, overlapped>>
    BY Zenon DEF AppCommitWrite, engineDB, plan, outside
  <1>1. ChainInv' /\ DeletableAboveFinalized' /\ crashes' \in Nat
    BY <1>0 DEF BlockInv, ChainInv, DeletableAboveFinalized, LastBlock
  <1>2. ~ Deleting /\ ~ Deleting' /\ Applying' /\ mode' # "down"
    BY <1>0 DEF Deleting, Applying
  <1>3. b \in Blocks /\ Parent(b) = LastBlock /\ batch = {b}
    BY <1>0, <1>2 DEF BlockInv, WorkInv
  <1>4. ~ overlapped => context.height = Height(b)
    BY <1>0, <1>2 DEF BlockInv, HolderInv, InContext, Working
  <1>5. ~ overlapped =>
           appDiffs' = [h \in DOMAIN appDiffs \cup {Height(b)} |-> IF h = Height(b) THEN b ELSE appDiffs[h]]
    BY Zenon, <1>4 DEF AppCommitWrite
  <1>6. LastBlock' = LastBlock /\ BlocksOf(chain)' = BlocksOf(chain) /\ b' = b
    BY Zenon, <1>0 DEF LastBlock, BlocksOf
  <1> HIDE DEF b
  <1>7. RevertAvailable'
    <2> SUFFICES ASSUME ~ overlapped, NEW i \in DOMAIN chain
                 PROVE  i - 1 \in DOMAIN appDiffs' /\ appDiffs'[i - 1] = chain[i]
      BY Zenon, <1>0 DEF RevertAvailable
    <2>1. i - 1 \in DOMAIN appDiffs /\ appDiffs[i - 1] = chain[i]
      BY Zenon DEF BlockInv, RevertAvailable
    <2>2. Height(b) = Len(chain) /\ Len(chain) \in Nat /\ DOMAIN chain = 1 .. Len(chain)
      BY <1>3, LastIsHighest, ChildIsHigher DEF BlockInv, ChainInv
    <2>3. i - 1 # Height(b)
      BY <2>2
    <2> QED
      BY Zenon, <1>5, <2>1, <2>3
  <1>8. ~ overlapped => RevertibleByApp(b)'
    BY Zenon, <1>5, <1>6 DEF RevertibleByApp, Height
  <1>9. WorkInv'
    BY <1>0, <1>2, <1>3, <1>6, <1>8 DEF WorkInv, Parent, b
  <1>10. AppInv'
    <2>1. ASSUME crashes = 0
          PROVE  initCall.step = "done" /\ app.applied = BlocksOf(chain)
      <3>1. AppIs(Height(LastBlock), LastBlock, BlocksOf(chain)) /\ initCall.step = "done"
        BY <1>0, <2>1 DEF BlockInv, AppInv
      <3> QED
        BY <3>1 DEF AppIs
    <2>2. ASSUME crashes = 0 PROVE AppIs(Height(b), b, BlocksOf(chain) \cup {b})'
      <3>1. app' = [height |-> context.height, root |-> b, applied |-> BlocksOf(chain) \cup {b}]
        BY Zenon, <1>0, <1>3, <2>1, <2>2
      <3>2. app'.height = context.height
        BY <3>1
      <3> QED
        BY Zenon, <1>0, <1>4, <1>6, <3>1, <3>2 DEF AppIs, Height
    <2> QED
      BY Zenon, <1>0, <1>2, <2>1, <2>2 DEF AppInv, b
  <1>11. StopIsRepairable'
    BY Zenon, <1>2 DEF StopIsRepairable
  <1> QED
    BY Zenon, <1>1, <1>7, <1>9, <1>10, <1>11 DEF BlockInv

(* The engine removes the last block.                                      *)
LEMMA RemoveBlockInv == BlockInv /\ HolderInv' /\ RemoveBlock => BlockInv'
  <1> SUFFICES ASSUME BlockInv, HolderInv', RemoveBlock PROVE BlockInv'
    OBVIOUS
  <1>0. /\ Deleting /\ phase = "written" /\ phase' = "none" /\ mode' = mode
        /\ chain' = SubSeq(chain, 1, Len(chain) - 1)
        /\ stateDiffs' = stateDiffs \ {Height(LastBlock)}
        /\ UNCHANGED <<finalizedHeight, app, appDiffs, initCall, crashes, overlapped>>
    BY Zenon DEF RemoveBlock, appDB, plan, outside
  <1>1. ChainInv /\ WorkInv /\ AppInv
    BY Zenon DEF BlockInv
  <1>2. /\ LastBlock \in Blocks /\ Height(LastBlock) = Len(chain) - 1 /\ Len(chain) \in Nat
        /\ Height(LastBlock) > finalizedHeight /\ finalizedHeight \in Nat
        /\ chain \in Seq(Blocks) /\ Len(chain) > 1
    <2>1. Height(LastBlock) > finalizedHeight
      BY <1>0, <1>1 DEF WorkInv, Applying, Deleting
    <2>2. finalizedHeight \in Nat /\ chain \in Seq(Blocks)
      BY <1>1 DEF ChainInv
    <2> QED
      BY <1>1, <2>1, <2>2, LastIsHighest
  <1>3. /\ Len(chain') = Len(chain) - 1 /\ chain' \in Seq(Blocks)
        /\ \A i \in 1 .. Len(chain) - 1 : chain'[i] = chain[i]
    BY <1>0, <1>2
  <1>4. \A i \in 1 .. Len(chain) : Height(chain[i]) = i - 1
    BY <1>1 DEF ChainInv
  <1>5. \A i \in 2 .. Len(chain) : Parent(chain[i]) = chain[i - 1]
    BY <1>1 DEF ChainInv
  <1>6. ChainInv'
    <2>1. ASSUME NEW i \in 1 .. Len(chain') PROVE Height(chain'[i]) = i - 1
      <3>1. i \in 1 .. Len(chain) - 1 /\ i \in 1 .. Len(chain)
        BY <1>2, <1>3
      <3> QED
        BY Zenon, <1>3, <1>4, <3>1
    <2>2. ASSUME NEW i \in 2 .. Len(chain') PROVE Parent(chain'[i]) = chain'[i - 1]
      <3>1. /\ i \in 1 .. Len(chain) - 1 /\ i - 1 \in 1 .. Len(chain) - 1
            /\ i \in 2 .. Len(chain)
        BY <1>2, <1>3
      <3> QED
        BY Zenon, <1>3, <1>5, <3>1
    <2>3. finalizedHeight' \in Nat /\ finalizedHeight' < Len(chain') /\ Len(chain') > 0
      BY <1>0, <1>2, <1>3
    <2> QED
      BY Zenon, <1>3, <2>1, <2>2, <2>3 DEF ChainInv, Height, Parent
  <1>7. Height(LastBlock)' = Len(chain) - 2 /\ LastBlock' = Parent(LastBlock)
    <2>1. Len(chain) \in 2 .. Len(chain) /\ Len(chain) - 1 \in 1 .. Len(chain) - 1
      BY <1>2
    <2>2. LastBlock' = chain[Len(chain) - 1]
      BY Zenon, <1>3, <2>1 DEF LastBlock
    <2>3. Parent(LastBlock) = chain[Len(chain) - 1]
      BY Zenon, <1>5, <2>1 DEF LastBlock
    <2>4. Height(chain[Len(chain) - 1]) = Len(chain) - 2
      BY <1>2, <1>4
    <2> QED
      BY Zenon, <2>2, <2>3, <2>4 DEF Height
  <1>8. DeletableAboveFinalized'
    <2>1. finalizedHeight + 1 .. Len(chain) - 1 \subseteq stateDiffs
      BY <1>2 DEF BlockInv, DeletableAboveFinalized
    <2>2. finalizedHeight + 1 .. Len(chain) - 2 \subseteq stateDiffs'
      BY <1>0, <1>2, <2>1
    <2> QED
      BY Zenon, <1>0, <1>7, <2>2 DEF DeletableAboveFinalized
  <1>9. RevertAvailable'
    <2>1. ~ overlapped =>
             \A i \in 1 .. Len(chain) : i - 1 \in DOMAIN appDiffs /\ appDiffs[i - 1] = chain[i]
      BY <1>2 DEF BlockInv, RevertAvailable
    <2>2. DOMAIN chain' = 1 .. Len(chain) - 1
      BY <1>2, <1>3
    <2>3. \A i \in 1 .. Len(chain) - 1 : i \in 1 .. Len(chain)
      BY <1>2
    <2> QED
      BY Zenon, <1>0, <1>3, <2>1, <2>2, <2>3 DEF RevertAvailable
  <1>10. WorkInv'
    BY Zenon, <1>0 DEF WorkInv
  <1>11. AppInv'
    <2>1. BlocksOf(chain)' = BlocksOf(chain) \ {LastBlock}
      <3>1. \A i \in 1 .. Len(chain) - 1 : chain[i] # LastBlock
        BY <1>2, <1>4
      <3>2. BlocksOf(chain) = {chain[i] : i \in 1 .. Len(chain) - 1} \cup {LastBlock}
        BY <1>2 DEF BlocksOf, LastBlock
      <3>3. BlocksOf(chain)' = {chain[i] : i \in 1 .. Len(chain) - 1}
        <4>1. DOMAIN chain' = 1 .. Len(chain) - 1
          BY <1>2, <1>3
        <4> QED
          BY Zenon, <1>3, <4>1 DEF BlocksOf
      <3> QED
        BY Zenon, <3>1, <3>2, <3>3
    <2>2. Height(LastBlock)' = Height(LastBlock) - 1
      BY <1>2, <1>7
    <2>3. ASSUME crashes = 0
          PROVE  /\ initCall.step = "done"
                 /\ AppIs(Height(LastBlock) - 1, Parent(LastBlock), BlocksOf(chain) \ {LastBlock})
      BY Zenon, <1>0, <1>1, <2>3 DEF AppInv
    <2>4. ASSUME crashes = 0
          PROVE  AppIs(Height(LastBlock), LastBlock, BlocksOf(chain))'
      BY Zenon, <1>0, <1>7, <2>1, <2>2, <2>3, <2>4 DEF AppIs
    <2>5. phase' # "written"
      BY <1>0
    <2> QED
      BY Zenon, <1>0, <2>3, <2>4, <2>5 DEF AppInv
  <1>12. StopIsRepairable' /\ crashes' \in Nat
    <2>1. mode # "down"
      BY <1>0 DEF Deleting
    <2> QED
      BY Zenon, <1>0, <2>1 DEF BlockInv, StopIsRepairable
  <1> QED
    BY Zenon, <1>6, <1>8, <1>9, <1>10, <1>11, <1>12 DEF BlockInv

(* The positions of a chain that has one block more.                       *)
LEMMA OneMorePosition ==
    ASSUME NEW n \in Nat, NEW i \in 1 .. n + 1
    PROVE  i \in 1 .. n \/ (i = n + 1 /\ i - 1 = n)
  OBVIOUS

(* The engine adds a block, and may finalize others.                       *)
LEMMA AddBlockInv == BlockInv /\ HolderInv' /\ AddBlock => BlockInv'
  <1> SUFFICES ASSUME BlockInv, HolderInv', AddBlock PROVE BlockInv'
    OBVIOUS
  <1> DEFINE b == Head(todo)
  <1>0. /\ Applying /\ phase = "written" /\ phase' = "none" /\ mode' = mode
        /\ chain' = Append(chain, b)
        /\ stateDiffs' = KeptDiffs(b) \cup {Height(b)}
        /\ finalizedHeight' = Bigger(header[b].bft, finalizedHeight)
        /\ UNCHANGED <<app, appDiffs, initCall, crashes, overlapped>>
    BY Zenon DEF AddBlock, appDB, outside
  <1>1. ChainInv /\ WorkInv /\ AppInv
    BY Zenon DEF BlockInv
  <1>2. /\ b \in Blocks /\ Parent(b) = LastBlock
        /\ ~ overlapped => Height(b) \in DOMAIN appDiffs /\ appDiffs[Height(b)] = b
    BY <1>0, <1>1 DEF WorkInv, Applying, Deleting, RevertibleByApp
  <1> HIDE DEF b
  <1>3. /\ Height(b) = Len(chain) /\ Len(chain) \in Nat /\ Height(LastBlock) = Len(chain) - 1
        /\ header[b].bft \in Nat /\ header[b].bft < Len(chain)
        /\ finalizedHeight \in Nat /\ finalizedHeight < Len(chain)
        /\ chain \in Seq(Blocks) /\ Len(chain) > 0
    <2>1. finalizedHeight \in Nat /\ finalizedHeight < Len(chain) /\ chain \in Seq(Blocks) /\ Len(chain) > 0
      BY <1>1 DEF ChainInv
    <2>2. LastBlock \in Blocks /\ Height(LastBlock) = Len(chain) - 1 /\ Len(chain) \in Nat
      BY <1>1, LastIsHighest
    <2>3. /\ Height(b) = Height(LastBlock) + 1
          /\ header[b].bft \in Nat /\ header[b].bft < Height(b)
      BY Zenon, <1>2, <2>2, ChildIsHigher
    <2> QED
      BY <2>1, <2>2, <2>3
  <1>4. /\ Len(chain') = Len(chain) + 1 /\ chain' \in Seq(Blocks)
        /\ chain'[Len(chain) + 1] = b
        /\ \A i \in 1 .. Len(chain) : chain'[i] = chain[i]
    BY <1>0, <1>2, <1>3
  <1>13. DOMAIN chain' = 1 .. Len(chain') /\ Len(chain') = Len(chain) + 1
    <2>1. chain' \in Seq(Blocks) /\ Len(chain') = Len(chain) + 1
      BY Zenon, <1>4
    <2> QED
      BY <2>1
  <1>5. finalizedHeight' \in Nat /\ finalizedHeight' >= header[b].bft
        /\ finalizedHeight' >= finalizedHeight /\ finalizedHeight' < Len(chain')
    BY <1>0, <1>3, <1>4 DEF Bigger
  <1>6. ChainInv'
    <2>1. \A i \in 1 .. Len(chain') : Height(chain'[i]) = i - 1
      <3>1. \A i \in 1 .. Len(chain) : Height(chain[i]) = i - 1
        BY <1>1 DEF ChainInv
      <3>2. ASSUME NEW i \in 1 .. Len(chain') PROVE Height(chain'[i]) = i - 1
        <4>1. i \in 1 .. Len(chain) \/ (i = Len(chain) + 1 /\ i - 1 = Len(chain))
          BY Zenon, <1>3, <1>13, OneMorePosition
        <4> QED
          BY Zenon, <1>3, <1>4, <3>1, <4>1
      <3> QED
        BY Zenon, <3>2
    <2>2. \A i \in 2 .. Len(chain') : Parent(chain'[i]) = chain'[i - 1]
      <3>1. \A i \in 2 .. Len(chain) : Parent(chain[i]) = chain[i - 1]
        BY <1>1 DEF ChainInv
      <3>2. Parent(b) = chain[Len(chain)]
        BY Zenon, <1>2 DEF LastBlock
      <3>3. ASSUME NEW i \in 2 .. Len(chain') PROVE Parent(chain'[i]) = chain'[i - 1]
        <4>1. \/ i \in 2 .. Len(chain) /\ i \in 1 .. Len(chain) /\ i - 1 \in 1 .. Len(chain)
              \/ i = Len(chain) + 1 /\ i - 1 = Len(chain) /\ i - 1 \in 1 .. Len(chain)
          BY <1>3, <1>13
        <4> QED
          BY Zenon, <1>4, <3>1, <3>2, <4>1
      <3> QED
        BY Zenon, <3>3
    <2>3. Len(chain') > 0
      BY <1>3, <1>4
    <2> QED
      BY Zenon, <1>4, <1>5, <2>1, <2>2, <2>3 DEF ChainInv, Height, Parent
  <1>7. LastBlock' = b /\ Height(LastBlock)' = Len(chain)
    BY Zenon, <1>3, <1>4 DEF LastBlock, Height
  <1>8. DeletableAboveFinalized'
    <2>1. finalizedHeight + 1 .. Len(chain) - 1 \subseteq stateDiffs
      BY <1>3 DEF BlockInv, DeletableAboveFinalized
    <2>2. \A h \in stateDiffs : h \in Nat /\ h > finalizedHeight' => h \in stateDiffs'
      BY <1>0, <1>3, <1>5 DEF KeptDiffs
    <2>3. Len(chain) \in stateDiffs'
      BY <1>0, <1>3
    <2>4. finalizedHeight' + 1 .. Len(chain) \subseteq stateDiffs'
      BY <1>3, <1>5, <2>1, <2>2, <2>3
    <2> QED
      BY Zenon, <1>7, <2>4 DEF DeletableAboveFinalized
  <1>9. RevertAvailable'
    <2>1. ~ overlapped =>
             \A i \in 1 .. Len(chain) : i - 1 \in DOMAIN appDiffs /\ appDiffs[i - 1] = chain[i]
      BY <1>3 DEF BlockInv, RevertAvailable
    <2>2. DOMAIN chain' = 1 .. Len(chain) + 1
      BY Zenon, <1>13
    <2>3. \A i \in 1 .. Len(chain) + 1 :
              i \in 1 .. Len(chain) \/ (i = Len(chain) + 1 /\ i - 1 = Len(chain))
      BY Zenon, <1>3, OneMorePosition
    <2> QED
      BY Zenon, <1>0, <1>2, <1>3, <1>4, <2>1, <2>2, <2>3 DEF RevertAvailable
  <1>10. WorkInv'
    BY Zenon, <1>0 DEF WorkInv
  <1>11. AppInv'
    <2>1. BlocksOf(chain)' = BlocksOf(chain) \cup {b}
      BY <1>3, <1>4 DEF BlocksOf
    <2>2. ASSUME crashes = 0
          PROVE  /\ initCall.step = "done"
                 /\ AppIs(Height(b), b, BlocksOf(chain) \cup {b})
      BY Zenon, <1>0, <1>1, <2>2 DEF AppInv, b
    <2>3. ASSUME crashes = 0
          PROVE  AppIs(Height(LastBlock), LastBlock, BlocksOf(chain))'
      BY Zenon, <1>0, <1>3, <1>7, <2>1, <2>2, <2>3 DEF AppIs
    <2>4. phase' # "written"
      BY <1>0
    <2> QED
      BY Zenon, <1>0, <2>2, <2>3, <2>4 DEF AppInv
  <1>12. StopIsRepairable' /\ crashes' \in Nat
    <2>1. mode # "down"
      BY <1>0 DEF Applying
    <2> QED
      BY Zenon, <1>0, <2>1 DEF BlockInv, StopIsRepairable
  <1> QED
    BY Zenon, <1>6, <1>8, <1>9, <1>10, <1>11, <1>12 DEF BlockInv

(* A stop leaves both databases as they are.                               *)
LEMMA CrashInv == BlockInv /\ HolderInv' /\ Crash => BlockInv'
  <1> SUFFICES ASSUME BlockInv, HolderInv', Crash PROVE BlockInv'
    OBVIOUS
  <1> USE DEF Crash, LoseMemory, engineDB, appDB
  <1>1. ChainInv' /\ DeletableAboveFinalized'
    BY DEF BlockInv, ChainInv, DeletableAboveFinalized, LastBlock
  <1>4. RevertAvailable'
    BY Zenon DEF BlockInv, RevertAvailable
  <1>2. WorkInv' /\ AppInv' /\ crashes' \in Nat
    BY DEF BlockInv, WorkInv, AppInv
  <1>3. StopIsRepairable'
    <2> SUFFICES ASSUME crashes = 0 PROVE StopIsRepairable'
      BY DEF BlockInv, StopIsRepairable
    <2>1. Height(LastBlock) = Len(chain) - 1 /\ Len(chain) \in Nat
      BY LastIsHighest DEF BlockInv
    <2>2. CASE phase # "written"
      BY <2>2 DEF BlockInv, AppInv, AppIs, StopIsRepairable, LastBlock, BlocksOf
    <2>3. CASE phase = "written" /\ Deleting
      <3>1. Height(LastBlock) > finalizedHeight
        BY <2>3 DEF BlockInv, WorkInv, Deleting, Applying
      <3>2. Height(LastBlock) \in stateDiffs
        BY <3>1, <2>1 DEF BlockInv, ChainInv, DeletableAboveFinalized
      <3>3. app.root = Parent(LastBlock) /\ app.applied = BlocksOf(chain) \ {LastBlock}
        BY <2>3 DEF BlockInv, AppInv, AppIs
      <3> QED
        BY <3>2, <3>3 DEF StopIsRepairable, LastBlock, BlocksOf
    <2>4. CASE phase = "written" /\ ~ Deleting
      <3> DEFINE b == Head(todo)
      <3>1. /\ Applying /\ b \in Blocks /\ Parent(b) = LastBlock
            /\ overlapped \/ RevertibleByApp(b)
        BY <2>4 DEF BlockInv, WorkInv
      <3>2. app.root = b /\ app.applied = BlocksOf(chain) \cup {b}
        BY <2>4, <3>1 DEF BlockInv, AppInv, AppIs
      <3>3. b \notin BlocksOf(chain)
        <4>1. Height(b) = Len(chain)
          BY <3>1, <2>1, LastIsHighest, ChildIsHigher DEF BlockInv
        <4> QED
          BY <4>1, <2>1 DEF BlockInv, ChainInv, BlocksOf
      <3> QED
        BY ZenonT(40), <3>1, <3>2, <3>3 DEF StopIsRepairable, LastBlock, BlocksOf, RevertibleByApp, Height, Parent
    <2> QED
      BY <2>2, <2>3, <2>4
  <1> QED
    BY Zenon, <1>1, <1>2, <1>3, <1>4 DEF BlockInv

(* The generator touches neither database.                                 *)
LEMMA GeneratorInv == BlockInv /\ HolderInv' /\ Generate => BlockInv'
  <1> SUFFICES ASSUME BlockInv, HolderInv', Generate PROVE BlockInv'
    OBVIOUS
  <1>1. UNCHANGED <<engineDB, appDB, control, initCall, crashes>>
    BY ZenonT(40) DEF Generate, GeneratorCheck, GeneratorEnter, GeneratorBegin, GeneratorCall, GeneratorChanges,
           GeneratorEnd
  <1>2. overlapped => overlapped'
    BY ZenonT(40), OverlapStays DEF Generate, GeneratorCheck, GeneratorEnter, GeneratorBegin, GeneratorCall,
           GeneratorChanges, GeneratorEnd, BlockInv
  <1>3. UNCHANGED <<phase, mode, todo, batch>>
    BY Zenon, <1>1 DEF control, plan
  <1> QED
    BY Zenon, <1>1, <1>2, <1>3, IdleStep DEF engineDB, appDB

(* abi.Init changes the application only after a stop, and the chain never. *)
LEMMA StartupInv == BlockInv /\ HolderInv' /\ Startup => BlockInv'
  <1> SUFFICES ASSUME BlockInv, HolderInv', Startup PROVE BlockInv'
    OBVIOUS
  <1>1. crashes # 0 /\ mode # "down"
    BY ZenonT(40) DEF BlockInv, AppInv, Startup, InitRequest, InitBegin, InitReverts, InitSucceeds, InitFails,
           InitAt, Up
  <1>2. CASE InitRequest \/ InitBegin \/ InitSucceeds
    <2>1. UNCHANGED <<engineDB, appDB, control, crashes, overlapped>>
      BY Zenon, <1>2 DEF InitRequest, InitBegin, InitSucceeds
    <2>2. UNCHANGED <<phase, mode, todo, batch>>
      BY Zenon, <2>1 DEF control, plan
    <2> QED
      BY Zenon, <1>1, <2>1, <2>2, IdleStep DEF engineDB, appDB
  <1>3. CASE InitFails
    <2>1. phase' = "none" /\ mode' # "down" /\ UNCHANGED <<engineDB, appDB, crashes, overlapped>>
      BY <1>3 DEF InitFails, LoseMemory
    <2> QED
      BY Zenon, <1>1, <2>1, IdleStep DEF engineDB, appDB
  <1>4. CASE InitReverts
    <2>1. UNCHANGED <<engineDB, appDiffs, control, crashes, overlapped>>
      BY Zenon, <1>4 DEF InitReverts
    <2>2. ChainInv' /\ DeletableAboveFinalized' /\ crashes' \in Nat
      BY <2>1 DEF BlockInv, ChainInv, DeletableAboveFinalized, LastBlock, engineDB
    <2>3. RevertAvailable'
      BY Zenon, <2>1 DEF BlockInv, RevertAvailable, engineDB
    <2>4. WorkInv'
      BY ZenonT(40), <2>1 DEF BlockInv, WorkInv, LastBlock, Deleting, Applying, RevertibleByApp, Height, Parent,
             engineDB, control, plan
    <2>5. AppInv' /\ StopIsRepairable'
      <3>1. crashes' # 0 /\ mode' # "down"
        BY Zenon, <1>1, <2>1 DEF control, plan
      <3> QED
        BY Zenon, <3>1 DEF AppInv, StopIsRepairable
    <2> QED
      BY Zenon, <2>2, <2>3, <2>4, <2>5 DEF BlockInv
  <1> QED
    BY Zenon, <1>2, <1>3, <1>4 DEF Startup

(* Receiving a block changes neither database.                             *)
LEMMA ReceiveInv == BlockInv /\ HolderInv' /\ Receive => BlockInv'
  <1> SUFFICES ASSUME BlockInv, HolderInv', Receive PROVE BlockInv'
    OBVIOUS
  <1>1. /\ mode = "idle" /\ phase' = "none" /\ mode' # "down"
        /\ UNCHANGED <<engineDB, appDB, outside>>
    BY Zenon DEF Receive, ReceiveValidBlock, ReceiveTieBreak, ReceiveFastSync, ReceiveBlockSync,
           StartsSync, idle, Start
  <1>2. phase # "written"
    BY <1>1 DEF BlockInv, WorkInv, Deleting, Applying
  <1> QED
    BY Zenon, <1>1, <1>2, IdleStep DEF engineDB, appDB, outside

(* Every step of the Executer's goroutine keeps the invariant.             *)
LEMMA WorkStepInv == BlockInv /\ HolderInv' /\ Work => BlockInv'
  <1> SUFFICES ASSUME BlockInv, HolderInv', Work PROVE BlockInv'
    OBVIOUS
  <1>1. CASE DeleteRefused \/ AppRevertFails \/ DownloadFails
    <2>1. /\ phase # "written" /\ phase' = "none" /\ mode' # "down"
          /\ UNCHANGED <<engineDB, appDB, outside>>
      BY <1>1 DEF DeleteRefused, AppRevertFails, DownloadFails, Stop
    <2> QED
      BY Zenon, <2>1, IdleStep DEF engineDB, appDB, outside
  <1>2. CASE DeleteDone
    <2>1. mode' # "down"
      BY <1>2 DEF DeleteDone, Deleting
    <2>2. phase' = "none" /\ phase # "written"
      BY <1>2 DEF DeleteDone
    <2> QED
      BY Zenon, <1>2, <2>1, <2>2, IdleStep DEF DeleteDone, engineDB, appDB, outside
  <1>3. CASE ApplyRefused \/ AppExecuteFails \/ AppCommitFails
    <2>1. mode' # "down" /\ phase' = "none" /\ phase # "written"
      BY <1>3 DEF ApplyRefused, AppExecuteFails, AppCommitFails, ApplyFailed
    <2>2. UNCHANGED <<engineDB, appDB, outside>>
      BY Zenon, <1>3 DEF ApplyRefused, AppExecuteFails, AppCommitFails
    <2> QED
      BY Zenon, <2>1, <2>2, IdleStep DEF engineDB, appDB, outside
  <1>4. CASE ApplyDone
    <2>1. mode' # "down" /\ phase' = "none" /\ phase # "written"
      BY <1>4 DEF ApplyDone, Stop
    <2> QED
      BY Zenon, <1>4, <2>1, IdleStep DEF ApplyDone, appDB, outside
  <1> QED
    BY ZenonT(40), <1>1, <1>2, <1>3, <1>4, BeginInv, AppRevertWriteInv, AppCommitWriteInv, RemoveBlockInv,
       AddBlockInv DEF Work

-----------------------------------------------------------------------------
(* A node with the genesis block only satisfies the invariant.             *)
LEMMA InitBlockInv == Init => BlockInv
  <1> SUFFICES ASSUME Init PROVE BlockInv
    OBVIOUS
  <1> USE DEF Init
  <1>1. chain \in Seq(Blocks) /\ Len(chain) = 1 /\ LastBlock = Genesis /\ Height(Genesis) = 0
    BY TreeAssumption DEF LastBlock, Height
  <1>2. ChainInv /\ DeletableAboveFinalized /\ RevertAvailable
    BY <1>1 DEF ChainInv, DeletableAboveFinalized, RevertAvailable
  <1>3. WorkInv /\ StopIsRepairable
    BY DEF WorkInv, StopIsRepairable
  <1>4. HolderInv
    BY DEF HolderInv, InContext, Generating
  <1>5. AppInv
    <2>1. BlocksOf(chain) = {Genesis}
      BY DEF BlocksOf
    <2>2. app.height = 0
      OBVIOUS
    <2>3. AppIs(Height(LastBlock), LastBlock, BlocksOf(chain))
      BY Zenon, <1>1, <2>1, <2>2 DEF AppIs
    <2> QED
      BY Zenon, <2>3 DEF AppInv
  <1> QED
    BY <1>2, <1>3, <1>4, <1>5 DEF BlockInv

(* Every step of the node keeps the invariant.                             *)
LEMMA NextBlockInv == BlockInv /\ [Next]_vars => BlockInv'
  <1> SUFFICES ASSUME BlockInv, [Next]_vars PROVE BlockInv'
    OBVIOUS
  <1>1. HolderInv'
    BY Zenon, HolderStep DEF BlockInv
  <1>2. CASE Tick \/ UNCHANGED vars
    <2>1. UNCHANGED <<engineDB, appDB, control, initCall, crashes, overlapped>>
      BY Zenon, <1>2 DEF Tick, vars, outside
    <2>2. UNCHANGED <<phase, mode, todo, batch>>
      BY Zenon, <2>1 DEF control, plan
    <2> QED
      BY Zenon, <1>1, <2>1, <2>2, IdleStep DEF engineDB, appDB
  <1>3. CASE Restart
    <2>1. phase # "written"
      BY <1>3 DEF BlockInv, WorkInv, Deleting, Applying, Restart
    <2>2. phase' = "none" /\ mode' # "down" /\ UNCHANGED <<engineDB, appDB, initCall, crashes, overlapped>>
      BY <1>3 DEF Restart, LoseMemory
    <2> QED
      BY Zenon, <1>1, <2>1, <2>2, IdleStep DEF engineDB, appDB
  <1> QED
    BY Zenon, <1>1, <1>2, <1>3, ReceiveInv, WorkStepInv, GeneratorInv, StartupInv, CrashInv DEF Next

(* In every state, whatever the blocks, their order, the failures, the     *)
(* stops and the overlaps of contexts: the chain is a path of the tree,    *)
(* the checks made when the work on a block began hold until it is done,   *)
(* and a context has two users only after one was set over another.        *)
THEOREM BlockInvariant == Spec => []BlockInv
  BY InitBlockInv, NextBlockInv, PTL DEF Spec

(* Every block above the finalized one can be deleted, for any tree.       *)
THEOREM BlocksDeletable == Spec => []DeletableAboveFinalized
  <1>1. BlockInv => DeletableAboveFinalized
    BY DEF BlockInv
  <1> QED
    BY <1>1, BlockInvariant, PTL

(* Until contexts overlap, the application can revert every block of the   *)
(* engine's chain, however often blocks were replaced and wherever the     *)
(* node stopped.                                                           *)
THEOREM BlocksRevertible == Spec => []RevertAvailable
  <1>1. BlockInv => RevertAvailable
    BY DEF BlockInv
  <1> QED
    BY <1>1, BlockInvariant, PTL

(* Wherever a node stops for the first time, the two databases agree or    *)
(* the block between them can be taken back.                               *)
THEOREM FirstStopRepairable == Spec => []StopIsRepairable
  <1>1. BlockInv => StopIsRepairable
    BY DEF BlockInv
  <1> QED
    BY <1>1, BlockInvariant, PTL

(* Until a node stops, the application has the root and the state of the   *)
(* engine's chain between two blocks, however the generator and the        *)
(* Executer replace, change and clear the context of each other.           *)
THEOREM StateSurvives == Spec => []StateSurvivesOverlap
  <1>1. BlockInv => StateSurvivesOverlap
    BY DEF BlockInv, AppInv, AppIs, StateSurvivesOverlap
  <1> QED
    BY <1>1, BlockInvariant, PTL

(* Until a node stops or contexts overlap, the height the application      *)
(* records is that of the engine's chain as well.                          *)
THEOREM AppAgreesUntilStop == Spec => [](crashes = 0 /\ ~ overlapped => AppAgrees)
  <1>1. BlockInv => (crashes = 0 /\ ~ overlapped => AppAgrees)
    BY DEF BlockInv, AppInv, AppIs, AppAgrees
  <1> QED
    BY <1>1, BlockInvariant, PTL

(* Until contexts overlap, the context is the block's from the call of     *)
(* InitStateMachine to Clear, and no generator is between its own.         *)
THEOREM ContextOwnedUntilOverlap ==
    Spec => [](~ overlapped => ContextIsExecuters /\ ~ (InContext /\ Generating))
  <1>1. BlockInv => (~ overlapped => ContextIsExecuters /\ ~ (InContext /\ Generating))
    BY Zenon, HolderIsAlone DEF BlockInv, HolderInv, ContextIsExecuters, InContext, Working
  <1> QED
    BY <1>1, BlockInvariant, PTL

(* Blocks up to the finalized height are never removed or replaced, and    *)
(* that height never goes down.                                            *)
THEOREM FinalityHolds == Spec => FinalizedNeverReverted
  <1> DEFINE Kept == /\ finalizedHeight <= finalizedHeight'
                     /\ \A i \in 1 .. finalizedHeight + 1 : i \in DOMAIN chain' /\ chain'[i] = chain[i]
  <1>1. BlockInv /\ [Next]_vars => [Kept]_vars
    <2> SUFFICES ASSUME BlockInv, [Next]_vars PROVE Kept
      OBVIOUS
    <2>1. ChainInv
      BY DEF BlockInv
    <2>2. CASE UNCHANGED <<chain, finalizedHeight>>
      BY <2>1, <2>2 DEF ChainInv
    <2>3. CASE RemoveBlock
      <3>1. Height(LastBlock) = Len(chain) - 1 /\ Height(LastBlock) > finalizedHeight
        BY <2>3, LastIsHighest DEF RemoveBlock, BlockInv, WorkInv, Applying, Deleting
      <3> QED
        BY <2>1, <2>3, <3>1 DEF RemoveBlock, ChainInv
    <2>4. CASE AddBlock
      <3>1. Head(todo) \in Blocks /\ Parent(Head(todo)) = LastBlock
        BY <2>4 DEF AddBlock, BlockInv, WorkInv, Applying, Deleting
      <3>2. header[Head(todo)].bft \in Nat
        BY <2>1, <3>1, ChildIsHigher, LastIsHighest
      <3> QED
        BY <2>1, <2>4, <3>1, <3>2 DEF AddBlock, ChainInv, Bigger
    <2>5. RemoveBlock \/ AddBlock \/ UNCHANGED <<chain, finalizedHeight>>
      <3>1. Receive \/ Generate \/ Tick \/ Crash \/ Restart \/ UNCHANGED vars
                => UNCHANGED <<chain, finalizedHeight>>
        BY Zenon DEF Receive, ReceiveValidBlock, ReceiveTieBreak, ReceiveFastSync, ReceiveBlockSync,
               Generate, GeneratorCheck, GeneratorEnter, GeneratorBegin, GeneratorCall, GeneratorChanges,
               GeneratorEnd, Tick, Crash, Restart, vars, engineDB
      <3>2. Startup => UNCHANGED <<chain, finalizedHeight>>
        BY DEF Startup, InitRequest, InitBegin, InitReverts, InitSucceeds, InitFails, engineDB
      <3>3. Work => RemoveBlock \/ AddBlock \/ UNCHANGED <<chain, finalizedHeight>>
        BY ZenonT(40) DEF Work, DeleteEnter, DeleteBegin, DeleteRefused, AppRevert, AppRevertFails, AppRevertWrite,
               DeleteDone, ApplyEnter, ApplyBegin, ApplyRefused, AppExecute, AppExecuteFails, AppCommit,
               AppCommitFails, AppCommitWrite, ApplyDone, DownloadFails, engineDB
      <3> QED
        BY <3>1, <3>2, <3>3 DEF Next
    <2> QED
      BY <2>2, <2>3, <2>4, <2>5
  <1> QED
    BY <1>1, BlockInvariant, PTL DEF Spec, FinalizedNeverReverted

-----------------------------------------------------------------------------
(* Branches of the tree.                                                   *)

(* The blocks below some blocks.                                           *)
Parents(S) == {Parent(c) : c \in S \ {Genesis}}

(* One step of the recursion of Branch, and a function that satisfies it   *)
(* up to n.                                                                *)
PathStep(f, b, k) == IF k = 0 THEN {b} ELSE f[k - 1] \cup Parents(f[k - 1])

IsPath(f, b, n) == f = [k \in 0 .. n |-> PathStep(f, b, k)]

(* The function that Branch defines.                                       *)
LEMMA BranchIsPath ==
    ASSUME NEW b
    PROVE  Branch(b) = (CHOOSE f : IsPath(f, b, Height(b)))[Height(b)]
  BY DEF Branch, IsPath, PathStep, Parents

(* The fields of a block.                                                  *)
LEMMA BlockTypes ==
    ASSUME NEW b \in Blocks
    PROVE  /\ Height(b) \in Nat /\ Parent(b) \in Blocks \cup {None}
           /\ header[b].slot \in Nat /\ header[b].maxHeightPrevoted \in Nat
           /\ header[b].bft \in Nat /\ header[b].sound \in BOOLEAN
           /\ b # Genesis => Parent(b) \in Blocks /\ Height(b) = Height(Parent(b)) + 1
           /\ Height(b) = 0 => b = Genesis
           /\ b # None
  <1>1. header[b] \in Headers
    BY TreeAssumption
  <1>2. /\ Height(b) \in Nat /\ Parent(b) \in Blocks \cup {None}
        /\ header[b].slot \in Nat /\ header[b].maxHeightPrevoted \in Nat
        /\ header[b].bft \in Nat /\ header[b].sound \in BOOLEAN
    BY <1>1 DEF Headers, Height, Parent
  <1>3. b # Genesis => Parent(b) \in Blocks /\ Height(b) = Height(Parent(b)) + 1
    BY TreeAssumption DEF Parent, Height
  <1>4. ASSUME b # Genesis PROVE Height(b) # 0
    <2>1. header[Parent(b)] \in Headers
      BY <1>3, <1>4, TreeAssumption
    <2>2. Height(Parent(b)) \in Nat
      BY <2>1 DEF Headers, Height
    <2> QED BY <1>3, <1>4, <2>2
  <1> QED BY ZenonT(40), <1>2, <1>3, <1>4, TreeAssumption

(* The recursion is well defined.                                          *)
LEMMA PathExists ==
    ASSUME NEW b, NEW top \in Nat
    PROVE  IsPath(CHOOSE f : IsPath(f, b, top), b, top)
  <1> DEFINE B == {n \in Nat : ~ \E f : IsPath(f, b, n)}
  <1>1. SUFFICES ASSUME B # {} PROVE FALSE
    OBVIOUS
  <1>2. PICK n \in B : \A m \in B : n <= m
    <2>1. B \subseteq Nat
      OBVIOUS
    <2> HIDE DEF B
    <2> QED BY Zenon, <1>1, <2>1, MinOfNaturals
  <1>3. n \in Nat /\ ~ \E f : IsPath(f, b, n)
    BY <1>2
  <1>4. \E g : \A k \in 0 .. n - 1 : g[k] = PathStep(g, b, k)
    <2>1. CASE n = 0
      BY <2>1
    <2>2. CASE n # 0
      <3>1. n - 1 \in Nat /\ ~ (n <= n - 1)
        BY <1>3, <2>2
      <3>2. \E g : IsPath(g, b, n - 1)
        BY <1>2, <3>1
      <3> QED BY <3>2 DEF IsPath
    <2> QED BY <2>1, <2>2
  <1>5. PICK g : \A k \in 0 .. n - 1 : g[k] = PathStep(g, b, k)
    BY <1>4
  <1> DEFINE f == [k \in 0 .. n |-> PathStep(g, b, k)]
  <1>6. \A k \in 0 .. n - 1 : f[k] = g[k]
    BY <1>3, <1>5
  <1>7. ASSUME NEW k \in 0 .. n
        PROVE  PathStep(g, b, k) = PathStep(f, b, k)
    <2>1. k = 0 \/ f[k - 1] = g[k - 1]
      <3> HIDE DEF f, B
      <3> QED BY <1>3, <1>6
    <2> HIDE DEF f
    <2> QED BY Zenon, <2>1 DEF PathStep
  <1>8. IsPath(f, b, n)
    BY <1>7 DEF IsPath
  <1> QED BY <1>3, <1>8

(* One more block among those whose parents are taken.                     *)
LEMMA ParentsOfOneMore ==
    ASSUME NEW b, b # Genesis, NEW S
    PROVE  Parents({b} \cup S) = {Parent(b)} \cup Parents(S)
  BY DEF Parents

(* The path from a block goes through its parent's.                        *)
LEMMA PathOfParent ==
    ASSUME NEW b \in Blocks, b # Genesis, NEW n \in Nat,
           NEW f, IsPath(f, b, n + 1), NEW g, IsPath(g, Parent(b), n)
    PROVE  \A k \in 0 .. n : Parent(b) \in g[k] /\ f[k + 1] = {b} \cup g[k]
  <1> DEFINE p == Parent(b)
             Good(k) == p \in g[k] /\ f[k + 1] = {b} \cup g[k]
             B == {k \in 0 .. n : ~ Good(k)}
  <1>1. \A k \in 0 .. n + 1 : f[k] = PathStep(f, b, k)
    BY DEF IsPath
  <1>2. \A k \in 0 .. n : g[k] = PathStep(g, p, k)
    BY DEF IsPath
  <1>3. SUFFICES ASSUME B # {} PROVE FALSE
    OBVIOUS
  <1>4. PICK k \in B : \A m \in B : k <= m
    <2>1. B \subseteq Nat
      OBVIOUS
    <2> HIDE DEF B
    <2> QED BY Zenon, <1>3, <2>1, MinOfNaturals
  <1>5. k \in 0 .. n /\ ~ Good(k)
    BY <1>4
  <1>6. f[k + 1] = f[k] \cup Parents(f[k])
    <2>1. k + 1 \in 0 .. n + 1 /\ k + 1 # 0 /\ (k + 1) - 1 = k
      BY <1>5
    <2> QED BY Zenon, <1>1, <2>1 DEF PathStep
  <1>7. CASE k = 0
    <2>1. f[k] = {b}
      <3>1. k \in 0 .. n + 1
        BY <1>7
      <3> QED BY Zenon, <1>1, <1>7, <3>1 DEF PathStep
    <2>2. g[k] = {p}
      BY ZenonT(40), <1>2, <1>5, <1>7 DEF PathStep
    <2>3. Parents({b}) = {p}
      BY DEF Parents
    <2> QED BY ZenonT(40), <1>5, <1>6, <2>1, <2>2, <2>3
  <1>8. CASE k # 0
    <2>1. k - 1 \in 0 .. n /\ ~ (k <= k - 1) /\ (k - 1) + 1 = k
      BY <1>5, <1>8
    <2>2. Good(k - 1)
      <3>1. k - 1 \notin B
        <4> HIDE DEF B
        <4> QED BY <1>4, <2>1
      <3> QED BY <2>1, <3>1
    <2>3. p \in g[k - 1] /\ f[k] = {b} \cup g[k - 1]
      BY <2>1, <2>2
    <2>4. g[k] = g[k - 1] \cup Parents(g[k - 1])
      BY Zenon, <1>2, <1>5, <1>8 DEF PathStep
    <2>5. Parents(f[k]) = {p} \cup Parents(g[k - 1])
      BY <2>3, ParentsOfOneMore
    <2>6. Good(k)
      BY ZenonT(40), <1>6, <2>3, <2>4, <2>5
    <2> QED BY <1>5, <2>6
  <1> QED BY <1>7, <1>8

(* A branch is a block on top of its parent's branch.                      *)
LEMMA BranchOfChild ==
    ASSUME NEW b \in Blocks, b # Genesis
    PROVE  Branch(b) = {b} \cup Branch(Parent(b))
  <1> DEFINE n == Height(Parent(b))
             f == CHOOSE f : IsPath(f, b, n + 1)
             g == CHOOSE g : IsPath(g, Parent(b), n)
  <1>1. n \in Nat /\ Height(b) = n + 1
    BY BlockTypes
  <1>2. Branch(b) = f[n + 1] /\ Branch(Parent(b)) = g[n]
    BY <1>1, BranchIsPath
  <1> HIDE DEF n
  <1>3. IsPath(f, b, n + 1) /\ IsPath(g, Parent(b), n)
    <2>1. n + 1 \in Nat
      BY <1>1
    <2> QED BY <1>1, <2>1, PathExists
  <1> HIDE DEF f, g
  <1>4. \A k \in 0 .. n : Parent(b) \in g[k] /\ f[k + 1] = {b} \cup g[k]
    BY <1>1, <1>3, PathOfParent
  <1>5. n \in 0 .. n
    BY <1>1
  <1> QED BY <1>2, <1>4, <1>5

(* The branch of the genesis block is that block alone.                    *)
LEMMA BranchOfGenesis == Branch(Genesis) = {Genesis}
  <1> DEFINE f == CHOOSE f : IsPath(f, Genesis, 0)
  <1>1. Height(Genesis) = 0
    BY TreeAssumption DEF Height
  <1>2. Branch(Genesis) = f[0]
    BY <1>1, BranchIsPath
  <1>3. IsPath(f, Genesis, 0)
    BY PathExists
  <1> HIDE DEF f
  <1>4. f[0] = PathStep(f, Genesis, 0)
    BY <1>3 DEF IsPath
  <1> QED BY <1>2, <1>4 DEF PathStep

(* A branch has one block at its own height, and one at least at each      *)
(* below.                                                                  *)
BranchSound(b) ==
    /\ Branch(b) \subseteq Blocks
    /\ b \in Branch(b) /\ Genesis \in Branch(b)
    /\ \A c \in Branch(b) : Height(c) <= Height(b) /\ (Height(c) = Height(b) => c = b)
    /\ \A h \in 0 .. Height(b) : \E c \in Branch(b) : Height(c) = h

(* Every block has such a branch.                                          *)
LEMMA BranchIsSound == \A b \in Blocks : BranchSound(b)
  <1> DEFINE B == {Height(b) : b \in {c \in Blocks : ~ BranchSound(c)}}
  <1>1. SUFFICES ASSUME B # {} PROVE FALSE
    OBVIOUS
  <1>2. PICK n \in B : \A m \in B : n <= m
    <2>1. B \subseteq Nat
      BY BlockTypes
    <2> HIDE DEF B
    <2> QED BY Zenon, <1>1, <2>1, MinOfNaturals
  <1>3. PICK b \in Blocks : ~ BranchSound(b) /\ Height(b) = n
    BY <1>2
  <1>4. CASE b = Genesis
    <2>1. Branch(b) = {b} /\ Height(b) = 0
      BY <1>4, BranchOfGenesis, TreeAssumption DEF Height
    <2> QED BY <1>3, <1>4, <2>1 DEF BranchSound
  <1>5. CASE b # Genesis
    <2> DEFINE p == Parent(b)
    <2>1. p \in Blocks /\ Height(p) \in Nat /\ Height(b) = Height(p) + 1
      BY <1>5, BlockTypes
    <2>2. BranchSound(p)
      <3>1. ~ (n <= Height(p))
        BY <1>3, <2>1
      <3>2. Height(p) \notin B
        <4> HIDE DEF B
        <4> QED BY <1>2, <3>1
      <3> QED BY <2>1, <3>2
    <2>3. Branch(b) = {b} \cup Branch(p)
      BY <1>5, BranchOfChild
    <2> HIDE DEF p
    <2>4. \A c \in Branch(p) : c \in Blocks /\ Height(c) \in Nat /\ Height(c) <= Height(p)
      BY ZenonT(40), <2>2, BlockTypes DEF BranchSound
    <2>5. \A c \in Branch(b) : Height(c) <= Height(b) /\ (Height(c) = Height(b) => c = b)
      BY <2>1, <2>3, <2>4
    <2>6. \A h \in 0 .. Height(b) : \E c \in Branch(b) : Height(c) = h
      <3> TAKE h \in 0 .. Height(b)
      <3>1. CASE h = Height(b)
        BY <2>3, <3>1
      <3>2. CASE h # Height(b)
        <4>1. h \in 0 .. Height(p)
          BY <2>1, <3>2
        <4> QED BY <2>2, <2>3, <4>1 DEF BranchSound
      <3> QED BY <3>1, <3>2
    <2> QED BY ZenonT(40), <1>3, <2>2, <2>3, <2>5, <2>6 DEF BranchSound
  <1> QED BY <1>4, <1>5

(* A block is not on its parent's branch.                                  *)
LEMMA BranchBelow ==
    ASSUME NEW b \in Blocks, b # Genesis
    PROVE  Branch(Parent(b)) = Branch(b) \ {b}
  <1>1. Parent(b) \in Blocks /\ Height(Parent(b)) \in Nat /\ Height(b) = Height(Parent(b)) + 1
    BY BlockTypes
  <1>2. b \notin Branch(Parent(b))
    BY <1>1, BranchIsSound DEF BranchSound
  <1> QED BY <1>2, BranchOfChild

-----------------------------------------------------------------------------
(* Types.                                                                  *)

(* TypeOK in parts that few actions write, and what the step of each part  *)
(* needs: temp blocks are finitely many, and the heights of contexts are   *)
(* not 0.                                                                  *)
EngineTypes ==
    /\ BlocksOf(chain) = Branch(LastBlock)
    /\ stateDiffs \subseteq Nat
    /\ DOMAIN temp \subseteq Nat /\ IsFiniteSet(DOMAIN temp)
    /\ \A h \in DOMAIN temp : temp[h] \in Blocks /\ Height(temp[h]) = h

AppTypes ==
    /\ app.height \in Nat /\ app.root \in Blocks \cup {None} /\ app.applied \subseteq Blocks
    /\ \A h \in DOMAIN appDiffs :
          appDiffs[h] \in Blocks /\ (overlapped \/ Height(appDiffs[h]) = h)

ContextTypes ==
    /\ context = None \/ context.height # 0
    /\ forging = None \/ forging.height # 0

ControlTypes ==
    /\ mode \in Modes /\ phase \in Phases /\ batch \subseteq Blocks \cup {None}
    /\ todo \in Seq(Blocks) /\ original \in Seq(Blocks) /\ common \in Nat
    /\ Applying /\ phase # "none" => todo # << >>

OutsideTypes ==
    /\ now \in 0 .. MaxSlot /\ forgings \in 0 .. MaxForgings /\ crashes \in 0 .. MaxCrashes
    /\ lastBlockReceived \in Nat \cup {None}

TypeInv == EngineTypes /\ AppTypes /\ ContextTypes /\ ControlTypes /\ OutsideTypes

(* A sequence of blocks without its first.                                 *)
LEMMA TailSound ==
    ASSUME NEW s \in Seq(Blocks), s # << >>
    PROVE  /\ Len(s) \in Nat /\ Len(s) > 0 /\ Head(s) = s[1] /\ Head(s) \in Blocks
           /\ Tail(s) \in Seq(Blocks) /\ Len(Tail(s)) = Len(s) - 1
           /\ \A i \in 1 .. Len(s) - 1 : Tail(s)[i] = s[i + 1]
           /\ Len(s) # 1 => Tail(s) # << >>
  <1>1. Len(s) \in Nat /\ Len(s) > 0 /\ Head(s) = s[1] /\ Head(s) \in Blocks
    OBVIOUS
  <1>2. /\ Tail(s) \in Seq(Blocks) /\ Len(Tail(s)) = Len(s) - 1
        /\ \A i \in 1 .. Len(s) - 1 : Tail(s)[i] = s[i + 1]
    OBVIOUS
  <1>3. Len(s) # 1 => Len(Tail(s)) # 0
    BY <1>1, <1>2
  <1>4. Len(s) # 1 => Tail(s) # << >>
    BY Zenon, <1>3
  <1> QED BY <1>1, <1>2, <1>4

(* A sequence of blocks without its last.                                  *)
LEMMA FrontSound ==
    ASSUME NEW s \in Seq(Blocks), Len(s) > 0
    PROVE  /\ SubSeq(s, 1, Len(s) - 1) \in Seq(Blocks)
           /\ Len(SubSeq(s, 1, Len(s) - 1)) = Len(s) - 1
           /\ \A i \in 1 .. Len(s) - 1 : SubSeq(s, 1, Len(s) - 1)[i] = s[i]
  <1> DEFINE n == Len(s) - 1
  <1>1. n \in Nat /\ Len(s) = n + 1
    OBVIOUS
  <1> HIDE DEF n
  <1>2. SubSeq(s, 1, n) \in Seq(Blocks) /\ Len(SubSeq(s, 1, n)) = n
    BY <1>1
  <1>3. \A i \in 1 .. n : SubSeq(s, 1, n)[i] = s[i]
    BY <1>1
  <1> QED BY <1>2, <1>3 DEF n

(* The invariants give TypeOK.                                             *)
LEMMA TypeInvIsTypeOK == BlockInv /\ TypeInv => TypeOK
  <1> SUFFICES ASSUME BlockInv, TypeInv PROVE TypeOK
    OBVIOUS
  <1>1. /\ chain \in Seq(Blocks) /\ Len(chain) > 0 /\ BlocksOf(chain) = Branch(LastBlock)
        /\ \A i \in DOMAIN chain : Height(chain[i]) = i - 1
        /\ finalizedHeight \in Nat
    BY DEF BlockInv, ChainInv, TypeInv, EngineTypes
  <1>2. /\ stateDiffs \subseteq Nat
        /\ \A h \in DOMAIN temp : Height(temp[h]) = h
        /\ app.height \in Nat /\ app.root \in Blocks \cup {None} /\ app.applied \subseteq Blocks
        /\ \A h \in DOMAIN appDiffs :
              appDiffs[h] \in Blocks /\ (overlapped \/ Height(appDiffs[h]) = h)
    BY ZenonT(40) DEF TypeInv, EngineTypes, AppTypes
  <1>3. /\ context \in Contexts \cup {None} /\ forging \in Forging \cup {None}
        /\ overlapped \in BOOLEAN
    BY Zenon DEF BlockInv, HolderInv
  <1>4. /\ mode \in Modes /\ phase \in Phases /\ batch \subseteq Blocks \cup {None}
        /\ todo \in Seq(Blocks) /\ original \in Seq(Blocks)
        /\ common \in Nat /\ now \in 0 .. MaxSlot
        /\ forgings \in 0 .. MaxForgings /\ crashes \in 0 .. MaxCrashes
        /\ lastBlockReceived \in Nat \cup {None}
    BY DEF TypeInv, ControlTypes, OutsideTypes
  <1> QED BY ZenonT(40), <1>1, <1>2, <1>3, <1>4 DEF TypeOK

(* The Executer's steps, by how far they take the work: a block is being   *)
(* worked on before and after, is not applied, or there is nothing more to *)
(* do.                                                                     *)
Goes == \/ DeleteBegin \/ AppRevert \/ AppRevertWrite
        \/ ApplyBegin \/ AppExecute \/ AppCommit \/ AppCommitWrite
Fails == ApplyRefused \/ AppExecuteFails \/ AppCommitFails
Ends == DeleteRefused \/ AppRevertFails \/ ApplyDone \/ DownloadFails

(* There are no other steps.                                               *)
LEMMA WorkSteps ==
    ASSUME Work
    PROVE  \/ DeleteEnter \/ ApplyEnter \/ Goes \/ Fails \/ Ends
           \/ RemoveBlock \/ DeleteDone \/ AddBlock
  BY ZenonT(40) DEF Work, Goes, Fails, Ends

(* Work that goes on keeps its plan and the engine's database.             *)
LEMMA GoesOn ==
    ASSUME Goes
    PROVE  /\ UNCHANGED <<engineDB, plan, lastBlockReceived, now, forgings, crashes>>
           /\ phase # "none" /\ phase' \in Phases \ {"none"}
  <1>1. UNCHANGED <<engineDB, plan, lastBlockReceived, now, forgings, crashes>>
    BY ZenonT(40) DEF Goes, DeleteBegin, AppRevert, AppRevertWrite, ApplyBegin, AppExecute, AppCommit,
           AppCommitWrite, outside
  <1>2. phase # "none" /\ phase' \in Phases \ {"none"}
    BY DEF Goes, DeleteBegin, AppRevert, AppRevertWrite, ApplyBegin, AppExecute, AppCommit, AppCommitWrite, Phases
  <1> QED BY Zenon, <1>1, <1>2

(* A step that enters InitStateMachine.                                    *)
LEMMA Entering ==
    ASSUME DeleteEnter \/ ApplyEnter
    PROVE  /\ UNCHANGED <<engineDB, appDB, plan, batch, context, lastBlockReceived, outside>>
           /\ phase = "none" /\ phase' = "entering" /\ context = None
  BY ZenonT(40) DEF DeleteEnter, ApplyEnter, InitStateMachineEnters

(* A block that is not applied changes nothing.                            *)
LEMMA Failing ==
    ASSUME Fails
    PROVE  /\ UNCHANGED <<engineDB, appDB, lastBlockReceived, outside>>
           /\ Applying /\ ApplyFailed /\ (todo # << >> \/ phase # "none")
  <1>1. UNCHANGED <<engineDB, appDB, lastBlockReceived, outside>> /\ Applying /\ ApplyFailed
    BY Zenon DEF Fails, ApplyRefused, AppExecuteFails, AppCommitFails
  <1>2. todo # << >> \/ phase # "none"
    BY DEF Fails, ApplyRefused, AppExecuteFails, AppCommitFails
  <1> QED BY Zenon, <1>1, <1>2

(* The Executer is idle when its work ends.                                *)
LEMMA Ending ==
    ASSUME Ends
    PROVE  /\ mode' = "idle" /\ phase' = "none" /\ todo' = << >>
           /\ UNCHANGED <<chain, appDB, common, original, batch, lastBlockReceived, outside>>
  BY ZenonT(40) DEF Ends, DeleteRefused, AppRevertFails, ApplyDone, DownloadFails, Stop, engineDB

(* What has overlapped stays so.                                           *)
LEMMA OverlapKept ==
    ASSUME BlockInv, [Next]_vars, overlapped
    PROVE  overlapped'
  <1> USE DEF outside
  <1>1. Receive \/ Tick \/ Crash \/ Restart \/ UNCHANGED vars => overlapped'
    BY Zenon DEF Receive, ReceiveValidBlock, ReceiveTieBreak, ReceiveFastSync, ReceiveBlockSync,
           Tick, Crash, Restart, LoseMemory, vars
  <1>2. Startup => overlapped'
    BY Zenon DEF Startup, InitRequest, InitBegin, InitReverts, InitSucceeds, InitFails, LoseMemory
  <1>3. Generate => overlapped'
    BY ZenonT(40), OverlapStays DEF Generate, GeneratorCheck, GeneratorEnter, GeneratorBegin, GeneratorCall,
           GeneratorChanges, GeneratorEnd, BlockInv
  <1>4. Work => overlapped'
    <2>1. Goes => overlapped'
      BY ZenonT(40), OverlapStays DEF Goes, DeleteBegin, AppRevert, AppRevertWrite, ApplyBegin, AppExecute,
             AppCommit, AppCommitWrite, BlockInv
    <2>2. RemoveBlock \/ DeleteDone \/ AddBlock => overlapped'
      BY Zenon DEF RemoveBlock, DeleteDone, AddBlock
    <2> QED BY Zenon, <2>1, <2>2, WorkSteps, Entering, Failing, Ending
  <1> QED BY Zenon, <1>1, <1>2, <1>3, <1>4 DEF Next

(* Which actions write the engine's database.                              *)
LEMMA EngineWrites ==
    ASSUME [Next]_vars
    PROVE  RemoveBlock \/ AddBlock \/ ApplyDone \/ UNCHANGED engineDB
  <1>1. Receive \/ Generate \/ Tick \/ Crash \/ Restart \/ UNCHANGED vars => UNCHANGED engineDB
    BY Zenon DEF Receive, ReceiveValidBlock, ReceiveTieBreak, ReceiveFastSync, ReceiveBlockSync,
           Generate, GeneratorCheck, GeneratorEnter, GeneratorBegin, GeneratorCall, GeneratorChanges,
           GeneratorEnd, Tick, Crash, Restart, vars
  <1>2. Startup => UNCHANGED engineDB
    BY DEF Startup, InitRequest, InitBegin, InitReverts, InitSucceeds, InitFails
  <1>3. Work => RemoveBlock \/ AddBlock \/ ApplyDone \/ UNCHANGED engineDB
    <2>1. Ends => ApplyDone \/ UNCHANGED engineDB
      BY Zenon DEF Ends, DeleteRefused, AppRevertFails, DownloadFails
    <2>2. DeleteDone => UNCHANGED engineDB
      BY Zenon DEF DeleteDone
    <2> QED BY Zenon, <2>1, <2>2, WorkSteps, Entering, GoesOn, Failing
  <1> QED BY <1>1, <1>2, <1>3 DEF Next

(* Which actions write the application's database.                         *)
LEMMA AppWrites ==
    ASSUME [Next]_vars
    PROVE  AppRevertWrite \/ AppCommitWrite \/ InitReverts \/ UNCHANGED appDB
  <1>1. Receive \/ Generate \/ Tick \/ Crash \/ Restart \/ UNCHANGED vars => UNCHANGED appDB
    BY ZenonT(40) DEF Receive, ReceiveValidBlock, ReceiveTieBreak, ReceiveFastSync, ReceiveBlockSync,
           Generate, GeneratorCheck, GeneratorEnter, GeneratorBegin, GeneratorCall, GeneratorChanges,
           GeneratorEnd, Tick, Crash, Restart, vars
  <1>2. Startup => InitReverts \/ UNCHANGED appDB
    BY DEF Startup, InitRequest, InitBegin, InitSucceeds, InitFails
  <1>3. Work => AppRevertWrite \/ AppCommitWrite \/ UNCHANGED appDB
    <2>1. Goes => AppRevertWrite \/ AppCommitWrite \/ UNCHANGED appDB
      BY Zenon DEF Goes, DeleteBegin, AppRevert, ApplyBegin, AppExecute, AppCommit
    <2>2. RemoveBlock \/ DeleteDone \/ AddBlock => UNCHANGED appDB
      BY Zenon DEF RemoveBlock, DeleteDone, AddBlock
    <2> QED BY Zenon, <2>1, <2>2, WorkSteps, Entering, Failing, Ending
  <1> QED BY <1>1, <1>2, <1>3 DEF Next

(* Deleting, adding and clearing keep the engine's blocks a branch of the  *)
(* tree and every temp block under its height.                             *)
LEMMA EngineTypesStep ==
    ASSUME BlockInv, TypeInv, [Next]_vars
    PROVE  EngineTypes'
  <1>1. CASE UNCHANGED engineDB
    BY <1>1 DEF TypeInv, EngineTypes, engineDB, LastBlock, BlocksOf
  <1>2. CASE RemoveBlock
    <2> DEFINE l == LastBlock
    <2>1. /\ l \in Blocks /\ Height(l) = Len(chain) - 1 /\ Len(chain) \in Nat
          /\ Height(l) > finalizedHeight /\ finalizedHeight \in Nat /\ chain \in Seq(Blocks)
          /\ \A i \in 1 .. Len(chain) : Height(chain[i]) = i - 1
          /\ \A i \in 2 .. Len(chain) : Parent(chain[i]) = chain[i - 1]
      BY ZenonT(40), <1>2, LastIsHighest DEF RemoveBlock, BlockInv, ChainInv, WorkInv, Applying, Deleting
    <2>2. /\ Len(chain') = Len(chain) - 1
          /\ \A i \in 1 .. Len(chain) - 1 : chain'[i] = chain[i]
          /\ DOMAIN chain' = 1 .. Len(chain) - 1
      BY <1>2, <2>1 DEF RemoveBlock
    <2>3. LastBlock' = Parent(l)
      <3>1. Len(chain) \in 2 .. Len(chain) /\ Len(chain) - 1 \in 1 .. Len(chain) - 1
        BY <2>1
      <3> QED BY <2>1, <2>2, <3>1 DEF LastBlock
    <2>4. BlocksOf(chain') = BlocksOf(chain) \ {l}
      <3>1. \A i \in 1 .. Len(chain) - 1 : chain[i] # l
        BY <2>1
      <3>2. BlocksOf(chain) = {chain[i] : i \in 1 .. Len(chain) - 1} \cup {l}
        <4>1. chain \in Seq(Blocks) /\ Len(chain) \in Nat /\ Len(chain) > 0
          BY <2>1
        <4>2. DOMAIN chain = 1 .. Len(chain)
          BY <4>1
        <4>3. \A i : i \in 1 .. Len(chain) <=> i \in 1 .. Len(chain) - 1 \/ i = Len(chain)
          BY <4>1
        <4> QED BY ZenonT(40), <4>2, <4>3 DEF BlocksOf, LastBlock
      <3>3. BlocksOf(chain') = {chain[i] : i \in 1 .. Len(chain) - 1}
        BY <2>2 DEF BlocksOf
      <3> QED BY <3>1, <3>2, <3>3
    <2>5. Branch(Parent(l)) = Branch(l) \ {l}
      <3>1. l # Genesis
        BY <2>1, TreeAssumption DEF Height
      <3> QED BY ZenonT(40), <2>1, <3>1, BranchBelow
    <2>6. stateDiffs' \subseteq Nat
      BY <1>2 DEF RemoveBlock, TypeInv, EngineTypes
    <2>7. /\ DOMAIN temp' \subseteq Nat /\ IsFiniteSet(DOMAIN temp')
          /\ \A h \in DOMAIN temp' : temp'[h] \in Blocks /\ Height(temp'[h]) = h
      <3>1. CASE mode = "tieDelete"
        BY <1>2, <3>1 DEF RemoveBlock, TypeInv, EngineTypes
      <3>2. CASE mode # "tieDelete"
        <4>1. temp' = [h \in DOMAIN temp \cup {Height(l)} |-> IF h = Height(l) THEN l ELSE temp[h]]
          BY <1>2, <3>2 DEF RemoveBlock
        <4>2. DOMAIN temp' = DOMAIN temp \cup {Height(l)}
          BY <4>1
        <4>3. IsFiniteSet(DOMAIN temp')
          BY <4>2, FS_AddElement DEF TypeInv, EngineTypes
        <4>4. Height(l) \in Nat
          BY <2>1
        <4> HIDE DEF l
        <4> QED BY ZenonT(40), <2>1, <4>1, <4>2, <4>3, <4>4 DEF TypeInv, EngineTypes
      <3> QED BY <3>1, <3>2
    <2> QED BY ZenonT(40), <2>3, <2>4, <2>5, <2>6, <2>7 DEF TypeInv, EngineTypes, BlocksOf
  <1>3. CASE AddBlock
    <2> DEFINE b == Head(todo)
    <2>1. b \in Blocks /\ Parent(b) = LastBlock /\ chain \in Seq(Blocks) /\ LastBlock \in Blocks
      BY ZenonT(40), <1>3, LastIsHighest DEF AddBlock, BlockInv, ChainInv, WorkInv, Applying, Deleting
    <2>2. b # Genesis /\ Height(b) \in Nat
      BY <2>1, ChildIsHigher
    <2>3. LastBlock' = b /\ BlocksOf(chain') = BlocksOf(chain) \cup {b}
      <3>1. chain' = Append(chain, b)
        BY <1>3 DEF AddBlock
      <3> HIDE DEF b
      <3> QED BY <2>1, <3>1 DEF LastBlock, BlocksOf
    <2>4. Branch(b) = {b} \cup Branch(LastBlock)
      BY <2>1, <2>2, BranchOfChild
    <2>5. stateDiffs' \subseteq Nat
      BY ZenonT(40), <1>3, <2>2 DEF AddBlock, TypeInv, EngineTypes, KeptDiffs
    <2>6. DOMAIN temp' \subseteq DOMAIN temp /\ \A h \in DOMAIN temp' : temp'[h] = temp[h]
      BY ZenonT(40), <1>3 DEF AddBlock
    <2>7. IsFiniteSet(DOMAIN temp')
      BY <2>6, FS_Subset DEF TypeInv, EngineTypes
    <2> HIDE DEF b
    <2> QED BY ZenonT(40), <2>3, <2>4, <2>5, <2>6, <2>7 DEF TypeInv, EngineTypes, BlocksOf
  <1>4. CASE ApplyDone
    <2>1. chain' = chain /\ stateDiffs' = stateDiffs /\ (temp' = temp \/ temp' = << >>)
      BY <1>4 DEF ApplyDone
    <2>2. DOMAIN temp' = {} \/ temp' = temp
      BY <2>1
    <2> QED BY <2>1, <2>2, FS_EmptySet DEF TypeInv, EngineTypes, LastBlock, BlocksOf
  <1> QED BY ZenonT(40), <1>1, <1>2, <1>3, <1>4, EngineWrites

(* Committing and reverting keep every Diff of the application under the   *)
(* height of its block until contexts overlap, and the recorded height a   *)
(* height.                                                                 *)
LEMMA AppTypesStep ==
    ASSUME BlockInv, TypeInv, [Next]_vars
    PROVE  AppTypes'
  <1>0. overlapped => overlapped'
    BY Zenon, OverlapKept
  <1>1. CASE UNCHANGED appDB
    BY ZenonT(40), <1>0, <1>1 DEF TypeInv, AppTypes, appDB, Height
  <1>2. ASSUME context # None PROVE context.height \in Nat /\ context.height - 1 \in Nat
    <2>1. context \in Contexts /\ context.height # 0
      BY Zenon, <1>2 DEF BlockInv, HolderInv, TypeInv, ContextTypes
    <2> QED BY <2>1 DEF Contexts
  <1>3. CASE AppRevertWrite
    <2>1. LastBlock \in Blocks /\ Parent(LastBlock) \in Blocks \cup {None}
      BY Zenon, LastIsHighest, BlockTypes DEF BlockInv
    <2>2. /\ app' = [height |-> context.height - 1, root |-> Parent(LastBlock),
                     applied |-> app.applied \ {LastBlock}]
          /\ context # None /\ appDiffs' = appDiffs /\ overlapped' = overlapped
      BY Zenon, <1>3 DEF AppRevertWrite, outside
    <2>3. /\ app'.height = context.height - 1 /\ app'.root = Parent(LastBlock)
          /\ app'.applied = app.applied \ {LastBlock}
      BY <2>2
    <2> QED BY ZenonT(40), <1>2, <2>1, <2>2, <2>3 DEF TypeInv, AppTypes, Height
  <1>4. CASE AppCommitWrite
    <2> DEFINE b == Head(todo)
    <2>0. Applying /\ ~ Deleting /\ phase = "writing"
      BY <1>4 DEF AppCommitWrite, Applying, Deleting
    <2>1. b \in Blocks /\ batch = {b}
      BY <2>0 DEF BlockInv, WorkInv
    <2>2. Height(b) \in Nat
      BY ZenonT(40), <2>1, BlockTypes
    <2>3. ~ overlapped => context.height = Height(b)
      BY <2>0 DEF BlockInv, HolderInv, InContext, Working
    <2>4. /\ app' = [height |-> context.height, root |-> b, applied |-> app.applied \cup batch]
          /\ context # None /\ overlapped' = overlapped
      BY Zenon, <1>4 DEF AppCommitWrite, outside
    <2>5. PICK key \in {Height(b), context.height} :
             appDiffs' = [h \in DOMAIN appDiffs \cup {key} |-> IF h = key THEN b ELSE appDiffs[h]]
      BY Zenon, <1>4 DEF AppCommitWrite
    <2>6. overlapped \/ key = Height(b)
      BY Zenon, <2>3
    <2> HIDE DEF b
    <2>7. app'.height = context.height /\ app'.root = b /\ app'.applied = app.applied \cup {b}
      BY <2>1, <2>4
    <2>8. \A h \in DOMAIN appDiffs' : appDiffs'[h] \in Blocks /\ (overlapped' \/ Height(appDiffs'[h]) = h)
      BY ZenonT(40), <2>1, <2>4, <2>5, <2>6 DEF TypeInv, AppTypes
    <2> QED BY ZenonT(40), <1>2, <2>1, <2>4, <2>7, <2>8 DEF TypeInv, AppTypes, Height
  <1>5. CASE InitReverts
    <2> DEFINE b == appDiffs[initCall.currentHeight]
               root == IF b = initCall.currentRoot THEN Parent(b) ELSE None
    <2>1. b \in Blocks /\ context # None /\ appDiffs' = appDiffs /\ overlapped' = overlapped
      BY Zenon, <1>5 DEF InitReverts, TypeInv, AppTypes
    <2>2. root \in Blocks \cup {None}
      BY Zenon, <2>1, BlockTypes
    <2>3. app' = [height |-> context.height - 1, root |-> root, applied |-> app.applied \ {b}]
      BY Zenon, <1>5 DEF InitReverts
    <2> HIDE DEF b, root
    <2>4. app'.height = context.height - 1 /\ app'.root = root /\ app'.applied = app.applied \ {b}
      BY <2>3
    <2> QED BY ZenonT(40), <1>2, <2>1, <2>2, <2>4 DEF TypeInv, AppTypes, Height
  <1> QED BY Zenon, <1>1, <1>3, <1>4, <1>5, AppWrites

(* The heights of a context that is set, or changed, and of the block the  *)
(* generator prepares, are above the genesis block.                        *)
LEMMA ContextTypesStep ==
    ASSUME BlockInv, TypeInv, [Next]_vars
    PROVE  ContextTypes'
  <1> USE DEF outside
  <1>0. LastBlock \in Blocks /\ Height(LastBlock) \in Nat /\ HolderInv /\ ContextTypes
    BY LastIsHighest, BlockTypes DEF BlockInv, TypeInv
  <1>1. CASE (context' = None \/ UNCHANGED context) /\ (forging' = None \/ UNCHANGED forging)
    BY Zenon, <1>0, <1>1 DEF ContextTypes
  <1>2. CASE DeleteBegin \/ ApplyBegin
    <2>1. phase # "none" /\ InitStateMachineSets(Working, Height(Working)) /\ UNCHANGED forging
      BY <1>2 DEF DeleteBegin, ApplyBegin, Working, Deleting, Applying
    <2>2. Working \in Blocks /\ Height(Working) \in Nat
      BY Zenon, <2>1, WorkingIsBlock DEF BlockInv
    <2>3. context'.height = Height(Working)
      BY Zenon, <1>0, <2>1, <2>2, ContextSet
    <2>4. Height(Working) # 0
      <3>1. CASE Deleting
        BY <1>0, <2>1, <3>1 DEF Working, BlockInv, ChainInv, WorkInv, Deleting, Applying
      <3>2. CASE ~ Deleting
        <4>1. Working \in Blocks /\ Parent(Working) = LastBlock
          BY <2>1, <3>2 DEF Working, BlockInv, WorkInv
        <4> QED BY <1>0, <4>1, ChildIsHigher
      <3> QED BY Zenon, <3>1, <3>2
    <2> QED BY Zenon, <1>0, <2>1, <2>3, <2>4 DEF ContextTypes
  <1>3. CASE AppExecute
    <2>1. /\ context # None /\ context' = [context EXCEPT !.writes = @ \cup {Head(todo)}]
          /\ phase # "none" /\ Head(todo) = Working /\ UNCHANGED forging
      BY <1>3 DEF AppExecute, CheckState, Working, Deleting, Applying
    <2>2. context'.height = context.height
      BY Zenon, <1>0, <2>1, WorkingIsBlock, ContextWritten DEF BlockInv, HolderInv
    <2> QED BY Zenon, <1>0, <2>1, <2>2 DEF ContextTypes
  <1>4. CASE GeneratorCheck
    <2>1. forging' = [step |-> "checked", height |-> Height(LastBlock) + 1] /\ UNCHANGED context
      BY Zenon, <1>4 DEF GeneratorCheck
    <2>2. forging'.height # 0
      BY <1>0, <2>1
    <2> QED BY Zenon, <1>0, <2>1, <2>2 DEF ContextTypes
  <1>5. CASE Generate /\ ~ GeneratorCheck
    <2>1. /\ forging \in Forging /\ forging # None
          /\ \/ forging' = None
             \/ \E step \in {"entering", "forging", "calling"} : forging' = [forging EXCEPT !.step = step]
      BY ZenonT(40), <1>0, <1>5 DEF Generate, GeneratorEnter, GeneratorBegin, GeneratorCall, GeneratorChanges,
             GeneratorEnd, GeneratorAt, HolderInv
    <2>2. forging.height \in Nat /\ forging.height # 0
      BY <1>0, <2>1 DEF ContextTypes, Forging
    <2>3. forging' = None \/ forging'.height = forging.height
      BY <2>1, GeneratorStep
    <2>4. CASE GeneratorBegin
      <3>1. context'.height = forging.height
        BY Zenon, <1>0, <2>2, <2>4, ContextSet DEF GeneratorBegin
      <3> QED BY Zenon, <2>2, <2>3, <3>1 DEF ContextTypes
    <2>5. CASE GeneratorChanges
      <3>1. context # None /\ context'.height = context.height
        BY Zenon, <1>0, <2>5, ContextWritten DEF GeneratorChanges, HolderInv
      <3> QED BY Zenon, <1>0, <2>2, <2>3, <3>1 DEF ContextTypes
    <2>6. CASE GeneratorEnter \/ GeneratorCall \/ GeneratorEnd
      <3>1. context' = None \/ UNCHANGED context
        BY Zenon, <2>6 DEF GeneratorEnter, GeneratorCall, GeneratorEnd
      <3> QED BY Zenon, <1>0, <2>2, <2>3, <3>1 DEF ContextTypes
    <2> QED BY Zenon, <1>5, <2>4, <2>5, <2>6 DEF Generate
  <1>6. Receive \/ Tick \/ Crash \/ Restart \/ UNCHANGED vars
            => /\ context' = None \/ UNCHANGED context
               /\ forging' = None \/ UNCHANGED forging
    BY Zenon DEF Receive, ReceiveValidBlock, ReceiveTieBreak, ReceiveFastSync, ReceiveBlockSync,
           Tick, Crash, Restart, LoseMemory, vars
  <1>7. Startup => /\ context' = None \/ UNCHANGED context
                   /\ forging' = None \/ UNCHANGED forging
    BY Zenon DEF Startup, InitRequest, InitBegin, InitReverts, InitSucceeds, InitFails, LoseMemory
  <1>8. Work => \/ DeleteBegin \/ ApplyBegin \/ AppExecute
                \/ (context' = None \/ UNCHANGED context) /\ UNCHANGED forging
    BY ZenonT(40) DEF Work, DeleteEnter, DeleteRefused, AppRevert, AppRevertFails, AppRevertWrite, DeleteDone,
           ApplyEnter, ApplyRefused, RemoveBlock, AppExecuteFails, AppCommit, AppCommitFails, AppCommitWrite,
           AddBlock, ApplyDone, DownloadFails
  <1> QED BY Zenon, <1>1, <1>2, <1>3, <1>4, <1>5, <1>6, <1>7, <1>8 DEF Next

(* The clock, the forgings and the stops go up by one at a time.           *)
LEMMA OutsideSteps ==
    ASSUME [Next]_vars
    PROVE  /\ now' = now \/ (now < MaxSlot /\ now' = now + 1)
           /\ forgings' = forgings \/ (forgings < MaxForgings /\ forgings' = forgings + 1)
           /\ crashes' = crashes \/ (crashes < MaxCrashes /\ crashes' = crashes + 1)
           /\ lastBlockReceived' \in {lastBlockReceived, None, now}
  <1> USE DEF outside, LoseMemory
  <1> DEFINE Small ==
        /\ now' = now \/ (now < MaxSlot /\ now' = now + 1)
        /\ forgings' = forgings \/ (forgings < MaxForgings /\ forgings' = forgings + 1)
        /\ crashes' = crashes \/ (crashes < MaxCrashes /\ crashes' = crashes + 1)
        /\ lastBlockReceived' \in {lastBlockReceived, None, now}
  <1>1. Receive \/ Tick \/ Crash \/ Restart \/ UNCHANGED vars => Small
    BY Zenon DEF Receive, ReceiveValidBlock, ReceiveTieBreak, ReceiveFastSync, ReceiveBlockSync,
           Tick, Crash, Restart, vars
  <1>2. Generate => Small
    BY ZenonT(40) DEF Generate, GeneratorCheck, GeneratorEnter, GeneratorBegin, GeneratorCall, GeneratorChanges,
           GeneratorEnd
  <1>3. Startup => Small
    BY ZenonT(40) DEF Startup, InitRequest, InitBegin, InitReverts, InitSucceeds, InitFails
  <1>4. Work => Small
    <2>1. RemoveBlock \/ DeleteDone \/ AddBlock => Small
      BY Zenon DEF RemoveBlock, DeleteDone, AddBlock
    <2> QED BY ZenonT(40), <2>1, WorkSteps, Entering, GoesOn, Failing, Ending
  <1> QED BY Zenon, <1>1, <1>2, <1>3, <1>4 DEF Next

(* The clock, the stops and the time of the last block have their types.   *)
LEMMA OutsideTypesStep ==
    ASSUME TypeInv, [Next]_vars
    PROVE  OutsideTypes'
  BY OutsideSteps, BoundsAssumption DEF TypeInv, OutsideTypes

(* The blocks a synchroniser asks for end with the one it aims at.         *)
LEMMA BlocksAboveSound ==
    ASSUME NEW b \in Blocks, NEW h \in Nat, h <= Height(b)
    PROVE  /\ BlocksAbove(b, h) \in Seq(Blocks) /\ Len(BlocksAbove(b, h)) = Height(b) - h
           /\ h < Height(b) => BlocksAbove(b, h)[Height(b) - h] = b
  <1> DEFINE n == Height(b) - h
             At(i) == CHOOSE c \in Branch(b) : Height(c) = h + i
  <1>1. Height(b) \in Nat /\ n \in Nat
    BY BlockTypes
  <1>2. BlocksAbove(b, h) = [i \in 1 .. n |-> At(i)]
    BY DEF BlocksAbove
  <1>3. ASSUME NEW i \in 1 .. n
        PROVE  At(i) \in Branch(b) /\ At(i) \in Blocks /\ Height(At(i)) = h + i
    <2>1. h + i \in 0 .. Height(b)
      BY <1>1
    <2>2. \E c \in Branch(b) : Height(c) = h + i
      BY <2>1, BranchIsSound DEF BranchSound
    <2>3. At(i) \in Branch(b) /\ Height(At(i)) = h + i
      BY <2>2
    <2> QED BY <2>3, BranchIsSound DEF BranchSound
  <1>4. h < Height(b) => At(n) = b
    <2> SUFFICES ASSUME h < Height(b) PROVE At(n) = b
      OBVIOUS
    <2>1. n \in 1 .. n /\ h + n = Height(b)
      BY <1>1
    <2>2. At(n) \in Branch(b) /\ Height(At(n)) = Height(b)
      BY <1>3, <2>1
    <2> QED BY <2>2, BranchIsSound DEF BranchSound
  <1> HIDE DEF At
  <1>5. BlocksAbove(b, h) \in Seq(Blocks) /\ Len(BlocksAbove(b, h)) = n
    BY <1>1, <1>2, <1>3
  <1>6. h < Height(b) => n \in 1 .. n
    BY <1>1
  <1> QED BY Zenon, <1>2, <1>4, <1>5, <1>6

(* The chain and a branch meet, and never above the ends of both.          *)
LEMMA CommonHeightsSound ==
    ASSUME BlockInv, TypeInv, NEW b \in Blocks
    PROVE  /\ CommonHeights(b) \subseteq 0 .. Height(b) /\ CommonHeights(b) # {}
           /\ \A h \in CommonHeights(b) : h <= Height(LastBlock)
           /\ Height(b) \in CommonHeights(b) => chain[Height(b) + 1] = b
  <1>1. /\ chain \in Seq(Blocks) /\ LastBlock \in Blocks /\ Height(LastBlock) = Len(chain) - 1
        /\ \A i \in 1 .. Len(chain) : Height(chain[i]) = i - 1
    BY LastIsHighest DEF BlockInv, ChainInv
  <1>2. BlocksOf(chain) = Branch(LastBlock)
    BY DEF TypeInv, EngineTypes
  <1>3. BranchSound(b) /\ BranchSound(LastBlock) /\ Height(b) \in Nat
    BY <1>1, BranchIsSound, BlockTypes
  <1>4. Genesis \in Branch(b) \cap BlocksOf(chain)
    BY <1>2, <1>3 DEF BranchSound
  <1>5. CommonHeights(b) # {}
    BY ZenonT(40), <1>4 DEF CommonHeights
  <1>6. \A c \in Branch(b) : Height(c) \in 0 .. Height(b)
    BY <1>3, BlockTypes DEF BranchSound
  <1>7. \A c \in BlocksOf(chain) : Height(c) <= Height(LastBlock)
    BY <1>2, <1>3 DEF BranchSound
  <1>8. ASSUME Height(b) \in CommonHeights(b) PROVE chain[Height(b) + 1] = b
    <2>1. PICK c \in Branch(b) \cap BlocksOf(chain) : Height(c) = Height(b)
      BY <1>8 DEF CommonHeights
    <2>2. c = b
      BY <1>3, <2>1 DEF BranchSound
    <2>3. PICK i \in 1 .. Len(chain) : chain[i] = b
      BY <1>1, <2>1, <2>2 DEF BlocksOf
    <2> QED BY <1>1, <2>3
  <1> QED BY ZenonT(40), <1>5, <1>6, <1>7, <1>8 DEF CommonHeights

(* The highest of some common heights is one of them.                      *)
LEMMA HighestOfSound ==
    ASSUME NEW n \in Nat, NEW S \in SUBSET (0 .. n), S # {}
    PROVE  HighestOf(S) \in S
  <1>1. S \subseteq Int /\ IsFiniteSet(S)
    <2>1. IsFiniteSet(0 .. n)
      BY FS_Interval
    <2>2. IsFiniteSet(S)
      BY Zenon, <2>1, FS_Subset
    <2> QED BY <2>2
  <1>2. PICK h \in S : \A g \in S : g <= h
    BY Zenon, <1>1, MaxOfFinite
  <1> QED BY Zenon, <1>2 DEF HighestOf

(* The temp blocks can be sorted.                                          *)
LEMMA TempBlocksSorted ==
    ASSUME EngineTypes
    PROVE  AscendingBlocks(temp) \in Seq(Blocks)
  <1> DEFINE S == DOMAIN temp
             Sorted(f) == \A i, j \in DOMAIN f : i < j => Height(temp[f[i]]) < Height(temp[f[j]])
             order == CHOOSE f \in [1 .. Cardinality(S) -> S] : Sorted(f)
  <1>1. S \subseteq Int /\ IsFiniteSet(S) /\ Cardinality(S) \in Nat
    BY FS_CardinalityType DEF EngineTypes
  <1>2. PICK f \in [1 .. Cardinality(S) -> S] : \A i, j \in DOMAIN f : i < j => f[i] < f[j]
    BY <1>1, AscendingExists
  <1>3. Sorted(f)
    BY <1>2 DEF EngineTypes
  <1>4. order \in [1 .. Cardinality(S) -> S]
    <2> HIDE DEF Sorted
    <2> QED BY <1>2, <1>3
  <1>5. AscendingBlocks(temp) = [i \in DOMAIN order |-> temp[order[i]]]
    BY DEF AscendingBlocks
  <1> HIDE DEF order
  <1>6. \A i \in 1 .. Cardinality(S) : temp[order[i]] \in Blocks
    BY <1>4 DEF EngineTypes
  <1> QED BY <1>1, <1>4, <1>5, <1>6

-----------------------------------------------------------------------------
(* The synchronisers.                                                      *)

(* The block that the chain ends with when a synchroniser has deleted down *)
(* to a height and applied some blocks.                                    *)
Target(blocks, height) == IF blocks = << >> THEN chain[height + 1] ELSE blocks[Len(blocks)]

(* What a synchroniser is going to end with wins over the last block it    *)
(* found; it never deletes below the common block.                         *)
SyncInv ==
    /\ mode \in {"fastDelete", "syncDelete"} =>
          /\ common <= Height(LastBlock)
          /\ phase # "none" => common < Height(LastBlock)
          /\ Wins(Target(todo, common), original[Len(original)])
    /\ mode \in {"fastApply", "syncApply"} =>
          Wins(IF todo = << >> THEN LastBlock ELSE todo[Len(todo)], original[Len(original)])

(* From a common block on, the blocks asked for lead to the block aimed    *)
(* at.                                                                     *)
LEMMA SyncAims ==
    ASSUME BlockInv, TypeInv, NEW last \in Blocks, NEW h \in CommonHeights(last)
    PROVE  /\ h \in Nat /\ h <= Height(LastBlock)
           /\ BlocksAbove(last, h) \in Seq(Blocks)
           /\ Target(BlocksAbove(last, h), h) = last
  <1>1. /\ h \in 0 .. Height(last) /\ h <= Height(LastBlock) /\ Height(last) \in Nat
        /\ Height(last) \in CommonHeights(last) => chain[Height(last) + 1] = last
    BY CommonHeightsSound, BlockTypes
  <1>2. h \in Nat /\ h <= Height(last)
    BY <1>1
  <1> DEFINE blocks == BlocksAbove(last, h)
  <1>3. /\ blocks \in Seq(Blocks) /\ Len(blocks) = Height(last) - h
        /\ h < Height(last) => blocks[Height(last) - h] = last
    BY <1>2, BlocksAboveSound
  <1> HIDE DEF blocks
  <1>4. CASE h = Height(last)
    <2>1. blocks = << >>
      BY <1>1, <1>3, <1>4
    <2> QED BY ZenonT(40), <1>1, <1>3, <1>4, <2>1 DEF Target, blocks
  <1>5. CASE h # Height(last)
    <2>1. h < Height(last) /\ Len(blocks) # 0
      BY <1>1, <1>3, <1>5
    <2>2. blocks # << >>
      BY <2>1
    <2> QED BY <1>1, <1>3, <2>1, <2>2 DEF Target, blocks
  <1> QED BY ZenonT(40), <1>4, <1>5

(* A block that the fork choice prefers, or any block to a node that has   *)
(* the genesis block only, wins over the last block.                       *)
LEMMA PreferredWins ==
    ASSUME LastBlock \in Blocks, NEW b \in Blocks, b # Genesis,
           IsDifferentChain(b) \/ LastBlock = Genesis
    PROVE  Wins(b, LastBlock)
  <1>1. /\ Height(b) \in Nat /\ Height(b) # 0 /\ header[b].maxHeightPrevoted \in Nat
    BY BlockTypes
  <1>2. Height(Genesis) = 0 /\ header[Genesis].maxHeightPrevoted = 0
    BY ZenonT(40), TreeAssumption DEF Height
  <1> QED BY <1>1, <1>2 DEF IsDifferentChain, Wins

(* What receiving a block begins.                                          *)
LEMMA ReceiveStarts ==
    ASSUME BlockInv, TypeInv, Receive
    PROVE  /\ mode' \in {"apply", "tieDelete", "fastDelete", "syncDelete"} /\ phase' = "none"
           /\ todo' \in Seq(Blocks) /\ common' \in Nat /\ original' = chain
           /\ UNCHANGED <<chain, outside>>
           /\ mode' \in {"fastDelete", "syncDelete"} =>
                 /\ common' <= Height(LastBlock)
                 /\ Wins(Target(todo', common'), LastBlock)
  <1>0. LastBlock \in Blocks /\ Height(LastBlock) \in Nat
    BY LastIsHighest, BlockTypes DEF BlockInv
  <1>1. PICK b \in Blocks : \/ ReceiveValidBlock(b)
                            \/ ReceiveTieBreak(b)
                            \/ ReceiveFastSync(b)
                            \/ \E last \in Blocks : ReceiveBlockSync(b, last)
    BY DEF Receive
  <1>2. CASE ReceiveValidBlock(b)
    BY <1>0, <1>2 DEF ReceiveValidBlock, Start, engineDB
  <1>3. CASE ReceiveTieBreak(b)
    <2>1. Height(LastBlock) # 0
      <3>1. Height(b) = Height(LastBlock) /\ b # LastBlock
        BY <1>3 DEF ReceiveTieBreak, IsTieBreak, IsDuplicateBlock
      <3> QED BY ZenonT(40), <1>0, <3>1, BlockTypes
    <2>2. Height(LastBlock) - 1 \in Nat /\ <<b, LastBlock>> \in Seq(Blocks)
      BY <1>0, <2>1
    <2> QED BY <1>3, <2>2 DEF ReceiveTieBreak, Start, engineDB
  <1>4. CASE ReceiveFastSync(b)
    <2> DEFINE h == HighestOf(CommonHeights(b))
    <2>1. h \in CommonHeights(b)
      BY ZenonT(40), CommonHeightsSound, HighestOfSound, BlockTypes
    <2>2. /\ h \in Nat /\ h <= Height(LastBlock) /\ BlocksAbove(b, h) \in Seq(Blocks)
          /\ Target(BlocksAbove(b, h), h) = b
      BY <2>1, SyncAims
    <2>3. b # Genesis
      <3>1. IsDifferentChain(b)
        BY <1>4 DEF ReceiveFastSync, StartsSync
      <3>2. header[LastBlock].maxHeightPrevoted \in Nat
        BY <1>0, BlockTypes
      <3> QED BY <1>0, <3>1, <3>2, TreeAssumption DEF IsDifferentChain, Height
    <2>4. Wins(b, LastBlock)
      BY ZenonT(40), <1>0, <1>4, <2>3, PreferredWins DEF ReceiveFastSync, StartsSync
    <2>5. /\ Start("fastDelete", BlocksAbove(b, h), h)
          /\ UNCHANGED <<engineDB, outside>>
      BY <1>4 DEF ReceiveFastSync
    <2> HIDE DEF h
    <2> QED BY <2>2, <2>4, <2>5 DEF Start, engineDB
  <1>5. CASE \E last \in Blocks : ReceiveBlockSync(b, last)
    <2>1. PICK last \in Blocks : ReceiveBlockSync(b, last)
      BY <1>5
    <2> DEFINE heights == CommonHeights(last) \cap SearchHeights
               h == HighestOf(heights)
    <2>2. heights # {} /\ last # Genesis /\ (IsDifferentChain(last) \/ LastBlock = Genesis)
      BY <2>1 DEF ReceiveBlockSync
    <2>3. h \in CommonHeights(last)
      <3>1. CommonHeights(last) \subseteq 0 .. Height(last) /\ Height(last) \in Nat
        BY CommonHeightsSound, BlockTypes
      <3>2. heights \in SUBSET (0 .. Height(last)) /\ heights \subseteq CommonHeights(last)
        BY <3>1
      <3> HIDE DEF heights
      <3> QED BY ZenonT(40), <2>2, <3>1, <3>2, HighestOfSound
    <2>4. /\ h \in Nat /\ h <= Height(LastBlock) /\ BlocksAbove(last, h) \in Seq(Blocks)
          /\ Target(BlocksAbove(last, h), h) = last
      BY <2>3, SyncAims
    <2>5. Wins(last, LastBlock)
      BY ZenonT(40), <1>0, <2>2, PreferredWins
    <2>6. /\ Start("syncDelete", BlocksAbove(last, h), h)
          /\ UNCHANGED <<engineDB, outside>>
      BY <2>1 DEF ReceiveBlockSync
    <2> HIDE DEF h, heights
    <2> QED BY <2>4, <2>5, <2>6 DEF Start, engineDB
  <1> QED BY ZenonT(40), <1>1, <1>2, <1>3, <1>4, <1>5

(* What the Executer is doing, and to which blocks, keeps its type.        *)
LEMMA ControlTypesStep ==
    ASSUME BlockInv, TypeInv, [Next]_vars
    PROVE  ControlTypes'
  <1>0. ControlTypes
    BY Zenon DEF TypeInv
  <1>1. CASE Receive
    <2>1. chain \in Seq(Blocks)
      BY DEF BlockInv, ChainInv
    <2>2. UNCHANGED batch
      BY ZenonT(40), <1>1 DEF Receive, ReceiveValidBlock, ReceiveTieBreak, ReceiveFastSync, ReceiveBlockSync, Start
    <2> QED BY <1>0, <1>1, <2>1, <2>2, ReceiveStarts DEF ControlTypes, Modes, Phases
  <1>2. CASE UNCHANGED control
    BY <1>0, <1>2 DEF control, plan, ControlTypes, Applying
  <1>3. CASE /\ mode' \in Modes /\ phase' = "none" /\ todo' = << >>
             /\ UNCHANGED <<common, original>> /\ (UNCHANGED batch \/ batch' = {})
    BY <1>0, <1>3 DEF ControlTypes, Phases
  <1>4. CASE DeleteEnter \/ ApplyEnter
    <2>1. UNCHANGED <<plan, batch>> /\ phase' = "entering"
      BY Zenon, <1>4, Entering
    <2>2. Applying => todo # << >>
      BY <1>4 DEF DeleteEnter, ApplyEnter, Deleting, Applying
    <2> QED BY <1>0, <2>1, <2>2 DEF ControlTypes, Applying, Phases, plan
  <1>5. CASE Goes
    <2>1. UNCHANGED plan /\ phase # "none" /\ phase' \in Phases
      BY Zenon, <1>5, GoesOn
    <2>2. batch' \subseteq Blocks \cup {None}
      <3>1. UNCHANGED batch \/ batch' = {} \/ AppCommit
        BY Zenon, <1>5 DEF Goes, DeleteBegin, AppRevert, AppRevertWrite, ApplyBegin, AppExecute, AppCommitWrite
      <3>2. CASE AppCommit
        <4>1. batch' = {Head(todo)} /\ phase # "none" /\ Head(todo) = Working
          BY <3>2 DEF AppCommit, ContextHas, Working, Deleting, Applying
        <4>2. Head(todo) \in Blocks
          BY Zenon, <4>1, WorkingIsBlock DEF BlockInv
        <4> QED BY Zenon, <4>1, <4>2
      <3> QED BY <1>0, <3>1, <3>2 DEF ControlTypes
    <2> QED BY <1>0, <2>1, <2>2 DEF ControlTypes, Applying, plan
  <1>6. CASE RemoveBlock
    BY <1>0, <1>6 DEF RemoveBlock, ControlTypes, plan, Phases
  <1>7. CASE DeleteDone
    <2>1. AscendingBlocks(temp) \in Seq(Blocks)
      BY TempBlocksSorted DEF TypeInv
    <2>2. mode' \in Modes
      BY <1>7 DEF DeleteDone, Deleting, Modes
    <2> QED BY Zenon, <1>0, <1>7, <2>1, <2>2 DEF DeleteDone, ControlTypes
  <1>8. CASE Fails
    <2>1. ApplyFailed /\ (todo # << >> \/ phase # "none") /\ Applying
      BY Zenon, <1>8, Failing
    <2>2. CASE mode # "tieApply"
      <3>1. /\ mode' \in Modes /\ phase' = "none" /\ todo' = << >>
            /\ UNCHANGED <<common, original, batch>>
        BY <2>1, <2>2 DEF ApplyFailed, Modes
      <3> QED BY Zenon, <1>3, <3>1
    <2>3. CASE mode = "tieApply"
      <3>1. /\ mode' = "apply" /\ phase' = "none" /\ todo' = Tail(todo)
            /\ UNCHANGED <<common, original, batch>>
        BY <2>1, <2>3 DEF ApplyFailed
      <3>2. todo # << >> /\ todo \in Seq(Blocks)
        BY Zenon, <1>0, <2>1 DEF ControlTypes
      <3>3. Tail(todo) \in Seq(Blocks)
        BY Zenon, <3>2, TailSound
      <3> QED BY <1>0, <3>1, <3>3 DEF ControlTypes, Modes, Phases
    <2> QED BY Zenon, <2>2, <2>3
  <1>9. CASE AddBlock
    <2>1. /\ UNCHANGED <<mode, common, original, batch>> /\ phase' = "none"
          /\ todo' = << >> \/ todo' = Tail(todo)
      BY <1>9 DEF AddBlock
    <2>2. todo # << >>
      BY <1>0, <1>9 DEF AddBlock, ControlTypes
    <2>3. todo' \in Seq(Blocks)
      <3>1. Tail(todo) \in Seq(Blocks) /\ << >> \in Seq(Blocks)
        BY <1>0, <2>2, TailSound DEF ControlTypes
      <3> QED BY Zenon, <2>1, <3>1
    <2> QED BY <1>0, <2>1, <2>3 DEF ControlTypes, Phases
  <1>10. CASE Ends
    <2>1. mode' \in Modes
      BY <1>10, Ending DEF Modes
    <2> QED BY Zenon, <1>3, <1>10, <2>1, Ending
  <1>11. Crash \/ Restart \/ InitFails =>
            /\ mode' \in Modes /\ phase' = "none" /\ todo' = << >>
            /\ UNCHANGED <<common, original>> /\ batch' = {}
    BY Zenon DEF Crash, Restart, InitFails, LoseMemory, Modes
  <1>12. Startup => InitFails \/ UNCHANGED control
    BY Zenon DEF Startup, InitRequest, InitBegin, InitReverts, InitSucceeds
  <1>13. Generate \/ Tick \/ UNCHANGED vars => UNCHANGED control
    BY Zenon DEF Generate, GeneratorCheck, GeneratorEnter, GeneratorBegin, GeneratorCall, GeneratorChanges,
           GeneratorEnd, Tick, vars
  <1>14. Work => ControlTypes'
    BY Zenon, <1>4, <1>5, <1>6, <1>7, <1>8, <1>9, <1>10, WorkSteps
  <1> QED BY Zenon, <1>1, <1>2, <1>3, <1>11, <1>12, <1>13, <1>14 DEF Next

(* A synchroniser keeps aiming at the block that won: deleting stops at    *)
(* the common block, and applying goes through the blocks in their order.  *)
LEMMA SyncInvStep ==
    ASSUME BlockInv, TypeInv, SyncInv, [Next]_vars
    PROVE  SyncInv'
  <1>0. /\ chain \in Seq(Blocks) /\ Len(chain) \in Nat /\ Len(chain) > 0 /\ LastBlock \in Blocks
        /\ Height(LastBlock) = Len(chain) - 1
        /\ \A i \in 1 .. Len(chain) : Height(chain[i]) = i - 1
        /\ common \in Nat
    BY ZenonT(40), LastIsHighest DEF BlockInv, ChainInv, TypeInv, ControlTypes
  <1>1. CASE Receive
    <2>1. original'[Len(original')] = LastBlock /\ LastBlock' = LastBlock
      BY <1>1, ReceiveStarts DEF LastBlock
    <2>2. Target(todo, common)' = Target(todo', common')
      BY <1>1, ReceiveStarts DEF Target
    <2>3. /\ mode' \in {"apply", "tieDelete", "fastDelete", "syncDelete"} /\ phase' = "none"
          /\ mode' \in {"fastDelete", "syncDelete"} =>
                 /\ common' <= Height(LastBlock)
                 /\ Wins(Target(todo', common'), LastBlock)
      BY <1>1, ReceiveStarts
    <2> QED BY ZenonT(40), <2>1, <2>2, <2>3 DEF SyncInv, Wins, Height
  <1>2. CASE UNCHANGED <<engineDB, control>>
    BY ZenonT(40), <1>2 DEF engineDB, control, plan, SyncInv, Wins, Target, LastBlock, Height
  <1>3. CASE mode' \notin {"fastDelete", "syncDelete", "fastApply", "syncApply"}
    BY <1>3 DEF SyncInv
  <1>4. CASE DeleteEnter
    <2>1. common <= Height(LastBlock) => common < Height(LastBlock)
      BY <1>0, <1>4 DEF DeleteEnter
    <2>2. UNCHANGED <<engineDB, mode, todo, common, original>>
      BY Zenon, <1>4 DEF DeleteEnter, plan
    <2>3. /\ LastBlock' = LastBlock /\ Target(todo, common)' = Target(todo, common)
      BY ZenonT(40), <2>2 DEF LastBlock, Target, engineDB
    <2> QED BY ZenonT(40), <1>4, <2>1, <2>2, <2>3 DEF DeleteEnter, Deleting, SyncInv, Wins, Height
  <1>5. CASE ApplyEnter \/ Goes
    <2>1. UNCHANGED <<engineDB, mode, todo, common, original>>
      BY Zenon, <1>5, Entering, GoesOn DEF plan
    <2>2. Applying \/ phase # "none"
      BY Zenon, <1>5, GoesOn DEF ApplyEnter
    <2>3. /\ LastBlock' = LastBlock /\ Target(todo, common)' = Target(todo, common)
      BY ZenonT(40), <2>1 DEF LastBlock, Target, engineDB
    <2>4. mode \in {"fastDelete", "syncDelete"} => phase # "none"
      BY <2>2 DEF Applying
    <2>5. /\ Wins(Target(todo, common), original[Len(original)])' =
                Wins(Target(todo, common), original[Len(original)])
          /\ Wins(IF todo = <<>> THEN LastBlock ELSE todo[Len(todo)], original[Len(original)])' =
                Wins(IF todo = <<>> THEN LastBlock ELSE todo[Len(todo)], original[Len(original)])
      BY Zenon, <2>1, <2>3 DEF Wins, Height
    <2> QED BY ZenonT(40), <2>1, <2>3, <2>4, <2>5 DEF SyncInv, Height
  <1>6. CASE RemoveBlock
    <2> SUFFICES ASSUME mode \in {"fastDelete", "syncDelete"} PROVE SyncInv'
      BY <1>6 DEF RemoveBlock, Deleting, SyncInv, plan
    <2>1. common < Height(LastBlock) /\ Wins(Target(todo, common), original[Len(original)])
      BY <1>6 DEF RemoveBlock, SyncInv
    <2>2. /\ Len(chain') = Len(chain) - 1
          /\ \A i \in 1 .. Len(chain) - 1 : chain'[i] = chain[i]
          /\ UNCHANGED <<mode, todo, common, original>> /\ phase' = "none"
      BY ZenonT(40), <1>0, <1>6, FrontSound DEF RemoveBlock, plan
    <2>3. common + 1 \in 1 .. Len(chain) - 1 /\ Len(chain) - 1 \in 1 .. Len(chain) - 1
      BY <1>0, <2>1
    <2>4. Target(todo, common)' = Target(todo, common)
      BY ZenonT(40), <2>2, <2>3 DEF Target
    <2>5. common' <= Height(LastBlock')
      <3>1. LastBlock' = chain[Len(chain) - 1]
        BY <2>2, <2>3 DEF LastBlock
      <3>2. Height(chain[Len(chain) - 1]) = Len(chain) - 2
        BY <1>0, <2>3
      <3> QED BY <1>0, <2>1, <2>2, <3>1, <3>2
    <2> QED BY ZenonT(40), <2>1, <2>2, <2>4, <2>5 DEF SyncInv, Wins, Height
  <1>7. CASE DeleteDone
    <2> SUFFICES ASSUME mode \in {"fastDelete", "syncDelete"} PROVE SyncInv'
      BY <1>7 DEF DeleteDone, Deleting, SyncInv
    <2>1. Height(LastBlock) = common /\ Wins(Target(todo, common), original[Len(original)])
      BY <1>7 DEF DeleteDone, SyncInv
    <2>2. UNCHANGED <<chain, todo, original>> /\ mode' \in {"fastApply", "syncApply"}
      BY <1>7 DEF DeleteDone, engineDB
    <2>3. Target(todo, common) = IF todo = << >> THEN LastBlock ELSE todo[Len(todo)]
      <3>1. common + 1 = Len(chain)
        BY <1>0, <2>1
      <3> QED BY <3>1 DEF Target, LastBlock
    <2> QED BY ZenonT(40), <2>1, <2>2, <2>3 DEF SyncInv, Wins, Height, LastBlock
  <1>8. CASE AddBlock
    <2> SUFFICES ASSUME mode \in {"fastApply", "syncApply"} PROVE SyncInv'
      BY ZenonT(40), <1>8 DEF AddBlock, Applying, SyncInv
    <2>1. /\ todo # << >> /\ todo \in Seq(Blocks)
          /\ Wins(todo[Len(todo)], original[Len(original)])
      BY ZenonT(40), <1>8 DEF AddBlock, Applying, TypeInv, ControlTypes, SyncInv
    <2>2. todo' = Tail(todo) /\ chain' = Append(chain, Head(todo)) /\ UNCHANGED <<mode, original>>
      BY <1>8 DEF AddBlock
    <2>3. LastBlock' = Head(todo)
      <3>1. Head(todo) \in Blocks
        BY <2>1
      <3> QED BY <1>0, <2>2, <3>1 DEF LastBlock
    <2>4. (IF todo = << >> THEN LastBlock ELSE todo[Len(todo)])' = todo[Len(todo)]
      <3>1. CASE Len(todo) = 1
        <4>1. todo' = << >> /\ Head(todo) = todo[Len(todo)]
          BY <2>1, <2>2, <3>1
        <4> QED BY <2>3, <4>1
      <3>2. CASE Len(todo) # 1
        <4>1. /\ Len(todo) \in Nat /\ Len(todo) > 1 /\ Len(Tail(todo)) = Len(todo) - 1
              /\ Tail(todo)[Len(todo) - 1] = todo[Len(todo)]
          <5>1. todo \in Seq(Blocks) /\ todo # << >>
            BY <2>1
          <5>2. Len(todo) \in Nat /\ Len(todo) > 1
            BY <3>2, <5>1, TailSound
          <5>3. /\ Len(Tail(todo)) = Len(todo) - 1
                /\ \A i \in 1 .. Len(todo) - 1 : Tail(todo)[i] = todo[i + 1]
            BY Zenon, <5>1, TailSound
          <5>4. Len(todo) - 1 \in 1 .. Len(todo) - 1 /\ (Len(todo) - 1) + 1 = Len(todo)
            BY <5>2
          <5>5. Tail(todo)[Len(todo) - 1] = todo[(Len(todo) - 1) + 1]
            BY <5>3, <5>4
          <5> QED BY ZenonT(40), <5>2, <5>3, <5>4, <5>5
        <4>2. Tail(todo) # << >>
          BY <2>1, <3>2, TailSound
        <4> QED BY <2>2, <4>1, <4>2
      <3> QED BY <3>1, <3>2
    <2> QED BY ZenonT(40), <2>1, <2>2, <2>4 DEF SyncInv, Wins, Height
  <1>9. Fails \/ Ends => mode' \notin {"fastDelete", "syncDelete", "fastApply", "syncApply"}
    <2>1. ApplyFailed => mode' \notin {"fastDelete", "syncDelete", "fastApply", "syncApply"}
      BY DEF ApplyFailed
    <2>2. Ends => mode' \notin {"fastDelete", "syncDelete", "fastApply", "syncApply"}
      BY Ending
    <2> QED BY Zenon, <2>1, <2>2, Failing
  <1>10. Crash \/ Restart \/ InitFails =>
            mode' \notin {"fastDelete", "syncDelete", "fastApply", "syncApply"}
    BY DEF Crash, Restart, InitFails, LoseMemory
  <1>11. Startup => InitFails \/ UNCHANGED <<engineDB, control>>
    BY ZenonT(40) DEF Startup, InitRequest, InitBegin, InitReverts, InitSucceeds
  <1>12. Generate \/ Tick \/ UNCHANGED vars => UNCHANGED <<engineDB, control>>
    BY ZenonT(40) DEF Generate, GeneratorCheck, GeneratorEnter, GeneratorBegin, GeneratorCall, GeneratorChanges,
           GeneratorEnd, Tick, vars
  <1>13. Work => SyncInv'
    BY Zenon, <1>3, <1>4, <1>5, <1>6, <1>7, <1>8, <1>9, WorkSteps
  <1> QED BY Zenon, <1>1, <1>2, <1>3, <1>10, <1>11, <1>12, <1>13 DEF Next

(* A node with the genesis block only.                                     *)
LEMMA InitTypeInv == Init => TypeInv /\ SyncInv
  <1> SUFFICES ASSUME Init PROVE TypeInv /\ SyncInv
    OBVIOUS
  <1> USE DEF Init
  <1>1. chain \in Seq(Blocks) /\ LastBlock = Genesis /\ BlocksOf(chain) = {Genesis} /\ Height(Genesis) = 0
    BY TreeAssumption DEF LastBlock, BlocksOf, Height
  <1>2. EngineTypes
    <2>1. DOMAIN temp = {}
      OBVIOUS
    <2> QED BY <1>1, <2>1, BranchOfGenesis, FS_EmptySet DEF EngineTypes
  <1>3. AppTypes
    BY ZenonT(40), <1>1, TreeAssumption DEF AppTypes
  <1>4. ContextTypes
    BY DEF ContextTypes
  <1>5. ControlTypes
    <2>1. /\ mode = "idle" /\ phase = "none" /\ batch = {} /\ todo = << >> /\ common = 0
          /\ original = chain /\ << >> \in Seq(Blocks)
      OBVIOUS
    <2> QED BY <1>1, <2>1 DEF ControlTypes, Modes, Phases
  <1>6. OutsideTypes
    <2>1. now = 0 /\ forgings = 0 /\ crashes = 0 /\ lastBlockReceived = None
      OBVIOUS
    <2> QED BY <2>1, BoundsAssumption DEF OutsideTypes
  <1>7. SyncInv
    BY DEF SyncInv
  <1> QED BY ZenonT(40), <1>2, <1>3, <1>4, <1>5, <1>6, <1>7 DEF TypeInv

(* Every step keeps the types, and what a synchroniser aims at.            *)
LEMMA NextTypeInv == BlockInv /\ TypeInv /\ SyncInv /\ [Next]_vars => TypeInv' /\ SyncInv'
  <1> SUFFICES ASSUME BlockInv, TypeInv, SyncInv, [Next]_vars PROVE TypeInv' /\ SyncInv'
    OBVIOUS
  <1>1. EngineTypes' /\ AppTypes'
    BY EngineTypesStep, AppTypesStep
  <1>2. ContextTypes' /\ ControlTypes' /\ OutsideTypes'
    BY ContextTypesStep, ControlTypesStep, OutsideTypesStep
  <1>3. SyncInv'
    BY SyncInvStep
  <1> QED BY <1>1, <1>2, <1>3 DEF TypeInv

(* The types, and what a synchroniser aims at, in every state.             *)
THEOREM SyncInvariant == Spec => [](TypeInv /\ SyncInv)
  BY BlockInvariant, InitTypeInv, NextTypeInv, PTL DEF Spec

(* The engine's blocks are a branch of the tree in every state, the temp   *)
(* blocks are under the heights of their blocks, the application's Diffs   *)
(* are until contexts overlap, and every variable has its type.            *)
THEOREM BlockTypesHold == Spec => []TypeOK
  BY BlockInvariant, SyncInvariant, TypeInvIsTypeOK, PTL

(* A synchronisation that goes through ends on a chain that wins over the  *)
(* one the node had, whatever the tree, the generator does or the stops    *)
(* before it.                                                              *)
THEOREM SyncAlwaysImproves == Spec => SyncImproves
  <1> DEFINE Improves == (mode \in {"fastApply", "syncApply"} /\ todo = << >> /\ mode' = "idle")
                            => Wins(LastBlock, original[Len(original)])
  <1>1. SyncInv => Improves
    BY DEF SyncInv
  <1> QED BY <1>1, SyncInvariant, PTL DEF SyncImproves

-----------------------------------------------------------------------------
(* The tie break.                                                          *)

(* What verifyBlock asks of block b, to go on top of block c.              *)
Follows(b, c) ==
    /\ b \in Blocks /\ Parent(b) = c
    /\ header[c].slot < header[b].slot /\ header[b].slot <= now

(* Every block of the chain could be applied again on top of the one below *)
(* it.                                                                     *)
AgainInv ==
    /\ \A i \in 2 .. Len(chain) : Follows(chain[i], chain[i - 1]) /\ header[chain[i]].sound
    /\ Applying /\ phase # "none" =>
          /\ Follows(Head(todo), LastBlock)
          /\ phase \notin {"entering", "executing"} => header[Head(todo)].sound

(* The block that a tie break deletes.                                     *)
Replaced == original[Len(original)]

(* The last block is deleted, and can be applied again.                    *)
TakenBack ==
    /\ Len(original) > 1 /\ Len(chain) = Len(original) - 1
    /\ Follows(Replaced, LastBlock) /\ header[Replaced].sound

(* While it is being deleted, the block is on the chain, or is gone and    *)
(* nothing else is.                                                        *)
TieDeletes ==
    mode = "tieDelete" =>
        /\ Len(todo) = 2 /\ todo[2] = Replaced /\ common = Len(original) - 2
        /\ chain = original \/ (phase = "none" /\ TakenBack)

(* While the new block is being applied, the old one is at hand, or the    *)
(* new one is in its place.                                                *)
TieApplies ==
    mode = "tieApply" =>
        \/ Len(todo) = 2 /\ todo[2] = Replaced /\ TakenBack
        \/ todo = << >> /\ phase = "none" /\ Len(chain) = Len(original)

(* The work on one block: a new one on top, or the old one when the new    *)
(* one has failed.                                                         *)
OneApplies ==
    mode = "apply" =>
        \/ Len(chain) >= Len(original)
        \/ Len(todo) = 1 /\ todo[1] = Replaced /\ TakenBack

(* Without a generator and without stops nobody else holds the execution   *)
(* context, and it has the changes of the block that was executed.         *)
AloneInv ==
    /\ crashes = 0 /\ forging = None /\ ~ overlapped
    /\ ~ InContext => context = None
    /\ phase = "executing" => context.writes = {}
    /\ phase = "executed" => context.writes = {Head(todo)}

(* Then a tie break never loses a block.                                   *)
TieInv == AloneInv /\ TieDeletes /\ TieApplies /\ OneApplies

(* Positions above the first are positions.                                *)
LEMMA LaterPosition ==
    ASSUME NEW n \in Nat, NEW i \in 2 .. n
    PROVE  i \in 1 .. n
  OBVIOUS

(* The positions of a chain without its last block.                        *)
LEMMA FrontPosition ==
    ASSUME NEW n \in Nat, NEW i \in 2 .. n - 1
    PROVE  i \in 2 .. n /\ i \in 1 .. n - 1 /\ i - 1 \in 1 .. n - 1
  OBVIOUS

(* A slot that had begun has begun when the clock has gone on.             *)
LEMMA SlotOrder ==
    ASSUME NEW x \in Nat, NEW y \in Nat, NEW z \in Nat, x <= y, y <= z
    PROVE  x <= z
  OBVIOUS

(* Every step keeps the blocks of the chain applicable: the checks of      *)
(* verifyBlock were made on the same last block and an earlier clock.      *)
LEMMA AgainInvStep ==
    ASSUME BlockInv, TypeInv, AgainInv, [Next]_vars
    PROVE  AgainInv'
  <1> DEFINE Good(i) == Follows(chain[i], chain[i - 1]) /\ header[chain[i]].sound
             b == Head(todo)
  <1>0. /\ chain \in Seq(Blocks) /\ Len(chain) \in Nat /\ Len(chain) > 0
        /\ \A i \in 1 .. Len(chain) : chain[i] \in Blocks /\ header[chain[i]].slot \in Nat
        /\ Applying /\ phase # "none" => b \in Blocks /\ header[b].slot \in Nat
    BY BlockTypes DEF BlockInv, ChainInv, AgainInv, Follows
  <1>1. now \in Nat /\ now' \in Nat /\ now <= now'
    BY OutsideTypesStep, OutsideSteps DEF TypeInv, OutsideTypes
  <1>2. ASSUME chain' = chain PROVE \A i \in 2 .. Len(chain') : Good(i)'
    <2> SUFFICES ASSUME NEW i \in 2 .. Len(chain) PROVE Good(i)'
      BY ZenonT(40), <1>2
    <2>0. i \in 1 .. Len(chain)
      BY ZenonT(40), <1>0, LaterPosition
    <2>1. Good(i) /\ header[chain[i]].slot \in Nat
      BY ZenonT(40), <1>0, <2>0 DEF AgainInv
    <2>2. Follows(chain[i], chain[i - 1])'
      <3>1. Follows(chain[i], chain[i - 1])
        BY ZenonT(40), <2>1
      <3>2. chain'[i] = chain[i] /\ chain'[i - 1] = chain[i - 1]
        BY ZenonT(40), <1>2
      <3>3. header[chain[i]].slot <= now'
        BY ZenonT(40), <1>1, <2>1, <3>1, SlotOrder DEF Follows
      <3> QED BY ZenonT(40), <3>1, <3>2, <3>3 DEF Follows, Parent
    <2> QED BY ZenonT(40), <1>2, <2>1, <2>2
  <1>3. CASE RemoveBlock
    <2>1. /\ Len(chain') = Len(chain) - 1 /\ phase' = "none" /\ now' = now
          /\ \A i \in 1 .. Len(chain) - 1 : chain'[i] = chain[i]
      BY ZenonT(40), <1>0, <1>3, FrontSound DEF RemoveBlock, outside
    <2>2. ASSUME NEW i \in 2 .. Len(chain') PROVE Good(i)'
      <3>0. i \in 2 .. Len(chain) /\ i \in 1 .. Len(chain) - 1 /\ i - 1 \in 1 .. Len(chain) - 1
        BY ZenonT(40), <1>0, <2>1, FrontPosition
      <3>1. i \in 2 .. Len(chain) /\ chain'[i] = chain[i] /\ chain'[i - 1] = chain[i - 1]
        BY ZenonT(40), <2>1, <3>0
      <3> QED BY ZenonT(40), <2>1, <3>1 DEF AgainInv, Follows, Parent
    <2> QED BY <2>1, <2>2 DEF AgainInv
  <1>4. CASE AddBlock
    <2>1. Follows(b, LastBlock) /\ header[b].sound
      BY <1>4 DEF AddBlock, AgainInv
    <2>2. chain' = Append(chain, b) /\ phase' = "none" /\ now' = now
      BY ZenonT(40), <1>4 DEF AddBlock, outside
    <2> HIDE DEF b
    <2>3. /\ Len(chain') = Len(chain) + 1 /\ chain'[Len(chain) + 1] = b
          /\ \A i \in 1 .. Len(chain) : chain'[i] = chain[i]
      BY <1>0, <2>2
    <2>4. ASSUME NEW i \in 2 .. Len(chain') PROVE Good(i)'
      <3>1. CASE i = Len(chain) + 1
        <4>1. chain'[i] = b /\ chain'[i - 1] = LastBlock
          BY <1>0, <2>3, <3>1 DEF LastBlock
        <4> QED BY ZenonT(40), <2>1, <2>2, <4>1 DEF Follows, Parent
      <3>2. CASE i # Len(chain) + 1
        <4>1. i \in 2 .. Len(chain) /\ chain'[i] = chain[i] /\ chain'[i - 1] = chain[i - 1]
          BY <1>0, <2>3, <3>2
        <4> QED BY ZenonT(40), <2>2, <4>1 DEF AgainInv, Follows, Parent
      <3> QED BY ZenonT(40), <3>1, <3>2
    <2> QED BY ZenonT(40), <2>2, <2>4 DEF AgainInv
  <1>5. CASE chain' = chain /\ (phase' = "none" \/ ~ Applying')
    BY ZenonT(40), <1>2, <1>5 DEF AgainInv
  <1>6. CASE ApplyEnter
    <2>1. Follows(b, LastBlock)
      BY ZenonT(40), <1>6 DEF ApplyEnter, VerifyBlock, Follows
    <2>2. phase' = "entering" /\ UNCHANGED <<chain, todo, now>>
      BY Zenon, <1>6, Entering DEF engineDB, plan, outside
    <2>3. Follows(Head(todo), LastBlock)'
      BY ZenonT(40), <2>1, <2>2 DEF Follows, LastBlock, Parent
    <2> QED BY <1>2, <2>2, <2>3 DEF AgainInv
  <1>7. CASE Goes /\ Applying
    <2>1. phase # "none" /\ UNCHANGED <<chain, todo, now>>
      BY Zenon, <1>7, GoesOn DEF engineDB, plan
    <2>2. phase' \notin {"entering", "executing"} => header[b].sound
      <3>1. CASE AppExecute
        BY Zenon, <3>1 DEF AppExecute, Executes
      <3>2. CASE AppCommit \/ AppCommitWrite
        <4>1. phase \notin {"entering", "executing"}
          BY <3>2 DEF AppCommit, AppCommitWrite
        <4> QED BY Zenon, <1>7, <2>1, <4>1 DEF AgainInv
      <3>3. CASE ApplyBegin
        BY <3>3 DEF ApplyBegin
      <3>4. CASE DeleteBegin \/ AppRevert \/ AppRevertWrite
        BY <1>7, <3>4 DEF DeleteBegin, AppRevert, AppRevertWrite, Deleting, Applying
      <3> QED BY Zenon, <1>7, <3>1, <3>2, <3>3, <3>4 DEF Goes
    <2>3. Follows(b, LastBlock)
      BY Zenon, <1>7, <2>1 DEF AgainInv
    <2>4. Follows(Head(todo), LastBlock)'
      BY ZenonT(40), <2>1, <2>3 DEF Follows, LastBlock, Parent
    <2> QED BY ZenonT(40), <1>2, <2>1, <2>2, <2>4 DEF AgainInv
  <1>8. CASE UNCHANGED <<chain, control>>
    <2>1. UNCHANGED <<mode, phase, todo, chain>>
      BY ZenonT(40), <1>8 DEF control, plan
    <2>2. ASSUME Applying', phase' # "none"
          PROVE  /\ Follows(Head(todo), LastBlock)'
                 /\ phase' \notin {"entering", "executing"} => header[Head(todo)].sound'
      <3>1. Applying /\ phase # "none"
        BY ZenonT(40), <2>1, <2>2 DEF Applying
      <3>2. /\ Follows(b, LastBlock) /\ header[b].slot \in Nat
            /\ phase \notin {"entering", "executing"} => header[b].sound
        BY ZenonT(40), <1>0, <3>1 DEF AgainInv
      <3> QED BY <1>1, <2>1, <3>2 DEF Follows, LastBlock, Parent
    <2> QED BY ZenonT(40), <1>2, <2>1, <2>2 DEF AgainInv
  <1>9. \/ RemoveBlock \/ AddBlock \/ ApplyEnter \/ (Goes /\ Applying)
        \/ chain' = chain /\ (phase' = "none" \/ ~ Applying')
        \/ UNCHANGED <<chain, control>>
    <2>1. Receive => chain' = chain /\ phase' = "none"
      BY ReceiveStarts
    <2>2. Generate \/ Tick \/ UNCHANGED vars => UNCHANGED <<chain, control>>
      BY ZenonT(40) DEF Generate, GeneratorCheck, GeneratorEnter, GeneratorBegin, GeneratorCall, GeneratorChanges,
             GeneratorEnd, Tick, vars, engineDB
    <2>3. Crash \/ Restart => chain' = chain /\ phase' = "none"
      BY DEF Crash, Restart, LoseMemory, engineDB
    <2>4. Startup => UNCHANGED <<chain, control>> \/ (chain' = chain /\ phase' = "none")
      BY ZenonT(40) DEF Startup, InitRequest, InitBegin, InitReverts, InitSucceeds, InitFails, LoseMemory, engineDB
    <2>5. ASSUME Goes, ~ Applying PROVE chain' = chain /\ ~ Applying'
      BY Zenon, <2>5, GoesOn DEF engineDB, plan, Applying
    <2>6. DeleteEnter => chain' = chain /\ ~ Applying'
      BY DEF DeleteEnter, engineDB, plan, Deleting, Applying
    <2>7. DeleteDone => chain' = chain /\ phase' = "none"
      BY Zenon DEF DeleteDone, engineDB
    <2>8. Fails => chain' = chain /\ phase' = "none"
      BY Zenon, Failing DEF ApplyFailed, engineDB
    <2>9. Ends => chain' = chain /\ phase' = "none"
      BY Zenon, Ending
    <2>10. Work => \/ RemoveBlock \/ AddBlock \/ ApplyEnter \/ (Goes /\ Applying)
                   \/ chain' = chain /\ (phase' = "none" \/ ~ Applying')
      BY Zenon, <2>5, <2>6, <2>7, <2>8, <2>9, WorkSteps
    <2> QED BY Zenon, <2>1, <2>2, <2>3, <2>4, <2>10 DEF Next
  <1> HIDE DEF Good, b
  <1> QED BY ZenonT(40), <1>3, <1>4, <1>5, <1>6, <1>7, <1>8, <1>9

(* Without a generator and without stops, nobody else holds the context.   *)
LEMMA NobodyElse ==
    ASSUME MaxForgings = 0, MaxCrashes = 0, BlockInv, TypeInv, AloneInv, [Next]_vars
    PROVE  AloneInv' /\ ~ Generate /\ ~ Startup /\ ~ Crash
  <1>0. crashes = 0 /\ forgings = 0 /\ forging = None /\ ~ overlapped
    BY DEF AloneInv, TypeInv, OutsideTypes
  <1>1. crashes' = 0
    BY <1>0, OutsideSteps
  <1>2. ~ Crash
    BY <1>0 DEF Crash
  <1>3. ~ Generate
    BY <1>0 DEF Generate, GeneratorCheck, GeneratorEnter, GeneratorBegin, GeneratorCall, GeneratorChanges,
           GeneratorEnd, GeneratorAt
  <1>4. ~ Startup
    <2>1. initCall.step = "done"
      BY ZenonT(40), <1>0 DEF BlockInv, AppInv
    <2> QED BY ZenonT(40), <2>1 DEF Startup, InitRequest, InitBegin, InitReverts, InitSucceeds, InitFails, InitAt
  <1> SUFFICES AloneInv'
    BY Zenon, <1>2, <1>3, <1>4
  <1>5. CASE Receive \/ Tick \/ UNCHANGED vars
    <2>1. UNCHANGED <<context, forging, overlapped>>
      BY ZenonT(40), <1>5 DEF Receive, ReceiveValidBlock, ReceiveTieBreak, ReceiveFastSync, ReceiveBlockSync,
             Tick, vars, outside
    <2>2. CASE Receive
      <3>1. mode = "idle" /\ phase' = "none"
        BY ZenonT(40), <2>2 DEF Receive, ReceiveValidBlock, ReceiveTieBreak, ReceiveFastSync, ReceiveBlockSync,
               StartsSync, idle, Start
      <3>2. ~ InContext /\ ~ InContext'
        BY <3>1 DEF BlockInv, WorkInv, Deleting, Applying, InContext
      <3> QED BY <1>1, <2>1, <3>1, <3>2 DEF AloneInv
    <2>3. CASE Tick \/ UNCHANGED vars
      <3>1. UNCHANGED <<phase, todo>>
        BY Zenon, <2>3 DEF Tick, vars, control, plan
      <3> QED BY Zenon, <1>1, <2>1, <3>1 DEF AloneInv, InContext
    <2> QED BY Zenon, <1>5, <2>2, <2>3
  <1>6. CASE Restart
    <2>1. phase' = "none" /\ context' = None /\ forging' = None /\ UNCHANGED overlapped
      BY Zenon, <1>6 DEF Restart, LoseMemory
    <2> QED BY <1>0, <1>1, <2>1 DEF AloneInv, InContext
  <1>7. CASE Work
    <2>1. UNCHANGED forging
      BY ZenonT(40), <1>7 DEF Work, DeleteEnter, DeleteRefused, DeleteBegin, AppRevert, AppRevertFails,
             AppRevertWrite, RemoveBlock, DeleteDone, ApplyEnter, ApplyRefused, ApplyBegin, AppExecute,
             AppExecuteFails, AppCommit, AppCommitFails, AppCommitWrite, AddBlock, ApplyDone, DownloadFails,
             outside
    <2>2. CASE /\ phase' \in {"none", "entering"} /\ UNCHANGED overlapped
               /\ context' = None \/ (UNCHANGED context /\ phase = "none")
      <3>1. ~ InContext' /\ phase' \notin {"executing", "executed"}
        BY <2>2 DEF InContext
      <3>2. phase = "none" => ~ InContext
        BY DEF InContext
      <3> QED BY Zenon, <1>0, <1>1, <2>1, <2>2, <3>1, <3>2 DEF AloneInv
    <2>3. CASE DeleteBegin \/ ApplyBegin
      <3>1. /\ phase = "entering" /\ phase' = "executing"
            /\ InitStateMachineSets(Working, Height(Working))
        BY <2>3 DEF DeleteBegin, ApplyBegin, Working, Deleting, Applying
      <3>2. context = None
        BY <3>1 DEF AloneInv, InContext
      <3>3. context'.writes = {} /\ ~ overlapped'
        BY <1>0, <3>1, <3>2 DEF InitStateMachineSets
      <3> QED BY <1>0, <1>1, <2>1, <3>1, <3>3 DEF AloneInv, InContext
    <2>4. CASE AppExecute
      <3>1. /\ context \in Contexts /\ context' = [context EXCEPT !.writes = @ \cup {Head(todo)}]
            /\ phase = "executing" /\ phase' = "executed" /\ UNCHANGED <<todo, overlapped>>
        BY Zenon, <2>4 DEF AppExecute, CheckState, BlockInv, HolderInv, plan, outside
      <3>2. context.writes = {}
        BY Zenon, <3>1 DEF AloneInv
      <3>3. context'.writes = {Head(todo)}
        BY <3>1, <3>2 DEF Contexts
      <3> QED BY <1>0, <1>1, <2>1, <3>1, <3>3 DEF AloneInv, InContext
    <2>5. CASE AppRevert \/ AppRevertWrite \/ AppCommit \/ AppCommitWrite
      <3>1. phase' \in {"writing", "written"}
        BY <2>5 DEF AppRevert, AppRevertWrite, AppCommit, AppCommitWrite
      <3>2. UNCHANGED overlapped
        BY Zenon, <2>5 DEF AppRevert, AppRevertWrite, AppCommit, AppCommitWrite, outside
      <3> QED BY <1>0, <1>1, <2>1, <3>1, <3>2 DEF AloneInv, InContext
    <2>6. CASE DeleteRefused \/ DeleteDone \/ ApplyRefused \/ ApplyDone \/ DownloadFails
      <3>1. phase = "none" /\ phase' = "none" /\ UNCHANGED <<context, overlapped>>
        BY ZenonT(40), <2>6 DEF DeleteRefused, DeleteDone, ApplyRefused, ApplyDone, DownloadFails, Stop,
               ApplyFailed, outside
      <3> QED BY <2>2, <3>1
    <2>7. CASE AppRevertFails \/ RemoveBlock \/ AppExecuteFails \/ AppCommitFails \/ AddBlock
      <3>1. phase' = "none" /\ context' = None /\ UNCHANGED overlapped
        BY ZenonT(40), <2>7 DEF AppRevertFails, RemoveBlock, AppExecuteFails, AppCommitFails, AddBlock, Stop,
               ApplyFailed, outside
      <3> QED BY <2>2, <3>1
    <2>8. CASE DeleteEnter \/ ApplyEnter
      <3>1. phase' = "entering" /\ context' = None /\ UNCHANGED overlapped
        BY Zenon, <2>8, Entering DEF outside
      <3> QED BY <2>2, <3>1
    <2> QED BY ZenonT(40), <1>7, <2>3, <2>4, <2>5, <2>6, <2>7, <2>8 DEF Work
  <1> QED BY Zenon, <1>2, <1>3, <1>4, <1>5, <1>6, <1>7 DEF Next

(* The block that was deleted for the tie break is not refused.            *)
LEMMA ReplacedApplies ==
    ASSUME BlockInv, TypeInv, TieInv, mode = "apply", Len(todo) = 1, todo[1] = Replaced, TakenBack
    PROVE  ~ Fails
  <1> DEFINE o == Head(todo)
  <1>1. o = Replaced
    BY DEF TypeInv, ControlTypes
  <1>2. Follows(o, LastBlock) /\ header[o].sound
    BY <1>1 DEF TakenBack
  <1>3. o \in Blocks /\ Parent(o) = LastBlock /\ LastBlock \in Blocks
    BY ZenonT(40), <1>2, LastIsHighest DEF Follows, BlockInv
  <1>4. o # Genesis
    BY <1>3, ChildIsHigher
  <1>5. Branch(LastBlock) = Branch(o) \ {o}
    BY <1>3, <1>4, BranchBelow
  <1>6. ASSUME phase = "executing" PROVE Executes(o)
    <2>1. app.applied = BlocksOf(chain)
      <3>1. AppIs(Height(LastBlock), LastBlock, BlocksOf(chain))
        BY <1>6 DEF BlockInv, AppInv, TieInv, AloneInv
      <3> QED BY <3>1 DEF AppIs
    <2> QED BY ZenonT(40), <1>2, <1>5, <2>1 DEF TypeInv, EngineTypes, Executes
  <1>7. phase = "none" => context = None
    BY DEF TieInv, AloneInv, InContext
  <1>8. VerifyBlock(o)
    BY <1>2, <1>3 DEF VerifyBlock, Follows
  <1>9. phase \in {"executing", "executed"} => CheckState(o)
    <2>1. Working = o
      BY DEF Working, Deleting
    <2> HIDE DEF o
    <2> QED BY <2>1 DEF BlockInv, HolderInv, TieInv, AloneInv, InContext
  <1>10. phase = "executing" => ContextHas(o, {})
    BY <1>9 DEF TieInv, AloneInv, ContextHas
  <1>11. phase = "executed" => ContextHas(o, {o})
    BY <1>9 DEF TieInv, AloneInv, ContextHas
  <1>12. ~ ApplyRefused
    BY Zenon, <1>7, <1>8 DEF ApplyRefused, InitStateMachineEnters
  <1>13. ~ AppExecuteFails
    BY Zenon, <1>6, <1>10 DEF AppExecuteFails
  <1>14. ~ AppCommitFails
    BY Zenon, <1>11 DEF AppCommitFails
  <1> QED BY Zenon, <1>12, <1>13, <1>14 DEF Fails

(* A block that could be applied again still can be when time goes on.     *)
LEMMA TakenBackStays ==
    ASSUME TypeInv, TakenBack, UNCHANGED <<chain, original>>, [Next]_vars
    PROVE  TakenBack'
  <1>1. now \in Nat /\ now' \in Nat /\ now <= now'
    BY OutsideTypesStep, OutsideSteps DEF TypeInv, OutsideTypes
  <1>2. Replaced' = Replaced /\ LastBlock' = LastBlock
    BY ZenonT(40) DEF Replaced, LastBlock
  <1>3. Replaced \in Blocks /\ header[Replaced].slot \in Nat
    BY ZenonT(40), BlockTypes DEF TakenBack, Follows
  <1>4. Follows(Replaced, LastBlock)'
    BY <1>1, <1>2, <1>3 DEF TakenBack, Follows, Parent
  <1> QED BY <1>2, <1>4 DEF TakenBack

(* Every step of a tie break keeps the block it deletes at hand until a    *)
(* block is in its place.                                                  *)
LEMMA TieInvStep ==
    ASSUME MaxForgings = 0, MaxCrashes = 0, BlockInv, TypeInv, AgainInv, TieInv, [Next]_vars
    PROVE  TieInv'
  <1>0. /\ chain \in Seq(Blocks) /\ Len(chain) \in Nat /\ Len(chain) > 0
        /\ Height(LastBlock) = Len(chain) - 1 /\ LastBlock = chain[Len(chain)]
        /\ todo \in Seq(Blocks) /\ original \in Seq(Blocks) /\ Len(original) \in Nat
        /\ finalizedHeight \in Nat
    BY LastIsHighest DEF BlockInv, ChainInv, TypeInv, ControlTypes, LastBlock
  <1>1. TieDeletes /\ TieApplies /\ OneApplies
    BY DEF TieInv
  <1>2. SUFFICES (TieDeletes /\ TieApplies /\ OneApplies)'
    BY Zenon, NobodyElse DEF TieInv
  <1>3. CASE mode' \notin {"tieDelete", "tieApply", "apply"}
    BY <1>3 DEF TieDeletes, TieApplies, OneApplies
  <1>4. CASE Receive
    <2>1. PICK b \in Blocks : \/ ReceiveValidBlock(b) \/ ReceiveTieBreak(b) \/ ReceiveFastSync(b)
                              \/ \E last \in Blocks : ReceiveBlockSync(b, last)
      BY ZenonT(40), <1>4 DEF Receive
    <2>2. CASE ReceiveValidBlock(b)
      BY <1>0, <2>2 DEF ReceiveValidBlock, Start, engineDB,
                        TieDeletes, TieApplies, OneApplies
    <2>3. CASE ReceiveTieBreak(b)
      <3>1. /\ mode' = "tieDelete" /\ todo' = <<b, LastBlock>> /\ common' = Height(LastBlock) - 1
            /\ original' = chain /\ chain' = chain
        BY <2>3 DEF ReceiveTieBreak, Start, engineDB
      <3>2. Replaced' = LastBlock
        BY <1>0, <3>1 DEF Replaced
      <3>3. Len(todo') = 2 /\ todo'[2] = LastBlock
        BY <3>1
      <3> QED BY <1>0, <3>1, <3>2, <3>3 DEF TieDeletes, TieApplies, OneApplies
    <2>4. CASE ReceiveFastSync(b) \/ \E last \in Blocks : ReceiveBlockSync(b, last)
      <3>1. mode' \in {"fastDelete", "syncDelete"}
        BY ZenonT(40), <2>4 DEF ReceiveFastSync, ReceiveBlockSync, Start
      <3> QED BY ZenonT(40), <1>3, <3>1
    <2> QED BY ZenonT(40), <2>1, <2>2, <2>3, <2>4
  <1>5. CASE UNCHANGED <<chain, mode, todo, common, original>> /\ phase' = phase
    <2>1. Replaced' = Replaced /\ (TakenBack => TakenBack')
      BY <1>5, TakenBackStays DEF Replaced
    <2> QED BY ZenonT(40), <1>1, <1>5, <2>1 DEF TieDeletes, TieApplies, OneApplies
  <1>6. CASE DeleteEnter \/ (Goes /\ Deleting)
    <2>0. /\ Deleting /\ UNCHANGED <<chain, mode, todo, common, original>>
          /\ phase # "none" \/ Height(LastBlock) # common
      BY Zenon, <1>6, GoesOn DEF DeleteEnter, engineDB, plan
    <2> SUFFICES ASSUME mode = "tieDelete" PROVE TieDeletes'
      BY <2>0 DEF Deleting, TieDeletes, TieApplies, OneApplies
    <2>1. Replaced' = Replaced
      BY Zenon, <2>0 DEF Replaced
    <2>2. chain = original
      <3>1. CASE phase # "none"
        BY Zenon, <1>1, <3>1 DEF TieDeletes
      <3>2. CASE Height(LastBlock) # common
        <4>1. common = Len(original) - 2
          BY Zenon, <1>1 DEF TieDeletes
        <4>2. ~ TakenBack
          BY <1>0, <3>2, <4>1 DEF TakenBack
        <4> QED BY Zenon, <1>1, <4>2 DEF TieDeletes
      <3> QED BY Zenon, <2>0, <3>1, <3>2
    <2> QED BY ZenonT(40), <1>1, <2>0, <2>1, <2>2 DEF TieDeletes
  <1>7. CASE RemoveBlock
    <2>0. Deleting /\ mode' = mode
      BY ZenonT(40), <1>7 DEF RemoveBlock, plan
    <2> SUFFICES ASSUME mode = "tieDelete" PROVE TieDeletes'
      BY <2>0 DEF Deleting, TieDeletes, TieApplies, OneApplies
    <2>1. /\ chain = original /\ Height(LastBlock) > finalizedHeight
          /\ Len(todo) = 2 /\ todo[2] = Replaced /\ common = Len(original) - 2
      BY ZenonT(40), <1>1, <1>7 DEF RemoveBlock, BlockInv, WorkInv, Deleting, Applying, TieDeletes
    <2>2. /\ Len(chain') = Len(chain) - 1 /\ phase' = "none" /\ now' = now
          /\ \A i \in 1 .. Len(chain) - 1 : chain'[i] = chain[i]
          /\ UNCHANGED <<mode, todo, common, original>>
      BY ZenonT(40), <1>0, <1>7, FrontSound DEF RemoveBlock, plan, outside
    <2>3. Len(chain) \in 2 .. Len(chain) /\ Len(chain) - 1 \in 1 .. Len(chain) - 1
      BY <1>0, <2>1
    <2>4. Follows(chain[Len(chain)], chain[Len(chain) - 1]) /\ header[chain[Len(chain)]].sound
      BY ZenonT(40), <2>3 DEF AgainInv
    <2>5. LastBlock' = chain[Len(chain) - 1] /\ Replaced' = chain[Len(chain)] /\ Replaced = Replaced'
      BY ZenonT(40), <2>1, <2>2, <2>3 DEF LastBlock, Replaced
    <2>6. TakenBack'
      <3>1. Follows(Replaced, LastBlock)'
        BY ZenonT(40), <2>2, <2>4, <2>5 DEF Follows, Parent
      <3> QED BY <1>0, <2>1, <2>2, <2>3, <2>4, <2>5, <3>1 DEF TakenBack
    <2> QED BY ZenonT(40), <2>1, <2>2, <2>5, <2>6 DEF TieDeletes
  <1>8. CASE DeleteDone
    <2>0. mode # "tieDelete" => mode' \in {"fastApply", "restoreApply", "syncApply"}
      BY <1>8 DEF DeleteDone, Deleting
    <2> SUFFICES ASSUME mode = "tieDelete" PROVE TieApplies' /\ mode' = "tieApply"
      BY <2>0 DEF TieDeletes, TieApplies, OneApplies
    <2>1. TakenBack /\ Len(todo) = 2 /\ todo[2] = Replaced
      <3>1. Height(LastBlock) = common
        BY <1>8 DEF DeleteDone
      <3> QED BY <1>0, <1>1, <3>1 DEF TieDeletes
    <2>2. UNCHANGED <<chain, todo, original>> /\ mode' = "tieApply"
      BY ZenonT(40), <1>8 DEF DeleteDone, engineDB
    <2>3. TakenBack' /\ Replaced' = Replaced
      BY ZenonT(40), <2>1, <2>2, TakenBackStays DEF Replaced
    <2> QED BY <2>1, <2>2, <2>3 DEF TieApplies
  <1>9. CASE ApplyEnter \/ (Goes /\ Applying)
    <2>1. UNCHANGED <<chain, mode, todo, common, original>> /\ Replaced' = Replaced /\ Applying
      BY Zenon, <1>9, GoesOn DEF ApplyEnter, engineDB, plan, Replaced
    <2>2. todo # << >> \/ phase # "none"
      BY Zenon, <1>9, GoesOn DEF ApplyEnter
    <2>3. TakenBack => TakenBack'
      BY <2>1, TakenBackStays
    <2> QED BY ZenonT(40), <1>1, <2>1, <2>2, <2>3 DEF Applying, TieDeletes, TieApplies, OneApplies
  <1>10. CASE Fails /\ mode = "tieApply"
    <2>1. /\ mode' = "apply" /\ todo' = Tail(todo) /\ UNCHANGED <<chain, original>>
      <3>1. ApplyFailed /\ UNCHANGED engineDB
        BY Zenon, <1>10, Failing
      <3> QED BY <1>10, <3>1 DEF ApplyFailed, engineDB
    <2>2. todo # << >> \/ phase # "none"
      BY Zenon, <1>10, Failing
    <2>3. Len(todo) = 2 /\ todo[2] = Replaced /\ TakenBack
      BY ZenonT(40), <1>1, <1>10, <2>2 DEF TieApplies
    <2>4. TakenBack' /\ Replaced' = Replaced
      BY ZenonT(40), <2>1, <2>3, TakenBackStays DEF Replaced
    <2>5. Len(todo') = 1 /\ todo'[1] = todo[2]
      <3>1. todo # << >>
        BY <2>3
      <3>2. /\ Len(Tail(todo)) = Len(todo) - 1
            /\ \A i \in 1 .. Len(todo) - 1 : Tail(todo)[i] = todo[i + 1]
        BY Zenon, <1>0, <3>1, TailSound
      <3>3. 1 \in 1 .. Len(todo) - 1 /\ 1 + 1 = 2
        BY <2>3
      <3>4. Tail(todo)[1] = todo[1 + 1]
        BY ZenonT(40), <3>2, <3>3
      <3> QED BY <2>1, <2>3, <3>2, <3>3, <3>4
    <2> QED BY ZenonT(40), <2>1, <2>3, <2>4, <2>5 DEF TieDeletes, TieApplies, OneApplies
  <1>11. CASE AddBlock
    <2>1. /\ Len(chain') = Len(chain) + 1 /\ UNCHANGED <<mode, original>> /\ Applying
          /\ phase' = "none" /\ phase = "written" /\ (mode = "tieApply" => todo' = << >>)
      <3>1. Head(todo) \in Blocks
        BY ZenonT(40), <1>11 DEF AddBlock, BlockInv, WorkInv, Deleting, Applying
      <3> QED BY <1>0, <1>11, <3>1 DEF AddBlock
    <2> QED BY <1>0, <1>1, <2>1 DEF Applying, TakenBack, TieDeletes, TieApplies, OneApplies
  <1>12. Work => \/ DeleteEnter \/ (Goes /\ Deleting) \/ RemoveBlock \/ DeleteDone
                 \/ ApplyEnter \/ (Goes /\ Applying) \/ AddBlock
                 \/ (Fails /\ mode = "tieApply")
                 \/ mode' \notin {"tieDelete", "tieApply", "apply"}
    <2>1. Goes => Deleting \/ Applying
      BY Zenon, GoesOn DEF BlockInv, WorkInv
    <2>2. ASSUME Fails, mode # "tieApply" PROVE mode' \notin {"tieDelete", "tieApply", "apply"}
      <3>1. ApplyFailed
        BY Zenon, <2>2, Failing
      <3> QED BY <2>2, <3>1 DEF ApplyFailed
    <2>3. Ends => mode' \notin {"tieDelete", "tieApply", "apply"}
      BY Ending
    <2> QED BY Zenon, <2>1, <2>2, <2>3, WorkSteps
  <1>13. Tick \/ UNCHANGED vars => UNCHANGED <<chain, mode, todo, common, original>> /\ phase' = phase
    BY Zenon DEF Tick, vars, engineDB, control, plan
  <1>14. Restart => mode' = "idle"
    BY DEF Restart, LoseMemory
  <1>15. Receive \/ Work \/ Tick \/ Restart \/ UNCHANGED vars
    BY Zenon, NobodyElse DEF Next, TieInv
  <1> QED BY ZenonT(40), <1>3, <1>4, <1>5, <1>6, <1>7, <1>8, <1>9, <1>10, <1>11, <1>12, <1>13, <1>14, <1>15

(* A node with the genesis block only is in no tie break.                  *)
LEMMA InitTieInv == Init => AgainInv /\ TieInv
  <1> SUFFICES ASSUME Init PROVE AgainInv /\ TieInv
    OBVIOUS
  <1>1. Len(chain) = 1
    BY DEF Init
  <1>2. /\ mode = "idle" /\ phase = "none" /\ crashes = 0 /\ forging = None /\ context = None
        /\ ~ overlapped
    BY DEF Init
  <1>3. AloneInv
    BY <1>2 DEF AloneInv, InContext
  <1> QED BY <1>1, <1>2, <1>3 DEF AgainInv, TieInv, TieDeletes, TieApplies, OneApplies

(* In every state each block of the chain could be applied again on top of *)
(* the one below it, whatever the generator does and wherever the node     *)
(* stops.                                                                  *)
THEOREM AgainInvariant == Spec => []AgainInv
  <1>1. Init => AgainInv
    BY InitTieInv
  <1>2. BlockInv /\ TypeInv /\ AgainInv /\ [Next]_vars => AgainInv'
    BY AgainInvStep
  <1> QED BY <1>1, <1>2, BlockInvariant, SyncInvariant, PTL DEF Spec

(* The step that ends a tie break, or the work on a block on top.          *)
LEMMA TieBreakEnds ==
    ASSUME MaxForgings = 0, MaxCrashes = 0, BlockInv, TypeInv, TieInv, [Next]_vars,
           mode \in {"apply", "tieApply"}, mode' = "idle"
    PROVE  Len(chain') >= Len(original)
  <1>0. Len(chain) \in Nat /\ Len(original) \in Nat /\ todo \in Seq(Blocks)
    BY LastIsHighest DEF BlockInv, TypeInv, ControlTypes
  <1>1. Ends \/ Fails
    <2>1. Receive => mode = "idle"
      BY ZenonT(40) DEF Receive, ReceiveValidBlock, ReceiveTieBreak, ReceiveFastSync, ReceiveBlockSync,
             StartsSync, idle
    <2>2. Tick \/ UNCHANGED vars => mode' = mode
      BY Zenon DEF Tick, vars, control, plan
    <2>3. Restart => mode = "down"
      BY Zenon DEF Restart
    <2>4. DeleteEnter \/ ApplyEnter \/ Goes \/ RemoveBlock \/ AddBlock => mode' = mode
      BY Zenon, Entering, GoesOn DEF RemoveBlock, AddBlock, plan
    <2>5. DeleteDone => Deleting
      BY Zenon DEF DeleteDone
    <2>6. mode # "idle" /\ mode # "down" /\ mode' # mode /\ ~ Deleting
      BY DEF Deleting
    <2> QED BY Zenon, <2>1, <2>2, <2>3, <2>4, <2>5, <2>6, WorkSteps, NobodyElse DEF Next, TieInv
  <1>2. chain' = chain
    BY Zenon, <1>1, Ending, Failing DEF engineDB
  <1>3. CASE Ends
    <2>1. todo = << >>
      BY <1>3 DEF Ends, DeleteRefused, AppRevertFails, ApplyDone, DownloadFails, Deleting
    <2> QED BY <1>0, <1>2, <2>1 DEF TieInv, TieApplies, OneApplies
  <1>4. CASE Fails
    <2>1. mode = "apply"
      <3>1. ApplyFailed
        BY Zenon, <1>4, Failing
      <3> QED BY <3>1 DEF ApplyFailed
    <2>2. ~ (Len(todo) = 1 /\ todo[1] = Replaced /\ TakenBack)
      BY Zenon, <1>4, <2>1, ReplacedApplies
    <2> QED BY ZenonT(40), <1>0, <1>2, <2>1, <2>2 DEF TieInv, OneApplies
  <1> QED BY Zenon, <1>1, <1>3, <1>4

(* A tie break, and a block applied on top, never leaves a node that has   *)
(* no generator and does not stop with fewer blocks than it had: the block *)
(* that was deleted is never refused.                                      *)
THEOREM TieBreakSound ==
    ASSUME MaxForgings = 0, MaxCrashes = 0
    PROVE  Spec => TieBreakKeepsHeight
  <1> DEFINE Keeps == (mode \in {"apply", "tieApply"} /\ mode' = "idle")
                         => Len(chain') >= Len(original)
  <1>1. Init => TieInv
    BY InitTieInv
  <1>2. BlockInv /\ TypeInv /\ AgainInv /\ TieInv /\ [Next]_vars => TieInv'
    BY Zenon, TieInvStep
  <1>3. Spec => []TieInv
    BY <1>1, <1>2, BlockInvariant, SyncInvariant, AgainInvariant, PTL DEF Spec
  <1>4. BlockInv /\ TypeInv /\ TieInv /\ [Next]_vars => Keeps
    BY Zenon, TieBreakEnds
  <1> QED BY <1>3, <1>4, BlockInvariant, SyncInvariant, PTL DEF Spec, TieBreakKeepsHeight
=============================================================================
