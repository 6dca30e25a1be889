------------------------------ MODULE Download ------------------------------
(***************************************************************************)
(* The Downloader of consensus/sync, which asks one peer for blocks until  *)
(* it has the block the sync aims at, over the requests of Messaging, and  *)
(* downloadAndValidate of the fast sync, which takes the blocks from the   *)
(* Downloader's channel.                                                   *)
(***************************************************************************)
EXTENDS Messaging

CONSTANTS Source,       \* the peer the blocks come from
          Blocks,
          Answers,      \* sequences of blocks a peer may answer with, height asc
          Common,       \* the block both chains have, after which the download starts
          Branch,       \* the blocks of the peer's chain after it, height asc
          End,          \* the block the sync aims at
          Nil,          \* the ID of no block
          Valid,        \* blocks that pass Validate
          ChannelSize

ASSUME DownloadAssumption ==
    /\ Source \in Peers /\ "error" \notin Blocks
    /\ Answers \subseteq Seq(Blocks) /\ End \in Blocks /\ Valid \subseteq Blocks
    /\ Branch \in Seq(Blocks)
    /\ \A i, j \in 1 .. Len(Branch) : Branch[i] = Branch[j] => i = j
    /\ Common \notin Blocks /\ Nil \notin Blocks \cup {Common}
    /\ ChannelSize \in Nat \ {0}

VARIABLES downloader,   \* its step, the blocks of the last answer still to be sent,
                        \* startID and lastFetchedID
          downloaded,   \* the channel
          closed,
          stopped,      \* its context was cancelled
          consumer,     \* its step, and the blocks it has
          ofBranch      \* history: the answers were the blocks of Branch asked for

dlVars == <<downloader, downloaded, closed, stopped, consumer, ofBranch>>
vars == <<netVars, dlVars>>

NewDownloader == [step |-> "loop", blocks |-> <<>>, start |-> Common, lastFetched |-> Nil]

Init ==
    /\ InitNet
    /\ downloader = NewDownloader
    /\ downloaded = <<>> /\ closed = FALSE /\ stopped = "no"
    /\ consumer = [step |-> "range", blocks |-> <<>>]
    /\ ofBranch = TRUE

-----------------------------------------------------------------------------
(* Downloader.Start.                                                       *)
RequestBlocks ==
    /\ downloader.step = "loop" /\ stopped = "no"
    /\ Call(Source)
    /\ downloader' = [downloader EXCEPT !.step = "request"]
    /\ UNCHANGED <<downloaded, closed, stopped, consumer, ofBranch>>

StopLoop ==
    /\ downloader.step = "loop" /\ stopped # "no"
    /\ downloader' = [downloader EXCEPT !.step = "end"]
    /\ closed' = TRUE
    /\ UNCHANGED <<netVars, downloaded, stopped, consumer, ofBranch>>

Current == Len(call)

(* The blocks are those of Branch right after the one with this ID.  A     *)
(* peer that runs this code answers so, and bans who asks with no ID.      *)
Follows(id, blocks) ==
    \E n \in 0 .. Len(Branch) - Len(blocks) :
        /\ id = IF n = 0 THEN Common ELSE Branch[n]
        /\ blocks = SubSeq(Branch, n + 1, n + Len(blocks))

(* After an answer without blocks startID is lastFetchedID, too, which     *)
(* nothing has set when the answer was the first.                          *)
Receive(blocks) ==
    /\ downloader.step = "request"
    /\ call[Current].outer = "returned" /\ IsAnswer(call[Current].result)
    /\ downloader' = IF blocks = <<>>
                     THEN [downloader EXCEPT !.step = "loop", !.start = downloader.lastFetched]
                     ELSE [downloader EXCEPT !.step = "send", !.blocks = blocks]
    /\ ofBranch' = (ofBranch /\ Follows(downloader.start, blocks))
    /\ UNCHANGED <<netVars, downloaded, closed, stopped, consumer>>

(* The request failed, or its answer does not decode.                      *)
ReceiveError ==
    /\ downloader.step = "request"
    /\ call[Current].outer = "returned"
    /\ Len(downloaded) < ChannelSize
    /\ downloaded' = Append(downloaded, "error")
    /\ downloader' = [downloader EXCEPT !.step = "end"]
    /\ closed' = TRUE
    /\ UNCHANGED <<netVars, stopped, consumer, ofBranch>>

\* Mutant: the next request asks from the same block again.
SendBlockSameStart ==
    /\ downloader.step = "send" /\ Len(downloaded) < ChannelSize
    /\ LET block == Head(downloader.blocks)
           rest == Tail(downloader.blocks)
       IN  /\ downloaded' = Append(downloaded, block)
           /\ downloader' = [downloader EXCEPT
                                !.step = IF block = End THEN "end" ELSE IF rest = <<>> THEN "loop" ELSE "send",
                                !.blocks = IF block = End THEN <<>> ELSE rest]
           /\ closed' = (block = End)
    /\ UNCHANGED <<netVars, stopped, consumer, ofBranch>>

SendBlock ==
    /\ downloader.step = "send" /\ Len(downloaded) < ChannelSize
    /\ LET block == Head(downloader.blocks)
           rest == Tail(downloader.blocks)
       IN  /\ downloaded' = Append(downloaded, block)
           /\ downloader' =
                 IF block = End THEN [downloader EXCEPT !.step = "end", !.blocks = <<>>, !.lastFetched = block]
                 ELSE IF rest # <<>> THEN [downloader EXCEPT !.blocks = rest, !.lastFetched = block]
                 ELSE [step |-> "loop", blocks |-> <<>>, start |-> block, lastFetched |-> block]
           /\ closed' = (block = End)
    /\ UNCHANGED <<netVars, stopped, consumer, ofBranch>>

-----------------------------------------------------------------------------
(* downloadAndValidate.                                                    *)
TakeBlock ==
    /\ consumer.step = "range" /\ downloaded # <<>>
    /\ Head(downloaded) \in Valid
    /\ downloaded' = Tail(downloaded)
    /\ consumer' = [consumer EXCEPT !.blocks = Append(@, Head(downloaded))]
    /\ UNCHANGED <<netVars, downloader, closed, stopped, ofBranch>>

TakeError ==
    /\ consumer.step = "range" /\ downloaded # <<>>
    /\ Head(downloaded) = "error"
    /\ downloaded' = Tail(downloaded)
    /\ consumer' = [consumer EXCEPT !.step = "failed"]
    /\ UNCHANGED <<netVars, downloader, closed, stopped, ofBranch>>

(* Stop, and BanPeer, which bans and disconnects.                          *)
TakeInvalid ==
    /\ consumer.step = "range" /\ downloaded # <<>>
    /\ Head(downloaded) \notin Valid \cup {"error"}
    /\ downloaded' = Tail(downloaded)
    /\ consumer' = [consumer EXCEPT !.step = "failed"]
    /\ stopped' = "stop"
    /\ BanPeer(Source)
    /\ UNCHANGED <<msgVars, downloader, closed, ofBranch>>

TakeClosed ==
    /\ consumer.step = "range" /\ downloaded = <<>> /\ closed
    /\ consumer' = [consumer EXCEPT !.step = "done"]
    /\ UNCHANGED <<netVars, downloader, downloaded, closed, stopped, ofBranch>>

(* The next block that calls for a sync starts another Downloader.         *)
NextSync ==
    /\ consumer.step # "range" /\ downloader.step = "end" /\ stopped # "shutdown"
    /\ downloader' = NewDownloader
    /\ downloaded' = <<>> /\ closed' = FALSE /\ stopped' = "no"
    /\ consumer' = [step |-> "range", blocks |-> <<>>]
    /\ ofBranch' = TRUE
    /\ UNCHANGED netVars

(* The node stops: the context of the sync is cancelled.                   *)
Shutdown ==
    /\ stopped = "no"
    /\ stopped' = "shutdown"
    /\ UNCHANGED <<netVars, downloader, downloaded, closed, consumer, ofBranch>>

-----------------------------------------------------------------------------
Download == RequestBlocks \/ StopLoop \/ ReceiveError \/ SendBlock \/ \E blocks \in Answers : Receive(blocks)
Consume == TakeBlock \/ TakeError \/ TakeInvalid \/ TakeClosed

Next ==
    \/ NextNet /\ UNCHANGED dlVars
    \/ Download
    \/ Consume
    \/ NextSync
    \/ Shutdown

Spec == Init /\ [][Next]_vars
FairSpec == Spec /\ FairNet /\ WF_vars(Download) /\ WF_vars(Consume)

-----------------------------------------------------------------------------
(* A download that ends without an error ends with the block that the sync *)
(* aims at, except when the node is being stopped.  From a peer whose      *)
(* answers are the blocks of one branch, in whatever pieces, it has the    *)
(* whole branch from the common block up to that block, no block missing,  *)
(* twice or out of place.  Nothing is said of other answers: the code      *)
(* checks each block, and not that a block follows the one before.         *)
DownloadIsComplete ==
    consumer.step = "done" /\ stopped # "shutdown" =>
        LET blocks == consumer.blocks
        IN  /\ blocks # <<>> /\ blocks[Len(blocks)] = End
            /\ ofBranch => blocks = SubSeq(Branch, 1, Len(blocks))

=============================================================================
