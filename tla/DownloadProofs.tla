--------------------------- MODULE DownloadProofs ---------------------------
(***************************************************************************)
(* Requests and downloads, for any peers, number of calls and of retries,  *)
(* any blocks, branches and answers, and any size of the channel: an       *)
(* answer goes to the attempt it belongs to, the channels and the lock of  *)
(* the message protocol have an owner, and a download that ends without an *)
(* error has the branch the peer answered from.                            *)
(***************************************************************************)
EXTENDS Download, TLAPS, SequenceTheorems

IDs == Nat \X Nat
Whys == {"send", "timeout", "context", "context ended"}
Results == {None} \cup {Failure(w) : w \in Whys} \cup {Answer(id) : id \in IDs}

CallRecords ==
    [peer : Peers, inner : {"send", "register", "wait", "delete", "reply", "end"},
     attempt : 0 .. messageMaxRetries, got : Results, outer : {"waiting", "returned"},
     expired : BOOLEAN, result : Results]

Handlers == [id : IDs, step : {"handle", "deliver"}]

(* An answer is held by the goroutine that waited for it until the caller  *)
(* takes it, and the attempt does not change in between.                   *)
CallOk(c, k) ==
    /\ IsAnswer(c.got) => c.got = Answer(<<k, c.attempt>>) /\ c.inner \in {"delete", "reply"}
    /\ IsAnswer(c.result) => c.result = Answer(<<k, c.attempt>>) /\ c.inner = "end"

NetInv ==
    /\ call \in Seq(CallRecords)
    /\ \A k \in Calls : CallOk(call[k], k)
    /\ sent \subseteq IDs
    /\ handler \subseteq Handlers
    /\ banned \subseteq Peers /\ connected \subseteq Peers
    /\ ChannelsAreOwned

(* What a closed channel still holds, or has given to the consumer, ends   *)
(* with the block the sync aims at, or with the error.                     *)
IDsOfBlocks == Blocks \cup {Common, Nil}
Downloaders == [step : {"loop", "request", "send", "end"}, blocks : Seq(Blocks),
                start : IDsOfBlocks, lastFetched : IDsOfBlocks]

DownloadInv ==
    /\ downloader \in Downloaders
    /\ (downloader.step = "send") = (downloader.blocks # <<>>)
    /\ ofBranch \in BOOLEAN
    /\ downloaded \in Seq(Blocks \cup {"error"})
    /\ consumer \in [step : {"range", "failed", "done"}, blocks : Seq(Blocks)]
    /\ closed = (downloader.step = "end")
    /\ stopped \in {"no", "stop", "shutdown"}
    /\ stopped = "stop" => consumer.step = "failed"
    /\ consumer.step = "done" => closed /\ downloaded = <<>>
    /\ closed =>
          \/ stopped = "shutdown"
          \/ consumer.step = "failed"
          \/ downloaded # <<>> /\ downloaded[Len(downloaded)] \in {End, "error"}
          \/ /\ downloaded = <<>> /\ consumer.blocks # <<>>
             /\ consumer.blocks[Len(consumer.blocks)] = End

(* The blocks are those of Branch from the n-th on.       *)
At(blocks, n) == /\ n + Len(blocks) <= Len(Branch)
                 /\ \A i \in 1 .. Len(blocks) : blocks[i] = Branch[n + i]

Taken == Len(consumer.blocks)
Fetched == Taken + Len(downloaded)

(* While the answers are of Branch, what the consumer has, what is in the  *)
(* channel and what is still to be sent are consecutive pieces of Branch,  *)
(* and the next request asks for what follows.                             *)
BranchInv ==
    ofBranch /\ consumer.step # "failed" =>
        /\ At(consumer.blocks, 0)
        /\ \A i \in 1 .. Len(downloaded) :
              downloaded[i] # "error" => Taken + i <= Len(Branch) /\ downloaded[i] = Branch[Taken + i]
        /\ downloader.step # "end" =>
              /\ \A i \in 1 .. Len(downloaded) : downloaded[i] # "error"
              /\ At(downloader.blocks, Fetched)
              /\ downloader.lastFetched = IF Fetched = 0 THEN Nil ELSE Branch[Fetched]
        /\ downloader.step \in {"loop", "request"} =>
              downloader.start \in IF Fetched = 0 THEN {Common, Nil} ELSE {Branch[Fetched]}

-----------------------------------------------------------------------------
(* Calls.                                                                  *)

\* A failure or nothing is no answer; an answer is one.
LEMMA AnswersAreTold ==
    /\ None \in Results /\ ~ IsAnswer(None)
    /\ \A w \in Whys : Failure(w) \in Results /\ ~ IsAnswer(Failure(w))
    /\ \A id \in IDs : Answer(id) \in Results /\ IsAnswer(Answer(id))
  BY DEF None, Failure, Answer, IsAnswer, Results

\* What a step of one call leaves of the others.
LEMMA SetCall ==
    ASSUME NetInv, NEW k \in Calls, NEW new \in CallRecords, CallOk(new, k), Set(k, new)
    PROVE  /\ call' \in Seq(CallRecords)
           /\ Calls' = Calls
           /\ \A j \in Calls : call'[j] = IF j = k THEN new ELSE call[j]
           /\ \A j \in Calls' : CallOk(call'[j], j)
  <1>1. call \in Seq(CallRecords) /\ call' = [call EXCEPT ![k] = new] /\ k \in 1 .. Len(call)
    BY DEF NetInv, Set, Calls
  <1>2. call' \in Seq(CallRecords) /\ DOMAIN call' = DOMAIN call
    BY <1>1
  <1>3. \A j \in Calls : call'[j] = IF j = k THEN new ELSE call[j]
    BY <1>1 DEF Calls
  <1>4. \A j \in Calls' : CallOk(call'[j], j)
    <2> TAKE j \in Calls'
    <2>1. j \in Calls
      BY <1>2 DEF Calls
    <2> QED BY <2>1, <1>3 DEF NetInv
  <1> QED BY <1>2, <1>3, <1>4 DEF Calls

\* The owners of the channels stay when the call keeps its attempt and does
\* not leave the steps in which it has a channel.
LEMMA OwnersStay ==
    ASSUME NetInv, NEW k \in Calls, NEW new \in CallRecords, Calls' = Calls,
           \A j \in Calls : call'[j] = IF j = k THEN new ELSE call[j],
           new.attempt = call[k].attempt,
           call[k].inner \in {"wait", "delete"} => new.inner \in {"wait", "delete"},
           UNCHANGED <<resCh, resMu, handler>>
    PROVE  ChannelsAreOwned'
  <1>1. \A id \in resCh' : \E j \in Calls' : id = ID(j)' /\ call'[j].inner \in {"wait", "delete"}
    <2> TAKE id \in resCh'
    <2>1. PICK j \in Calls : id = ID(j) /\ call[j].inner \in {"wait", "delete"}
      BY DEF NetInv, ChannelsAreOwned
    <2>2. j \in Calls' /\ id = ID(j)' /\ call'[j].inner \in {"wait", "delete"}
      BY <2>1 DEF ID
    <2> QED BY <2>2
  <1> QED BY <1>1 DEF NetInv, ChannelsAreOwned

\* The parts of a call that the protocol reads.
LEMMA CallParts ==
    ASSUME NetInv, NEW k \in Calls
    PROVE  /\ call[k] \in CallRecords
           /\ CallOk(call[k], k)
           /\ ID(k) \in IDs
  <1>1. call \in Seq(CallRecords) /\ k \in 1 .. Len(call) /\ k \in Nat
    BY DEF NetInv, Calls
  <1>2. call[k] \in CallRecords /\ CallOk(call[k], k)
    BY <1>1 DEF NetInv, Calls
  <1>3. call[k].attempt \in Nat
    BY <1>2, MessagingAssumption DEF CallRecords
  <1> QED BY <1>1, <1>2, <1>3 DEF ID, IDs

-----------------------------------------------------------------------------
(* The caller.                                                             *)

\* A new call waits for its first attempt; the others are as they were.
LEMMA CallStep == ASSUME NetInv, NEW p \in Peers, Call(p) PROVE NetInv'
  <1> DEFINE new == [peer |-> p, inner |-> "send", attempt |-> 0, got |-> None,
                     outer |-> "waiting", expired |-> FALSE, result |-> None]
  <1>1. new \in CallRecords /\ ~ IsAnswer(new.got) /\ ~ IsAnswer(new.result)
    BY AnswersAreTold, MessagingAssumption DEF CallRecords
  <1>2. call \in Seq(CallRecords) /\ call' = Append(call, new)
    BY DEF NetInv, Call
  <1> HIDE DEF new
  <1>3. /\ call' \in Seq(CallRecords) /\ Len(call') = Len(call) + 1
        /\ \A j \in 1 .. Len(call) : call'[j] = call[j]
        /\ call'[Len(call) + 1] = new
    BY <1>1, <1>2
  <1>4. Calls = 1 .. Len(call) /\ Calls' = 1 .. Len(call) + 1
    BY <1>2, <1>3 DEF Calls
  <1>5. \A j \in Calls' : CallOk(call'[j], j)
    <2> TAKE j \in Calls'
    <2>1. CASE j \in Calls
      BY <2>1, <1>3, <1>4 DEF NetInv
    <2>2. CASE j = Len(call) + 1
      BY <2>2, <1>1, <1>3 DEF CallOk
    <2> QED BY <2>1, <2>2, <1>2, <1>4
  <1>6. ChannelsAreOwned'
    <2>1. \A id \in resCh' : \E j \in Calls' : id = ID(j)' /\ call'[j].inner \in {"wait", "delete"}
      <3> TAKE id \in resCh'
      <3>1. PICK j \in Calls : id = ID(j) /\ call[j].inner \in {"wait", "delete"}
        BY DEF NetInv, ChannelsAreOwned, Call
      <3>2. j \in Calls' /\ id = ID(j)' /\ call'[j].inner \in {"wait", "delete"}
        BY <3>1, <1>2, <1>3, <1>4 DEF ID
      <3> QED BY <3>2
    <2> QED BY ZenonT(40), <2>1 DEF NetInv, ChannelsAreOwned, Call
  <1> QED BY ZenonT(40), <1>3, <1>5, <1>6 DEF NetInv, Call, gateVars

\* A step that changes one call, and not its attempt or its channel.
LEMMA LocalStep ==
    ASSUME NetInv, NEW k \in Calls, NEW new \in CallRecords, CallOk(new, k), Set(k, new),
           new.attempt = call[k].attempt,
           call[k].inner \in {"wait", "delete"} => new.inner \in {"wait", "delete"},
           UNCHANGED <<resCh, resMu, handler, gateVars>>, sent' \subseteq IDs
    PROVE  NetInv'
  <1>1. /\ call' \in Seq(CallRecords) /\ Calls' = Calls
        /\ \A j \in Calls : call'[j] = IF j = k THEN new ELSE call[j]
        /\ \A j \in Calls' : CallOk(call'[j], j)
    BY SetCall
  <1>2. ChannelsAreOwned'
    BY <1>1, OwnersStay
  <1> QED BY <1>1, <1>2 DEF NetInv, gateVars

\* The deadline, the return of the caller, and the answer taken from respChan.
LEMMA OuterStep == ASSUME NetInv, NEW k \in Calls, Outer(k) PROVE NetInv'
  <1>0. call[k] \in CallRecords /\ CallOk(call[k], k) /\ sent \subseteq IDs
    BY CallParts DEF NetInv
  <1>1. CASE Expire(k)
    <2> DEFINE new == [call[k] EXCEPT !.expired = TRUE]
    <2>1. /\ new \in CallRecords /\ CallOk(new, k) /\ new.attempt = call[k].attempt
          /\ new.inner = call[k].inner
      BY ZenonT(40), <1>0 DEF CallRecords, CallOk
    <2>2. Set(k, new) /\ UNCHANGED <<sent, resCh, resMu, handler, gateVars>>
      BY <1>1 DEF Expire
    <2> HIDE DEF new
    <2> QED BY <2>1, <2>2, <1>0, LocalStep
  <1>2. CASE ContextEnded(k)
    <2> DEFINE new == [call[k] EXCEPT !.outer = "returned", !.result = Failure("context ended")]
    <2>1. Failure("context ended") \in Results /\ ~ IsAnswer(Failure("context ended"))
      BY Zenon, AnswersAreTold DEF Whys
    <2>2. /\ new \in CallRecords /\ CallOk(new, k) /\ new.attempt = call[k].attempt
          /\ new.inner = call[k].inner
      BY Zenon, <1>0, <2>1 DEF CallRecords, CallOk
    <2>3. Set(k, new) /\ UNCHANGED <<sent, resCh, resMu, handler, gateVars>>
      BY <1>2 DEF ContextEnded
    <2> HIDE DEF new
    <2> QED BY <2>2, <2>3, <1>0, LocalStep
  <1>3. CASE Reply(k)
    <2> DEFINE new == [call[k] EXCEPT !.outer = "returned", !.inner = "end", !.expired = TRUE,
                                      !.result = call[k].got, !.got = None]
    <2>1. call[k].inner = "reply" /\ Set(k, new) /\ UNCHANGED <<sent, resCh, resMu, handler, gateVars>>
      BY <1>3 DEF Reply
    <2>2. None \in Results /\ ~ IsAnswer(None)
      BY AnswersAreTold
    <2>3. /\ new \in CallRecords /\ CallOk(new, k) /\ new.attempt = call[k].attempt
      BY ZenonT(40), <1>0, <2>2 DEF CallRecords, CallOk
    <2> HIDE DEF new
    <2> QED BY <2>1, <2>3, <1>0, LocalStep
  <1> QED BY <1>1, <1>2, <1>3 DEF Outer

-----------------------------------------------------------------------------
(* The request.                                                            *)

\* A call that ends its request with a result that is its own.
LEMMA FinishedCall ==
    ASSUME NetInv, NEW k \in Calls, NEW why \in Results,
           IsAnswer(why) => why = Answer(ID(k)), call[k].inner # "end"
    PROVE  LET new == [call[k] EXCEPT !.inner = "reply", !.got = why]
           IN  new \in CallRecords /\ CallOk(new, k) /\ new.attempt = call[k].attempt
  <1>1. call[k] \in CallRecords /\ CallOk(call[k], k)
    BY CallParts
  <1> QED BY ZenonT(40), <1>1 DEF CallRecords, CallOk, ID

\* The request is on its way, or the stream failed.
LEMMA SendStep == ASSUME NetInv, NEW k \in Calls, Send(k) PROVE NetInv'
  <1>0. /\ call[k] \in CallRecords /\ CallOk(call[k], k) /\ ID(k) \in IDs /\ sent \subseteq IDs
        /\ call[k].inner = "send" /\ UNCHANGED <<resCh, resMu, handler, gateVars>>
    BY CallParts DEF NetInv, Send
  <1>1. CASE sent' = sent \cup {ID(k)} /\ Set(k, [call[k] EXCEPT !.inner = "register"])
    <2> DEFINE new == [call[k] EXCEPT !.inner = "register"]
    <2>1. new \in CallRecords /\ CallOk(new, k) /\ new.attempt = call[k].attempt
      BY <1>0 DEF CallRecords, CallOk
    <2>2. Set(k, new) /\ sent' \subseteq IDs
      BY <1>0, <1>1
    <2> HIDE DEF new
    <2> QED BY <2>1, <2>2, <1>0, LocalStep
  <1>2. CASE Finish(k, Failure("send"))
    <2> DEFINE new == [call[k] EXCEPT !.inner = "reply", !.got = Failure("send")]
    <2>1. Failure("send") \in Results /\ ~ IsAnswer(Failure("send"))
      BY Zenon, AnswersAreTold DEF Whys
    <2>2. new \in CallRecords /\ CallOk(new, k) /\ new.attempt = call[k].attempt
      BY ZenonT(40), <2>1, <1>0, FinishedCall
    <2>3. Set(k, new) /\ sent' \subseteq IDs
      BY <1>0, <1>2 DEF Finish
    <2> HIDE DEF new
    <2> QED BY <2>2, <2>3, <1>0, LocalStep
  <1> QED BY <1>1, <1>2 DEF Send

\* The channel is registered for the attempt that waits for it.
LEMMA RegisterStep == ASSUME NetInv, NEW k \in Calls, Register(k) PROVE NetInv'
  <1> DEFINE new == [call[k] EXCEPT !.inner = "wait"]
  <1>0. /\ call[k] \in CallRecords /\ CallOk(call[k], k)
        /\ call[k].inner = "register" /\ resMu = Free /\ resCh' = resCh \cup {ID(k)}
        /\ Set(k, new) /\ UNCHANGED <<sent, resMu, handler, gateVars>>
    BY CallParts DEF Register
  <1>1. new \in CallRecords /\ CallOk(new, k) /\ new.attempt = call[k].attempt /\ new.inner = "wait"
    BY <1>0 DEF CallRecords, CallOk
  <1> HIDE DEF new
  <1>2. /\ call' \in Seq(CallRecords) /\ Calls' = Calls
        /\ \A j \in Calls : call'[j] = IF j = k THEN new ELSE call[j]
        /\ \A j \in Calls' : CallOk(call'[j], j)
    BY <1>0, <1>1, SetCall
  <1>3. \A id \in resCh' : \E j \in Calls' : id = ID(j)' /\ call'[j].inner \in {"wait", "delete"}
    <2> TAKE id \in resCh'
    <2>1. CASE id = ID(k)
      <3>1. k \in Calls' /\ id = ID(k)' /\ call'[k].inner \in {"wait", "delete"}
        BY <2>1, <1>1, <1>2 DEF ID
      <3> QED BY <3>1
    <2>2. CASE id \in resCh
      <3>1. PICK j \in Calls : id = ID(j) /\ call[j].inner \in {"wait", "delete"}
        BY <2>2 DEF NetInv, ChannelsAreOwned
      <3>2. j \in Calls' /\ id = ID(j)' /\ call'[j].inner \in {"wait", "delete"}
        BY <3>1, <1>0, <1>2 DEF ID
      <3> QED BY <3>2
    <2> QED BY <2>1, <2>2, <1>0
  <1>4. ChannelsAreOwned'
    BY <1>0, <1>3 DEF ChannelsAreOwned
  <1> QED BY <1>0, <1>2, <1>4 DEF NetInv, gateVars

\* A timer or the caller's context ends the wait.
LEMMA WaitStep ==
    ASSUME NetInv, NEW k \in Calls, Timeout(k) \/ Cancelled(k)
    PROVE  NetInv'
  <1>0. call[k] \in CallRecords /\ CallOk(call[k], k) /\ sent \subseteq IDs
    BY CallParts DEF NetInv
  <1>1. PICK w \in {"timeout", "context"} :
           /\ call[k].inner = "wait"
           /\ Set(k, [call[k] EXCEPT !.inner = "delete", !.got = Failure(w)])
           /\ UNCHANGED <<sent, resCh, resMu, handler, gateVars>>
    BY DEF Timeout, Cancelled
  <1> DEFINE new == [call[k] EXCEPT !.inner = "delete", !.got = Failure(w)]
  <1>2. Failure(w) \in Results /\ ~ IsAnswer(Failure(w))
    BY Zenon, AnswersAreTold DEF Whys
  <1>3. /\ new \in CallRecords /\ CallOk(new, k) /\ new.attempt = call[k].attempt
        /\ new.inner = "delete"
    BY ZenonT(40), <1>0, <1>1, <1>2 DEF CallRecords, CallOk
  <1>4. Set(k, new)
    BY <1>1
  <1> HIDE DEF new
  <1> QED BY <1>0, <1>1, <1>3, <1>4, LocalStep

\* The channel is removed, and with it its owner goes on: to the next
\* attempt after a timeout, or to the end of the request.
LEMMA DeleteStep == ASSUME NetInv, NEW k \in Calls, Delete(k) PROVE NetInv'
  <1>0. /\ call[k] \in CallRecords /\ CallOk(call[k], k) /\ sent \subseteq IDs
        /\ call[k].inner = "delete" /\ resMu = Free /\ resCh' = resCh \ {ID(k)}
        /\ UNCHANGED <<resMu, handler, gateVars>>
    BY CallParts DEF NetInv, Delete
  <1>1. PICK new \in CallRecords : CallOk(new, k) /\ Set(k, new) /\ sent' \subseteq IDs
    <2>1. CASE call[k].got = Failure("timeout") /\ call[k].attempt < messageMaxRetries
      <3> DEFINE new == [call[k] EXCEPT !.inner = "send", !.attempt = @ + 1, !.got = None]
      <3>1. None \in Results /\ ~ IsAnswer(None)
        BY AnswersAreTold
      <3>2. call[k].attempt + 1 \in 0 .. messageMaxRetries
        BY <2>1, <1>0, MessagingAssumption DEF CallRecords
      <3>3. new \in CallRecords /\ CallOk(new, k)
        BY ZenonT(40), <3>1, <3>2, <1>0 DEF CallRecords, CallOk
      <3>4. Set(k, new) /\ sent' \subseteq IDs
        BY <2>1, <1>0 DEF Delete
      <3> QED BY <3>3, <3>4
    <2>2. CASE ~ (call[k].got = Failure("timeout") /\ call[k].attempt < messageMaxRetries)
      <3> DEFINE new == [call[k] EXCEPT !.inner = "reply", !.got = call[k].got]
      <3>1. new \in CallRecords /\ CallOk(new, k)
        BY ZenonT(40), <1>0, FinishedCall DEF CallRecords, CallOk, ID
      <3>2. Set(k, new) /\ sent' \subseteq IDs
        BY <2>2, <1>0 DEF Delete, Finish
      <3> QED BY <3>1, <3>2
    <2> QED BY <2>1, <2>2
  <1>2. /\ call' \in Seq(CallRecords) /\ Calls' = Calls
        /\ \A j \in Calls : call'[j] = IF j = k THEN new ELSE call[j]
        /\ \A j \in Calls' : CallOk(call'[j], j)
    BY <1>1, SetCall
  <1>3. \A id \in resCh' : \E j \in Calls' : id = ID(j)' /\ call'[j].inner \in {"wait", "delete"}
    <2> TAKE id \in resCh'
    <2>1. PICK j \in Calls : id = ID(j) /\ call[j].inner \in {"wait", "delete"}
      BY <1>0 DEF NetInv, ChannelsAreOwned
    <2>2. j # k
      BY <2>1, <1>0
    <2>3. j \in Calls' /\ id = ID(j)' /\ call'[j].inner \in {"wait", "delete"}
      BY <2>1, <2>2, <1>2 DEF ID
    <2> QED BY <2>3
  <1>4. ChannelsAreOwned'
    BY <1>0, <1>3 DEF ChannelsAreOwned
  <1> QED BY <1>0, <1>1, <1>2, <1>4 DEF NetInv, gateVars

-----------------------------------------------------------------------------
(* Answers.                                                                *)

\* An answer arrives.
LEMMA RespondStep == ASSUME NetInv, NEW id \in sent, Respond(id) PROVE NetInv'
  <1>1. /\ handler' = handler \cup {[id |-> id, step |-> "handle"]}
        /\ sent' = sent \ {id} /\ UNCHANGED <<call, resCh, resMu, gateVars>>
    BY DEF Respond
  <1>2. handler' \subseteq Handlers
    BY <1>1 DEF NetInv, Handlers
  <1>3. ChannelsAreOwned'
    BY <1>1 DEF NetInv, ChannelsAreOwned, Calls, ID
  <1> QED BY <1>1, <1>2, <1>3 DEF NetInv, Calls, gateVars

\* The handler of an answer takes the lock for a channel that is registered.
LEMMA HandleResponseStep == ASSUME NetInv, NEW h \in handler, HandleResponse(h) PROVE NetInv'
  <1>1. /\ h \in Handlers /\ h.step = "handle" /\ resMu = Free
        /\ UNCHANGED <<call, sent, resCh, gateVars>>
    BY DEF NetInv, HandleResponse
  <1>2. CASE h.id \in resCh
    <2> DEFINE g == [h EXCEPT !.step = "deliver"]
    <2>1. g \in Handlers /\ g.step = "deliver" /\ g.id = h.id
      BY <1>1 DEF Handlers
    <2>2. resMu' = h.id /\ handler' = (handler \ {h}) \cup {g}
      BY <1>2 DEF HandleResponse, Step
    <2> HIDE DEF g
    <2>3. handler' \subseteq Handlers
      BY <2>1, <2>2 DEF NetInv
    <2>4. ChannelsAreOwned'
      <3>1. resMu' \in resCh' /\ g \in handler' /\ g.step = "deliver" /\ g.id = resMu'
        BY <1>1, <1>2, <2>1, <2>2
      <3> QED BY <3>1, <1>1 DEF NetInv, ChannelsAreOwned, Calls, ID
    <2> QED BY <1>1, <2>3, <2>4 DEF NetInv, Calls, gateVars
  <1>3. CASE h.id \notin resCh
    <2>1. handler' = handler \ {h} /\ resMu' = resMu
      BY <1>3 DEF HandleResponse
    <2>2. ChannelsAreOwned'
      BY <1>1, <2>1 DEF NetInv, ChannelsAreOwned, Calls, ID
    <2> QED BY <1>1, <2>1, <2>2 DEF NetInv, Calls, gateVars
  <1> QED BY <1>2, <1>3

\* The answer goes to the attempt whose ID it carries, and the lock is free.
LEMMA DeliverStep ==
    ASSUME NetInv, NEW h \in handler, NEW k \in Calls, Deliver(h, k)
    PROVE  NetInv'
  <1> DEFINE new == [call[k] EXCEPT !.inner = "delete", !.got = Answer(h.id)]
  <1>0. /\ call[k] \in CallRecords /\ CallOk(call[k], k) /\ ID(k) \in IDs
        /\ call[k].inner = "wait" /\ ID(k) = h.id /\ Set(k, new)
        /\ handler' = handler \ {h} /\ resMu' = Free
        /\ UNCHANGED <<sent, resCh, gateVars>>
    BY CallParts DEF Deliver
  <1>1. Answer(h.id) \in Results
    BY <1>0, AnswersAreTold
  <1>2. /\ new \in CallRecords /\ CallOk(new, k) /\ new.attempt = call[k].attempt
        /\ new.inner = "delete"
    BY ZenonT(40), <1>0, <1>1 DEF CallRecords, CallOk, ID
  <1> HIDE DEF new
  <1>3. /\ call' \in Seq(CallRecords) /\ Calls' = Calls
        /\ \A j \in Calls : call'[j] = IF j = k THEN new ELSE call[j]
        /\ \A j \in Calls' : CallOk(call'[j], j)
    BY <1>0, <1>2, SetCall
  <1>4. \A id \in resCh' : \E j \in Calls' : id = ID(j)' /\ call'[j].inner \in {"wait", "delete"}
    <2> TAKE id \in resCh'
    <2>1. PICK j \in Calls : id = ID(j) /\ call[j].inner \in {"wait", "delete"}
      BY <1>0 DEF NetInv, ChannelsAreOwned
    <2>2. j \in Calls' /\ id = ID(j)' /\ call'[j].inner \in {"wait", "delete"}
      BY <2>1, <1>2, <1>3 DEF ID
    <2> QED BY <2>2
  <1>5. ChannelsAreOwned'
    BY <1>0, <1>4 DEF ChannelsAreOwned, Free
  <1> QED BY <1>0, <1>3, <1>5 DEF NetInv, gateVars

-----------------------------------------------------------------------------
(* The network, and the steps of the download that touch it.               *)

\* Bans and connections are no concern of the requests.
LEMMA GateStep ==
    ASSUME NetInv, UNCHANGED msgVars, banned' \subseteq Peers, connected' \subseteq Peers
    PROVE  NetInv'
  BY DEF NetInv, msgVars, ChannelsAreOwned, Calls, ID

\* Every step of the message protocol.
LEMMA NetStep == ASSUME NetInv, NextNet PROVE NetInv'
  <1>1. CASE \E k \in Calls : Inner(k) \/ Outer(k)
    BY <1>1, SendStep, RegisterStep, WaitStep, DeleteStep, OuterStep DEF Inner
  <1>2. CASE \E h \in handler : Handle(h)
    BY <1>2, HandleResponseStep, DeliverStep DEF Handle
  <1>3. CASE \E id \in sent : Respond(id)
    BY <1>3, RespondStep
  <1>4. CASE \E p \in Peers : Forget(p) \/ Connect(p)
    <2>1. UNCHANGED msgVars /\ banned' \subseteq Peers /\ connected' \subseteq Peers
      BY <1>4 DEF NetInv, Forget, Connect
    <2> QED BY <2>1, GateStep
  <1> QED BY <1>1, <1>2, <1>3, <1>4 DEF NextNet

\* Nothing of the network changes in the other steps of the download.
LEMMA NetStays == ASSUME NetInv, UNCHANGED netVars PROVE NetInv'
  BY GateStep DEF NetInv, netVars, gateVars

\* NetInv is kept by every step.
LEMMA NextNetInv == NetInv /\ [Next]_vars => NetInv'
  <1> SUFFICES ASSUME NetInv, [Next]_vars PROVE NetInv'
    OBVIOUS
  <1>1. CASE NextNet
    BY <1>1, NetStep
  <1>2. CASE RequestBlocks
    BY <1>2, CallStep, DownloadAssumption DEF RequestBlocks
  <1>3. CASE TakeInvalid
    <2>1. UNCHANGED msgVars /\ banned' \subseteq Peers /\ connected' \subseteq Peers
      BY <1>3, DownloadAssumption DEF NetInv, TakeInvalid, BanPeer
    <2> QED BY <2>1, GateStep
  <1>4. CASE UNCHANGED netVars
    BY <1>4, NetStays
  <1> QED
    BY ZenonT(40), <1>1, <1>2, <1>3, <1>4 DEF Next, Download, Consume, StopLoop, Receive, ReceiveError, SendBlock,
       TakeBlock, TakeError, TakeClosed, NextSync, Shutdown, vars

-----------------------------------------------------------------------------
(* The channel.                                                            *)

\* The start of a Downloader.
LEMMA InitDownloadInv == Init => NetInv /\ DownloadInv
  <1> SUFFICES ASSUME Init PROVE NetInv /\ DownloadInv
    OBVIOUS
  <1>1. call \in Seq(CallRecords) /\ Calls = {}
    BY DEF Init, InitNet, Calls
  <1>2. NetInv
    BY <1>1 DEF Init, InitNet, NetInv, ChannelsAreOwned
  <1>3. /\ downloader \in Downloaders /\ downloader.blocks = <<>>
        /\ consumer \in [step : {"range", "failed", "done"}, blocks : Seq(Blocks)]
        /\ downloaded \in Seq(Blocks \cup {"error"})
    BY DEF Init, NewDownloader, Downloaders, IDsOfBlocks
  <1>4. DownloadInv
    BY ZenonT(40), <1>3 DEF Init, NewDownloader, DownloadInv
  <1> QED BY <1>2, <1>4

\* The Downloader puts something on the channel.
LEMMA AppendToChannel ==
    ASSUME NEW s \in Seq(Blocks \cup {"error"}), NEW x \in Blocks \cup {"error"}
    PROVE  /\ Append(s, x) \in Seq(Blocks \cup {"error"})
           /\ Append(s, x) # <<>>
           /\ Append(s, x)[Len(Append(s, x))] = x
  BY AppendProperties

\* The consumer takes from the channel: the last element stays the last one
\* until it is the one that is taken.
LEMMA TakeFromChannel ==
    ASSUME NEW s \in Seq(Blocks \cup {"error"}), s # <<>>
    PROVE  /\ Head(s) \in Blocks \cup {"error"}
           /\ Tail(s) \in Seq(Blocks \cup {"error"})
           /\ Tail(s) # <<>> => Tail(s)[Len(Tail(s))] = s[Len(s)]
           /\ Tail(s) = <<>> => Head(s) = s[Len(s)]
  <1>1. Len(s) \in Nat /\ Len(s) # 0 /\ Head(s) = s[1] /\ Len(Tail(s)) = Len(s) - 1
        /\ \A i \in 1 .. Len(Tail(s)) : Tail(s)[i] = s[i + 1]
    OBVIOUS
  <1>2. Head(s) \in Blocks \cup {"error"} /\ Tail(s) \in Seq(Blocks \cup {"error"})
    OBVIOUS
  <1>3. Tail(s) # <<>> => Len(Tail(s)) \in 1 .. Len(Tail(s)) /\ Len(Tail(s)) + 1 = Len(s)
    BY <1>1, <1>2
  <1>4. Tail(s) = <<>> => Len(s) = 1
    BY <1>1
  <1> QED BY <1>1, <1>2, <1>3, <1>4

\* The loop begins a request, or is told to end.
LEMMA LoopStep == ASSUME DownloadInv, RequestBlocks \/ StopLoop PROVE DownloadInv'
  <1>1. CASE RequestBlocks
    BY <1>1 DEF DownloadInv, Downloaders, RequestBlocks
  <1>2. CASE StopLoop
    <2>1. downloader' \in Downloaders /\ downloader'.step = "end" /\ downloader'.blocks = downloader.blocks
      BY <1>2 DEF DownloadInv, Downloaders, StopLoop
    <2> QED BY ZenonT(40), <1>2, <2>1 DEF DownloadInv, StopLoop
  <1> QED BY <1>1, <1>2

\* An answer, or the failure of the request, which closes the channel after
\* the error.
LEMMA ReceiveStep ==
    ASSUME DownloadInv, ReceiveError \/ \E blocks \in Answers : Receive(blocks)
    PROVE  DownloadInv'
  <1>1. CASE ReceiveError
    <2>1. /\ downloaded \in Seq(Blocks \cup {"error"}) /\ downloaded' = Append(downloaded, "error")
          /\ downloaded' \in Seq(Blocks \cup {"error"}) /\ downloaded' # <<>>
          /\ downloaded'[Len(downloaded')] = "error"
      BY <1>1, AppendToChannel DEF DownloadInv, ReceiveError
    <2>2. consumer.step # "done"
      BY ZenonT(40), <1>1 DEF DownloadInv, ReceiveError
    <2>3. downloader' \in Downloaders /\ downloader'.step = "end" /\ downloader'.blocks = downloader.blocks
      BY <1>1 DEF DownloadInv, Downloaders, ReceiveError
    <2> QED BY ZenonT(40), <1>1, <2>1, <2>2, <2>3 DEF DownloadInv, ReceiveError
  <1>2. CASE \E blocks \in Answers : Receive(blocks)
    <2>1. PICK blocks \in Answers : Receive(blocks)
      BY <1>2
    <2>2. blocks \in Seq(Blocks)
      BY DownloadAssumption
    <2>3. /\ downloader \in Downloaders /\ downloader.step = "request"
          /\ downloader' = IF blocks = <<>>
                           THEN [downloader EXCEPT !.step = "loop", !.start = downloader.lastFetched]
                           ELSE [downloader EXCEPT !.step = "send", !.blocks = blocks]
      BY Zenon, <2>1 DEF DownloadInv, Receive
    <2>4. /\ downloader' \in Downloaders /\ downloader'.step \in {"loop", "send"}
          /\ (downloader'.step = "send") = (downloader'.blocks # <<>>)
      <3>1. downloader.blocks = <<>>
        BY <2>3 DEF DownloadInv
      <3> QED BY <2>2, <2>3, <3>1 DEF Downloaders
    <2>5. /\ UNCHANGED <<downloaded, closed, stopped, consumer>> /\ ofBranch' \in BOOLEAN
      BY Zenon, <2>1 DEF Receive
    <2> QED BY ZenonT(40), <2>3, <2>4, <2>5 DEF DownloadInv
  <1> QED BY <1>1, <1>2

\* A block of the answer goes on the channel, which is closed after the one
\* that the sync aims at.
LEMMA SendBlockStep == ASSUME DownloadInv, SendBlock PROVE DownloadInv'
  <1> DEFINE block == Head(downloader.blocks)
             rest == Tail(downloader.blocks)
  <1>1. /\ downloader.step = "send" /\ downloader.blocks \in Seq(Blocks)
        /\ downloader.blocks # <<>> /\ consumer.step # "done"
        /\ downloaded \in Seq(Blocks \cup {"error"})
    <2>1. downloader.step = "send" /\ downloader.blocks \in Seq(Blocks)
      BY DEF DownloadInv, Downloaders, SendBlock
    <2>2. ~ closed
      BY <2>1 DEF DownloadInv
    <2> QED BY ZenonT(40), <2>1, <2>2 DEF DownloadInv
  <1>2. block \in Blocks /\ rest \in Seq(Blocks)
    BY <1>1
  <1>3. /\ downloaded' = Append(downloaded, block)
        /\ downloader' =
              IF block = End THEN [downloader EXCEPT !.step = "end", !.blocks = <<>>, !.lastFetched = block]
              ELSE IF rest # <<>> THEN [downloader EXCEPT !.blocks = rest, !.lastFetched = block]
              ELSE [step |-> "loop", blocks |-> <<>>, start |-> block, lastFetched |-> block]
        /\ closed' = (block = End) /\ UNCHANGED <<stopped, consumer, ofBranch>>
    BY Zenon DEF SendBlock
  <1> HIDE DEF block, rest
  <1>4. /\ downloaded' \in Seq(Blocks \cup {"error"}) /\ downloaded' # <<>>
        /\ downloaded'[Len(downloaded')] = block
    BY ZenonT(40), <1>1, <1>2, <1>3, AppendToChannel
  <1>5. /\ downloader' \in Downloaders
        /\ (downloader'.step = "end") = (block = End)
        /\ (downloader'.step = "send") = (downloader'.blocks # <<>>)
    <2>1. downloader \in Downloaders
      BY DEF DownloadInv
    <2>2. block \in IDsOfBlocks /\ <<>> \in Seq(Blocks)
      BY <1>2 DEF IDsOfBlocks
    <2>3. CASE block = End
      <3>1. downloader' = [downloader EXCEPT !.step = "end", !.blocks = <<>>, !.lastFetched = block]
        BY Zenon, <1>3, <2>3
      <3> QED BY <2>1, <2>2, <2>3, <3>1 DEF Downloaders
    <2>4. CASE block # End /\ rest # <<>>
      <3>1. downloader' = [downloader EXCEPT !.blocks = rest, !.lastFetched = block]
        BY Zenon, <1>3, <2>4
      <3> QED BY <1>1, <1>2, <2>1, <2>2, <2>4, <3>1 DEF Downloaders
    <2>5. CASE block # End /\ rest = <<>>
      <3>1. downloader' = [step |-> "loop", blocks |-> <<>>, start |-> block, lastFetched |-> block]
        BY Zenon, <1>3, <2>5
      <3> QED BY <2>2, <2>5, <3>1 DEF Downloaders
    <2> QED BY Zenon, <2>3, <2>4, <2>5
  <1>6. CASE block = End
    BY ZenonT(40), <1>1, <1>3, <1>4, <1>5, <1>6 DEF DownloadInv
  <1>7. CASE block # End
    BY ZenonT(40), <1>1, <1>3, <1>4, <1>5, <1>7 DEF DownloadInv
  <1> QED BY <1>6, <1>7

\* The consumer takes a valid block: when it was the last one of a closed
\* channel, the consumer's blocks end with it.
LEMMA TakeBlockStep == ASSUME DownloadInv, TakeBlock PROVE DownloadInv'
  <1> DEFINE block == Head(downloaded)
  <1>1. /\ downloaded \in Seq(Blocks \cup {"error"}) /\ downloaded # <<>> /\ block \in Valid
        /\ consumer.step = "range" /\ consumer.blocks \in Seq(Blocks)
        /\ downloaded' = Tail(downloaded)
        /\ consumer' = [consumer EXCEPT !.blocks = Append(consumer.blocks, block)]
        /\ UNCHANGED <<downloader, closed, stopped, ofBranch>>
    BY DEF DownloadInv, TakeBlock
  <1>2. block \in Blocks /\ block # "error"
    BY <1>1, DownloadAssumption
  <1>3. /\ downloaded' \in Seq(Blocks \cup {"error"})
        /\ downloaded' # <<>> => downloaded'[Len(downloaded')] = downloaded[Len(downloaded)]
        /\ downloaded' = <<>> => block = downloaded[Len(downloaded)]
    BY <1>1, TakeFromChannel
  <1> HIDE DEF block
  <1>4. /\ Append(consumer.blocks, block) \in Seq(Blocks) /\ Append(consumer.blocks, block) # <<>>
        /\ Append(consumer.blocks, block)[Len(Append(consumer.blocks, block))] = block
    BY <1>1, <1>2, AppendProperties
  <1>5. /\ consumer' \in [step : {"range", "failed", "done"}, blocks : Seq(Blocks)]
        /\ consumer'.step = "range" /\ consumer'.blocks = Append(consumer.blocks, block)
    BY ZenonT(40), <1>1, <1>4 DEF DownloadInv
  <1>6. closed' =>
          \/ stopped' = "shutdown"
          \/ downloaded' # <<>> /\ downloaded'[Len(downloaded')] \in {End, "error"}
          \/ /\ downloaded' = <<>> /\ consumer'.blocks # <<>>
             /\ consumer'.blocks[Len(consumer'.blocks)] = End
    BY ZenonT(40), <1>1, <1>2, <1>3, <1>4, <1>5 DEF DownloadInv
  <1> QED BY ZenonT(40), <1>1, <1>3, <1>5, <1>6 DEF DownloadInv

\* The consumer fails.
LEMMA TakeFailureStep == ASSUME DownloadInv, TakeError \/ TakeInvalid PROVE DownloadInv'
  <1>1. /\ downloaded \in Seq(Blocks \cup {"error"}) /\ downloaded # <<>>
        /\ downloaded' = Tail(downloaded)
        /\ consumer' = [consumer EXCEPT !.step = "failed"]
        /\ UNCHANGED <<downloader, closed, ofBranch>> /\ stopped' \in {stopped, "stop"}
    BY DEF DownloadInv, TakeError, TakeInvalid
  <1>2. downloaded' \in Seq(Blocks \cup {"error"})
    BY <1>1, TakeFromChannel
  <1>3. /\ consumer' \in [step : {"range", "failed", "done"}, blocks : Seq(Blocks)]
        /\ consumer'.step = "failed"
    BY ZenonT(40), <1>1 DEF DownloadInv
  <1> QED BY <1>1, <1>2, <1>3 DEF DownloadInv

\* The channel is closed and empty.
LEMMA TakeClosedStep == ASSUME DownloadInv, TakeClosed PROVE DownloadInv'
  <1>1. /\ consumer' = [consumer EXCEPT !.step = "done"] /\ downloaded = <<>> /\ closed
        /\ consumer.step = "range" /\ UNCHANGED <<downloader, downloaded, closed, stopped, ofBranch>>
    BY DEF TakeClosed
  <1>2. /\ consumer' \in [step : {"range", "failed", "done"}, blocks : Seq(Blocks)]
        /\ consumer'.step = "done" /\ consumer'.blocks = consumer.blocks
    BY <1>1 DEF DownloadInv
  <1> QED BY ZenonT(40), <1>1, <1>2 DEF DownloadInv

\* DownloadInv is kept by every step.
LEMMA NextDownloadInv == DownloadInv /\ [Next]_vars => DownloadInv'
  <1> SUFFICES ASSUME DownloadInv, [Next]_vars PROVE DownloadInv'
    OBVIOUS
  <1>1. CASE Download
    BY <1>1, LoopStep, ReceiveStep, SendBlockStep DEF Download
  <1>2. CASE Consume
    BY <1>2, TakeBlockStep, TakeFailureStep, TakeClosedStep DEF Consume
  <1>3. CASE NextSync
    <2>1. /\ downloader' \in Downloaders /\ downloader'.blocks = <<>> /\ downloader'.step = "loop"
          /\ consumer' \in [step : {"range", "failed", "done"}, blocks : Seq(Blocks)]
          /\ downloaded' \in Seq(Blocks \cup {"error"})
      BY <1>3 DEF NextSync, NewDownloader, Downloaders, IDsOfBlocks
    <2> QED BY ZenonT(40), <1>3, <2>1 DEF NextSync, DownloadInv
  <1>4. CASE Shutdown
    BY <1>4 DEF Shutdown, DownloadInv
  <1>5. CASE UNCHANGED dlVars
    BY <1>5 DEF dlVars, DownloadInv
  <1> QED BY <1>1, <1>2, <1>3, <1>4, <1>5 DEF Next, vars

-----------------------------------------------------------------------------
(* The branch.                                                             *)

\* Facts of the assumption.
LEMMA BranchFacts ==
    /\ Len(Branch) \in Nat
    /\ \A i \in 1 .. Len(Branch) : Branch[i] \in Blocks /\ Branch[i] # Common /\ Branch[i] # Nil
    /\ \A i, j \in 1 .. Len(Branch) : Branch[i] = Branch[j] => i = j
  <1>1. Branch \in Seq(Blocks)
    BY DownloadAssumption
  <1>2. Len(Branch) \in Nat /\ \A i \in 1 .. Len(Branch) : Branch[i] \in Blocks
    BY <1>1
  <1>3. Common \notin Blocks /\ Nil \notin Blocks
    BY DownloadAssumption
  <1> QED BY <1>2, <1>3, DownloadAssumption

\* A downloader that has sent nothing.
LEMMA NothingYet ==
    ASSUME downloader = NewDownloader, downloaded = <<>>, consumer.blocks = <<>>
    PROVE  BranchInv
  <1>1. Taken = 0 /\ Fetched = 0
    BY DEF Taken, Fetched
  <1>2. downloader.step = "loop" /\ downloader.blocks = <<>> /\ downloader.start = Common
        /\ downloader.lastFetched = Nil
    BY DEF NewDownloader
  <1>3. At(<<>>, 0)
    BY BranchFacts DEF At
  <1> QED BY <1>1, <1>2, <1>3 DEF BranchInv

\* The blocks of an answer are those after what was fetched.
LEMMA AnswerFollows ==
    ASSUME NEW n \in 0 .. Len(Branch), NEW id, NEW blocks \in Seq(Blocks), Follows(id, blocks),
           id \in IF n = 0 THEN {Common, Nil} ELSE {Branch[n]}
    PROVE  At(blocks, n) /\ id # Nil
  <1>1. PICK m \in 0 .. Len(Branch) - Len(blocks) :
           /\ id = IF m = 0 THEN Common ELSE Branch[m]
           /\ blocks = SubSeq(Branch, m + 1, m + Len(blocks))
    BY DEF Follows
  <1>2. /\ Len(Branch) \in Nat /\ Len(blocks) \in Nat /\ n \in Nat /\ m \in Nat
        /\ m + Len(blocks) <= Len(Branch) /\ m <= Len(Branch) /\ n <= Len(Branch)
    BY BranchFacts
  <1>3. Common # Nil
    BY DownloadAssumption
  <1>4. m # 0 => m \in 1 .. Len(Branch)
    BY <1>2
  <1>5. n # 0 => n \in 1 .. Len(Branch)
    BY <1>2
  <1>6. m = n /\ id # Nil
    BY <1>1, <1>3, <1>4, <1>5, BranchFacts
  <1>7. \A i \in 1 .. Len(blocks) : blocks[i] = Branch[m + i]
    <2> DEFINE l == m + Len(blocks)
    <2>1. Branch \in Seq(Blocks) /\ m + 1 \in 1 .. Len(Branch) + 1 /\ l \in m .. Len(Branch)
      BY <1>2, DownloadAssumption
    <2>2. l - (m + 1) + 1 = Len(blocks)
      BY <1>2
    <2>3. \A i \in 1 .. Len(blocks) : (m + 1) + i - 1 = m + i
      BY <1>2
    <2>4. \A i \in 1 .. l - (m + 1) + 1 : SubSeq(Branch, m + 1, l)[i] = Branch[(m + 1) + i - 1]
      BY <2>1, SubSeqProperties
    <2> QED BY <1>1, <2>2, <2>3, <2>4
  <1> QED BY <1>2, <1>6, <1>7 DEF At

\* The fields of the Downloader and the lengths.
LEMMA Lengths ==
    ASSUME DownloadInv
    PROVE  /\ Taken \in Nat /\ Len(downloaded) \in Nat /\ Fetched \in Nat
           /\ Fetched = Taken + Len(downloaded)
           /\ downloader.blocks \in Seq(Blocks) /\ Len(downloader.blocks) \in Nat
           /\ consumer.blocks \in Seq(Blocks) /\ downloaded \in Seq(Blocks \cup {"error"})
  <1>1. /\ downloader.blocks \in Seq(Blocks) /\ consumer.blocks \in Seq(Blocks)
        /\ downloaded \in Seq(Blocks \cup {"error"})
    BY DEF DownloadInv, Downloaders
  <1>2. Len(downloader.blocks) \in Nat /\ Len(consumer.blocks) \in Nat /\ Len(downloaded) \in Nat
    BY <1>1
  <1> QED BY <1>1, <1>2 DEF Taken, Fetched

\* An answer of the branch.
LEMMA ReceiveBranch ==
    ASSUME DownloadInv, BranchInv, NEW blocks \in Answers, Receive(blocks)
    PROVE  BranchInv'
  <1> SUFFICES ASSUME ofBranch', consumer'.step # "failed" PROVE BranchInv'
    BY Zenon DEF BranchInv
  <1>1. /\ downloader.step = "request" /\ UNCHANGED <<downloaded, consumer>>
        /\ ofBranch /\ Follows(downloader.start, blocks)
        /\ downloader' = IF blocks = <<>>
                         THEN [downloader EXCEPT !.step = "loop", !.start = downloader.lastFetched]
                         ELSE [downloader EXCEPT !.step = "send", !.blocks = blocks]
    BY Zenon DEF Receive
  <1>2. /\ At(consumer.blocks, 0)
        /\ \A i \in 1 .. Len(downloaded) :
              downloaded[i] # "error" => Taken + i <= Len(Branch) /\ downloaded[i] = Branch[Taken + i]
        /\ \A i \in 1 .. Len(downloaded) : downloaded[i] # "error"
        /\ At(downloader.blocks, Fetched)
        /\ downloader.lastFetched = IF Fetched = 0 THEN Nil ELSE Branch[Fetched]
        /\ downloader.start \in IF Fetched = 0 THEN {Common, Nil} ELSE {Branch[Fetched]}
    BY <1>1 DEF BranchInv
  <1>3. blocks \in Seq(Blocks)
    BY DownloadAssumption
  <1>4. Fetched \in 0 .. Len(Branch)
    BY <1>2, Lengths, BranchFacts DEF At
  <1>5. At(blocks, Fetched)
    BY Zenon, <1>1, <1>2, <1>3, <1>4, AnswerFollows
  <1>6. Taken' = Taken /\ Fetched' = Fetched
    BY <1>1 DEF Taken, Fetched
  <1>7. CASE blocks = <<>>
    <2>1. /\ downloader'.step = "loop" /\ downloader'.start = downloader.lastFetched
          /\ downloader'.blocks = downloader.blocks /\ downloader'.lastFetched = downloader.lastFetched
      BY <1>1, <1>7 DEF DownloadInv, Downloaders
    <2>2. downloader'.start \in IF Fetched = 0 THEN {Common, Nil} ELSE {Branch[Fetched]}
      BY <1>2, <2>1
    <2> QED BY Zenon, <1>1, <1>2, <1>6, <2>1, <2>2 DEF BranchInv, At
  <1>8. CASE blocks # <<>>
    <2>1. /\ downloader'.step = "send" /\ downloader'.blocks = blocks
          /\ downloader'.lastFetched = downloader.lastFetched
      BY <1>1, <1>8 DEF DownloadInv, Downloaders
    <2> QED BY Zenon, <1>1, <1>2, <1>5, <1>6, <2>1 DEF BranchInv, At
  <1> QED BY <1>7, <1>8

\* The end of the loop, with or without an error.
LEMMA EndBranch ==
    ASSUME DownloadInv, BranchInv, StopLoop \/ ReceiveError
    PROVE  BranchInv'
  <1> SUFFICES ASSUME ofBranch', consumer'.step # "failed" PROVE BranchInv'
    BY Zenon DEF BranchInv
  <1>1. downloader'.step = "end" /\ ofBranch /\ UNCHANGED consumer
    BY DEF StopLoop, ReceiveError, DownloadInv, Downloaders
  <1>2. /\ At(consumer.blocks, 0)
        /\ \A i \in 1 .. Len(downloaded) :
              downloaded[i] # "error" => Taken + i <= Len(Branch) /\ downloaded[i] = Branch[Taken + i]
    BY Zenon, <1>1 DEF BranchInv
  <1>3. Taken' = Taken
    BY <1>1 DEF Taken
  <1>4. \A i \in 1 .. Len(downloaded') :
           downloaded'[i] # "error" => i \in 1 .. Len(downloaded) /\ downloaded'[i] = downloaded[i]
    <2>1. CASE downloaded' = downloaded
      BY <2>1
    <2>2. CASE downloaded' = Append(downloaded, "error")
      BY <2>2, Lengths
    <2> QED BY <2>1, <2>2 DEF StopLoop, ReceiveError
  <1> QED BY ZenonT(40), <1>1, <1>2, <1>3, <1>4 DEF BranchInv, At

\* The next block of the answer goes to the channel.
LEMMA SendBranch == ASSUME DownloadInv, BranchInv, SendBlock PROVE BranchInv'
  <1> SUFFICES ASSUME ofBranch', consumer'.step # "failed" PROVE BranchInv'
    BY Zenon DEF BranchInv
  <1> DEFINE b == downloader.blocks
             block == Head(b)
             rest == Tail(b)
  <1>1. /\ downloader.step = "send" /\ ofBranch /\ UNCHANGED consumer
        /\ downloaded' = Append(downloaded, block)
        /\ downloader' =
              IF block = End THEN [downloader EXCEPT !.step = "end", !.blocks = <<>>, !.lastFetched = block]
              ELSE IF rest # <<>> THEN [downloader EXCEPT !.blocks = rest, !.lastFetched = block]
              ELSE [step |-> "loop", blocks |-> <<>>, start |-> block, lastFetched |-> block]
    BY Zenon DEF SendBlock
  <1>2. /\ At(consumer.blocks, 0)
        /\ \A i \in 1 .. Len(downloaded) :
              downloaded[i] # "error" => Taken + i <= Len(Branch) /\ downloaded[i] = Branch[Taken + i]
        /\ \A i \in 1 .. Len(downloaded) : downloaded[i] # "error"
        /\ At(b, Fetched)
    BY <1>1 DEF BranchInv
  <1>3. /\ b \in Seq(Blocks) /\ b # <<>> /\ downloaded \in Seq(Blocks \cup {"error"})
        /\ Fetched \in Nat /\ Taken \in Nat /\ Fetched = Taken + Len(downloaded)
    BY <1>1, Lengths DEF DownloadInv
  <1>4. /\ block \in Blocks /\ block = b[1] /\ Len(rest) = Len(b) - 1 /\ Len(b) \in Nat /\ Len(b) >= 1
        /\ \A i \in 1 .. Len(rest) : rest[i] = b[i + 1]
    BY <1>3
  <1> HIDE DEF b, block, rest
  <1>5. /\ Fetched + 1 <= Len(Branch) /\ block = Branch[Fetched + 1] /\ At(rest, Fetched + 1)
    <2>1. 1 \in 1 .. Len(b) /\ Fetched + Len(b) <= Len(Branch)
      BY <1>2, <1>4 DEF At
    <2>2. \A i \in 1 .. Len(rest) : rest[i] = Branch[(Fetched + 1) + i]
      <3> TAKE i \in 1 .. Len(rest)
      <3>1. i + 1 \in 1 .. Len(b) /\ Fetched + (i + 1) = (Fetched + 1) + i
        BY <1>3, <1>4
      <3>2. rest[i] = b[i + 1] /\ b[i + 1] = Branch[Fetched + (i + 1)]
        BY <1>2, <1>4, <3>1 DEF At
      <3> QED BY <3>1, <3>2
    <2>3. Fetched + 1 + Len(rest) <= Len(Branch)
      BY <1>3, <1>4, <2>1, BranchFacts
    <2> QED BY <1>2, <1>3, <1>4, <2>1, <2>2, <2>3, BranchFacts DEF At
  <1>6. Len(downloaded') = Len(downloaded) + 1 /\ Taken' = Taken /\ Fetched' = Fetched + 1
    <2>1. Len(downloaded') = Len(downloaded) + 1 /\ Len(downloaded) \in Nat
      BY <1>1, <1>3
    <2>2. Taken' = Taken
      BY Zenon, <1>1 DEF Taken
    <2>3. Fetched' = Taken' + Len(downloaded')
      BY Zenon DEF Fetched
    <2>4. Taken + (Len(downloaded) + 1) = Taken + Len(downloaded) + 1
      BY <1>3, <2>1
    <2> QED BY <1>3, <2>1, <2>2, <2>3, <2>4
  <1>7. \A i \in 1 .. Len(downloaded') :
           downloaded'[i] # "error" /\ Taken + i <= Len(Branch) /\ downloaded'[i] = Branch[Taken + i]
    <2> TAKE i \in 1 .. Len(downloaded')
    <2>1. CASE i \in 1 .. Len(downloaded)
      <3>1. downloaded'[i] = downloaded[i]
        BY <1>1, <1>3, <2>1
      <3> QED BY <1>2, <2>1, <3>1
    <2>2. CASE i = Len(downloaded) + 1
      <3>1. downloaded'[i] = block
        BY <1>1, <1>3, <2>2
      <3>2. Taken + i = Fetched + 1
        BY <1>3, <2>2
      <3>3. block # "error"
        BY <1>4, DownloadAssumption
      <3> QED BY <1>5, <3>1, <3>2, <3>3
    <2> QED BY <1>3, <1>6, <2>1, <2>2
  <1>8. Fetched' # 0
    BY <1>3, <1>6
  <1>9. /\ downloader'.step \in {"end", "send", "loop"}
        /\ downloader'.step # "end" => downloader'.blocks \in {rest, <<>>} /\ downloader'.lastFetched = block
        /\ downloader'.step # "end" /\ downloader'.blocks = <<>> => rest = <<>>
        /\ downloader'.step = "loop" => downloader'.start = block
    BY <1>1 DEF DownloadInv, Downloaders
  <1>10. downloader'.step # "end" => At(downloader'.blocks, Fetched')
    BY Zenon, <1>5, <1>6, <1>9
  <1>11. At(consumer'.blocks, 0)
    BY <1>1, <1>2
  <1> QED BY ZenonT(40), <1>5, <1>6, <1>7, <1>8, <1>9, <1>10, <1>11 DEF BranchInv, At

\* The consumer takes the next block.
LEMMA TakeBranch == ASSUME DownloadInv, BranchInv, TakeBlock PROVE BranchInv'
  <1> SUFFICES ASSUME ofBranch', consumer'.step # "failed" PROVE BranchInv'
    BY Zenon DEF BranchInv
  <1> DEFINE c == consumer.blocks
             d == downloaded
             block == Head(d)
  <1>1. /\ d \in Seq(Blocks \cup {"error"}) /\ d # <<>> /\ block \in Valid
        /\ consumer.step = "range" /\ c \in Seq(Blocks)
        /\ downloaded' = Tail(d) /\ consumer'.blocks = Append(c, block)
        /\ UNCHANGED <<downloader, ofBranch>>
    BY DEF DownloadInv, TakeBlock
  <1>2. /\ At(c, 0)
        /\ \A i \in 1 .. Len(d) :
              d[i] # "error" => Taken + i <= Len(Branch) /\ d[i] = Branch[Taken + i]
        /\ downloader.step # "end" =>
              /\ \A i \in 1 .. Len(d) : d[i] # "error"
              /\ At(downloader.blocks, Fetched)
              /\ downloader.lastFetched = IF Fetched = 0 THEN Nil ELSE Branch[Fetched]
        /\ downloader.step \in {"loop", "request"} =>
              downloader.start \in IF Fetched = 0 THEN {Common, Nil} ELSE {Branch[Fetched]}
    BY Zenon, <1>1 DEF BranchInv
  <1>3. block \in Blocks /\ block # "error"
    BY <1>1, DownloadAssumption
  <1>4. /\ Len(d) \in Nat /\ Len(d) >= 1 /\ block = d[1] /\ Len(Tail(d)) = Len(d) - 1
        /\ \A i \in 1 .. Len(Tail(d)) : Tail(d)[i] = d[i + 1]
    BY <1>1
  <1>5. /\ Len(c) \in Nat /\ Len(Append(c, block)) = Len(c) + 1
        /\ \A i \in 1 .. Len(c) : Append(c, block)[i] = c[i]
        /\ Append(c, block)[Len(c) + 1] = block
    BY <1>1, <1>3
  <1> HIDE DEF block
  <1>6. Taken = Len(c) /\ Taken' = Taken + 1 /\ Fetched' = Fetched
    <2>1. Taken = Len(c) /\ Taken' = Len(c) + 1 /\ Len(downloaded') = Len(d) - 1
      BY <1>1, <1>4, <1>5 DEF Taken
    <2>2. Fetched = Len(c) + Len(d) /\ Fetched' = (Len(c) + 1) + (Len(d) - 1)
      BY <2>1 DEF Fetched
    <2> HIDE DEF c, d
    <2> QED BY <1>4, <1>5, <2>1, <2>2
  <1>7. Len(c) + 1 <= Len(Branch) /\ block = Branch[Len(c) + 1]
    <2>1. 1 \in 1 .. Len(d)
      BY <1>4
    <2> QED BY <1>2, <1>3, <1>4, <1>6, <2>1
  <1>8. At(consumer'.blocks, 0)
    <2> DEFINE e == Append(c, block)
    <2>1. consumer'.blocks = e /\ Len(e) = Len(c) + 1 /\ Len(c) \in Nat
          /\ (\A i \in 1 .. Len(c) : e[i] = c[i]) /\ e[Len(c) + 1] = block
      BY <1>1, <1>5
    <2> HIDE DEF e, c, d
    <2>2. \A i \in 1 .. Len(c) : c[i] = Branch[0 + i]
      BY <1>2 DEF At
    <2>3. \A i \in 1 .. Len(e) : e[i] = Branch[0 + i]
      <3> TAKE i \in 1 .. Len(e)
      <3>1. i \in 1 .. Len(c) \/ i = Len(c) + 1
        BY <2>1
      <3>2. 0 + (Len(c) + 1) = Len(c) + 1
        BY <2>1
      <3> QED BY <1>7, <2>1, <2>2, <3>1, <3>2
    <2>4. 0 + Len(e) <= Len(Branch)
      BY <1>7, <2>1
    <2> QED BY <2>1, <2>3, <2>4 DEF At
  <1>9. \A i \in 1 .. Len(downloaded') :
           /\ downloaded'[i] = d[i + 1] /\ i + 1 \in 1 .. Len(d)
           /\ Taken' + i = Taken + (i + 1)
    <2> TAKE i \in 1 .. Len(downloaded')
    <2>1. i \in 1 .. Len(Tail(d)) /\ downloaded'[i] = d[i + 1]
      BY <1>1, <1>4
    <2>2. i + 1 \in 1 .. Len(d)
      BY <1>4, <2>1
    <2>3. Taken \in Nat /\ i \in Nat
      BY <1>4, <1>5, <1>6, <2>1
    <2>4. (Taken + 1) + i = Taken + (i + 1)
      BY <2>3
    <2> QED BY <1>6, <2>1, <2>2, <2>4
  <1>10. \A i \in 1 .. Len(downloaded') :
            downloaded'[i] # "error" => Taken' + i <= Len(Branch) /\ downloaded'[i] = Branch[Taken' + i]
    <2> TAKE i \in 1 .. Len(downloaded')
    <2> HIDE DEF c, d
    <2> QED BY <1>2, <1>9
  <1>11. downloader.step # "end" => \A i \in 1 .. Len(downloaded') : downloaded'[i] # "error"
    <2> HIDE DEF c, d
    <2> QED BY <1>2, <1>9
  <1> HIDE DEF c, d
  <1> QED BY ZenonT(40), <1>1, <1>2, <1>6, <1>8, <1>10, <1>11 DEF BranchInv, At

\* Every step keeps the pieces of the branch together.
LEMMA NextBranchInv == DownloadInv /\ BranchInv /\ [Next]_vars => BranchInv'
  <1> SUFFICES ASSUME DownloadInv, BranchInv, [Next]_vars PROVE BranchInv'
    OBVIOUS
  <1>1. ASSUME UNCHANGED <<downloaded, ofBranch>>, consumer'.blocks = consumer.blocks,
               downloader' = downloader \/ downloader' = [downloader EXCEPT !.step = "request"],
               consumer.step # "failed", downloader.step = "loop" \/ downloader' = downloader
        PROVE  BranchInv'
    <2>1. Taken' = Taken /\ Fetched' = Fetched
      BY <1>1 DEF Taken, Fetched
    <2>2. /\ downloader'.blocks = downloader.blocks /\ downloader'.start = downloader.start
          /\ downloader'.lastFetched = downloader.lastFetched
          /\ downloader' = downloader \/ (downloader.step = "loop" /\ downloader'.step = "request")
      BY <1>1 DEF DownloadInv, Downloaders
    <2> QED BY ZenonT(40), <1>1, <2>1, <2>2 DEF BranchInv, At
  <1>2. ASSUME consumer'.step = "failed" PROVE BranchInv'
    BY <1>2 DEF BranchInv
  <1>3. ASSUME UNCHANGED dlVars PROVE BranchInv'
    BY <1>3 DEF dlVars, BranchInv, At, Taken, Fetched
  <1>4. CASE NextSync
    <2>1. /\ downloader' = NewDownloader /\ downloaded' = <<>> /\ consumer'.blocks = <<>>
      BY <1>4 DEF NextSync
    <2>2. (downloader = NewDownloader /\ downloaded = <<>> /\ consumer.blocks = <<>> => BranchInv)'
      BY NothingYet, PTL
    <2> QED BY <2>1, <2>2 DEF NewDownloader
  <1>5. CASE RequestBlocks
    <2>1. CASE consumer.step = "failed"
      BY <1>2, <1>5, <2>1 DEF RequestBlocks
    <2> QED BY Zenon, <1>1, <1>5, <2>1 DEF RequestBlocks
  <1>6. CASE Shutdown
    BY <1>6 DEF Shutdown, BranchInv, At, Taken, Fetched
  <1>7. CASE TakeClosed
    <2>1. /\ consumer.step = "range" /\ consumer'.blocks = consumer.blocks
          /\ UNCHANGED <<downloaded, ofBranch, downloader>>
      BY <1>7 DEF TakeClosed, DownloadInv
    <2> QED BY <1>1, <2>1
  <1>8. CASE TakeError \/ TakeInvalid
    <2>1. consumer'.step = "failed"
      BY <1>8 DEF TakeError, TakeInvalid, DownloadInv
    <2> QED BY <1>2, <2>1
  <1>9. CASE StopLoop \/ ReceiveError
    BY <1>9, EndBranch
  <1>10. CASE SendBlock
    BY <1>10, SendBranch
  <1>11. CASE TakeBlock
    BY <1>11, TakeBranch
  <1>12. CASE \E blocks \in Answers : Receive(blocks)
    BY <1>12, ReceiveBranch
  <1>13. CASE UNCHANGED vars
    BY <1>3, <1>13 DEF vars
  <1> QED
    BY Zenon, <1>3, <1>4, <1>5, <1>6, <1>7, <1>8, <1>9, <1>10, <1>11, <1>12, <1>13 DEF Next, Download, Consume

-----------------------------------------------------------------------------
\* The inductive invariant of requests and downloads.
THEOREM DownloadInvariant == Spec => [](NetInv /\ DownloadInv /\ BranchInv)
  <1>1. Init => BranchInv
    BY NothingYet DEF Init
  <1> QED BY <1>1, InitDownloadInv, NextNetInv, NextDownloadInv, NextBranchInv, PTL DEF Spec

\* The calls, handlers and peers have their types, and no request is tried
\* more often than messageMaxRetries allows.
THEOREM DownloadTypeCorrect == Spec => []NetTypeOK
  <1>1. NetInv => NetTypeOK
    <2> SUFFICES ASSUME NetInv PROVE NetTypeOK
      OBVIOUS
    <2>1. \A k \in Calls : call[k] \in CallRecords
      BY CallParts
    <2> QED BY <2>1 DEF NetTypeOK, NetInv, CallRecords, Handlers
  <1> QED BY <1>1, DownloadInvariant, PTL

\* A call is given the answer to its own request and attempt only, however
\* late the answers to earlier ones arrive.
THEOREM DownloadAnswerIsOwn == Spec => []AnswerIsOwn
  <1>1. NetInv => AnswerIsOwn
    <2> SUFFICES ASSUME NetInv, NEW k \in Calls, NEW r \in {call[k].got, call[k].result}, IsAnswer(r)
                 PROVE  r = Answer(ID(k))
      BY DEF AnswerIsOwn
    <2>1. CallOk(call[k], k)
      BY CallParts
    <2> QED BY <2>1 DEF CallOk, ID
  <1> QED BY <1>1, DownloadInvariant, PTL

\* Every registered channel has a request that will remove it, and resMu is
\* held for a registered channel only.
THEOREM DownloadChannelsAreOwned == Spec => []ChannelsAreOwned
  <1>1. NetInv => ChannelsAreOwned
    BY DEF NetInv
  <1> QED BY <1>1, DownloadInvariant, PTL

\* A download that ends without an error has the block the sync aims at,
\* unless the node is being stopped, and the whole branch up to it from a
\* peer that answers with the blocks of its branch.
THEOREM DownloadComplete == Spec => []DownloadIsComplete
  <1>1. DownloadInv /\ BranchInv => DownloadIsComplete
    <2> SUFFICES ASSUME DownloadInv, BranchInv, consumer.step = "done", stopped # "shutdown"
                 PROVE  /\ consumer.blocks # <<>> /\ consumer.blocks[Len(consumer.blocks)] = End
                        /\ ofBranch => consumer.blocks = SubSeq(Branch, 1, Len(consumer.blocks))
      BY Zenon DEF DownloadIsComplete
    <2>1. consumer.blocks # <<>> /\ consumer.blocks[Len(consumer.blocks)] = End
      BY DEF DownloadInv
    <2>2. ASSUME ofBranch PROVE consumer.blocks = SubSeq(Branch, 1, Len(consumer.blocks))
      <3> DEFINE c == consumer.blocks
      <3>1. c \in Seq(Blocks) /\ Len(c) \in Nat
        BY Lengths
      <3>2. At(c, 0)
        BY <2>2 DEF BranchInv
      <3> HIDE DEF c
      <3>3. Len(c) <= Len(Branch) /\ \A i \in 1 .. Len(c) : c[i] = Branch[i]
        BY <3>1, <3>2 DEF At
      <3>4. Branch \in Seq(Blocks) /\ Len(Branch) \in Nat
        BY DownloadAssumption
      <3>5. c = SubSeq(Branch, 1, Len(c))
        BY <3>1, <3>3, <3>4
      <3> QED BY <3>5 DEF c
    <2> QED BY <2>1, <2>2
  <1> QED BY <1>1, DownloadInvariant, PTL

=============================================================================
