----------------------------- MODULE Messaging ------------------------------
(***************************************************************************)
(* Requests between peers: the message protocol of pkg/p2p with its        *)
(* response channels, timeout and retries, the bans that close and refuse  *)
(* connections, and the callers in consensus/sync/request.go, which give a *)
(* request a deadline of their own.                                        *)
(*                                                                         *)
(* A call has two goroutines.  The outer one waits on respChan for the     *)
(* answer or the deadline; the inner one is RequestFrom: it sends, only    *)
(* then registers a channel, waits, and removes the channel.  Every        *)
(* message that arrives has a goroutine too.  Durations are left out: a    *)
(* timer may fire at any moment after it was set.                          *)
(***************************************************************************)
EXTENDS Integers, Sequences, FiniteSets

CONSTANTS Peers,
          MaxCalls,           \* bound: calls made
          messageMaxRetries

ASSUME MessagingAssumption ==
    MaxCalls \in Nat /\ messageMaxRetries \in Nat

VARIABLES call,      \* the calls made, in order
          sent,      \* requests on their way to a peer or being handled by it
          resCh,     \* request IDs with a registered channel
          resMu,     \* Free, or the ID of the message whose handler holds it
          handler,   \* goroutines of onResponse
          banned,    \* peers with an expiration in the gater
          connected

msgVars == <<call, sent, resCh, resMu, handler>>
gateVars == <<banned, connected>>
netVars == <<msgVars, gateVars>>

Calls == DOMAIN call
ID(k) == <<k, call[k].attempt>>   \* a fresh uuid for every attempt

Free == <<>>                      \* nobody holds resMu

(* No answer, an answer to the request of that ID, or why there is none.   *)
None == <<>>
Answer(id) == <<"answer", id>>
Failure(why) == <<why>>
IsAnswer(r) == Len(r) = 2

InitNet ==
    /\ call = <<>> /\ sent = {} /\ resCh = {} /\ resMu = Free /\ handler = {}
    /\ banned = {} /\ connected = Peers

-----------------------------------------------------------------------------
(* The caller.                                                             *)
Call(p) ==
    /\ Len(call) < MaxCalls
    /\ call' = Append(call, [peer |-> p, inner |-> "send", attempt |-> 0, got |-> None,
                             outer |-> "waiting", expired |-> FALSE, result |-> None])
    /\ UNCHANGED <<sent, resCh, resMu, handler, gateVars>>

Set(k, new) == call' = [call EXCEPT ![k] = new]

(* An answer to a request that has ended finds no channel, and is left out.*)
Finish(k, why) ==
    /\ Set(k, [call[k] EXCEPT !.inner = "reply", !.got = why])
    /\ sent' = {id \in sent : id[1] # k}

(* The deadline of childCtx.                                               *)
Expire(k) ==
    /\ call[k].outer = "waiting" /\ ~call[k].expired
    /\ Set(k, [call[k] EXCEPT !.expired = TRUE])
    /\ UNCHANGED <<sent, resCh, resMu, handler, gateVars>>

\* Mutant: the caller waits for RequestFrom all the same.
ContextEndedAfterReply(k) ==
    /\ call[k].outer = "waiting" /\ call[k].expired /\ call[k].inner = "reply"
    /\ Set(k, [call[k] EXCEPT !.outer = "returned", !.result = Failure("context ended")])
    /\ UNCHANGED <<sent, resCh, resMu, handler, gateVars>>

ContextEnded(k) ==
    /\ call[k].outer = "waiting" /\ call[k].expired
    /\ Set(k, [call[k] EXCEPT !.outer = "returned", !.result = Failure("context ended")])
    /\ UNCHANGED <<sent, resCh, resMu, handler, gateVars>>

(* respChan is not buffered: nobody takes the answer of a call that ended. *)
Reply(k) ==
    /\ call[k].outer = "waiting" /\ call[k].inner = "reply"
    /\ Set(k, [call[k] EXCEPT !.outer = "returned", !.inner = "end", !.expired = TRUE,
                              !.result = call[k].got, !.got = None])
    /\ UNCHANGED <<sent, resCh, resMu, handler, gateVars>>

-----------------------------------------------------------------------------
(* request and sendRequestMessage.  Opening or writing the stream may fail.*)
Send(k) ==
    /\ call[k].inner = "send"
    /\ \/ /\ call[k].peer \in connected
          /\ sent' = sent \cup {ID(k)}
          /\ Set(k, [call[k] EXCEPT !.inner = "register"])
       \/ Finish(k, Failure("send"))
    /\ UNCHANGED <<resCh, resMu, handler, gateVars>>

Register(k) ==
    /\ call[k].inner = "register" /\ resMu = Free
    /\ resCh' = resCh \cup {ID(k)}
    /\ Set(k, [call[k] EXCEPT !.inner = "wait"])
    /\ UNCHANGED <<sent, resMu, handler, gateVars>>

Timeout(k) ==
    /\ call[k].inner = "wait"
    /\ Set(k, [call[k] EXCEPT !.inner = "delete", !.got = Failure("timeout")])
    /\ UNCHANGED <<sent, resCh, resMu, handler, gateVars>>

Cancelled(k) ==
    /\ call[k].inner = "wait" /\ call[k].expired
    /\ Set(k, [call[k] EXCEPT !.inner = "delete", !.got = Failure("context")])
    /\ UNCHANGED <<sent, resCh, resMu, handler, gateVars>>

\* Mutant: the retries are not counted.
DeleteForever(k) ==
    /\ call[k].inner = "delete" /\ resMu = Free
    /\ resCh' = resCh \ {ID(k)}
    /\ IF call[k].got = Failure("timeout")
       THEN Set(k, [call[k] EXCEPT !.inner = "send", !.got = None]) /\ UNCHANGED sent
       ELSE Finish(k, call[k].got)
    /\ UNCHANGED <<resMu, handler, gateVars>>

\* Mutant: the channel of a request that timed out stays.
DeleteAnsweredOnly(k) ==
    /\ call[k].inner = "delete" /\ resMu = Free
    /\ resCh' = IF IsAnswer(call[k].got) THEN resCh \ {ID(k)} ELSE resCh
    /\ IF call[k].got = Failure("timeout") /\ call[k].attempt < messageMaxRetries
       THEN Set(k, [call[k] EXCEPT !.inner = "send", !.attempt = @ + 1, !.got = None]) /\ UNCHANGED sent
       ELSE Finish(k, call[k].got)
    /\ UNCHANGED <<resMu, handler, gateVars>>

Delete(k) ==
    /\ call[k].inner = "delete" /\ resMu = Free
    /\ resCh' = resCh \ {ID(k)}
    /\ IF call[k].got = Failure("timeout") /\ call[k].attempt < messageMaxRetries
       THEN Set(k, [call[k] EXCEPT !.inner = "send", !.attempt = @ + 1, !.got = None]) /\ UNCHANGED sent
       ELSE Finish(k, call[k].got)
    /\ UNCHANGED <<resMu, handler, gateVars>>

-----------------------------------------------------------------------------
(* A peer responds to a request once at most.                              *)
Respond(id) ==
    LET p == call[id[1]].peer
    IN  /\ p \in connected
        /\ handler' = handler \cup {[id |-> id, step |-> "handle"]}
        /\ sent' = sent \ {id}
        /\ UNCHANGED <<call, resCh, resMu, gateVars>>

(* BanPeer bans the addresses the peer is connected from and disconnects.  *)
BanPeer(p) ==
    /\ banned' = IF p \in connected THEN banned \cup {p} ELSE banned
    /\ connected' = connected \ {p}

Step(h, s) == handler' = (handler \ {h}) \cup {[h EXCEPT !.step = s]}

(* The channel is looked up under resMu, which is kept until it is read.   *)
HandleResponse(h) ==
    /\ h.step = "handle" /\ resMu = Free
    /\ IF h.id \in resCh THEN resMu' = h.id /\ Step(h, "deliver")
       ELSE handler' = handler \ {h} /\ UNCHANGED resMu
    /\ UNCHANGED <<call, sent, resCh, gateVars>>

\* Mutant: whoever waits gets the answer.
DeliverToAny(h, k) ==
    /\ h.step = "deliver" /\ call[k].inner = "wait"
    /\ Set(k, [call[k] EXCEPT !.inner = "delete", !.got = Answer(h.id)])
    /\ handler' = handler \ {h}
    /\ resMu' = Free
    /\ UNCHANGED <<sent, resCh, gateVars>>

Deliver(h, k) ==
    /\ h.step = "deliver" /\ call[k].inner = "wait" /\ ID(k) = h.id
    /\ Set(k, [call[k] EXCEPT !.inner = "delete", !.got = Answer(h.id)])
    /\ handler' = handler \ {h}
    /\ resMu' = Free
    /\ UNCHANGED <<sent, resCh, gateVars>>

-----------------------------------------------------------------------------
(* The ban expires and the gater's ticker forgets the peer.                *)
Forget(p) ==
    /\ p \in banned
    /\ banned' = banned \ {p}
    /\ UNCHANGED <<msgVars, connected>>

(* isPeerConnectionAllowed, asked before a connection is made.             *)
Connect(p) ==
    /\ p \notin connected \cup banned
    /\ connected' = connected \cup {p}
    /\ UNCHANGED <<msgVars, banned>>

-----------------------------------------------------------------------------
Inner(k) == Send(k) \/ Register(k) \/ Timeout(k) \/ Cancelled(k) \/ Delete(k)
Outer(k) == Expire(k) \/ ContextEnded(k) \/ Reply(k)
Handle(h) == HandleResponse(h) \/ \E k \in Calls : Deliver(h, k)

NextNet ==
    \/ \E k \in Calls : Inner(k) \/ Outer(k)
    \/ \E h \in handler : Handle(h)
    \/ \E id \in sent : Respond(id)
    \/ \E p \in Peers : Forget(p) \/ Connect(p)

(* Timers fire and the runtime schedules every goroutine that can go on;   *)
(* nothing is assumed of the peers.                                        *)
FairNet ==
    /\ \A k \in 1 .. MaxCalls :
          WF_netVars(k \in Calls /\ Inner(k)) /\ WF_netVars(k \in Calls /\ Outer(k))
    /\ WF_netVars(\E h \in handler : Handle(h))

-----------------------------------------------------------------------------
NetTypeOK ==
    /\ \A k \in Calls :
          /\ call[k].peer \in Peers
          /\ call[k].attempt \in 0 .. messageMaxRetries
          /\ call[k].inner \in {"send", "register", "wait", "delete", "reply", "end"}
          /\ call[k].outer \in {"waiting", "returned"} /\ call[k].expired \in BOOLEAN
    /\ \A h \in handler : h.step \in {"handle", "deliver"}
    /\ banned \subseteq Peers /\ connected \subseteq Peers

(* A call returns the answer to its own request, and to the attempt it is  *)
(* in: the late answer to an earlier attempt is never taken for it.        *)
AnswerIsOwn ==
    \A k \in Calls : \A r \in {call[k].got, call[k].result} : IsAnswer(r) => r = Answer(ID(k))

(* A registered channel has a goroutine that will remove it, so that resCh *)
(* does not grow with requests that timed out, and whoever holds resMu     *)
(* holds it for a channel that is still registered.                        *)
ChannelsAreOwned ==
    /\ \A id \in resCh : \E k \in Calls : id = ID(k) /\ call[k].inner \in {"wait", "delete"}
    /\ resMu # Free => resMu \in resCh /\ \E h \in handler : h.step = "deliver" /\ h.id = resMu

(* The handler of a late answer holds resMu and sends on a channel whose   *)
(* reader has left the select and waits for resMu.                         *)
Wedged ==
    \E h \in handler : h.step = "deliver" /\ \A k \in Calls : ID(k) = h.id => call[k].inner # "wait"

(* Again and again no call of the synchroniser is waiting, whatever the    *)
(* peer does: the deadline ends the wait even when resMu stays locked.     *)
CallsReturn == []<>(\A k \in Calls : call[k].outer = "returned")

(* RequestFrom has its result after at most messageMaxRetries retries,     *)
(* unless a late answer has taken resMu for good.                          *)
RequestsEnd == []<>(Wedged \/ \A k \in Calls : call[k].inner \in {"reply", "end"})

=============================================================================
