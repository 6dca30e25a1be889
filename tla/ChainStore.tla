----------------------------- MODULE ChainStore -----------------------------
(***************************************************************************)
(* The blockchain data of a node (pkg/blockchain): the tables of the       *)
(* database, the cache of the latest blocks in front of them, the executer *)
(* that adds and removes blocks, and a request handler that reads blocks   *)
(* on another goroutine, one database access or lock at a time.            *)
(*                                                                         *)
(* A block is a height and a fork; the blocks of a fork are linked, and    *)
(* the forks start from the same genesis block.  Every other block has     *)
(* transactions, assets and events, so a table keyed by block ID is the    *)
(* set of the blocks it has an entry for.                                  *)
(***************************************************************************)
EXTENDS Integers, FiniteSets, FiniteSetsExt, Functions

CONSTANTS Forks,                 \* the branches blocks are received from
          MaxHeight,             \* bound: no block is above it
          MaxBlockCache,         \* maxBlockCache of the configuration
          KeepEventsForHeights,  \* keepEventsForHeights, -1 to keep all
          MaxCrashes,            \* bound on the number of restarts
          MaxRequests,           \* bound on the number of requests served
          MaxFetches             \* bound on the blocks one request asks for

ASSUME ChainStoreAssumption ==
    /\ MaxHeight \in Nat \ {0} /\ MaxBlockCache \in Nat \ {0}
    /\ KeepEventsForHeights \in Nat \cup {-1}
    /\ MaxCrashes \in Nat /\ MaxRequests \in Nat /\ MaxFetches \in Nat

VARIABLES store,     \* the database
          cache,     \* blockCache: blocks by height, size, currentHeight
          exec,      \* the step of AddBlock or RemoveBlock the executer is at
          reader,    \* the request being served, its step and its fetches
          running,   \* the process is up
          seen,      \* history: what the chain had at each height since the request began
          crashes, requests

vars == <<store, cache, exec, reader, running, seen, crashes, requests>>

-----------------------------------------------------------------------------
Heights == 0 .. MaxHeight
Genesis == [height |-> 0, fork |-> CHOOSE f \in Forks : TRUE]
Block == {Genesis} \cup [height : 1 .. MaxHeight, fork : Forks]
Linked(p, b) == b.height = p.height + 1 /\ (p = Genesis \/ b.fork = p.fork)

None == [height |-> -1, fork |-> "none"]

Tip(s) == Max(DOMAIN s.heights)

-----------------------------------------------------------------------------
(* blockCache.                                                             *)

newBlockCache == [blocks |-> <<>>, size |-> 0, currentHeight |-> 0]

\* Mutant: a height above the cached ones gives the last block.
getByHeightClamped(c, h) ==
    IF DOMAIN c.blocks = {} \/ h < Min(DOMAIN c.blocks) THEN None
    ELSE c.blocks[Min({h, Max(DOMAIN c.blocks)})]

getByHeight(c, h) == IF h \in DOMAIN c.blocks THEN c.blocks[h] ELSE None
last(c) == getByHeight(c, c.currentHeight)
get(c, b) == IF \E h \in DOMAIN c.blocks : c.blocks[h] = b THEN b ELSE None

(* A push that fails changes nothing.                                      *)
push(c, b) ==
    LET oldest == c.currentHeight - MaxBlockCache + 1
        full == c.size >= MaxBlockCache
        kept == IF full THEN Restrict(c.blocks, DOMAIN c.blocks \ {oldest}) ELSE c.blocks
    IN  IF (c.size # 0 /\ b.height # c.currentHeight + 1) \/ (full /\ oldest \notin DOMAIN c.blocks)
        THEN c
        ELSE [blocks |-> [h \in DOMAIN kept \cup {b.height} |-> IF h = b.height THEN b ELSE kept[h]],
              size |-> IF full THEN c.size ELSE c.size + 1,
              currentHeight |-> b.height]

\* Mutant: the height of the last block is not stepped back.
popKeepsHeight(c) ==
    IF c.size = 0 THEN c
    ELSE [c EXCEPT !.blocks = Restrict(@, DOMAIN @ \ {c.currentHeight}), !.size = @ - 1]

pop(c) ==
    IF c.size = 0 THEN c
    ELSE [blocks |-> Restrict(c.blocks, DOMAIN c.blocks \ {c.currentHeight}),
          size |-> c.size - 1,
          currentHeight |-> c.currentHeight - 1]

-----------------------------------------------------------------------------
(* The tables.                                                             *)

EmptyStore == [headers |-> {}, heights |-> <<>>, txIDs |-> {}, txs |-> {}, assets |-> {},
               events |-> {}, temp |-> {}, finalized |-> 0]

\* Mutant: the larger of the two heights bounds the deletion.
ObsoleteEventsUnfinal(height, finalized) ==
    IF KeepEventsForHeights = -1 THEN {}
    ELSE LET minDelete == Max({finalized, Max({0, height - KeepEventsForHeights})})
         IN  IF minDelete > 0 THEN 0 .. minDelete ELSE {}

(* The events that adding a block at this height makes obsolete.           *)
ObsoleteEvents(height, finalized) ==
    IF KeepEventsForHeights = -1 THEN {}
    ELSE LET minDelete == Min({finalized, Max({0, height - KeepEventsForHeights})})
         IN  IF minDelete > 0 THEN 0 .. minDelete ELSE {}

saveBlock(s, b, finalized, removeTemp) ==
    [headers |-> s.headers \cup {b},
     heights |-> [h \in DOMAIN s.heights \cup {b.height} |-> IF h = b.height THEN b ELSE s.heights[h]],
     txIDs |-> IF b = Genesis THEN s.txIDs ELSE s.txIDs \cup {b},
     txs |-> IF b = Genesis THEN s.txs ELSE s.txs \cup {b},
     assets |-> s.assets \cup {b},
     events |-> (s.events \ ObsoleteEvents(b.height, finalized)) \cup {b.height},
     temp |-> IF removeTemp THEN {t \in s.temp : t.height # b.height} ELSE s.temp,
     finalized |-> finalized]

\* Mutant: the assets stay.
removeBlockKeepsAssets(s, b, saveTemp) ==
    [s EXCEPT !.headers = @ \ {b},
              !.heights = Restrict(@, DOMAIN @ \ {b.height}),
              !.txIDs = @ \ {b}, !.txs = @ \ {b},
              !.events = @ \ {b.height},
              !.temp = IF saveTemp THEN {t \in @ : t.height # b.height} \cup {b} ELSE @]

removeBlock(s, b, saveTemp) ==
    [s EXCEPT !.headers = @ \ {b},
              !.heights = Restrict(@, DOMAIN @ \ {b.height}),
              !.txIDs = @ \ {b}, !.txs = @ \ {b}, !.assets = @ \ {b},
              !.events = @ \ {b.height},
              !.temp = IF saveTemp THEN {t \in @ : t.height # b.height} \cup {b} ELSE @]

(* PrepareCache pushes the blocks below the last one, oldest first.        *)
PrepareCache(s) ==
    LET from == Max({0, Tip(s) - MaxBlockCache})
        load[h \in from .. Tip(s)] ==
            push(IF h = from THEN newBlockCache ELSE load[h - 1], s.heights[h])
    IN  load[Tip(s)]

-----------------------------------------------------------------------------
NothingSeen == [h \in Heights |-> {}]
NoRequest == [op |-> "none", step |-> "idle", header |-> None, fetch |-> <<>>]
Idle == [step |-> "idle", block |-> None]

BlockAt(s, h) == IF h \in DOMAIN s.heights THEN s.heights[h] ELSE None

(* The block of the chain at each height, None above the last one.  The    *)
(* block that RemoveBlock removes is also of the chain until it returns.   *)
OnChain(s, e) ==
    [h \in Heights |-> {BlockAt(s, h)} \cup
                       (IF e.step \in {"erased", "pop"} /\ e.block.height = h THEN {e.block} ELSE {})]

Saw ==
    seen' = IF reader.step = "idle" THEN seen
            ELSE [h \in Heights |-> seen[h] \cup OnChain(store', exec')[h]]

(* The request ends, with an answer or without.                            *)
EndRequest == reader' = NoRequest /\ seen' = NothingSeen

Init ==
    /\ store = saveBlock(EmptyStore, Genesis, 0, FALSE)
    /\ cache = push(newBlockCache, Genesis)
    /\ exec = Idle
    /\ reader = NoRequest
    /\ running = TRUE
    /\ seen = NothingSeen
    /\ crashes = 0 /\ requests = 0

(* The cache's mutex: a writer waits for the readers that hold it, and a   *)
(* reader cannot enter while a writer holds it or waits for it.            *)
ReadLocked == reader.step = "lastInner"
WriterWaits == exec.step \in {"push", "pop"}
CanRLock == ~WriterWaits

(* A nil block is dereferenced: the process goes down.                     *)
Panic ==
    /\ running' = FALSE
    /\ UNCHANGED <<store, cache, exec, reader, seen, crashes, requests>>

-----------------------------------------------------------------------------
(* AddBlock writes the batch; Cache then takes the lock and pushes.        *)
AddBlock(b, finalized, removeTemp) ==
    /\ running /\ exec.step = "idle"
    /\ last(cache) # None /\ Linked(last(cache), b)
    /\ store.finalized <= finalized /\ finalized < b.height
    /\ store' = saveBlock(store, b, finalized, removeTemp)
    /\ exec' = [step |-> "written", block |-> b]
    /\ Saw
    /\ UNCHANGED <<cache, reader, running, crashes, requests>>

(* RemoveBlock takes the last block from the cache; the executer removes   *)
(* no block that is finalized.                                             *)
RemoveBlock(saveTemp) ==
    /\ running /\ exec.step = "idle"
    /\ last(cache) # None
    /\ last(cache).height > store.finalized /\ last(cache) # Genesis
    /\ store' = removeBlock(store, last(cache), saveTemp)
    /\ exec' = [step |-> "erased", block |-> last(cache)]
    /\ Saw
    /\ UNCHANGED <<cache, reader, running, crashes, requests>>

RemoveBlockPanics ==
    /\ running /\ exec.step = "idle"
    /\ last(cache) = None
    /\ Panic

LockCache ==
    /\ running
    /\ \/ exec.step = "written" /\ exec' = [exec EXCEPT !.step = "push"]
       \/ exec.step = "erased" /\ exec' = [exec EXCEPT !.step = "pop"]
    /\ UNCHANGED <<store, cache, reader, running, seen, crashes, requests>>

UpdateCache ==
    /\ running /\ WriterWaits /\ ~ReadLocked
    /\ cache' = IF exec.step = "push" THEN push(cache, exec.block) ELSE pop(cache)
    /\ exec' = Idle
    /\ UNCHANGED <<store, reader, running, seen, crashes, requests>>

-----------------------------------------------------------------------------
(* Requests.  getLastBlock answers with the cached last block;             *)
(* getBlocksFromID reads a header, then the last block, then every height  *)
(* in between on a goroutine of its own; getBlockByHeight fetches one.     *)

Fetch(step) == [step |-> step, block |-> None, txs |-> FALSE, assets |-> FALSE]

Request(op, h, b) ==
    /\ running /\ reader.step = "idle" /\ requests < MaxRequests
    /\ requests' = requests + 1
    /\ seen' = OnChain(store, exec)
    /\ CASE op = "getLastBlock" ->
              reader' = [NoRequest EXCEPT !.op = op, !.step = "last"]
         [] op = "getBlocksFromID" ->
              /\ MaxHeight - b.height <= MaxFetches
              /\ reader' = [NoRequest EXCEPT !.op = op, !.step = "header", !.header = b]
         [] op = "getBlockByHeight" ->
              reader' = [NoRequest EXCEPT !.op = op, !.step = "fetch", !.fetch = [k \in {h} |-> Fetch("cache")]]
    /\ UNCHANGED <<store, cache, exec, running, crashes>>

(* GetBlockHeader: from the cache, or from the database.                   *)
ReadHeader ==
    /\ running /\ reader.step = "header" /\ CanRLock
    /\ IF get(cache, reader.header) # None \/ reader.header \in store.headers
       THEN reader' = [reader EXCEPT !.step = "last"] /\ seen' = seen
       ELSE EndRequest
    /\ UNCHANGED <<store, cache, exec, running, crashes, requests>>

(* last() holds the read lock while getByHeight takes it again.            *)
LastOuter ==
    /\ running /\ reader.step = "last" /\ CanRLock
    /\ reader' = [reader EXCEPT !.step = "lastInner"]
    /\ UNCHANGED <<store, cache, exec, running, seen, crashes, requests>>

(* The range is computed in uint32: an end below the start wraps around    *)
(* and the slice for the blocks cannot be made.                            *)
LastInner ==
    /\ running /\ reader.step = "lastInner" /\ CanRLock
    /\ LET from == reader.header.height + 1
           to == last(cache).height
       IN  CASE last(cache) = None -> Panic
             [] last(cache) # None /\ reader.op = "getLastBlock" ->
                  /\ EndRequest
                  /\ UNCHANGED <<store, cache, exec, running, crashes, requests>>
             [] last(cache) # None /\ reader.op # "getLastBlock" /\ to + 1 < from -> Panic
             [] OTHER ->
                  /\ reader' = [reader EXCEPT !.step = "fetch",
                                              !.fetch = [h \in from .. to |-> Fetch("cache")]]
                  /\ UNCHANGED <<store, cache, exec, running, seen, crashes, requests>>

(* GetBlockByHeight: one access of the cache or of the database per step.  *)
FetchStep(h) ==
    LET f == reader.fetch[h]
        Becomes(g) == reader' = [reader EXCEPT !.fetch[h] = g]
        cached == getByHeight(cache, h)
    IN  /\ running /\ reader.step = "fetch" /\ h \in DOMAIN reader.fetch
        /\ \/ /\ f.step = "cache" /\ CanRLock
              /\ Becomes(IF cached = None THEN Fetch("id")
                         ELSE [step |-> "done", block |-> cached, txs |-> TRUE, assets |-> TRUE])
           \/ /\ f.step = "id"
              /\ Becomes(IF h \in DOMAIN store.heights
                         THEN [f EXCEPT !.step = "header", !.block = store.heights[h]]
                         ELSE Fetch("failed"))
           \/ /\ f.step = "header"
              /\ Becomes(IF f.block \in store.headers THEN [f EXCEPT !.step = "txIDs"] ELSE Fetch("failed"))
           \/ /\ f.step = "txIDs"
              /\ Becomes(IF f.block \in store.txIDs THEN [f EXCEPT !.step = "txs"]
                         ELSE [f EXCEPT !.step = "assets", !.txs = f.block = Genesis])
           \/ /\ f.step = "txs"
              /\ Becomes(IF f.block \in store.txs THEN [f EXCEPT !.step = "assets", !.txs = TRUE]
                         ELSE Fetch("failed"))
           \/ /\ f.step = "assets"
              /\ Becomes([f EXCEPT !.step = "done", !.assets = f.block \in store.assets])
        /\ UNCHANGED <<store, cache, exec, running, seen, crashes, requests>>

(* Wait returns when every goroutine has ended; one failure fails all.     *)
Answer ==
    /\ running /\ reader.step = "fetch"
    /\ \A h \in DOMAIN reader.fetch : reader.fetch[h].step \in {"done", "failed"}
    /\ EndRequest
    /\ UNCHANGED <<store, cache, exec, running, crashes, requests>>

-----------------------------------------------------------------------------
Crash ==
    /\ running /\ crashes < MaxCrashes
    /\ Panic

Restart ==
    /\ ~running /\ crashes < MaxCrashes
    /\ running' = TRUE
    /\ crashes' = crashes + 1
    /\ cache' = PrepareCache(store)
    /\ exec' = Idle
    /\ EndRequest
    /\ UNCHANGED <<store, requests>>

Execute ==
    \/ \E b \in Block, f \in Heights, t \in BOOLEAN : AddBlock(b, f, t)
    \/ \E t \in BOOLEAN : RemoveBlock(t)
    \/ RemoveBlockPanics
    \/ LockCache
    \/ UpdateCache

Serve ==
    \/ \E op \in {"getLastBlock", "getBlocksFromID", "getBlockByHeight"}, b \in Block :
          Request(op, b.height, b)
    \/ ReadHeader \/ LastOuter \/ LastInner
    \/ \E h \in Heights : FetchStep(h)
    \/ Answer

Next == Execute \/ Serve \/ Crash \/ Restart

Spec == Init /\ [][Next]_vars

(* The runtime runs every goroutine that can go on, and the locks are fair *)
(* to the goroutine that waits for them.                                   *)
FairSpec ==
    /\ Spec
    /\ WF_vars(LockCache) /\ WF_vars(UpdateCache)
    /\ WF_vars(LastInner) /\ WF_vars(Restart)

-----------------------------------------------------------------------------
(* Between two calls of the executer the cache is the end of the chain the *)
(* database holds, whatever was added, removed and reloaded before, except *)
(* when more blocks were removed than it held and it is empty.  It never   *)
(* holds more than its limit.                                              *)
CacheIsEndOfChain ==
    running /\ exec.step = "idle" =>
        /\ cache.size <= MaxBlockCache
        /\ DOMAIN cache.blocks = cache.currentHeight - cache.size + 1 .. cache.currentHeight
        /\ \A h \in DOMAIN cache.blocks : cache.blocks[h] = store.heights[h]
        /\ cache.size > 0 => cache.currentHeight = Tip(store)

(* The tables agree with each other at every moment, a crash between the   *)
(* write and the cache included: what the height index names can be read   *)
(* in full, the chain is linked, and nothing of a removed block is left.   *)
TablesAgree ==
    LET chain == Range(store.heights)
    IN  /\ DOMAIN store.heights = 0 .. Tip(store)
        /\ \A h \in 1 .. Tip(store) : Linked(store.heights[h - 1], store.heights[h])
        /\ store.headers = chain /\ store.assets = chain
        /\ store.txIDs = chain \ {Genesis} /\ store.txs = chain \ {Genesis}
        /\ store.events \subseteq 0 .. Tip(store)

(* saveBlock deletes old events, but never those of a block that may still *)
(* be removed.                                                             *)
EventsKept == store.finalized + 1 .. Tip(store) \subseteq store.events

(* GetBlockByHeight, which reads the cache and four tables at different    *)
(* moments while blocks are added and removed, answers with a block that   *)
(* was at that height of the chain while it was being served, never with   *)
(* one whose removal had returned before.  It fails, or leaves out         *)
(* transactions or assets, only when the chain had no block at that height *)
(* at some moment of the request.                                          *)
ReadsAreOfTheChain ==
    \A h \in DOMAIN reader.fetch :
        LET f == reader.fetch[h]
        IN  /\ f.step = "done" => f.block \in seen[h]
            /\ f.step = "failed" \/ (f.step = "done" /\ ~(f.txs /\ f.assets)) => None \in seen[h]

(* GetBlockByHeight returns the block with its transactions and assets.    *)
ReadsAreWhole ==
    \A h \in DOMAIN reader.fetch :
        reader.fetch[h].step = "done" => reader.fetch[h].txs /\ reader.fetch[h].assets

(* AddBlock and RemoveBlock return: the executer gets the cache's lock.    *)
UpdateReturns == exec.step # "idle" ~> exec.step = "idle"

=============================================================================
