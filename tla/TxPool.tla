------------------------------- MODULE TxPool -------------------------------
(***************************************************************************)
(* The transaction pool (pkg/txpool).  Add and Remove run under the pool's *)
(* mutex.  Every half second reorg starts a goroutine for each account,    *)
(* which works on the account's list one call at a time, under the list's  *)
(* own mutex only, so an Add or a Remove may come between two of its calls.*)
(*                                                                         *)
(* The transactions that may arrive are a constant; all have the same      *)
(* size, so the fee orders them as the fee priority does.  What the        *)
(* application answers to VerifyTransaction depends on its state and is a  *)
(* choice at every call.                                                   *)
(***************************************************************************)
EXTENDS Integers, Sequences, FiniteSets, FiniteSetsExt, Functions

CONSTANTS Tx,                          \* records with id, sender, nonce and fee
          MaxTransactions,
          MaxTransactionsPerAccount,
          MinEntranceFeePriority,
          MinReplacementFeeDifference

ASSUME TxPoolAssumption ==
    /\ MaxTransactions \in Nat \ {0} /\ MaxTransactionsPerAccount \in Nat \ {0}
    /\ MinEntranceFeePriority \in Nat /\ MinReplacementFeeDifference \in Nat \ {0}
    /\ \A t \in Tx : t.nonce \in Nat /\ t.fee \in Nat
    /\ \A t, u \in Tx : t.id = u.id => t = u

VARIABLES allTransactions,   \* the set of the pool's transactions
          feePriorityQueue,  \* the heap, as the set of its elements
          perAccount,        \* a list for each account that has one
          worker,            \* the reorg goroutine of each account
          held,              \* the pool's mutex is held by a call that waits for it
          panicked,          \* a nil list was dereferenced
          verified           \* history: what a reorg verified

vars == <<allTransactions, feePriorityQueue, perAccount, worker, held, panicked, verified>>

Senders == {t.sender : t \in Tx}

-----------------------------------------------------------------------------
(* addressTransactions: the transactions by nonce, and the nonces that are *)
(* processable.  The heap of nonces is the domain of the transactions.     *)

newAddressTransactions == [transactions |-> <<>>, processables |-> <<>>]

\* The order of sort.Slice, and the one in which a NonceMinHeap is popped.
Ascending(S) ==
    CHOOSE f \in [1 .. Cardinality(S) -> S] : \A i, j \in DOMAIN f : i < j => f[i] < f[j]

Nonces(list) == Ascending(DOMAIN list.transactions)
Size(list) == Cardinality(DOMAIN list.transactions)

GetProcessables(list) ==
    [i \in 1 .. Len(list.processables) |-> list.transactions[list.processables[i]]]

(* Heap pops: as many of the smallest nonces as there are processables.    *)
GetPromotable(list) ==
    LET k == Len(list.processables)
        rest == SubSeq(Nonces(list), k + 1, Size(list))
        run == {n \in 1 .. Len(rest) : \A i \in 1 .. n : rest[i] = rest[1] + i - 1}
    IN  IF rest = <<>> \/ (k # 0 /\ rest[1] # list.processables[k] + 1) THEN <<>>
        ELSE [i \in 1 .. Max(run) |-> list.transactions[rest[i]]]

demoteAfter(list, nonce) ==
    [list EXCEPT !.processables = Ascending({n \in Range(@) : n < nonce})]

removeNonce(list, nonce) ==
    IF nonce \notin DOMAIN list.transactions THEN list
    ELSE [demoteAfter(list, nonce) EXCEPT
            !.transactions = Restrict(@, DOMAIN @ \ {nonce})]

Put(list, tx) ==
    [list EXCEPT !.transactions =
        [n \in DOMAIN @ \cup {tx.nonce} |-> IF n = tx.nonce THEN tx ELSE @[n]]]

\* Mutant: the list may hold one more than the limit.
ListAddOneMore(list, tx) ==
    LET maxNonce == Max(DOMAIN list.transactions)
        refused == [added |-> FALSE, list |-> list]
        Added(l) == [added |-> TRUE, list |-> Put(l, tx)]
    IN  IF tx.nonce \in DOMAIN list.transactions
        THEN IF tx.fee < list.transactions[tx.nonce].fee + MinReplacementFeeDifference THEN refused
             ELSE Added(demoteAfter(list, tx.nonce))
        ELSE IF Size(list) > MaxTransactionsPerAccount
        THEN IF tx.nonce > maxNonce THEN refused ELSE Added(removeNonce(list, maxNonce))
        ELSE Added(list)

(* The list after the transaction is added, and whether it was.            *)
ListAdd(list, tx) ==
    LET maxNonce == Max(DOMAIN list.transactions)
        refused == [added |-> FALSE, list |-> list]
        Added(l) == [added |-> TRUE, list |-> Put(l, tx)]
    IN  IF tx.nonce \in DOMAIN list.transactions
        THEN IF tx.fee < list.transactions[tx.nonce].fee + MinReplacementFeeDifference THEN refused
             ELSE Added(demoteAfter(list, tx.nonce))
        ELSE IF Size(list) + 1 > MaxTransactionsPerAccount
        THEN IF tx.nonce > maxNonce THEN refused ELSE Added(removeNonce(list, maxNonce))
        ELSE Added(list)

\* Mutant: a nonce that is in the list is promoted, whichever transaction has it.
PromoteByNonce(list, txs) ==
    LET nonces == {txs[i].nonce : i \in DOMAIN txs}
    IN  IF nonces \subseteq DOMAIN list.transactions
        THEN [list EXCEPT !.processables = Ascending(Range(@) \cup nonces)]
        ELSE list

(* Promote gives up when one of the transactions is gone or was replaced.  *)
Promote(list, txs) ==
    LET present == \A i \in DOMAIN txs :
                       /\ txs[i].nonce \in DOMAIN list.transactions
                       /\ list.transactions[txs[i].nonce].id = txs[i].id
        nonces == Range(list.processables) \cup {txs[i].nonce : i \in DOMAIN txs}
    IN  IF present THEN [list EXCEPT !.processables = Ascending(nonces)] ELSE list

-----------------------------------------------------------------------------
Resting == [step |-> "idle", orphan |-> FALSE, promotables |-> <<>>, combined |-> <<>>]

Init ==
    /\ allTransactions = {} /\ feePriorityQueue = {}
    /\ perAccount = <<>>
    /\ worker = [s \in Senders |-> Resting]
    /\ held = FALSE /\ panicked = FALSE
    /\ verified = {}

SetList(s, list) ==
    perAccount' = [a \in DOMAIN perAccount \cup {s} |-> IF a = s THEN list ELSE perAccount[a]]

Up == ~panicked
Unlocked == Up /\ ~held

-----------------------------------------------------------------------------
(* Add.  A pool over its limit evicts: the eviction takes the mutex that   *)
(* the caller holds, and neither goes on.                                  *)
Full == Cardinality(allTransactions) > MaxTransactions

Rejected(tx) ==
    \/ tx \in allTransactions
    \/ tx.fee < MinEntranceFeePriority
    \/ Full /\ feePriorityQueue # {} /\ tx.fee <= Min({t.fee : t \in feePriorityQueue})

AddEvicts(tx) ==
    /\ Unlocked /\ ~Rejected(tx) /\ Full
    /\ held' = TRUE
    /\ UNCHANGED <<allTransactions, feePriorityQueue, perAccount, worker, panicked, verified>>

(* The list is registered even when it refuses its first transaction.      *)
Add(tx) ==
    LET list == IF tx.sender \in DOMAIN perAccount THEN perAccount[tx.sender]
                ELSE newAddressTransactions
        res == ListAdd(list, tx)
    IN  /\ Unlocked /\ ~Rejected(tx) /\ ~Full
        /\ SetList(tx.sender, res.list)
        /\ IF res.added THEN /\ allTransactions' = allTransactions \cup {tx}
                             /\ feePriorityQueue' = feePriorityQueue \cup {tx}
           ELSE UNCHANGED <<allTransactions, feePriorityQueue>>
        /\ UNCHANGED <<worker, held, panicked, verified>>

-----------------------------------------------------------------------------
\* Mutant: the heap keeps the removed transaction.
removeWithoutHeap(tx) ==
    LET list == removeNonce(perAccount[tx.sender], tx.nonce)
    IN  /\ allTransactions' = allTransactions \ {tx}
        /\ IF tx.sender \notin DOMAIN perAccount THEN UNCHANGED perAccount
           ELSE IF Size(list) = 0
           THEN perAccount' = Restrict(perAccount, DOMAIN perAccount \ {tx.sender})
           ELSE SetList(tx.sender, list)
        /\ UNCHANGED <<feePriorityQueue, panicked>>

(* remove deletes whatever the list has at the nonce, drops an empty list  *)
(* and rebuilds the heap.  A goroutine of reorg keeps the list it was      *)
(* started with: dropped, it is empty for good.                            *)
remove(tx) ==
    LET list == removeNonce(perAccount[tx.sender], tx.nonce)
        rest == allTransactions \ {tx}
    IN  IF tx \notin allTransactions
        THEN UNCHANGED <<allTransactions, feePriorityQueue, perAccount, panicked>>
        ELSE IF tx.sender \notin DOMAIN perAccount
        THEN /\ allTransactions' = rest
             /\ panicked' = TRUE
             /\ UNCHANGED <<feePriorityQueue, perAccount>>
        ELSE /\ allTransactions' = rest
             /\ feePriorityQueue' = rest
             /\ IF Size(list) = 0
                THEN perAccount' = Restrict(perAccount, DOMAIN perAccount \ {tx.sender})
                ELSE SetList(tx.sender, list)
             /\ UNCHANGED panicked

Orphaned(w) ==
    [s \in Senders |-> IF s \in DOMAIN perAccount /\ s \notin DOMAIN perAccount' /\ w[s].step # "idle"
                       THEN [w[s] EXCEPT !.orphan = TRUE] ELSE w[s]]

(* onNewBlock of the generator removes the transactions of the block.      *)
RemoveIncluded(tx) ==
    /\ Unlocked
    /\ tx \in allTransactions
    /\ remove(tx)
    /\ worker' = Orphaned(worker)
    /\ UNCHANGED <<held, verified>>

-----------------------------------------------------------------------------
(* Of the history, what is promoted or about to be still counts.           *)
Kept ==
    verified \cap UNION ({Range(GetProcessables(perAccount[s])) : s \in DOMAIN perAccount}
                         \cup {Range(worker[s].promotables) : s \in Senders})

(* reorg waits for its goroutines, so the next one starts when all ended.  *)
Reorg ==
    /\ Unlocked
    /\ perAccount # <<>>
    /\ \A s \in Senders : worker[s].step = "idle"
    /\ worker' = [s \in Senders |-> IF s \in DOMAIN perAccount
                                    THEN [Resting EXCEPT !.step = "promotable"] ELSE Resting]
    /\ verified' = Kept
    /\ UNCHANGED <<allTransactions, feePriorityQueue, perAccount, held, panicked>>

ListOf(s) == IF worker[s].orphan THEN newAddressTransactions ELSE perAccount[s]

ReadPromotable(s) ==
    /\ Up /\ worker[s].step = "promotable"
    /\ LET txs == GetPromotable(ListOf(s))
       IN  worker' = [worker EXCEPT ![s] =
                         IF txs = <<>> THEN Resting
                         ELSE [@ EXCEPT !.step = "processable", !.promotables = txs]]
    /\ UNCHANGED <<allTransactions, feePriorityQueue, perAccount, held, panicked, verified>>

ReadProcessables(s) ==
    /\ Up /\ worker[s].step = "processable"
    /\ worker' = [worker EXCEPT ![s].step = "verify",
                                ![s].combined = GetProcessables(ListOf(s)) \o worker[s].promotables]
    /\ UNCHANGED <<allTransactions, feePriorityQueue, perAccount, held, panicked, verified>>

(* The transactions before the first invalid one are promoted, it and the  *)
(* ones after it are removed one by one.  failed is 0 when all are valid.  *)
(* verifyTransactions answers Ok or Invalid: a pending transaction counts  *)
(* as valid, and the branch of reorg that keeps it aside is never taken.   *)
Verify(s, failed) ==
    LET w == worker[s]
        processables == Len(w.combined) - Len(w.promotables)
        valid == IF failed = 0 THEN w.combined ELSE SubSeq(w.combined, 1, failed - 1)
    IN  /\ Up /\ w.step = "verify"
        /\ failed \in 0 .. Len(w.combined)
        /\ verified' = Kept \cup Range(valid)
        /\ worker' = [worker EXCEPT ![s] =
                         [@ EXCEPT !.step = "promote",
                                   !.promotables = SubSeq(valid, processables + 1, Len(valid)),
                                   !.combined = SubSeq(w.combined, Len(valid) + 1, Len(w.combined))]]
        /\ UNCHANGED <<allTransactions, feePriorityQueue, perAccount, held, panicked>>

PromoteValid(s) ==
    /\ Up /\ worker[s].step = "promote"
    /\ IF worker[s].orphan THEN UNCHANGED perAccount
       ELSE SetList(s, Promote(perAccount[s], worker[s].promotables))
    /\ worker' = [worker EXCEPT ![s] =
                     IF @.combined = <<>> THEN Resting ELSE [@ EXCEPT !.step = "remove"]]
    /\ UNCHANGED <<allTransactions, feePriorityQueue, held, panicked, verified>>

RemoveInvalid(s) ==
    /\ Unlocked /\ worker[s].step = "remove"
    /\ remove(Head(worker[s].combined))
    /\ worker' = LET rest == Tail(worker[s].combined)
                 IN  [Orphaned(worker) EXCEPT ![s] =
                         IF rest = <<>> THEN Resting ELSE [@ EXCEPT !.combined = rest]]
    /\ UNCHANGED <<held, verified>>

-----------------------------------------------------------------------------
Work(s) ==
    \/ ReadPromotable(s) \/ ReadProcessables(s) \/ PromoteValid(s) \/ RemoveInvalid(s)
    \/ \E failed \in 0 .. Cardinality(Tx) : Verify(s, failed)

Next ==
    \/ \E tx \in Tx : Add(tx) \/ AddEvicts(tx) \/ RemoveIncluded(tx)
    \/ Reorg
    \/ \E s \in Senders : Work(s)

Spec == Init /\ [][Next]_vars

-----------------------------------------------------------------------------
(* An account's list keeps to its limit and holds transactions under their *)
(* own nonces; its processable nonces are in the list, so that             *)
(* GetProcessables finds them all, in ascending order without a nonce      *)
(* twice, whatever reorg interleaves with.                                 *)
ListsSound ==
    \A s \in DOMAIN perAccount :
        /\ Size(perAccount[s]) <= MaxTransactionsPerAccount
        /\ \A n \in DOMAIN perAccount[s].transactions :
              perAccount[s].transactions[n].sender = s /\ perAccount[s].transactions[n].nonce = n
        /\ Range(perAccount[s].processables) \subseteq DOMAIN perAccount[s].transactions
        /\ \A i, j \in DOMAIN perAccount[s].processables :
              i < j => perAccount[s].processables[i] < perAccount[s].processables[j]

(* What GetProcessable hands to the generator was verified by a reorg and  *)
(* not found invalid: a replacement that arrives between verification and  *)
(* Promote is not taken for the transaction it replaced.                   *)
ProcessablesVerified ==
    \A s \in DOMAIN perAccount : Range(GetProcessables(perAccount[s])) \subseteq verified

(* A transaction of a list is found by its ID, the pool exceeds its limit  *)
(* by one at most, and the heap has the transactions of the pool: the      *)
(* cheapest of them is the one a newcomer is held against.                 *)
PoolIndexesAgree ==
    /\ \A s \in DOMAIN perAccount : Range(perAccount[s].transactions) \subseteq allTransactions
    /\ Cardinality(allTransactions) <= MaxTransactions + 1
    /\ Up => feePriorityQueue = allTransactions

(* Every transaction of the pool is in the list of its sender.             *)
PooledAreListed ==
    \A t \in allTransactions : t.sender \in DOMAIN perAccount /\ t \in Range(perAccount[t.sender].transactions)

=============================================================================
