---------------------------- MODULE TxPoolProofs ----------------------------
(***************************************************************************)
(* The lists of the transaction pool stay sound, hand out only verified    *)
(* transactions and agree with the indexes of the pool: for every set of   *)
(* transactions and accounts and every limit.                              *)
(***************************************************************************)
EXTENDS TxPool, SetTheorems, TLAPS

-----------------------------------------------------------------------------
(* Ascending sequences.                                                    *)

\* Ascending lists members of the set, in ascending order.
LEMMA AscendingSound ==
    ASSUME NEW S, S \subseteq Int, IsFiniteSet(S)
    PROVE  /\ Ascending(S) \in Seq(S)
           /\ Len(Ascending(S)) = Cardinality(S)
           /\ Range(Ascending(S)) \subseteq S
           /\ \A i, j \in DOMAIN Ascending(S) : i < j => Ascending(S)[i] < Ascending(S)[j]
  <1> DEFINE f == Ascending(S)
  <1>1. /\ f \in [1 .. Cardinality(S) -> S]
        /\ \A i, j \in DOMAIN f : i < j => f[i] < f[j]
    BY Zenon, AscendingExists DEF Ascending
  <1>2. Cardinality(S) \in Nat
    BY FS_CardinalityType
  <1> HIDE DEF f
  <1>3. f \in Seq(S) /\ Len(f) = Cardinality(S)
    BY <1>1, <1>2
  <1>4. Range(f) \subseteq S
    BY <1>1 DEF Range
  <1> QED BY <1>1, <1>3, <1>4 DEF f

-----------------------------------------------------------------------------
(* The list of an account.                                                 *)

\* What a list of addressTransactions always is.
ListOK(s, list) ==
    /\ list = [transactions |-> list.transactions, processables |-> list.processables]
    /\ DOMAIN list.transactions \subseteq Nat
    /\ IsFiniteSet(DOMAIN list.transactions)
    /\ list.transactions \in [DOMAIN list.transactions -> Tx]
    /\ \A n \in DOMAIN list.transactions :
          list.transactions[n].sender = s /\ list.transactions[n].nonce = n
    /\ list.processables \in Seq(Nat)
    /\ Range(list.processables) \subseteq DOMAIN list.transactions
    /\ \A i, j \in DOMAIN list.processables :
          i < j => list.processables[i] < list.processables[j]

\* The transactions that a list hands out.
Processed(list) == {list.transactions[n] : n \in Range(list.processables)}

(* GetProcessables is the list's processables: transactions it holds.      *)
LEMMA GetProcessablesSound ==
    ASSUME NEW s, NEW list, ListOK(s, list)
    PROVE  /\ GetProcessables(list) \in Seq(Tx)
           /\ Range(GetProcessables(list)) = Processed(list)
  <1> DEFINE p == list.processables
             t == list.transactions
  <1>1. p \in Seq(Nat) /\ \A i \in 1 .. Len(p) : p[i] \in DOMAIN t
    BY DEF ListOK, Range
  <1>2. \A n \in DOMAIN t : t[n] \in Tx
    BY DEF ListOK
  <1> HIDE DEF p, t
  <1>3. [i \in 1 .. Len(p) |-> t[p[i]]] \in Seq(Tx)
    BY <1>1, <1>2
  <1>4. Range([i \in 1 .. Len(p) |-> t[p[i]]]) = {t[n] : n \in Range(p)}
    BY <1>1 DEF Range
  <1> QED BY <1>3, <1>4 DEF GetProcessables, Processed, p, t

\* A new list is empty.
LEMMA NewListSound ==
    ASSUME NEW s
    PROVE  /\ ListOK(s, newAddressTransactions)
           /\ Size(newAddressTransactions) = 0
           /\ DOMAIN newAddressTransactions.transactions = {}
           /\ Processed(newAddressTransactions) = {}
  <1> DEFINE e == newAddressTransactions
  <1>1. e = [transactions |-> << >>, processables |-> << >>]
    BY DEF newAddressTransactions
  <1>2. DOMAIN e.transactions = {} /\ e.processables = << >> /\ Range(e.processables) = {}
    BY <1>1 DEF Range
  <1> QED BY <1>1, <1>2, FS_EmptySet DEF ListOK, Size, Processed

\* The size of a list is a number.
LEMMA SizeType ==
    ASSUME NEW s, NEW list, ListOK(s, list)
    PROVE  Size(list) \in Nat
  BY FS_CardinalityType DEF Size, ListOK

\* A list with other processables of the same transactions, in order.
LEMMA ReprocessedSound ==
    ASSUME NEW s, NEW list, ListOK(s, list), NEW S \in SUBSET DOMAIN list.transactions,
           NEW new, new = [list EXCEPT !.processables = Ascending(S)]
    PROVE  /\ ListOK(s, new)
           /\ new.transactions = list.transactions
           /\ Range(new.processables) \subseteq S
  <1> DEFINE a == Ascending(S)
             t == list.transactions
  <1>1. S \subseteq Nat /\ S \subseteq Int /\ IsFiniteSet(S)
    BY FS_Subset DEF ListOK
  <1>2. /\ a \in Seq(S) /\ Range(a) \subseteq S
        /\ \A i, j \in DOMAIN a : i < j => a[i] < a[j]
    BY <1>1, AscendingSound
  <1>3. a \in Seq(Nat)
    <2> HIDE DEF a
    <2> QED BY <1>1, <1>2
  <1> HIDE DEF a
  <1>4. new = [transactions |-> t, processables |-> a]
    BY DEF ListOK, a
  <1> QED BY <1>2, <1>3, <1>4 DEF ListOK

\* demoteAfter keeps the processables below the nonce.
LEMMA DemoteSound ==
    ASSUME NEW s, NEW list, ListOK(s, list), NEW nonce
    PROVE  LET new == demoteAfter(list, nonce)
           IN  /\ ListOK(s, new)
               /\ new.transactions = list.transactions
               /\ \A n \in Range(new.processables) : n \in Range(list.processables) /\ n < nonce
  <1> DEFINE S == {n \in Range(list.processables) : n < nonce}
  <1>1. S \in SUBSET DOMAIN list.transactions
    BY DEF ListOK
  <1>2. demoteAfter(list, nonce) = [list EXCEPT !.processables = Ascending(S)]
    BY DEF demoteAfter, ListOK
  <1>3. \A n \in S : n \in Range(list.processables) /\ n < nonce
    OBVIOUS
  <1> HIDE DEF S
  <1> QED BY Zenon, <1>1, <1>2, <1>3, ReprocessedSound

\* removeNonce drops one nonce and hands out no more than before.
LEMMA RemoveNonceSound ==
    ASSUME NEW s, NEW list, ListOK(s, list), NEW nonce \in Nat
    PROVE  LET new == removeNonce(list, nonce)
           IN  /\ ListOK(s, new)
               /\ DOMAIN new.transactions = DOMAIN list.transactions \ {nonce}
               /\ \A n \in DOMAIN new.transactions :
                     new.transactions[n] = list.transactions[n]
               /\ Range(new.processables) \subseteq Range(list.processables)
  <1> DEFINE D == DOMAIN list.transactions
  <1>1. CASE nonce \notin D
    <2>1. removeNonce(list, nonce) = list
      BY <1>1 DEF removeNonce
    <2> QED BY <1>1, <2>1
  <1>2. CASE nonce \in D
    <2> DEFINE d == demoteAfter(list, nonce)
               t == [n \in D \ {nonce} |-> list.transactions[n]]
               new == removeNonce(list, nonce)
    <2>1. /\ ListOK(s, d) /\ d.transactions = list.transactions
          /\ \A n \in Range(d.processables) : n \in Range(list.processables) /\ n < nonce
      BY DemoteSound
    <2>2. d = [transactions |-> d.transactions, processables |-> d.processables]
      BY <2>1 DEF ListOK
    <2>3. new = [transactions |-> t, processables |-> d.processables]
      <3>1. new = [d EXCEPT !.transactions = Restrict(@, DOMAIN @ \ {nonce})]
        BY <1>2 DEF removeNonce
      <3> HIDE DEF d, new
      <3> QED BY <2>1, <2>2, <3>1 DEF Restrict
    <2>4. DOMAIN t = D \ {nonce} /\ IsFiniteSet(D \ {nonce}) /\ t \in [D \ {nonce} -> Tx]
      BY Zenon, FS_RemoveElement DEF ListOK
    <2>5. Range(d.processables) \subseteq D \ {nonce}
      <3>1. Range(d.processables) \subseteq D
        BY <2>1 DEF ListOK
      <3> HIDE DEF d
      <3> QED BY <2>1, <3>1
    <2>6. ListOK(s, new)
      <3>1. \A n \in D \ {nonce} : n \in Nat /\ t[n].sender = s /\ t[n].nonce = n
        BY DEF ListOK
      <3>2. /\ d.processables \in Seq(Nat)
            /\ \A i, j \in DOMAIN d.processables :
                  i < j => d.processables[i] < d.processables[j]
        BY <2>1 DEF ListOK
      <3> HIDE DEF d, new, t
      <3> QED BY <2>3, <2>4, <2>5, <3>1, <3>2 DEF ListOK
    <2>7. Range(d.processables) \subseteq Range(list.processables)
      <3> HIDE DEF d
      <3> QED BY <2>1
    <2>8. \A n \in D \ {nonce} : t[n] = list.transactions[n]
      OBVIOUS
    <2> HIDE DEF d, new, t
    <2>9. new.transactions = t /\ new.processables = d.processables
      BY <2>3
    <2>10. /\ DOMAIN new.transactions = D \ {nonce}
           /\ \A n \in DOMAIN new.transactions : new.transactions[n] = list.transactions[n]
      BY <2>4, <2>8, <2>9
    <2>11. Range(new.processables) \subseteq Range(list.processables)
      BY <2>7, <2>9
    <2> QED BY <2>6, <2>10, <2>11 DEF new
  <1> QED BY <1>1, <1>2

\* The transactions of a list.
Listed(list) == {list.transactions[n] : n \in DOMAIN list.transactions}

\* What is taken from a list leaves the rest as it is.
LEMMA RemovedListed ==
    ASSUME NEW s, NEW list, ListOK(s, list), NEW nonce \in Nat
    PROVE  LET new == removeNonce(list, nonce)
           IN  /\ Listed(new) \subseteq {t \in Listed(list) : t.nonce # nonce}
               /\ Processed(new) \subseteq Processed(list)
  <1> DEFINE new == removeNonce(list, nonce)
  <1>1. /\ ListOK(s, new)
        /\ DOMAIN new.transactions = DOMAIN list.transactions \ {nonce}
        /\ \A n \in DOMAIN new.transactions : new.transactions[n] = list.transactions[n]
        /\ Range(new.processables) \subseteq Range(list.processables)
    BY Zenon, RemoveNonceSound
  <1>2. \A n \in DOMAIN list.transactions : list.transactions[n].nonce = n
    BY DEF ListOK
  <1>3. Range(new.processables) \subseteq DOMAIN new.transactions
    BY <1>1 DEF ListOK
  <1> HIDE DEF new
  <1>4. Listed(new) \subseteq {t \in Listed(list) : t.nonce # nonce}
    BY <1>1, <1>2 DEF Listed
  <1>5. Processed(new) \subseteq Processed(list)
    BY <1>1, <1>3 DEF Processed
  <1> QED BY <1>4, <1>5 DEF new

\* Putting a transaction under a nonce that is not processable.
LEMMA PutSound ==
    ASSUME NEW list, NEW tx \in Tx, ListOK(tx.sender, list),
           tx.nonce \notin Range(list.processables)
    PROVE  LET new == Put(list, tx)
           IN  /\ ListOK(tx.sender, new)
               /\ DOMAIN new.transactions = DOMAIN list.transactions \cup {tx.nonce}
               /\ Listed(new) \subseteq Listed(list) \cup {tx}
               /\ Processed(new) = Processed(list)
  <1> DEFINE D == DOMAIN list.transactions
             E == D \cup {tx.nonce}
             t == [n \in E |-> IF n = tx.nonce THEN tx ELSE list.transactions[n]]
             new == Put(list, tx)
  <1>1. tx.nonce \in Nat
    BY TxPoolAssumption
  <1>2. new = [transactions |-> t, processables |-> list.processables]
    <2>1. new = [list EXCEPT !.transactions = t]
      BY DEF Put
    <2>2. list = [transactions |-> list.transactions, processables |-> list.processables]
      BY DEF ListOK
    <2> HIDE DEF t, new
    <2> QED BY <2>1, <2>2
  <1>3. IsFiniteSet(E) /\ E \subseteq Nat /\ t \in [E -> Tx]
    <2>1. D \subseteq Nat /\ IsFiniteSet(D) /\ \A n \in D : list.transactions[n] \in Tx
      BY DEF ListOK
    <2>2. IsFiniteSet(E)
      BY <2>1, FS_AddElement
    <2> QED BY <1>1, <2>1, <2>2
  <1>4. DOMAIN t = E /\ \A n \in E : t[n] = IF n = tx.nonce THEN tx ELSE list.transactions[n]
    OBVIOUS
  <1> HIDE DEF t
  <1>5. \A n \in E : t[n].sender = tx.sender /\ t[n].nonce = n
    BY <1>4 DEF ListOK
  <1>6. /\ list.processables \in Seq(Nat)
        /\ Range(list.processables) \subseteq D
        /\ \A i, j \in DOMAIN list.processables :
              i < j => list.processables[i] < list.processables[j]
    BY DEF ListOK
  <1>7. new.transactions = t /\ new.processables = list.processables
    <2> HIDE DEF new
    <2> QED BY <1>2
  <1> HIDE DEF new
  <1>8. ListOK(tx.sender, new)
    <2>1. Range(list.processables) \subseteq E
      BY <1>6
    <2> HIDE DEF E
    <2> QED BY <1>2, <1>3, <1>4, <1>5, <1>6, <1>7, <2>1 DEF ListOK
  <1>9. Listed(new) \subseteq Listed(list) \cup {tx}
    BY <1>4, <1>7 DEF Listed
  <1>10. Processed(new) = Processed(list)
    <2>1. \A n \in Range(list.processables) : t[n] = list.transactions[n]
      BY ZenonT(40), <1>4, <1>6
    <2> QED BY <1>7, <2>1 DEF Processed
  <1> QED BY <1>4, <1>7, <1>8, <1>9, <1>10 DEF new

\* Adding to a list keeps it sound and within its limit; what it hands out was
\* handed out before.
LEMMA ListAddSound ==
    ASSUME NEW list, NEW tx \in Tx, ListOK(tx.sender, list),
           Size(list) <= MaxTransactionsPerAccount
    PROVE  LET res == ListAdd(list, tx)
           IN  /\ ListOK(tx.sender, res.list)
               /\ Size(res.list) <= MaxTransactionsPerAccount
               /\ Listed(res.list) \subseteq Listed(list) \cup (IF res.added THEN {tx} ELSE {})
               /\ Processed(res.list) \subseteq Processed(list)
  <1> DEFINE D == DOMAIN list.transactions
             maxNonce == Max(D)
             res == ListAdd(list, tx)
  <1>1. tx.nonce \in Nat /\ D \subseteq Nat /\ IsFiniteSet(D) /\ Cardinality(D) \in Nat
    BY TxPoolAssumption, FS_CardinalityType DEF ListOK
  <1>2. Range(list.processables) \subseteq D
    BY DEF ListOK
  <1>3. CASE res = [added |-> FALSE, list |-> list]
    <2> HIDE DEF res
    <2> QED BY <1>3 DEF res
  <1>4. CASE tx.nonce \in D /\ res = [added |-> TRUE, list |-> Put(demoteAfter(list, tx.nonce), tx)]
    <2> DEFINE d == demoteAfter(list, tx.nonce)
    <2>1. /\ ListOK(tx.sender, d) /\ d.transactions = list.transactions
          /\ \A n \in Range(d.processables) : n \in Range(list.processables) /\ n < tx.nonce
      BY DemoteSound
    <2> HIDE DEF d
    <2>2. tx.nonce \notin Range(d.processables)
      BY <1>1, <2>1
    <2>3. /\ ListOK(tx.sender, Put(d, tx))
          /\ DOMAIN Put(d, tx).transactions = D \cup {tx.nonce}
          /\ Listed(Put(d, tx)) \subseteq Listed(d) \cup {tx}
          /\ Processed(Put(d, tx)) = Processed(d)
      BY <2>1, <2>2, PutSound
    <2>4. Size(Put(d, tx)) = Size(list)
      <3>1. D \cup {tx.nonce} = D
        BY <1>4
      <3> QED BY <2>3, <3>1 DEF Size
    <2>5. Listed(d) = Listed(list) /\ Processed(d) \subseteq Processed(list)
      BY <2>1 DEF Listed, Processed
    <2>6. res.list = Put(d, tx) /\ res.added
      <3> HIDE DEF res
      <3> QED BY <1>4 DEF d
    <2> HIDE DEF res
    <2> QED BY <2>3, <2>4, <2>5, <2>6 DEF res
  <1>5. CASE /\ tx.nonce \notin D /\ Size(list) + 1 > MaxTransactionsPerAccount
             /\ res = [added |-> TRUE, list |-> Put(removeNonce(list, maxNonce), tx)]
    <2> DEFINE d == removeNonce(list, maxNonce)
    <2>1. D # {}
      <3>1. Cardinality(D) # 0
        BY <1>1, <1>5, TxPoolAssumption DEF Size
      <3> QED BY <3>1, FS_EmptySet
    <2>2. maxNonce \in D /\ maxNonce \in Nat
      BY <1>1, <2>1, MaxOfFinite
    <2>3. /\ ListOK(tx.sender, d)
          /\ DOMAIN d.transactions = D \ {maxNonce}
          /\ Range(d.processables) \subseteq Range(list.processables)
      BY ZenonT(40), <2>2, RemoveNonceSound
    <2>4. Listed(d) \subseteq Listed(list) /\ Processed(d) \subseteq Processed(list)
      BY <2>2, RemovedListed
    <2> HIDE DEF d
    <2>5. tx.nonce \notin Range(d.processables)
      BY <1>2, <1>5, <2>3
    <2>6. /\ ListOK(tx.sender, Put(d, tx))
          /\ DOMAIN Put(d, tx).transactions = (D \ {maxNonce}) \cup {tx.nonce}
          /\ Listed(Put(d, tx)) \subseteq Listed(d) \cup {tx}
          /\ Processed(Put(d, tx)) = Processed(d)
      BY <2>3, <2>5, PutSound
    <2>7. Size(Put(d, tx)) = Size(list)
      <3> DEFINE F == D \ {maxNonce}
      <3>1. IsFiniteSet(F) /\ Cardinality(F) = Cardinality(D) - 1
        BY <1>1, <2>2, FS_RemoveElement
      <3>2. tx.nonce \notin F
        BY <1>5
      <3> HIDE DEF F
      <3>3. Cardinality(F \cup {tx.nonce}) = Cardinality(F) + 1
        BY Zenon, <3>1, <3>2, FS_AddElement
      <3> QED BY <1>1, <2>6, <3>1, <3>3 DEF Size, F
    <2>8. res.list = Put(d, tx) /\ res.added
      <3> HIDE DEF res
      <3> QED BY <1>5 DEF d
    <2> HIDE DEF res
    <2> QED BY <2>4, <2>6, <2>7, <2>8 DEF res
  <1>6. CASE /\ tx.nonce \notin D /\ ~ (Size(list) + 1 > MaxTransactionsPerAccount)
             /\ res = [added |-> TRUE, list |-> Put(list, tx)]
    <2>1. tx.nonce \notin Range(list.processables)
      BY <1>2, <1>6
    <2>2. /\ ListOK(tx.sender, Put(list, tx))
          /\ DOMAIN Put(list, tx).transactions = D \cup {tx.nonce}
          /\ Listed(Put(list, tx)) \subseteq Listed(list) \cup {tx}
          /\ Processed(Put(list, tx)) = Processed(list)
      BY <2>1, PutSound
    <2>3. Cardinality(D \cup {tx.nonce}) = Cardinality(D) + 1
      BY Zenon, <1>1, <1>6, FS_AddElement
    <2>4. Size(Put(list, tx)) <= MaxTransactionsPerAccount
      BY <1>1, <1>6, <2>2, <2>3, TxPoolAssumption DEF Size
    <2>5. res.list = Put(list, tx) /\ res.added
      <3> HIDE DEF res
      <3> QED BY <1>6
    <2> HIDE DEF res
    <2> QED BY <2>2, <2>4, <2>5 DEF res
  <1> QED BY Zenon, <1>3, <1>4, <1>5, <1>6 DEF ListAdd

\* Promote makes processable what was, and transactions of the promoted ones:
\* a transaction that replaced one of them is not promoted in its place.
LEMMA PromoteSound ==
    ASSUME NEW s, NEW list, ListOK(s, list), NEW txs \in Seq(Tx)
    PROVE  LET new == Promote(list, txs)
           IN  /\ ListOK(s, new)
               /\ new.transactions = list.transactions
               /\ Processed(new) \subseteq Processed(list) \cup Range(txs)
  <1> DEFINE t == list.transactions
             promoted == {txs[i].nonce : i \in DOMAIN txs}
             nonces == Range(list.processables) \cup promoted
             present == \A i \in DOMAIN txs :
                           txs[i].nonce \in DOMAIN t /\ t[txs[i].nonce].id = txs[i].id
             new == Promote(list, txs)
  <1>1. CASE ~ present
    <2>1. new = list
      BY <1>1 DEF Promote
    <2> QED BY <2>1
  <1>2. CASE present
    <2>1. new = [list EXCEPT !.processables = Ascending(nonces)]
      BY <1>2 DEF Promote
    <2>2. \A i \in DOMAIN txs : txs[i] \in Tx /\ txs[i].nonce \in DOMAIN t
      BY <1>2
    <2>3. \A n \in DOMAIN t : t[n] \in Tx
      BY DEF ListOK
    <2>4. \A i \in DOMAIN txs : t[txs[i].nonce] = txs[i]
      BY <1>2, <2>2, <2>3, TxPoolAssumption
    <2>5. nonces \in SUBSET DOMAIN t
      <3>1. Range(list.processables) \subseteq DOMAIN t
        BY DEF ListOK
      <3> QED BY <2>2, <3>1
    <2>6. \A n \in nonces : t[n] \in Processed(list) \cup Range(txs)
      BY <2>4 DEF Processed, Range
    <2> HIDE DEF nonces
    <2>7. /\ ListOK(s, new) /\ new.transactions = t
          /\ Range(new.processables) \subseteq nonces
      <3> HIDE DEF new
      <3> QED BY Zenon, <2>1, <2>5, ReprocessedSound
    <2> HIDE DEF new
    <2>8. Processed(new) \subseteq Processed(list) \cup Range(txs)
      BY <2>6, <2>7 DEF Processed
    <2> QED BY <2>7, <2>8 DEF new
  <1> QED BY <1>1, <1>2

\* GetPromotable returns transactions.
LEMMA GetPromotableType ==
    ASSUME NEW s, NEW list, ListOK(s, list)
    PROVE  GetPromotable(list) \in Seq(Tx)
  <1> DEFINE D == DOMAIN list.transactions
             a == Ascending(D)
             k == Len(list.processables)
             rest == SubSeq(a, k + 1, Size(list))
             run == {n \in 1 .. Len(rest) : \A i \in 1 .. n : rest[i] = rest[1] + i - 1}
             result == [i \in 1 .. Max(run) |-> list.transactions[rest[i]]]
  <1>1. D \subseteq Int /\ IsFiniteSet(D)
    BY DEF ListOK
  <1>2. a \in Seq(D) /\ Len(a) = Size(list)
    BY <1>1, AscendingSound DEF Size
  <1>3. k \in Nat /\ Size(list) \in Nat
    <2>1. list.processables \in Seq(Nat)
      BY DEF ListOK
    <2> QED BY <2>1, SizeType
  <1> HIDE DEF a, k
  <1>4. rest \in Seq(D)
    <2> HIDE DEF D
    <2> QED BY <1>2, <1>3
  <1>5. \A n \in D : list.transactions[n] \in Tx
    BY DEF ListOK
  <1> HIDE DEF rest
  <1>6. CASE rest = << >>
    <2>1. GetPromotable(list) = << >>
      BY <1>6 DEF GetPromotable, Nonces, rest, k, a
    <2> QED BY <2>1
  <1>7. CASE rest # << >>
    <2>1. Len(rest) \in Nat /\ 1 \in 1 .. Len(rest) /\ \A i \in 1 .. Len(rest) : rest[i] \in D
      <3> HIDE DEF D
      <3> QED BY <1>4, <1>7
    <2>2. 1 \in run
      BY <1>1, <2>1
    <2>3. run \subseteq 1 .. Len(rest)
      OBVIOUS
    <2>4. run \subseteq Int /\ IsFiniteSet(run)
      <3> DEFINE I == 1 .. Len(rest)
      <3>1. IsFiniteSet(I) /\ I \subseteq Int
        BY <2>1, FS_Interval
      <3> HIDE DEF run, I
      <3>2. run \in SUBSET I
        BY <2>3 DEF I
      <3>3. IsFiniteSet(run)
        BY Zenon, <3>1, <3>2, FS_Subset
      <3> QED BY <3>1, <3>2, <3>3
    <2>5. Max(run) \in run
      <3> HIDE DEF run
      <3> QED BY Zenon, <2>2, <2>4, MaxOfFinite
    <2> HIDE DEF run
    <2>6. Max(run) \in Nat /\ Max(run) <= Len(rest)
      <3>1. Max(run) \in 1 .. Len(rest)
        BY Zenon, <2>3, <2>5
      <3> HIDE DEF result
      <3> QED BY <2>1, <3>1
    <2>7. result \in Seq(Tx)
      <3> DEFINE m == Max(run)
      <3> HIDE DEF m
      <3>1. \A i \in 1 .. m : rest[i] \in D /\ list.transactions[rest[i]] \in Tx
        BY <1>5, <2>1, <2>6 DEF m
      <3>2. [i \in 1 .. m |-> list.transactions[rest[i]]] \in Seq(Tx)
        BY <2>6, <3>1 DEF m
      <3> QED BY <3>2 DEF m
    <2> HIDE DEF result
    <2>8. GetPromotable(list) = << >> \/ GetPromotable(list) = result
      BY Zenon DEF GetPromotable, Nonces, rest, k, a, run, result
    <2>9. << >> \in Seq(Tx)
      OBVIOUS
    <2> QED BY Zenon, <2>7, <2>8, <2>9
  <1> QED BY <1>6, <1>7

-----------------------------------------------------------------------------
(* The inductive invariant.                                                *)

\* An account's list, given the pool's transactions and the verified ones.
ListSound(s, list, all, ver) ==
    /\ ListOK(s, list)
    /\ Size(list) <= MaxTransactionsPerAccount
    /\ Listed(list) \subseteq all
    /\ Processed(list) \subseteq ver

ListsInv ==
    /\ perAccount = [s \in DOMAIN perAccount |-> perAccount[s]]
    /\ \A s \in DOMAIN perAccount : ListSound(s, perAccount[s], allTransactions, verified)

Workers ==
    [step : {"idle", "promotable", "processable", "verify", "promote", "remove"},
     orphan : BOOLEAN, promotables : Seq(Tx), combined : Seq(Tx)]

\* A goroutine of reorg: what it is about to promote was verified, and its list
\* is the account's unless that was dropped since the goroutine started.
WorkerSound(s, w, ver, accounts) ==
    /\ w \in Workers
    /\ w.step = "verify" => Len(w.promotables) <= Len(w.combined)
    /\ w.step = "promote" => Range(w.promotables) \subseteq ver
    /\ w.step = "remove" => w.combined # << >>
    /\ w.step # "idle" /\ ~ w.orphan => s \in accounts

WorkersInv ==
    /\ worker = [s \in Senders |-> worker[s]]
    /\ \A s \in Senders : WorkerSound(s, worker[s], verified, DOMAIN perAccount)

\* The set of the pool's transactions and its heap.
IndexesInv ==
    /\ allTransactions \subseteq Tx
    /\ IsFiniteSet(allTransactions)
    /\ Cardinality(allTransactions) <= MaxTransactions + 1
    /\ Up => feePriorityQueue = allTransactions

PoolInv == ListsInv /\ WorkersInv /\ IndexesInv

\* A resting goroutine.
LEMMA RestingSound ==
    ASSUME NEW s, NEW ver, NEW accounts
    PROVE  WorkerSound(s, Resting, ver, accounts)
  BY DEF WorkerSound, Resting, Workers

(* The empty pool satisfies the invariant.                                 *)
LEMMA InitPoolInv == Init => PoolInv
  <1> SUFFICES ASSUME Init PROVE PoolInv
    OBVIOUS
  <1>1. ListsInv
    <2>1. perAccount = << >> /\ DOMAIN perAccount = {}
      BY DEF Init
    <2> QED BY <2>1 DEF ListsInv
  <1>2. WorkersInv
    <2>1. worker = [s \in Senders |-> Resting]
      BY DEF Init
    <2> QED BY <2>1, RestingSound DEF WorkersInv
  <1>3. IndexesInv
    BY FS_EmptySet, TxPoolAssumption DEF Init, IndexesInv
  <1> QED BY <1>1, <1>2, <1>3 DEF PoolInv

-----------------------------------------------------------------------------
(* The steps.                                                              *)

\* A sound list in place of one account's.
LEMMA SetListStep ==
    ASSUME ListsInv, NEW s, NEW list, SetList(s, list),
           ListSound(s, list, allTransactions', verified'),
           \A a \in DOMAIN perAccount :
              a # s => ListSound(a, perAccount[a], allTransactions', verified')
    PROVE  ListsInv' /\ DOMAIN perAccount' = DOMAIN perAccount \cup {s}
  <1> DEFINE A == DOMAIN perAccount \cup {s}
  <1>1. perAccount' = [a \in A |-> IF a = s THEN list ELSE perAccount[a]]
    BY DEF SetList
  <1>2. DOMAIN perAccount' = A /\ perAccount' = [a \in DOMAIN perAccount' |-> perAccount'[a]]
    BY <1>1
  <1>3. \A a \in A : ListSound(a, perAccount'[a], allTransactions', verified')
    <2> TAKE a \in A
    <2>1. perAccount'[a] = IF a = s THEN list ELSE perAccount[a]
      BY <1>1
    <2> QED BY <2>1
  <1> QED BY <1>2, <1>3 DEF ListsInv

\* More transactions in the pool, or more verified ones, leave the lists sound.
LEMMA ListSoundGrows ==
    ASSUME NEW s, NEW list, NEW all, NEW all2, NEW ver, NEW ver2,
           ListSound(s, list, all, ver), all \subseteq all2, ver \subseteq ver2
    PROVE  ListSound(s, list, all2, ver2)
  BY DEF ListSound

\* And the goroutines, with more lists.
LEMMA WorkerSoundGrows ==
    ASSUME NEW s, NEW w, NEW ver, NEW ver2, NEW accounts, NEW accounts2,
           WorkerSound(s, w, ver, accounts), ver \subseteq ver2, accounts \subseteq accounts2
    PROVE  WorkerSound(s, w, ver2, accounts2)
  BY DEF WorkerSound

\* One goroutine goes on, the others stay.
LEMMA WorkerStep ==
    ASSUME WorkersInv, NEW s \in Senders, NEW w,
           worker' = [worker EXCEPT ![s] = w],
           WorkerSound(s, w, verified', DOMAIN perAccount'),
           \A r \in Senders : r # s => WorkerSound(r, worker[r], verified', DOMAIN perAccount')
    PROVE  WorkersInv'
  <1>1. worker = [r \in Senders |-> worker[r]]
    BY DEF WorkersInv
  <1>2. worker' = [r \in Senders |-> IF r = s THEN w ELSE worker[r]]
    BY <1>1
  <1>3. worker' = [r \in Senders |-> worker'[r]]
    BY ZenonT(40), <1>2
  <1>4. \A r \in Senders : WorkerSound(r, worker'[r], verified', DOMAIN perAccount')
    <2> TAKE r \in Senders
    <2>1. worker'[r] = IF r = s THEN w ELSE worker[r]
      BY <1>2
    <2> QED BY <2>1
  <1> QED BY <1>3, <1>4 DEF WorkersInv

(* Workers stay sound while verdicts and lists are only added.             *)
LEMMA WorkersElsewhere ==
    ASSUME WorkersInv, UNCHANGED worker, verified \subseteq verified',
           DOMAIN perAccount \subseteq DOMAIN perAccount'
    PROVE  WorkersInv'
  <1>1. \A r \in Senders : WorkerSound(r, worker[r], verified', DOMAIN perAccount')
    BY WorkerSoundGrows DEF WorkersInv
  <1> QED BY <1>1 DEF WorkersInv

(* A step that leaves the two indexes alone keeps them in agreement.       *)
LEMMA IndexesElsewhere ==
    ASSUME IndexesInv, UNCHANGED <<allTransactions, feePriorityQueue, panicked>>
    PROVE  IndexesInv'
  BY DEF IndexesInv, Up

\* Add.
LEMMA AddStep ==
    ASSUME PoolInv, NEW tx \in Tx, Add(tx)
    PROVE  PoolInv'
  <1> DEFINE list == IF tx.sender \in DOMAIN perAccount THEN perAccount[tx.sender]
                     ELSE newAddressTransactions
             res == ListAdd(list, tx)
  <1>1. /\ Unlocked /\ ~ Full
        /\ SetList(tx.sender, res.list)
        /\ IF res.added THEN /\ allTransactions' = allTransactions \cup {tx}
                             /\ feePriorityQueue' = feePriorityQueue \cup {tx}
           ELSE UNCHANGED <<allTransactions, feePriorityQueue>>
        /\ UNCHANGED <<worker, panicked, verified>>
    BY DEF Add
  <1>2. ListSound(tx.sender, list, allTransactions, verified)
    <2>1. CASE tx.sender \in DOMAIN perAccount
      BY <2>1 DEF PoolInv, ListsInv
    <2>2. CASE tx.sender \notin DOMAIN perAccount
      <3>1. list = newAddressTransactions
        BY <2>2
      <3>2. Listed(newAddressTransactions) = {}
        BY NewListSound DEF Listed
      <3> HIDE DEF list
      <3> QED BY <3>1, <3>2, NewListSound, TxPoolAssumption DEF ListSound
    <2> QED BY <2>1, <2>2
  <1> HIDE DEF list
  <1>3. /\ ListOK(tx.sender, res.list)
        /\ Size(res.list) <= MaxTransactionsPerAccount
        /\ Listed(res.list) \subseteq Listed(list) \cup (IF res.added THEN {tx} ELSE {})
        /\ Processed(res.list) \subseteq Processed(list)
    BY <1>2, ListAddSound DEF ListSound
  <1> HIDE DEF res
  <1>4. allTransactions \subseteq allTransactions' /\ verified' = verified
    BY <1>1
  <1>5. ListSound(tx.sender, res.list, allTransactions', verified')
    BY <1>1, <1>2, <1>3 DEF ListSound
  <1>6. \A a \in DOMAIN perAccount : ListSound(a, perAccount[a], allTransactions', verified')
    BY <1>4, ListSoundGrows DEF PoolInv, ListsInv
  <1>7. ListsInv' /\ DOMAIN perAccount' = DOMAIN perAccount \cup {tx.sender}
    BY Zenon, <1>1, <1>5, <1>6, SetListStep DEF PoolInv
  <1>8. WorkersInv'
    BY <1>1, <1>4, <1>7, WorkersElsewhere DEF PoolInv
  <1>9. IndexesInv'
    <2>1. /\ allTransactions \subseteq Tx /\ IsFiniteSet(allTransactions)
          /\ feePriorityQueue = allTransactions
          /\ Cardinality(allTransactions) \in Nat
          /\ Cardinality(allTransactions) <= MaxTransactions
      BY <1>1, TxPoolAssumption, FS_CardinalityType DEF PoolInv, IndexesInv, Unlocked, Full
    <2>2. CASE res.added
      <3>1. allTransactions' = allTransactions \cup {tx} /\ feePriorityQueue' = allTransactions'
        BY <1>1, <2>1, <2>2
      <3>2. IsFiniteSet(allTransactions') /\ Cardinality(allTransactions') <= MaxTransactions + 1
        <4>1. /\ IsFiniteSet(allTransactions \cup {tx})
              /\ Cardinality(allTransactions \cup {tx}) =
                    IF tx \in allTransactions THEN Cardinality(allTransactions)
                    ELSE Cardinality(allTransactions) + 1
          BY <2>1, FS_AddElement
        <4>2. Cardinality(allTransactions \cup {tx}) <= MaxTransactions + 1
          BY <2>1, <4>1, TxPoolAssumption
        <4> QED BY <3>1, <4>1, <4>2
      <3> QED BY <2>1, <3>1, <3>2 DEF IndexesInv
    <2>3. CASE ~ res.added
      BY <1>1, <2>3, IndexesElsewhere DEF PoolInv
    <2> QED BY <2>2, <2>3
  <1> QED BY <1>7, <1>8, <1>9 DEF PoolInv

\* An Add that waits for the mutex it holds changes nothing but that.
LEMMA AddEvictsStep ==
    ASSUME PoolInv, NEW tx \in Tx, AddEvicts(tx)
    PROVE  PoolInv'
  <1>1. UNCHANGED <<allTransactions, feePriorityQueue, perAccount, worker, panicked, verified>>
    BY DEF AddEvicts
  <1>2. ListsInv'
    BY <1>1 DEF PoolInv, ListsInv
  <1>3. WorkersInv'
    BY <1>1, WorkersElsewhere DEF PoolInv
  <1> QED BY <1>1, <1>2, <1>3, IndexesElsewhere DEF PoolInv

\* Taking a transaction out of the pool.
LEMMA removeStep ==
    ASSUME PoolInv, NEW tx \in Tx, remove(tx), Up, UNCHANGED verified
    PROVE  ListsInv' /\ IndexesInv'
  <1> DEFINE old == perAccount[tx.sender]
             list == removeNonce(old, tx.nonce)
             rest == allTransactions \ {tx}
  <1>1. tx.nonce \in Nat
    BY TxPoolAssumption
  <1>2. \A a \in DOMAIN perAccount : ListSound(a, perAccount[a], allTransactions, verified)
    BY DEF PoolInv, ListsInv
  \* The transaction is in no list but its sender's.
  <1>3. \A a \in DOMAIN perAccount : a # tx.sender => ListSound(a, perAccount[a], rest, verified)
    <2> TAKE a \in DOMAIN perAccount
    <2> HAVE a # tx.sender
    <2>1. ListSound(a, perAccount[a], allTransactions, verified)
      BY <1>2
    <2>2. tx \notin Listed(perAccount[a])
      BY <2>1 DEF ListSound, ListOK, Listed
    <2> QED BY <2>1, <2>2 DEF ListSound
  <1>4. /\ rest \subseteq Tx /\ IsFiniteSet(rest)
        /\ Cardinality(rest) <= MaxTransactions + 1
    <2>1. /\ allTransactions \subseteq Tx /\ IsFiniteSet(allTransactions)
          /\ Cardinality(allTransactions) <= MaxTransactions + 1
      BY DEF PoolInv, IndexesInv
    <2>2. rest \in SUBSET allTransactions
      OBVIOUS
    <2> HIDE DEF rest
    <2>3. IsFiniteSet(rest) /\ Cardinality(rest) <= Cardinality(allTransactions)
      BY <2>1, <2>2, FS_Subset
    <2>4. Cardinality(rest) \in Nat /\ Cardinality(allTransactions) \in Nat
      BY <2>1, <2>3, FS_CardinalityType
    <2> QED BY <2>1, <2>2, <2>3, <2>4, TxPoolAssumption
  <1>5. CASE tx \notin allTransactions
    <2>1. UNCHANGED <<allTransactions, feePriorityQueue, perAccount, panicked>>
      BY <1>5 DEF remove
    <2>2. ListsInv'
      BY <2>1 DEF PoolInv, ListsInv
    <2> QED BY <2>1, <2>2, IndexesElsewhere DEF PoolInv
  <1>6. CASE tx \in allTransactions /\ tx.sender \notin DOMAIN perAccount
    <2>1. allTransactions' = rest /\ panicked' = TRUE /\ UNCHANGED perAccount
      BY <1>6 DEF remove
    <2> HIDE DEF rest
    <2>2. \A a \in DOMAIN perAccount : ListSound(a, perAccount[a], rest, verified)
      BY <1>3, <1>6
    <2>3. ListsInv'
      BY <2>1, <2>2 DEF PoolInv, ListsInv
    <2> QED BY <1>4, <2>1, <2>3 DEF IndexesInv, Up
  <1>7. CASE tx \in allTransactions /\ tx.sender \in DOMAIN perAccount
    <2>1. /\ allTransactions' = rest /\ feePriorityQueue' = rest
          /\ IF Size(list) = 0
             THEN perAccount' = Restrict(perAccount, DOMAIN perAccount \ {tx.sender})
             ELSE SetList(tx.sender, list)
      BY <1>7 DEF remove
    <2>2. ListSound(tx.sender, list, rest, verified)
      <3>1. /\ ListOK(tx.sender, old) /\ Size(old) <= MaxTransactionsPerAccount
            /\ Listed(old) \subseteq allTransactions /\ Processed(old) \subseteq verified
        BY <1>2, <1>7 DEF ListSound
      <3>2. /\ ListOK(tx.sender, list)
            /\ DOMAIN list.transactions = DOMAIN old.transactions \ {tx.nonce}
        BY <1>1, <3>1, RemoveNonceSound
      <3>3. /\ Listed(list) \subseteq {t \in Listed(old) : t.nonce # tx.nonce}
            /\ Processed(list) \subseteq Processed(old)
        BY <1>1, <3>1, RemovedListed
      <3> HIDE DEF list, old
      <3>4. Size(list) <= MaxTransactionsPerAccount
        <4>1. IsFiniteSet(DOMAIN old.transactions)
          BY <3>1 DEF ListOK
        <4>2. Size(list) <= Size(old) /\ Size(list) \in Nat /\ Size(old) \in Nat
          BY Zenon, <3>1, <3>2, <4>1, FS_Subset, SizeType DEF Size
        <4> QED BY <3>1, <4>2, TxPoolAssumption
      <3>5. Listed(list) \subseteq rest
        BY <3>1, <3>3
      <3> QED BY <3>1, <3>2, <3>3, <3>4, <3>5 DEF ListSound
    <2> HIDE DEF list, rest
    <2>3. ListsInv'
      <3>1. CASE Size(list) = 0
        <4> DEFINE A == DOMAIN perAccount \ {tx.sender}
        <4>1. perAccount' = [a \in A |-> perAccount[a]]
          BY <2>1, <3>1 DEF Restrict
        <4>2. DOMAIN perAccount' = A /\ perAccount' = [a \in DOMAIN perAccount' |-> perAccount'[a]]
          BY <4>1
        <4>3. \A a \in A : ListSound(a, perAccount'[a], allTransactions', verified')
          <5> TAKE a \in A
          <5>1. perAccount'[a] = perAccount[a] /\ ListSound(a, perAccount[a], rest, verified)
            BY <1>3, <4>1
          <5> QED BY <2>1, <5>1
        <4> QED BY <4>2, <4>3 DEF ListsInv
      <3>2. CASE Size(list) # 0
        BY Zenon, <1>3, <2>1, <2>2, <3>2, SetListStep DEF PoolInv
      <3> QED BY <3>1, <3>2
    <2> QED BY <1>4, <2>1, <2>3 DEF IndexesInv
  <1> QED BY <1>5, <1>6, <1>7

\* A goroutine whose list is dropped keeps on with the empty one.
LEMMA OrphanedSound ==
    ASSUME WorkersInv, UNCHANGED verified
    PROVE  /\ Orphaned(worker) = [s \in Senders |-> Orphaned(worker)[s]]
           /\ \A s \in Senders :
                 /\ WorkerSound(s, Orphaned(worker)[s], verified', DOMAIN perAccount')
                 /\ Orphaned(worker)[s].step = worker[s].step
                 /\ Orphaned(worker)[s].combined = worker[s].combined
  <1> DEFINE o == Orphaned(worker)
             Dropped(s) == /\ s \in DOMAIN perAccount /\ s \notin DOMAIN perAccount'
                           /\ worker[s].step # "idle"
  <1>1. o = [s \in Senders |-> IF Dropped(s) THEN [worker[s] EXCEPT !.orphan = TRUE] ELSE worker[s]]
    BY DEF Orphaned
  <1>2. o = [s \in Senders |-> o[s]]
    BY <1>1
  <1>3. ASSUME NEW s \in Senders
        PROVE  /\ WorkerSound(s, o[s], verified', DOMAIN perAccount')
               /\ o[s].step = worker[s].step /\ o[s].combined = worker[s].combined
    <2> DEFINE w == worker[s]
    <2>1. o[s] = IF Dropped(s) THEN [w EXCEPT !.orphan = TRUE] ELSE w
      BY <1>1
    <2>2. WorkerSound(s, w, verified, DOMAIN perAccount)
      BY DEF WorkersInv
    <2>3. CASE Dropped(s)
      <3>1. o[s] = [w EXCEPT !.orphan = TRUE]
        BY <2>1, <2>3
      <3>2. w \in Workers
        BY <2>2 DEF WorkerSound
      <3> HIDE DEF o, w
      <3>3. /\ o[s] \in Workers /\ o[s].orphan = TRUE /\ o[s].step = w.step
            /\ o[s].promotables = w.promotables /\ o[s].combined = w.combined
        BY Zenon, <3>1, <3>2 DEF Workers
      <3>4. WorkerSound(s, o[s], verified', DOMAIN perAccount')
        BY <2>2, <3>3 DEF WorkerSound
      <3> QED BY <3>3, <3>4 DEF w
    <2>4. CASE ~ Dropped(s)
      <3>1. o[s] = w
        BY <2>1, <2>4
      <3>2. w.step # "idle" /\ ~ w.orphan => s \in DOMAIN perAccount'
        BY <2>2, <2>4 DEF WorkerSound
      <3> HIDE DEF o, w
      <3>3. WorkerSound(s, o[s], verified', DOMAIN perAccount')
        BY <2>2, <3>1, <3>2 DEF WorkerSound
      <3> QED BY <3>1, <3>3 DEF w
    <2> QED BY <2>3, <2>4
  <1> QED BY <1>2, <1>3

(* The handler of a new block removes its transactions.                    *)
LEMMA RemoveIncludedStep ==
    ASSUME PoolInv, NEW tx \in Tx, RemoveIncluded(tx)
    PROVE  PoolInv'
  <1>1. remove(tx) /\ Up /\ UNCHANGED verified /\ worker' = Orphaned(worker)
    BY DEF RemoveIncluded, Unlocked
  <1>2. ListsInv' /\ IndexesInv'
    BY <1>1, removeStep
  <1>3. WorkersInv'
    <2>1. /\ worker' = [s \in Senders |-> worker'[s]]
          /\ \A s \in Senders : WorkerSound(s, worker'[s], verified', DOMAIN perAccount')
      BY <1>1, OrphanedSound DEF PoolInv
    <2> QED BY <2>1 DEF WorkersInv
  <1> QED BY <1>2, <1>3 DEF PoolInv

\* A part of a sequence.
LEMMA SubSeqSound ==
    ASSUME NEW S, NEW q \in Seq(S), NEW m \in Nat, NEW n \in Nat, n <= Len(q)
    PROVE  /\ SubSeq(q, m + 1, n) \in Seq(S)
           /\ Range(SubSeq(q, m + 1, n)) \subseteq Range(q)
  <1>1. SubSeq(q, m + 1, n) \in Seq(S)
    OBVIOUS
  <1>2. \A i \in DOMAIN SubSeq(q, m + 1, n) : \E j \in DOMAIN q : SubSeq(q, m + 1, n)[i] = q[j]
    OBVIOUS
  <1> QED BY <1>1, <1>2 DEF Range

(* A worker removes the next transaction that failed verification.         *)
LEMMA RemoveInvalidStep ==
    ASSUME PoolInv, NEW s \in Senders, RemoveInvalid(s)
    PROVE  PoolInv'
  <1> DEFINE tx == Head(worker[s].combined)
             rest == Tail(worker[s].combined)
             o == Orphaned(worker)
             w == IF rest = << >> THEN Resting ELSE [o[s] EXCEPT !.combined = rest]
  <1>1. worker[s] \in Workers /\ worker[s].combined # << >>
    BY DEF PoolInv, WorkersInv, WorkerSound, RemoveInvalid
  <1>2. tx \in Tx /\ rest \in Seq(Tx)
    <2>1. worker[s].combined \in Seq(Tx)
      BY <1>1 DEF Workers
    <2> QED BY <1>1, <2>1
  <1>3. remove(tx) /\ Up /\ UNCHANGED verified /\ worker' = [o EXCEPT ![s] = w]
    BY DEF RemoveInvalid, Unlocked
  <1>4. ListsInv' /\ IndexesInv'
    <2> HIDE DEF tx
    <2> QED BY <1>2, <1>3, removeStep
  <1>5. /\ o = [r \in Senders |-> o[r]]
        /\ \A r \in Senders : WorkerSound(r, o[r], verified', DOMAIN perAccount')
        /\ o[s].step = worker[s].step
    BY <1>3, OrphanedSound DEF PoolInv
  <1>6. WorkerSound(s, w, verified', DOMAIN perAccount')
    <2>1. CASE rest = << >>
      BY <2>1, RestingSound
    <2>2. CASE rest # << >>
      <3>1. w = [o[s] EXCEPT !.combined = rest]
        BY <2>2
      <3>2. o[s] \in Workers /\ o[s].step = "remove"
        BY <1>5 DEF WorkerSound, RemoveInvalid
      <3> HIDE DEF o, rest, w
      <3>3. /\ w \in Workers /\ w.step = "remove" /\ w.orphan = o[s].orphan
            /\ w.combined = rest
        BY ZenonT(40), <1>2, <3>1, <3>2 DEF Workers
      <3> QED BY <1>5, <2>2, <3>2, <3>3 DEF WorkerSound
    <2> QED BY Zenon, <2>1, <2>2
  <1> HIDE DEF o, w
  <1>7. worker' = [r \in Senders |-> IF r = s THEN w ELSE o[r]]
    BY <1>3, <1>5
  <1>8. worker' = [r \in Senders |-> worker'[r]]
    BY <1>7
  <1>9. \A r \in Senders : WorkerSound(r, worker'[r], verified', DOMAIN perAccount')
    <2> TAKE r \in Senders
    <2>1. worker'[r] = IF r = s THEN w ELSE o[r]
      BY <1>7
    <2> QED BY <1>5, <1>6, <2>1
  <1> QED BY <1>4, <1>8, <1>9 DEF PoolInv, WorkersInv

\* What is still needed of the verified transactions is kept.
LEMMA KeptSound ==
    ASSUME PoolInv
    PROVE  /\ \A a \in DOMAIN perAccount : ListSound(a, perAccount[a], allTransactions, Kept)
           /\ \A r \in Senders : WorkerSound(r, worker[r], Kept, DOMAIN perAccount)
  <1> DEFINE U == UNION ({Range(GetProcessables(perAccount[a])) : a \in DOMAIN perAccount}
                         \cup {Range(worker[r].promotables) : r \in Senders})
  <1>1. Kept = verified \cap U
    BY DEF Kept
  <1>2. \A a \in DOMAIN perAccount : Range(GetProcessables(perAccount[a])) \subseteq U
    OBVIOUS
  <1>3. \A r \in Senders : Range(worker[r].promotables) \subseteq U
    OBVIOUS
  <1> HIDE DEF U
  <1>4. \A a \in DOMAIN perAccount : ListSound(a, perAccount[a], allTransactions, Kept)
    <2> TAKE a \in DOMAIN perAccount
    <2>1. ListSound(a, perAccount[a], allTransactions, verified)
      BY DEF PoolInv, ListsInv
    <2>2. Processed(perAccount[a]) \subseteq U
      <3>1. Range(GetProcessables(perAccount[a])) = Processed(perAccount[a])
        BY <2>1, GetProcessablesSound DEF ListSound
      <3> QED BY <1>2, <3>1
    <2> QED BY <1>1, <2>1, <2>2 DEF ListSound
  <1>5. \A r \in Senders : WorkerSound(r, worker[r], Kept, DOMAIN perAccount)
    <2> TAKE r \in Senders
    <2>1. WorkerSound(r, worker[r], verified, DOMAIN perAccount)
      BY DEF PoolInv, WorkersInv
    <2> QED BY <1>1, <1>3, <2>1 DEF WorkerSound
  <1> QED BY <1>4, <1>5

(* A round of reorg starts a worker for every list.                        *)
LEMMA ReorgStep ==
    ASSUME PoolInv, Reorg
    PROVE  PoolInv'
  <1>1. /\ worker' = [s \in Senders |-> IF s \in DOMAIN perAccount
                                        THEN [Resting EXCEPT !.step = "promotable"] ELSE Resting]
        /\ verified' = Kept
        /\ UNCHANGED <<allTransactions, feePriorityQueue, perAccount, panicked>>
    BY DEF Reorg
  <1>2. ListsInv'
    BY <1>1, KeptSound DEF PoolInv, ListsInv
  <1>3. WorkersInv'
    <2>1. worker' = [s \in Senders |-> worker'[s]]
      BY <1>1
    <2>2. ASSUME NEW s \in Senders
          PROVE  WorkerSound(s, worker'[s], verified', DOMAIN perAccount')
      <3>1. CASE s \in DOMAIN perAccount
        <4> DEFINE w == [step |-> "promotable", orphan |-> FALSE,
                         promotables |-> << >>, combined |-> << >>]
        <4>1. worker'[s] = w
          BY Zenon, <1>1, <3>1 DEF Resting
        <4>2. w \in Workers /\ w.step = "promotable"
          BY DEF Workers
        <4>3. s \in DOMAIN perAccount'
          BY <1>1, <3>1
        <4> HIDE DEF w
        <4> QED BY <4>1, <4>2, <4>3 DEF WorkerSound
      <3>2. CASE s \notin DOMAIN perAccount
        <4>1. worker'[s] = Resting
          BY <1>1, <3>2
        <4> QED BY <4>1, RestingSound
      <3> QED BY <3>1, <3>2
    <2> QED BY <2>1, <2>2 DEF WorkersInv
  <1> QED BY <1>1, <1>2, <1>3, IndexesElsewhere DEF PoolInv

\* A step of one goroutine that only reads the pool.
LEMMA ReadingStep ==
    ASSUME PoolInv, NEW s \in Senders, NEW w, worker' = [worker EXCEPT ![s] = w],
           WorkerSound(s, w, verified, DOMAIN perAccount),
           UNCHANGED <<allTransactions, feePriorityQueue, perAccount, panicked, verified>>
    PROVE  PoolInv'
  <1>1. ListsInv'
    BY DEF PoolInv, ListsInv
  <1>2. WorkersInv'
    <2>1. \A r \in Senders : WorkerSound(r, worker[r], verified', DOMAIN perAccount')
      BY DEF PoolInv, WorkersInv
    <2>2. WorkerSound(s, w, verified', DOMAIN perAccount')
      OBVIOUS
    <2> QED BY Zenon, <2>1, <2>2, WorkerStep DEF PoolInv
  <1> QED BY <1>1, <1>2, IndexesElsewhere DEF PoolInv

\* The list a goroutine works on.
LEMMA ListOfSound ==
    ASSUME PoolInv, NEW s \in Senders, worker[s].step # "idle"
    PROVE  ListOK(s, ListOf(s))
  <1>1. ~ worker[s].orphan => s \in DOMAIN perAccount
    BY DEF PoolInv, WorkersInv, WorkerSound
  <1>2. s \in DOMAIN perAccount => ListOK(s, perAccount[s])
    BY DEF PoolInv, ListsInv, ListSound
  <1> QED BY <1>1, <1>2, NewListSound DEF ListOf

(* A worker reads what its list could promote.                             *)
LEMMA ReadPromotableStep ==
    ASSUME PoolInv, NEW s \in Senders, ReadPromotable(s)
    PROVE  PoolInv'
  <1> DEFINE old == worker[s]
             txs == GetPromotable(ListOf(s))
             w == IF txs = << >> THEN Resting
                  ELSE [old EXCEPT !.step = "processable", !.promotables = txs]
  <1>1. /\ old.step = "promotable" /\ worker' = [worker EXCEPT ![s] = w]
        /\ UNCHANGED <<allTransactions, feePriorityQueue, perAccount, panicked, verified>>
    BY DEF ReadPromotable
  <1>2. txs \in Seq(Tx)
    BY <1>1, ListOfSound, GetPromotableType
  <1>3. WorkerSound(s, old, verified, DOMAIN perAccount)
    BY DEF PoolInv, WorkersInv
  <1> HIDE DEF txs, old
  <1>4. WorkerSound(s, w, verified, DOMAIN perAccount)
    <2>1. CASE txs = << >>
      BY <2>1, RestingSound
    <2>2. CASE txs # << >>
      <3>1. w = [old EXCEPT !.step = "processable", !.promotables = txs]
        BY <2>2
      <3>2. old \in Workers
        BY <1>3 DEF WorkerSound
      <3> HIDE DEF w
      <3>3. w \in Workers /\ w.step = "processable" /\ w.orphan = old.orphan
        BY Zenon, <1>2, <3>1, <3>2 DEF Workers
      <3> QED BY <1>1, <1>3, <3>3 DEF WorkerSound
    <2> QED BY <2>1, <2>2
  <1> HIDE DEF w
  <1> QED BY Zenon, <1>1, <1>4, ReadingStep

(* A worker reads what its list has promoted already.                      *)
LEMMA ReadProcessablesStep ==
    ASSUME PoolInv, NEW s \in Senders, ReadProcessables(s)
    PROVE  PoolInv'
  <1> DEFINE old == worker[s]
             p == GetProcessables(ListOf(s))
             combined == p \o old.promotables
             w == [old EXCEPT !.step = "verify", !.combined = combined]
  <1>1. /\ old.step = "processable" /\ worker' = [worker EXCEPT ![s] = w]
        /\ UNCHANGED <<allTransactions, feePriorityQueue, perAccount, panicked, verified>>
    BY Zenon DEF ReadProcessables
  <1>2. p \in Seq(Tx)
    BY <1>1, ListOfSound, GetProcessablesSound
  <1>3. WorkerSound(s, old, verified, DOMAIN perAccount)
    BY DEF PoolInv, WorkersInv
  <1>4. old \in Workers /\ old.promotables \in Seq(Tx)
    BY <1>3 DEF WorkerSound, Workers
  <1> HIDE DEF p, old
  <1>5. combined \in Seq(Tx) /\ Len(old.promotables) <= Len(combined)
    BY <1>2, <1>4
  <1>6. WorkerSound(s, w, verified, DOMAIN perAccount)
    <2> HIDE DEF combined
    <2>1. /\ w \in Workers /\ w.step = "verify" /\ w.orphan = old.orphan
          /\ w.promotables = old.promotables /\ w.combined = combined
      BY Zenon, <1>4, <1>5 DEF Workers
    <2> HIDE DEF w
    <2> QED BY <1>1, <1>3, <1>5, <2>1 DEF WorkerSound
  <1> HIDE DEF w
  <1> QED BY Zenon, <1>1, <1>6, ReadingStep

(* A worker verifies transactions, up to the first that fails.             *)
LEMMA VerifyStep ==
    ASSUME PoolInv, NEW s \in Senders, NEW failed, Verify(s, failed)
    PROVE  PoolInv'
  <1> DEFINE old == worker[s]
             all == old.combined
             processables == Len(all) - Len(old.promotables)
             valid == IF failed = 0 THEN all ELSE SubSeq(all, 1, failed - 1)
             promotables == SubSeq(valid, processables + 1, Len(valid))
             combined == SubSeq(all, Len(valid) + 1, Len(all))
             w == [old EXCEPT !.step = "promote", !.promotables = promotables,
                              !.combined = combined]
  <1>1. /\ old.step = "verify" /\ failed \in 0 .. Len(all)
        /\ verified' = Kept \cup Range(valid)
        /\ worker' = [worker EXCEPT ![s] = w]
        /\ UNCHANGED <<allTransactions, feePriorityQueue, perAccount, panicked>>
    BY DEF Verify
  <1>2. WorkerSound(s, old, verified, DOMAIN perAccount)
    BY DEF PoolInv, WorkersInv
  <1>3. /\ old \in Workers /\ old.promotables \in Seq(Tx) /\ all \in Seq(Tx)
        /\ Len(old.promotables) <= Len(all)
        /\ ~ old.orphan => s \in DOMAIN perAccount
    BY <1>1, <1>2 DEF WorkerSound, Workers
  <1>4. processables \in Nat
    <2> DEFINE p == old.promotables
    <2> HIDE DEF all, p
    <2>1. p \in Seq(Tx) /\ all \in Seq(Tx) /\ Len(p) <= Len(all)
      BY <1>3 DEF p
    <2> QED BY <2>1 DEF p
  <1> HIDE DEF all
  <1>5. valid \in Seq(Tx) /\ Len(valid) \in Nat
    <2>1. CASE failed = 0
      BY <1>3, <2>1
    <2>2. CASE failed # 0
      <3>1. failed - 1 \in Nat /\ failed - 1 <= Len(all)
        BY <1>1, <1>3, <2>2
      <3>2. SubSeq(all, 0 + 1, failed - 1) \in Seq(Tx)
        BY <1>3, <3>1, SubSeqSound
      <3> QED BY <2>2, <3>2
    <2> QED BY <2>1, <2>2
  <1> HIDE DEF valid, processables
  <1>6. promotables \in Seq(Tx) /\ Range(promotables) \subseteq Range(valid)
    BY <1>4, <1>5, SubSeqSound
  <1>7. combined \in Seq(Tx)
    <2>1. Len(all) \in Nat
      BY <1>3
    <2> QED BY <1>3, <1>5, <2>1, SubSeqSound
  <1> HIDE DEF promotables, combined, old
  <1>8. WorkerSound(s, w, verified', DOMAIN perAccount')
    <2>1. /\ w \in Workers /\ w.step = "promote" /\ w.orphan = old.orphan
          /\ w.promotables = promotables
      BY ZenonT(40), <1>3, <1>6, <1>7 DEF Workers
    <2>2. Range(promotables) \subseteq verified'
      BY <1>1, <1>6
    <2>3. ~ old.orphan => s \in DOMAIN perAccount'
      BY <1>1, <1>3
    <2> HIDE DEF w
    <2> QED BY <2>1, <2>2, <2>3 DEF WorkerSound
  <1> HIDE DEF w
  <1>9. Kept \subseteq verified'
    BY <1>1
  <1>10. \A r \in Senders : WorkerSound(r, worker[r], verified', DOMAIN perAccount')
    <2>1. DOMAIN perAccount \subseteq DOMAIN perAccount'
      BY <1>1
    <2> QED BY <1>9, <2>1, KeptSound, WorkerSoundGrows
  <1>11. WorkersInv'
    BY Zenon, <1>1, <1>8, <1>10, WorkerStep DEF PoolInv
  <1>12. ListsInv'
    <2>1. \A a \in DOMAIN perAccount : ListSound(a, perAccount[a], allTransactions, verified')
      BY <1>9, KeptSound, ListSoundGrows
    <2> QED BY Zenon, <1>1, <2>1 DEF PoolInv, ListsInv
  <1> QED BY <1>1, <1>11, <1>12, IndexesElsewhere DEF PoolInv

(* A worker promotes what the application has accepted.                    *)
LEMMA PromoteValidStep ==
    ASSUME PoolInv, NEW s \in Senders, PromoteValid(s)
    PROVE  PoolInv'
  <1> DEFINE old == worker[s]
             w == IF old.combined = << >> THEN Resting ELSE [old EXCEPT !.step = "remove"]
  <1>1. /\ old.step = "promote"
        /\ IF old.orphan THEN UNCHANGED perAccount
           ELSE SetList(s, Promote(perAccount[s], old.promotables))
        /\ worker' = [worker EXCEPT ![s] = w]
        /\ UNCHANGED <<allTransactions, feePriorityQueue, panicked, verified>>
    BY DEF PromoteValid
  <1>2. WorkerSound(s, old, verified, DOMAIN perAccount)
    BY DEF PoolInv, WorkersInv
  <1>3. /\ old \in Workers /\ old.promotables \in Seq(Tx)
        /\ Range(old.promotables) \subseteq verified
        /\ ~ old.orphan => s \in DOMAIN perAccount
    BY <1>1, <1>2 DEF WorkerSound, Workers
  <1> HIDE DEF old
  <1>4. \A a \in DOMAIN perAccount : ListSound(a, perAccount[a], allTransactions', verified')
    BY <1>1 DEF PoolInv, ListsInv
  <1>5. ListsInv' /\ DOMAIN perAccount' = DOMAIN perAccount
    <2>1. CASE old.orphan
      <3>1. UNCHANGED perAccount
        BY <1>1, <2>1
      <3> QED BY <1>4, <3>1 DEF PoolInv, ListsInv
    <2>2. CASE ~ old.orphan
      <3> DEFINE list == perAccount[s]
                 new == Promote(list, old.promotables)
      <3>1. s \in DOMAIN perAccount /\ SetList(s, new)
        BY <1>1, <1>3, <2>2
      <3>2. ListSound(s, list, allTransactions', verified')
        BY <1>4, <3>1
      <3>3. /\ ListOK(s, new) /\ new.transactions = list.transactions
            /\ Processed(new) \subseteq Processed(list) \cup Range(old.promotables)
        BY <1>3, <3>2, PromoteSound DEF ListSound
      <3> HIDE DEF new, list
      <3>4. Size(new) = Size(list) /\ Listed(new) = Listed(list)
        BY <3>3 DEF Size, Listed
      <3>5. ListSound(s, new, allTransactions', verified')
        BY ZenonT(40), <1>1, <1>3, <3>2, <3>3, <3>4 DEF ListSound
      <3>6. ListsInv' /\ DOMAIN perAccount' = DOMAIN perAccount \cup {s}
        BY Zenon, <1>4, <3>1, <3>5, SetListStep DEF PoolInv
      <3> QED BY <3>1, <3>6
    <2> QED BY <2>1, <2>2
  <1>6. WorkerSound(s, w, verified', DOMAIN perAccount')
    <2>1. CASE old.combined = << >>
      BY <2>1, RestingSound
    <2>2. CASE old.combined # << >>
      <3>1. w = [old EXCEPT !.step = "remove"]
        BY <2>2
      <3> HIDE DEF w
      <3>2. /\ w \in Workers /\ w.step = "remove" /\ w.orphan = old.orphan
            /\ w.combined = old.combined
        BY <1>3, <3>1 DEF Workers
      <3> QED BY <1>3, <1>5, <2>2, <3>2 DEF WorkerSound
    <2> QED BY <2>1, <2>2
  <1> HIDE DEF w
  <1>7. \A r \in Senders : WorkerSound(r, worker[r], verified', DOMAIN perAccount')
    BY <1>1, <1>5 DEF PoolInv, WorkersInv
  <1>8. WorkersInv'
    BY ZenonT(40), <1>1, <1>6, <1>7, WorkerStep DEF PoolInv
  <1> QED BY <1>1, <1>5, <1>8, IndexesElsewhere DEF PoolInv

(* Every step of the pool keeps the invariant.                             *)
LEMMA NextPoolInv == PoolInv /\ [Next]_vars => PoolInv'
  <1> SUFFICES ASSUME PoolInv, [Next]_vars PROVE PoolInv'
    OBVIOUS
  <1>1. ASSUME NEW tx \in Tx, Add(tx) \/ AddEvicts(tx) \/ RemoveIncluded(tx) PROVE PoolInv'
    BY <1>1, AddStep, AddEvictsStep, RemoveIncludedStep
  <1>2. CASE Reorg
    BY <1>2, ReorgStep
  <1>3. ASSUME NEW s \in Senders, Work(s) PROVE PoolInv'
    BY <1>3, ReadPromotableStep, ReadProcessablesStep, PromoteValidStep, RemoveInvalidStep,
       VerifyStep DEF Work
  <1>4. CASE UNCHANGED vars
    <2>1. UNCHANGED <<allTransactions, feePriorityQueue, perAccount, worker, panicked, verified>>
      BY <1>4 DEF vars
    <2>2. ListsInv'
      BY <2>1 DEF PoolInv, ListsInv
    <2>3. WorkersInv'
      BY <2>1, WorkersElsewhere DEF PoolInv
    <2> QED BY <2>1, <2>2, <2>3, IndexesElsewhere DEF PoolInv
  <1> QED BY <1>1, <1>2, <1>3, <1>4 DEF Next

\* The inductive invariant of the pool: Add, Remove and the goroutines of reorg,
\* in whatever order their calls come, keep it.
THEOREM PoolInvariant == Spec => []PoolInv
  BY InitPoolInv, NextPoolInv, PTL DEF Spec

\* txlist.go: a list keeps to its limit, and its processable nonces are nonces of
\* the list in ascending order.
THEOREM ListsAlwaysSound == Spec => []ListsSound
  <1>1. PoolInv => ListsSound
    BY DEF PoolInv, ListsInv, ListSound, ListOK, ListsSound
  <1> QED BY <1>1, PoolInvariant, PTL

\* GetProcessable hands out only what a reorg verified, also when a replacement
\* arrives between the verification and Promote.
THEOREM OnlyVerifiedProcessed == Spec => []ProcessablesVerified
  <1>1. PoolInv => ProcessablesVerified
    BY GetProcessablesSound DEF PoolInv, ListsInv, ListSound, ProcessablesVerified
  <1> QED BY <1>1, PoolInvariant, PTL

\* The lists, the set of all transactions and the heap of txpool.go agree, and
\* the pool exceeds its limit by one at most.
THEOREM IndexesAlwaysAgree == Spec => []PoolIndexesAgree
  <1>1. \A s : \A list : ListOK(s, list) => Range(list.transactions) = Listed(list)
    BY DEF Range, Listed
  <1>2. PoolInv => PoolIndexesAgree
    BY <1>1 DEF PoolInv, ListsInv, ListSound, IndexesInv, PoolIndexesAgree
  <1> QED BY <1>2, PoolInvariant, PTL
=============================================================================
