------------------------------ MODULE MCTxPool ------------------------------
EXTENDS TxPool

T(id, sender, nonce, fee) == [id |-> id, sender |-> sender, nonce |-> nonce, fee |-> fee]

(* One account with a replacement for one nonce and a nonce too many, and  *)
(* another account.                                                        *)
SomeTx == {T(1, "s", 0, 2), T(2, "s", 0, 3), T(3, "s", 1, 2), T(4, "s", 2, 2), T(5, "r", 0, 2)}

=============================================================================
