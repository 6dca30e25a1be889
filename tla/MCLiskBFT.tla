----------------------------- MODULE MCLiskBFT -----------------------------
(* Instances of LiskBFT for TLC. *)
EXTENDS LiskBFT, TLC

CONSTANTS v1, v2

Params(weights, precommit, certificate) ==
    [weights |-> weights, precommitThreshold |-> precommit,
     certificateThreshold |-> certificate]

\* Two validators, with equal and with different weights.
Pair == Params((v1 :> 1) @@ (v2 :> 1), 1, 1)
Heavy == Params((v1 :> 3) @@ (v2 :> 1), 2, 2)

\* One validator; in the second the other address only generates blocks.
Single1 == Params(v1 :> 1, 1, 1)
Single2 == Params((v2 :> 1) @@ (v1 :> 0), 1, 1)

\* SetBFTParameters refuses a threshold of a third of the weight, and more
\* validators than BatchSize.
Refused == Params(v1 :> 3, 1, 2)

Changes == {Heavy}
Rotation == {Single1, Single2, Pair, Refused}
=============================================================================
