------------------------- MODULE MCBlockProcessing -------------------------
(* Trees of blocks for BlockProcessing. *)
EXTENDS BlockProcessing, TLC

Block(height, parent, slot, generator, maxHeightPrevoted, bft, sound) ==
    [height |-> height, previousBlockID |-> parent, slot |-> slot,
     generatorAddress |-> generator, maxHeightPrevoted |-> maxHeightPrevoted,
     bft |-> bft, sound |-> sound]

TwoValidators == {"v1", "v2"}

\* On top of a1: a2; b2, which may win the tie break over a2, and whose branch
\* has more prevotes, finalizes height 2, and ends in a block that does not
\* execute; c2, which may win the tie break and does not execute.
ForkHeaders ==
    [id \in {"g", "a1", "a2", "b2", "b3", "b4", "c2"} |->
        CASE id = "g"  -> Block(0, None, 0, "v0", 0, 0, TRUE)
          [] id = "a1" -> Block(1, "g",  1, "v1", 0, 0, TRUE)
          [] id = "a2" -> Block(2, "a1", 2, "v2", 0, 0, TRUE)
          [] id = "b2" -> Block(2, "a1", 3, "v1", 0, 0, TRUE)
          [] id = "b3" -> Block(3, "b2", 4, "v2", 1, 2, TRUE)
          [] id = "b4" -> Block(4, "b3", 5, "v1", 2, 2, FALSE)
          [] id = "c2" -> Block(2, "a1", 3, "v1", 0, 0, FALSE)]

\* Branches by generators that are not validators, so that block sync is the
\* only way to them: from a1, ending in a block that does not execute, and from
\* the genesis block; a3 finalizes a1.  c2 may win the tie break over a2, and does
\* not execute.
SyncHeaders ==
    [id \in {"g", "a1", "a2", "a3", "c2", "d2", "d3", "d4", "f1", "f2"} |->
        CASE id = "g"  -> Block(0, None, 0, "v0", 0, 0, TRUE)
          [] id = "a1" -> Block(1, "g",  1, "v1", 0, 0, TRUE)
          [] id = "a2" -> Block(2, "a1", 2, "v2", 0, 0, TRUE)
          [] id = "a3" -> Block(3, "a2", 3, "v1", 0, 1, TRUE)
          [] id = "c2" -> Block(2, "a1", 3, "v1", 0, 0, FALSE)
          [] id = "d2" -> Block(2, "a1", 3, "x",  0, 0, TRUE)
          [] id = "d3" -> Block(3, "d2", 4, "x",  1, 1, TRUE)
          [] id = "d4" -> Block(4, "d3", 5, "x",  2, 2, FALSE)
          [] id = "f1" -> Block(1, "g",  2, "x",  0, 0, TRUE)
          [] id = "f2" -> Block(2, "f1", 3, "x",  1, 0, TRUE)]

\* f1 may win the tie break over a1; its branch has more prevotes, finalizes f1,
\* and ends in a block that does not execute.
CrashHeaders ==
    [id \in {"g", "a1", "f1", "f2", "f3"} |->
        CASE id = "g"  -> Block(0, None, 0, "v0", 0, 0, TRUE)
          [] id = "a1" -> Block(1, "g",  1, "v1", 0, 0, TRUE)
          [] id = "f1" -> Block(1, "g",  2, "v2", 0, 0, TRUE)
          [] id = "f2" -> Block(2, "f1", 3, "v1", 0, 1, TRUE)
          [] id = "f3" -> Block(3, "f2", 4, "v2", 1, 1, FALSE)]
=============================================================================
