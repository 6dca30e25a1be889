----------------------------- MODULE MCDownload -----------------------------
EXTENDS Download

CONSTANTS b1, b2, b3, bad

PeerBranch == <<b1, b2, b3>>

(* Part of the branch, all of it, the rest of it with and without what     *)
(* follows the block the sync aims at, a block that fails validation, and  *)
(* nothing.                                                                *)
SomeAnswers == {<<b1>>, <<b1, b2>>, <<b2>>, <<b2, b3>>, <<bad>>, <<>>}
ValidBlocks == {b1, b2, b3}

=============================================================================
