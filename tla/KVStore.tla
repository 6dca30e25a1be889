------------------------------ MODULE KVStore ------------------------------
(***************************************************************************)
(* What db/diffdb promises its callers, without the cache: a map that can  *)
(* be written, saved and restored while a block executes, then committed   *)
(* or thrown away; and committed maps that can be taken back, newest       *)
(* first.                                                                  *)
(***************************************************************************)
EXTENDS Integers, Sequences

CONSTANTS
    Keys,
    Values,
    None,       \* no value: the key is not in the map
    Ids         \* names for saved maps

VARIABLES
    contents,   \* the map as the executing block sees it
    base,       \* the map last committed
    undo,       \* earlier committed maps that can be gone back to, oldest first
    saved       \* snapshot id -> the map as it was

vars == <<contents, base, undo, saved>>

Maps == [Keys -> Values \cup {None}]

Init ==
    /\ base \in Maps
    /\ contents = base
    /\ undo = << >>
    /\ saved = << >>

Set(k, v) ==
    /\ contents' = [contents EXCEPT ![k] = v]
    /\ UNCHANGED <<base, undo, saved>>

Del(k) ==
    /\ contents' = [contents EXCEPT ![k] = None]
    /\ UNCHANGED <<base, undo, saved>>

Save(id) ==
    /\ id \notin DOMAIN saved
    /\ saved' = [i \in DOMAIN saved \cup {id} |->
                    IF i = id THEN contents ELSE saved[i]]
    /\ UNCHANGED <<contents, base, undo>>

Drop(id) ==
    /\ id \in DOMAIN saved
    /\ saved' = [i \in DOMAIN saved \ {id} |-> saved[i]]
    /\ UNCHANGED <<contents, base, undo>>

Restore(id) ==
    /\ id \in DOMAIN saved
    /\ contents' = saved[id]
    /\ saved' = [i \in DOMAIN saved \ {id} |-> saved[i]]
    /\ UNCHANGED <<base, undo>>

\* What was written becomes the committed map, in one step.
Commit ==
    /\ base' = contents
    /\ undo' = Append(undo, base)
    /\ saved' = << >>
    /\ UNCHANGED contents

\* What was written is forgotten.
Discard ==
    /\ contents' = base
    /\ saved' = << >>
    /\ UNCHANGED <<base, undo>>

\* Back to the map before the last commit.
Revert ==
    /\ undo # << >>
    /\ base' = undo[Len(undo)]
    /\ contents' = base'
    /\ undo' = SubSeq(undo, 1, Len(undo) - 1)
    /\ saved' = << >>

\* The oldest map can no longer be gone back to.
Forget ==
    /\ undo # << >>
    /\ undo' = Tail(undo)
    /\ UNCHANGED <<contents, base, saved>>

Next ==
    \/ \E k \in Keys : Del(k) \/ \E v \in Values : Set(k, v)
    \/ \E id \in Ids : Save(id) \/ Drop(id) \/ Restore(id)
    \/ Commit
    \/ Discard
    \/ Revert
    \/ Forget

Spec == Init /\ [][Next]_vars
=============================================================================
