------------------------------ MODULE Releasing ------------------------------
(***************************************************************************)
(* What the release workflow promises: a changeset that reaches main waits *)
(* until somebody merges a pull request that offers it, that happens to it *)
(* once, and only then can it be published; publishing never takes back.   *)
(***************************************************************************)
VARIABLES waiting,    \* the changesets nobody has decided on
          offered,    \* those of them that merging the Version Packages PR would release
          decided,    \* the changesets that a merge has consumed
          published   \* the changesets in a published version

vars == <<waiting, offered, decided, published>>

Init == waiting = {} /\ offered = {} /\ decided = {} /\ published = {}

\* One that main has never seen.
Arrive ==
    /\ \E changeset \in waiting' \ (waiting \cup decided) : waiting' = waiting \cup {changeset}
    /\ UNCHANGED <<offered, decided, published>>

Offer(changesets) ==
    /\ offered' = changesets
    /\ UNCHANGED <<waiting, decided, published>>

Merge ==
    /\ decided' = decided \cup offered
    /\ waiting' = waiting \ offered
    /\ offered' = {}
    /\ UNCHANGED published

Publish(changesets) ==
    /\ published' = published \cup changesets
    /\ UNCHANGED <<waiting, offered, decided>>

Next == \/ Arrive
        \/ \E changesets \in SUBSET waiting : Offer(changesets)
        \/ Merge
        \/ \E changesets \in SUBSET decided : Publish(changesets)

Spec == Init /\ [][Next]_vars
=============================================================================
