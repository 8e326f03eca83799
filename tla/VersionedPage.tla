---------------------------- MODULE VersionedPage ----------------------------
(***************************************************************************)
(* What the versioned page store promises for one page of the trie: every  *)
(* version the page was committed at can be read for ever, with exactly    *)
(* the contents it had then, and no other version is ever answered.  No    *)
(* delta pages, base pages or caches appear.  PageChain.tla implements it. *)
(***************************************************************************)
EXTENDS Integers

CONSTANTS
    Slot,        \* child positions in the page
    Version,     \* versions, a set of numbers
    Never,       \* contents of a slot nobody has updated
    None         \* the page has no such version

VARIABLE pages   \* pages[v]: contents of the page at version v, or None

Committed == {v \in Version : pages[v] # None}

\* The contents the next commit starts from.
Latest ==
    IF Committed = {} THEN [s \in Slot |-> Never]
    ELSE pages[CHOOSE v \in Committed : \A w \in Committed : w <= v]

Init == pages = [v \in Version |-> None]

\* A block updates the slots of S at a version later than every other.
Commit(S, v) ==
    /\ \A w \in Committed : w < v
    /\ pages' = [pages EXCEPT ![v] = [s \in Slot |-> IF s \in S THEN v ELSE Latest[s]]]

Next ==
    \E v \in Version : /\ pages'[v] # pages[v]
                       /\ \E S \in (SUBSET Slot) \ {{}} : Commit(S, v)

Spec == Init /\ [][Next]_pages
=============================================================================
