------------------------------ MODULE MCDMMTrie ------------------------------
(***************************************************************************)
(* A finite instance of DMMTrie: two keys of even length, whose pages are  *)
(* leaves, and one of odd length, whose page has a leaf below its root.    *)
(* The root page has two nodes in its second level and three child pages.  *)
(***************************************************************************)
EXTENDS DMMTrie

CONSTANTS a, b   \* the values

MCKey == {<<0, 0>>, <<0, 1>>, <<1, 0, 0>>}

MCValue == {a, b}

\* A commit puts one value under any of the keys, or another under all of
\* them, or deletes a key.
MCUpdates ==
    UNION {[keys -> {<<a>>}] : keys \in (SUBSET MCKey) \ {{}}}
    \cup [MCKey -> {<<b>>}]
    \cup UNION {[{k} -> {<<>>}] : k \in MCKey}
=============================================================================
