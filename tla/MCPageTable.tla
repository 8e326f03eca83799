----------------------------- MODULE MCPageTable -----------------------------
(***************************************************************************)
(* Finite instances of PageTable; page ids are a range.                    *)
(***************************************************************************)
EXTENDS PageTable

CONSTANT Pids   \* how many pages the trie has

MCPid == 1..Pids
=============================================================================
