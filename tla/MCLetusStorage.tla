---------------------------- MODULE MCLetusStorage ----------------------------
(***************************************************************************)
(* Finite instances of LetusStorage.  Keys and values are interchangeable. *)
(***************************************************************************)
EXTENDS LetusStorage, TLC

Symmetry == Permutations(Key) \cup Permutations(Value)
=============================================================================
