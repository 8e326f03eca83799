----------------------------- MODULE MCDeltaCache -----------------------------
(***************************************************************************)
(* Finite instances of DeltaCache.  Page ids are interchangeable.          *)
(***************************************************************************)
EXTENDS DeltaCache

Symmetry == Permutations(Pid)
=============================================================================
