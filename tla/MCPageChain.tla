----------------------------- MODULE MCPageChain -----------------------------
(***************************************************************************)
(* Finite instances of PageChain; the slots of the instances are ranges.   *)
(***************************************************************************)
EXTENDS PageChain

CONSTANT Slots   \* how many child positions the page has

MCSlot == 1..Slots
=============================================================================
