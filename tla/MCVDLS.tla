------------------------------- MODULE MCVDLS -------------------------------
(***************************************************************************)
(* Finite instances of VDLS: three records, of 2, 3 and 5 bytes, the last  *)
(* two with the same text.                                                 *)
(***************************************************************************)
EXTENDS VDLS

CONSTANTS r2, r3, r5, ta, tb

MCRecord == {r2, r3, r5}
MCSizeOf == [r \in MCRecord |-> CASE r = r2 -> 2 [] r = r3 -> 3 [] r = r5 -> 5]
MCTextOf == [r \in MCRecord |-> IF r = r2 THEN ta ELSE tb]
=============================================================================
