----------------------------- MODULE MCSponsor -----------------------------
(* Small instances of SponsorBudget for TLC.                                *)
EXTENDS SponsorBudget, TLC

CONSTANTS r1, r2

TwoSlots == {r1, r2}
SlotSymmetry == Permutations(Slot)
=============================================================================
