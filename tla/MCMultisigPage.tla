--------------------------- MODULE MCMultisigPage ---------------------------
(* A small instance of MultisigPage for TLC.                                *)
EXTENDS MultisigPage
CONSTANTS k1, k2, k3, d1, d2
MCKey == {k1, k2, k3}
MCDraft == {d1, d2}
=============================================================================
