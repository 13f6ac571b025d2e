------------------------------ MODULE MCProgram -----------------------------
(* Small instances of ObliviaProgram for TLC.                               *)
EXTENDS ObliviaProgram, TLC

CONSTANTS k1, k2, t1, t2

\* Halves 0 (all zero) and 1.  The two non-zero digests share their second
\* half, so a check of one limb only would confuse them.
MCHalf == {0, 1}
MCDigest == {<<0, 0>>, <<0, 1>>, <<1, 1>>}
MCKey == {k1, k2}
MCStamp == {t1}
MCLegacyContracts == {<<0, 1>>}
MCLegacyRecords == {[contract |-> <<0, 1>>, key |-> k1]}
MCLegacyCount == [h \in MCLegacyContracts |-> 1]

\* One contract, two signing times, nothing deployed before.
OneDigest == {<<0, 0>>, <<1, 0>>}
TwoStamps == {t1, t2}
NoLegacyCount == [h \in {} |-> 0]

KeySymmetry == Permutations(MCKey)
=============================================================================
