---------------------------- MODULE MCRateLimit -----------------------------
(* Small instances of RateLimit for TLC.                                    *)
EXTENDS RateLimit, TLC

CONSTANTS a1, a2
MCAddr == {a1, a2}
AddrSymmetry == Permutations(MCAddr)
=============================================================================
