----------------------------- MODULE MCCeremony -----------------------------
(* A small instance of Ceremony for TLC.                                    *)
EXTENDS Ceremony
CONSTANTS alice, bob
MCContributor == {alice, bob}
=============================================================================
