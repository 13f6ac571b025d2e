------------------------------ MODULE MCRelay -------------------------------
(* Small instances of Relay for TLC.                                        *)
EXTENDS Relay, TLC

CONSTANTS k1, k2, t1, r1, r2, r3

MCHalf == {0, 1}
Old == <<0, 1>>
New == <<1, 1>>
MCDigest == {<<0, 0>>, Old, New}
MCKey == {k1, k2}
MCLegacyContracts == {Old}
MCLegacyCount == [h \in MCLegacyContracts |-> 0]
NoLegacyCount == [h \in {} |-> 0]

\* A request about digest d, with a proof that key k made for digest p.
Ask(route, d, k, p) ==
    [route |-> route, hash |-> d, key |-> k,
     sig |-> [key |-> k, digest |-> d, stamp |-> t1], proof |-> StatementOf(k, p, t1),
     threshold |-> 2, maxSigners |-> 2]

\* k1 signs alone or with k2, k2 only in the agreement; one proof is made for
\* another contract.
Routes ==
    { Ask("/sign", New, k1, New), Ask("/sign", New, k2, Old),
      Ask("/multisig/create", New, k1, New), Ask("/multisig/create", <<0, 0>>, k1, New),
      [Ask("/multisig/create", New, k1, New) EXCEPT !.threshold = 0],
      Ask("/multisig/sign", New, k1, New), Ask("/multisig/sign", New, k2, New) }
Calls ==
    { Ask("signContract", New, k1, New), Ask("createMultiSigContract", New, k1, New),
      Ask("signMultiSig", New, k1, New), Ask("signMultiSig", New, k2, New),
      Ask("finalizeMultiSigContract", New, k1, New) }
Others ==
    { Ask("/multisig/create", New, k1, New), Ask("/multisig/sign", New, k1, New),
      Ask("/multisig/status", New, k1, New), Ask("initializeRegistry", New, k1, New) }

\* A request of the relay whose answers may be lost, a call of the SDK, and a
\* third, perhaps the first one's retry.
MCBody == [r \in {r1, r2, r3} |-> CASE r = r1 -> Routes [] r = r2 -> Calls [] OTHER -> Others]
MCOutside ==
    { [kind |-> "initialize", body |-> Ask("initializeRegistry", New, k1, New)],
      [kind |-> "submit", body |-> Ask("/multisig/sign", New, k2, New)] }

WrongProof == [r \in {r1, r2} |-> {Ask("/sign", New, k2, Old)}]

TwoRequests == {r1, r2}
ThreeRequests == {r1, r2, r3}
OneFlaky == {r1}
=============================================================================
