--------------------------- MODULE ObliviaProgram --------------------------
(* The deployed program: signers make proofs off-chain, and anyone sends    *)
(* instructions in any order, with any accounts and arguments, reusing any  *)
(* proof that was ever made public.                                         *)
EXTENDS ObliviaLedger

VARIABLES
    ledger,     \* the program's accounts
    proofs      \* statements somebody holding the key has proved (not on-chain)

vars == <<ledger, proofs>>

Init ==
    /\ ledger = InitialLedger
    /\ proofs = {}

\* The holder of key k runs the prover for digest d at time ts.
Prove(k, d, ts) ==
    /\ proofs' = proofs \cup {StatementOf(k, d, ts)}
    /\ UNCHANGED ledger

Initialize ==
    /\ InitializeAccepts(ledger)
    /\ ledger' = InitializeWrites(ledger)
    /\ UNCHANGED proofs

RegisterContract(d) ==
    /\ RegisterContractAccepts(ledger, d)
    /\ ledger' = RegisterContractWrites(ledger, d)
    /\ UNCHANGED proofs

CreateMultisig(a) ==
    /\ CreateMultisigAccepts(ledger, a)
    /\ ledger' = CreateMultisigWrites(ledger, a)
    /\ UNCHANGED proofs

VerifyGroth16V2(h, proof, inputs, key, sig) ==
    /\ proof \in proofs
    /\ VerifyGroth16V2Accepts(ledger, h, proof, inputs, key, sig)
    /\ ledger' = VerifyGroth16V2Writes(ledger, h, key, sig)
    /\ UNCHANGED proofs

RecordVerifiedMultisig(h, key, a, r) ==
    /\ RecordVerifiedMultisigAccepts(ledger, h, key, a, r)
    /\ ledger' = RecordVerifiedMultisigWrites(ledger, key, a)
    /\ UNCHANGED proofs

\* One transaction of two instructions, as the relay and the SDK send it.
VerifyAndRecord(h, proof, inputs, key, sig, a) ==
    /\ proof \in proofs
    /\ VerifyAndRecordAccepts(ledger, h, proof, inputs, key, sig, a)
    /\ ledger' = VerifyAndRecordWrites(ledger, h, key, sig, a)
    /\ UNCHANGED proofs

\* Refusal is part of this action: see FinalizeNeverNeeded.
FinalizeMultisig(a, h) ==
    /\ ledger' = IF FinalizeMultisigAccepts(ledger, a, h)
                 THEN FinalizeMultisigWrites(ledger, a) ELSE ledger
    /\ UNCHANGED proofs

\* A transaction with a refused instruction leaves no trace; submit_signature
\* and submit_multisig_signature are refused always, verify_signature writes
\* nothing.
NoEffect == UNCHANGED vars

\* Arguments that fail the pairing check have no effect and are skipped early.
SubmitProof ==
    \E p \in proofs, q \in Statement :
        /\ PairingHolds(p, q)
        /\ \E h \in Hash, k \in Key, s \in SigCommitment :
              \/ VerifyGroth16V2(h, p, q, k, s)
              \/ \E a \in DOMAIN ledger.multisig : VerifyAndRecord(h, p, q, k, s, a)

Next ==
    \/ \E k \in Key, d \in Hash, ts \in Stamp : Prove(k, d, ts)
    \/ Initialize
    \/ \E d \in Digest : RegisterContract(d)
    \/ \E a \in Address : CreateMultisig(a)
    \/ SubmitProof
    \/ \E h \in Hash, k \in Key, a \in DOMAIN ledger.multisig, r \in ledger.signature :
          RecordVerifiedMultisig(h, k, a, r)
    \/ \E a \in DOMAIN ledger.multisig, h \in Hash : FinalizeMultisig(a, h)
    \/ NoEffect

Spec == Init /\ [][Next]_vars

-----------------------------------------------------------------------------
(* Safety.  The predicates on ledgers are those of ObliviaLedger. *)

\* Every variable and account has its type; the u8 tallies never overflow.
TypeOK == LedgerTypeOK(ledger) /\ proofs \subseteq Statement

\* Every receipt comes from a proof made by that key for that very contract,
\* whatever public inputs, accounts and replayed proofs callers combined
\* (verify_contract_bound_proof).
ReceiptsProved == EveryReceiptProved(ledger, proofs)

\* A counted member has a signer record and a receipt for the contract of the
\* agreement that counted it, never only a record of an earlier release
\* (record_verified_multisig's account constraints).
MembersVerified == EveryMemberVerified(ledger)

\* The tally stored in an agreement is the number of its member accounts.
TallyIsMembership == TallyCountsMembers(ledger)

\* An agreement keeps the settings its address was derived from, its tally
\* stops at the threshold, and it is finalized exactly there.
\* browser-client/src/multisig.js validateStatus refuses any other status.
FinalizedExactlyAtThreshold ==
    \A a \in DOMAIN ledger.multisig : AgreementSound(a, ledger.multisig[a])

\* A finalized agreement was consented to by at least threshold distinct keys,
\* each with a proof of its own for this contract.
FinalizedByQuorum ==
    \A a \in FinalAgreements(ledger) : Cardinality(Consenting(proofs, a.hash)) >= a.threshold

\* A key signs a contract once, at whatever time and with whatever signature
\* commitment, although the receipt address depends on the commitment.
OneReceiptPerKey == SignedOnce(ledger)

\* The public counters agree with the accounts: contracts registered and
\* signatures recorded, in total and for each contract.
CountersMatchReceipts == CountersSound(ledger)

\* verify_signature accepts a recorded signature for ever.
ReceiptsStayVerifiable ==
    \A r \in ledger.signature : VerifySignatureAccepts(ledger, r.contract, r)

\* finalize_multisig never has anything left to do: "counting the last
\* required signature finalizes it" (lib.rs).
FinalizeNeverNeeded ==
    \A a \in DOMAIN ledger.multisig, h \in Hash : ~FinalizeMultisigAccepts(ledger, a, h)

\* No agreement is ever closed or re-created or changes its settings, and once
\* finalized neither its account nor its members change.
FinalityIsTerminal == [][OnlyAdvances(ledger, ledger')]_vars

\* The inductive invariant of the proofs: the above and what supports them.
IInv ==
    /\ LedgerInv(ledger, proofs)
    /\ proofs \subseteq Statement /\ IsFiniteSet(proofs)
    /\ \A q \in proofs : CircuitSatisfied(q)

-----------------------------------------------------------------------------
(* The program implements the abstract agreement. *)

Agreement == INSTANCE ThresholdAgreement WITH
    Agreement <- Address, Signer <- Key,
    consent <- Consents(proofs),
    open <- DOMAIN ledger.multisig,
    signers <- SignersOf(ledger),
    final <- FinalAgreements(ledger)

\* Whatever happens on-chain is a step of some agreement or invisible to it:
\* a signer is counted once, after consenting, and the count that reaches the
\* threshold finalizes in the same step.
ImplementsAgreement == Agreement!Spec
=============================================================================
