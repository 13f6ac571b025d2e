--------------------------- MODULE ObliviaLedger ---------------------------
(* The accounts of the oblivia_contracts program and what each of its       *)
(* instructions checks and writes.                                          *)
(*                                                                          *)
(* Every account is a PDA: it lives at an address derived from its seeds,   *)
(* exists at most once, and `init` fails when it already exists.  The       *)
(* ledger keeps each family of accounts either as a function from address   *)
(* to contents (its DOMAIN is the set of existing accounts) or, where the   *)
(* contents only repeat the seeds, as the set of existing addresses.        *)
(*                                                                          *)
(* An instruction is a pair of operators of the ledger l: XAccepts(l, ...), *)
(* the account constraints and require! checks, and XWrites(l, ...), the    *)
(* ledger it leaves.  The Solana runtime commits a transaction only if all  *)
(* its instructions accept; otherwise the ledger is unchanged.              *)
EXTENDS Integers, FiniteSets

CONSTANTS
    Half,           \* the values a 16-byte half of a contract hash can take
    ZeroHalf,       \* the all-zero half
    Digest,         \* the 32-byte contract hashes callers use, <<first half, second half>>
    Key,            \* signer keys; a key commitment stands for the key it hides
    Stamp,          \* signing times, hidden inside the signature commitment
    MaxU8,          \* largest value of a u8 setting (255 in the code)
    LegacyContracts,\* contracts registered by earlier releases
    LegacyRecords,  \* signer records written by releases that required no proof
    LegacyCount,    \* signature_count of each contract at the upgrade
    LegacyTotal     \* registry.total_signatures at the upgrade

ZeroDigest == <<ZeroHalf, ZeroHalf>>
Hash == Digest \ {ZeroDigest}
U8 == 0..MaxU8

\* Poseidon(key, low, high, timestamp) and Poseidon(key) are taken as injective.
SigCommitment == [key : Key, digest : Hash, stamp : Stamp]

\* The four public inputs of a proof.
Statement == [key : Key, sig : SigCommitment, low : Half, high : Half]

Receipt == [contract : Hash, key : Key, sig : SigCommitment]
SignerRecord == [contract : Hash, key : Key]
Address == [hash : Hash, threshold : U8, maxSigners : U8]
Member == [multisig : Address, key : Key]
Contract == [signatureCount : Nat, active : BOOLEAN]
MultiSigContract == [contract : Hash, threshold : U8, maxSigners : U8,
                     collected : U8, finalized : BOOLEAN]

ASSUME LedgerAssumption ==
    /\ ZeroHalf \in Half
    /\ Digest \subseteq Half \X Half
    /\ MaxU8 \in Nat
    /\ IsFiniteSet(LegacyContracts) /\ LegacyContracts \subseteq Hash
    /\ LegacyRecords \subseteq [contract : LegacyContracts, key : Key]
    /\ LegacyCount \in [LegacyContracts -> Nat]
    /\ LegacyTotal \in Nat
    /\ LegacyContracts = {} => LegacyTotal = 0

\* What the current program finds when it is first deployed: an empty ledger,
\* or the accounts of earlier releases.  Agreements of those releases use
\* addresses this program never derives, so they are not part of the ledger.
InitialLedger ==
    [ initialized     |-> LegacyContracts # {},
      totalContracts  |-> Cardinality(LegacyContracts),
      totalSignatures |-> LegacyTotal,
      contract        |-> [h \in LegacyContracts |->
                             [signatureCount |-> LegacyCount[h], active |-> TRUE]],
      signature       |-> {},
      signerRecord    |-> LegacyRecords,
      multisig        |-> [a \in {} |-> a],
      member          |-> {} ]

\* The account created at address x with contents v.
Create(accounts, x, v) ==
    [y \in DOMAIN accounts \cup {x} |-> IF y = x THEN v ELSE accounts[y]]

-----------------------------------------------------------------------------
(* initialize *)

InitializeAccepts(l) == ~l.initialized

InitializeWrites(l) ==
    [l EXCEPT !.initialized = TRUE, !.totalContracts = 0, !.totalSignatures = 0]

-----------------------------------------------------------------------------
(* register_contract *)

\* Mutants: without the zero-hash check, without `init`, and with an inactive
\* contract account.
RegisterContractAccepts_ZeroHash(l, d) == l.initialized /\ d \notin DOMAIN l.contract
RegisterContractAccepts_Again(l, d) == l.initialized /\ d # ZeroDigest
RegisterContractWrites_Inactive(l, d) ==
    [l EXCEPT !.contract = Create(@, d, [signatureCount |-> 0, active |-> FALSE]),
              !.totalContracts = @ + 1]

RegisterContractAccepts(l, d) ==
    /\ l.initialized
    /\ d \notin DOMAIN l.contract
    /\ d # ZeroDigest

RegisterContractWrites(l, d) ==
    [l EXCEPT !.contract = Create(@, d, [signatureCount |-> 0, active |-> TRUE]),
              !.totalContracts = @ + 1]

-----------------------------------------------------------------------------
(* create_multisig *)

CreateMultisigAccepts(l, a) ==
    /\ a.hash \in DOMAIN l.contract
    /\ a \notin DOMAIN l.multisig
    /\ a.threshold > 0
    /\ a.maxSigners >= a.threshold
    /\ l.contract[a.hash].active

CreateMultisigWrites(l, a) ==
    [l EXCEPT !.multisig = Create(@, a,
        [contract |-> a.hash, threshold |-> a.threshold, maxSigners |-> a.maxSigners,
         collected |-> 0, finalized |-> FALSE])]

-----------------------------------------------------------------------------
(* verify_groth16_v2 *)

\* The circuit: whoever knows key k can prove exactly these statements.
StatementOf(k, d, ts) ==
    [key |-> k, sig |-> [key |-> k, digest |-> d, stamp |-> ts],
     low |-> d[1], high |-> d[2]]

\* What the circuit enforces of the public inputs it proves.
CircuitSatisfied(q) == q.sig.key = q.key /\ q.sig.digest = <<q.low, q.high>>

\* Mutants: the pairing result ignored, one limb compared, the signer record
\* not created by `init`.
PairingHolds_Ignored(proof, inputs) == TRUE
LimbsMatch_High(hash, inputs) == inputs.high = hash[2]

\* The pairing check: a proof verifies for the public inputs it was made for.
PairingHolds(proof, inputs) == proof = inputs

\* The program's limb check: the proof's public limbs are those of the
\* contract account the instruction names.
LimbsMatch(hash, inputs) == inputs.low = hash[1] /\ inputs.high = hash[2]

ProofAccepted(hash, proof, inputs, key, sig) ==
    /\ LimbsMatch(hash, inputs)
    /\ inputs.key = key /\ inputs.sig = sig
    /\ PairingHolds(proof, inputs)

VerifyGroth16V2Accepts_NoDedupe(l, h, proof, inputs, key, sig) ==
    /\ l.initialized
    /\ h \in DOMAIN l.contract
    /\ [contract |-> h, key |-> key, sig |-> sig] \notin l.signature
    /\ ProofAccepted(h, proof, inputs, key, sig)

VerifyGroth16V2Accepts(l, h, proof, inputs, key, sig) ==
    /\ l.initialized
    /\ h \in DOMAIN l.contract
    /\ [contract |-> h, key |-> key, sig |-> sig] \notin l.signature
    /\ [contract |-> h, key |-> key] \notin l.signerRecord
    /\ ProofAccepted(h, proof, inputs, key, sig)

\* The contract account with one more signature.
Signed(c) == [c EXCEPT !.signatureCount = @ + 1]

VerifyGroth16V2Writes(l, h, key, sig) ==
    [l EXCEPT !.signature = @ \cup {[contract |-> h, key |-> key, sig |-> sig]},
              !.signerRecord = @ \cup {[contract |-> h, key |-> key]},
              !.contract[h] = Signed(@),
              !.totalSignatures = @ + 1]

-----------------------------------------------------------------------------
(* record_verified_multisig: the caller names the contract hash h and the   *)
(* key, and passes an agreement account a and a signature account r.        *)

\* Mutants: no has_one, a receipt of another key, no member `init`, counting
\* after finalization, finalization late and never.
AgreementOf_NoHasOne(l, a, h) ==
    LET ms == l.multisig[a]
    IN  a = [hash |-> a.hash, threshold |-> ms.threshold, maxSigners |-> ms.maxSigners]
SignerVerified_AnyReceipt(l, h, key, r) ==
    [contract |-> h, key |-> key] \in l.signerRecord /\ r \in l.signature /\ r.contract = h

\* seeds and has_one of the agreement account, recomputed from its contents.
AgreementOf(l, a, h) ==
    LET ms == l.multisig[a]
    IN  /\ a = [hash |-> h, threshold |-> ms.threshold, maxSigners |-> ms.maxSigners]
        /\ ms.contract = h

\* The signer record and the contract-bound receipt of this key.
SignerVerified(l, h, key, r) ==
    /\ [contract |-> h, key |-> key] \in l.signerRecord
    /\ r \in l.signature
    /\ r.contract = h /\ r.key = key

RecordVerifiedMultisigAccepts_Twice(l, h, key, a, r) ==
    /\ l.initialized /\ h \in DOMAIN l.contract /\ a \in DOMAIN l.multisig
    /\ AgreementOf(l, a, h) /\ SignerVerified(l, h, key, r)
    /\ l.contract[h].active /\ ~l.multisig[a].finalized
    /\ l.multisig[a].collected < l.multisig[a].maxSigners
RecordVerifiedMultisigAccepts_Finalized(l, h, key, a, r) ==
    /\ l.initialized /\ h \in DOMAIN l.contract /\ a \in DOMAIN l.multisig
    /\ AgreementOf(l, a, h) /\ SignerVerified(l, h, key, r)
    /\ [multisig |-> a, key |-> key] \notin l.member
    /\ l.contract[h].active
    /\ l.multisig[a].collected < l.multisig[a].maxSigners

RecordVerifiedMultisigAccepts(l, h, key, a, r) ==
    /\ l.initialized
    /\ h \in DOMAIN l.contract
    /\ a \in DOMAIN l.multisig
    /\ AgreementOf(l, a, h)
    /\ SignerVerified(l, h, key, r)
    /\ [multisig |-> a, key |-> key] \notin l.member
    /\ l.contract[h].active
    /\ ~l.multisig[a].finalized
    /\ l.multisig[a].collected < l.multisig[a].maxSigners

Counted_Late(ms) ==
    [ms EXCEPT !.collected = @ + 1, !.finalized = @ \/ ms.collected + 1 > ms.threshold]
Counted_Only(ms) == [ms EXCEPT !.collected = @ + 1]

\* An agreement account with one more signature, finalized at its threshold.
Counted(ms) ==
    [ms EXCEPT !.collected = @ + 1,
               !.finalized = @ \/ ms.collected + 1 >= ms.threshold]

RecordVerifiedMultisigWrites(l, key, a) ==
    [l EXCEPT !.member = @ \cup {[multisig |-> a, key |-> key]},
              !.multisig[a] = Counted(@)]

-----------------------------------------------------------------------------
(* finalize_multisig *)

FinalizeMultisigAccepts(l, a, h) ==
    /\ h \in DOMAIN l.contract
    /\ a \in DOMAIN l.multisig
    /\ a = [hash |-> h, threshold |-> l.multisig[a].threshold,
            maxSigners |-> l.multisig[a].maxSigners]
    /\ ~l.multisig[a].finalized
    /\ l.multisig[a].collected >= l.multisig[a].threshold

FinalizeMultisigWrites(l, a) ==
    [l EXCEPT !.multisig[a].finalized = TRUE]

-----------------------------------------------------------------------------
(* verify_signature: read-only *)

VerifySignatureAccepts(l, h, r) ==
    /\ h \in DOMAIN l.contract
    /\ l.contract[h].active
    /\ r \in l.signature
    /\ r.contract = h

-----------------------------------------------------------------------------
(* The transaction every client of a multisig sends: verify, then record in *)
(* the same transaction.                                                    *)

VerifyAndRecordAccepts(l, h, proof, inputs, key, sig, a) ==
    /\ VerifyGroth16V2Accepts(l, h, proof, inputs, key, sig)
    /\ RecordVerifiedMultisigAccepts(VerifyGroth16V2Writes(l, h, key, sig), h, key, a,
                                     [contract |-> h, key |-> key, sig |-> sig])

VerifyAndRecordWrites(l, h, key, sig, a) ==
    RecordVerifiedMultisigWrites(VerifyGroth16V2Writes(l, h, key, sig), key, a)
-----------------------------------------------------------------------------
(* What the accounts of a ledger l, reached with the proofs of a set p,     *)
(* must satisfy together.  The state machines state these of their ledger.  *)

MembersOf(l, a) == {m \in l.member : m.multisig = a}

ReceiptsOf(l, h) == {r \in l.signature : r.contract = h}

\* The keys whose holders proved a statement about contract hash h.
Consenting(p, h) == {k \in Key : \E q \in p : q.key = k /\ <<q.low, q.high>> = h}

Consents(p) == {c \in Hash \X Key : c[2] \in Consenting(p, c[1])}

\* The keys each agreement counted, and the agreements that are finalized.
SignersOf(l) == [a \in Address |-> {k \in Key : [multisig |-> a, key |-> k] \in l.member}]
FinalAgreements(l) == {a \in DOMAIN l.multisig : l.multisig[a].finalized}

IsLedger(l) ==
    DOMAIN l = {"initialized", "totalContracts", "totalSignatures", "contract",
                "signature", "signerRecord", "multisig", "member"}

LedgerTypeOK(l) ==
    /\ IsLedger(l)
    /\ l.initialized \in BOOLEAN
    /\ l.totalContracts \in Nat /\ l.totalSignatures \in Nat
    /\ DOMAIN l.contract \subseteq Hash
    /\ l.contract \in [DOMAIN l.contract -> Contract]
    /\ l.signature \subseteq Receipt
    /\ l.signerRecord \subseteq SignerRecord
    /\ DOMAIN l.multisig \subseteq Address
    /\ l.multisig \in [DOMAIN l.multisig -> MultiSigContract]
    /\ l.member \subseteq Member

EveryReceiptProved(l, p) ==
    \A r \in l.signature :
        LET statement == StatementOf(r.key, r.contract, r.sig.stamp)
        IN  statement \in p /\ r.sig = statement.sig

EveryMemberVerified(l) ==
    \A m \in l.member :
        /\ m.multisig \in DOMAIN l.multisig
        /\ [contract |-> m.multisig.hash, key |-> m.key] \in l.signerRecord
        /\ \E r \in l.signature : r.contract = m.multisig.hash /\ r.key = m.key

TallyCountsMembers(l) ==
    \A a \in DOMAIN l.multisig : l.multisig[a].collected = Cardinality(MembersOf(l, a))

AgreementSound(a, ms) ==
    /\ ms.contract = a.hash
    /\ ms.threshold = a.threshold /\ ms.maxSigners = a.maxSigners
    /\ ms.threshold \in 1..ms.maxSigners
    /\ ms.collected <= ms.threshold
    /\ ms.finalized <=> ms.collected = ms.threshold

SignedOnce(l) ==
    \A r, s \in l.signature : r.contract = s.contract /\ r.key = s.key => r = s

CountersSound(l) ==
    /\ l.totalContracts = Cardinality(DOMAIN l.contract)
    /\ l.totalSignatures = LegacyTotal + Cardinality(l.signature)
    /\ \A h \in DOMAIN l.contract :
          l.contract[h].signatureCount =
              (IF h \in LegacyContracts THEN LegacyCount[h] ELSE 0) + Cardinality(ReceiptsOf(l, h))

\* From ledger l to ledger n no agreement is closed, resettled or reduced, and
\* a finalized one does not change.
OnlyAdvances(l, n) ==
    \A a \in DOMAIN l.multisig :
        /\ a \in DOMAIN n.multisig
        /\ n.multisig[a].threshold = l.multisig[a].threshold
        /\ n.multisig[a].maxSigners = l.multisig[a].maxSigners
        /\ MembersOf(l, a) \subseteq MembersOf(n, a)
        /\ l.multisig[a].finalized =>
              n.multisig[a] = l.multisig[a] /\ MembersOf(n, a) = MembersOf(l, a)

\* What holds along with them and makes their conjunction inductive: accounts
\* that depend on another exist only with it, and no contract is inactive.
AccountsLinked(l) ==
    /\ LegacyContracts \subseteq DOMAIN l.contract
    /\ \A h \in DOMAIN l.contract : l.contract[h].active
    /\ ~l.initialized => DOMAIN l.contract = {} /\ l.totalSignatures = 0
    /\ \A r \in l.signature :
          /\ r.contract \in DOMAIN l.contract
          /\ [contract |-> r.contract, key |-> r.key] \in l.signerRecord
    /\ IsFiniteSet(DOMAIN l.contract) /\ IsFiniteSet(l.signature) /\ IsFiniteSet(l.member)

LedgerInv(l, p) ==
    /\ LedgerTypeOK(l)
    /\ AccountsLinked(l)
    /\ EveryReceiptProved(l, p)
    /\ EveryMemberVerified(l)
    /\ TallyCountsMembers(l)
    /\ \A a \in DOMAIN l.multisig : AgreementSound(a, l.multisig[a])
    /\ SignedOnce(l)
    /\ CountersSound(l)

=============================================================================
