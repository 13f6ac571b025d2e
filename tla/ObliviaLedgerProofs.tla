------------------------ MODULE ObliviaLedgerProofs ------------------------
(* Every instruction of ObliviaLedger preserves LedgerInv, for every value  *)
(* of the constants.  The lemmas are about any ledger, not about the state  *)
(* of one machine, so every state machine over the ledger can cite them.    *)
EXTENDS ObliviaLedger, FiniteSetTheorems, FunctionTheorems, TLAPS

-----------------------------------------------------------------------------
(* What each instruction leaves in each field. *)

\* What initialize writes, field by field.
LEMMA InitializeFields ==
    ASSUME NEW l, IsLedger(l)
    PROVE  LET n == InitializeWrites(l)
           IN  /\ IsLedger(n)
               /\ n.initialized = TRUE /\ n.totalContracts = 0 /\ n.totalSignatures = 0
               /\ n.contract = l.contract /\ n.signature = l.signature
               /\ n.signerRecord = l.signerRecord
               /\ n.multisig = l.multisig /\ n.member = l.member
  BY DEF IsLedger, InitializeWrites

\* What register_contract writes, field by field.
LEMMA RegisterFields ==
    ASSUME NEW l, IsLedger(l), NEW d
    PROVE  LET n == RegisterContractWrites(l, d)
           IN  /\ IsLedger(n)
               /\ n.contract = Create(l.contract, d, [signatureCount |-> 0, active |-> TRUE])
               /\ n.totalContracts = l.totalContracts + 1
               /\ n.initialized = l.initialized /\ n.totalSignatures = l.totalSignatures
               /\ n.signature = l.signature /\ n.signerRecord = l.signerRecord
               /\ n.multisig = l.multisig /\ n.member = l.member
  BY DEF IsLedger, RegisterContractWrites

\* What create_multisig writes, field by field.
LEMMA CreateFields ==
    ASSUME NEW l, IsLedger(l), NEW a
    PROVE  LET n == CreateMultisigWrites(l, a)
           IN  /\ IsLedger(n)
               /\ n.multisig = Create(l.multisig, a,
                      [contract |-> a.hash, threshold |-> a.threshold,
                       maxSigners |-> a.maxSigners, collected |-> 0, finalized |-> FALSE])
               /\ n.initialized = l.initialized
               /\ n.totalContracts = l.totalContracts /\ n.totalSignatures = l.totalSignatures
               /\ n.contract = l.contract /\ n.signature = l.signature
               /\ n.signerRecord = l.signerRecord /\ n.member = l.member
  BY DEF IsLedger, CreateMultisigWrites

\* What verify_groth16_v2 writes, field by field.
LEMMA VerifyFields ==
    ASSUME NEW l, IsLedger(l), NEW h, NEW key, NEW sig
    PROVE  LET n == VerifyGroth16V2Writes(l, h, key, sig)
           IN  /\ IsLedger(n)
               /\ n.signature = l.signature \cup {[contract |-> h, key |-> key, sig |-> sig]}
               /\ n.signerRecord = l.signerRecord \cup {[contract |-> h, key |-> key]}
               /\ n.contract = [l.contract EXCEPT ![h] = Signed(@)]
               /\ n.totalSignatures = l.totalSignatures + 1
               /\ n.initialized = l.initialized /\ n.totalContracts = l.totalContracts
               /\ n.multisig = l.multisig /\ n.member = l.member
  BY DEF IsLedger, VerifyGroth16V2Writes

-----------------------------------------------------------------------------
(* LedgerInv holds at first and is preserved by every instruction. *)

\* The facts about cardinalities the counters need.
LEMMA EmptyCount == IsFiniteSet({}) /\ Cardinality({}) = 0
  BY FS_EmptySet

\* A counter that is incremented with its set of accounts still matches it.
LEMMA AddCount ==
    ASSUME NEW S, IsFiniteSet(S), NEW x, x \notin S
    PROVE  /\ IsFiniteSet(S \cup {x})
           /\ Cardinality(S \cup {x}) = Cardinality(S) + 1
           /\ Cardinality(S) \in Nat
  BY FS_AddElement, FS_CardinalityType

\* The ledger the program starts from is sound, with no proof yet made.
LEMMA InitialLedgerSound == LedgerInv(InitialLedger, {})
  <1> DEFINE l == InitialLedger
  <1>1. /\ l.initialized \in BOOLEAN
        /\ l.initialized <=> LegacyContracts # {}
        /\ l.totalContracts = Cardinality(LegacyContracts)
        /\ l.totalSignatures = LegacyTotal
        /\ DOMAIN l.contract = LegacyContracts
        /\ \A h \in LegacyContracts :
              l.contract[h].signatureCount = LegacyCount[h] /\ l.contract[h].active
        /\ l.contract \in [LegacyContracts -> Contract]
        /\ l.signature = {} /\ l.signerRecord = LegacyRecords
        /\ DOMAIN l.multisig = {} /\ l.member = {}
        /\ l.multisig \in [DOMAIN l.multisig -> MultiSigContract]
    BY LedgerAssumption DEF InitialLedger, Contract
  <1>2. IsLedger(l)
    BY DEF IsLedger, InitialLedger
  <1>3. Cardinality(LegacyContracts) \in Nat
    BY LedgerAssumption, FS_CardinalityType
  <1> HIDE DEF l
  <1>4. LedgerTypeOK(l)
    <2>1. LegacyRecords \subseteq SignerRecord
      BY LedgerAssumption DEF SignerRecord
    <2>2. QED
      BY <1>1, <1>2, <1>3, <2>1, LedgerAssumption DEF LedgerTypeOK
  <1>5. AccountsLinked(l)
    <2>1. ~l.initialized => LegacyContracts = {} /\ LegacyTotal = 0
      BY <1>1, LedgerAssumption
    <2>2. IsFiniteSet(LegacyContracts)
      BY LedgerAssumption
    <2>3. LegacyRecords \subseteq [contract : LegacyContracts, key : Key]
      BY LedgerAssumption
    <2>4. \A h \in DOMAIN l.contract : l.contract[h].active
      BY <1>1
    <2>5. QED
      BY <1>1, <2>1, <2>2, <2>3, <2>4, EmptyCount DEF AccountsLinked
  <1>6. CountersSound(l)
    <2>1. \A h : ReceiptsOf(l, h) = {}
      BY <1>1 DEF ReceiptsOf
    <2>2. LegacyTotal \in Nat /\ \A h \in LegacyContracts : LegacyCount[h] \in Nat
      BY LedgerAssumption
    <2>3. \A h \in LegacyContracts : l.contract[h].signatureCount = LegacyCount[h]
      BY <1>1
    <2>4. ASSUME NEW h \in DOMAIN l.contract
          PROVE  l.contract[h].signatureCount =
                     (IF h \in LegacyContracts THEN LegacyCount[h] ELSE 0)
                     + Cardinality(ReceiptsOf(l, h))
      <3>1. h \in LegacyContracts /\ Cardinality(ReceiptsOf(l, h)) = 0
        BY <1>1, <2>1, EmptyCount
      <3>2. QED
        BY <2>2, <2>3, <3>1
    <2>5. l.totalSignatures = LegacyTotal + Cardinality(l.signature)
      BY <1>1, <2>2, EmptyCount
    <2>6. QED
      BY <1>1, <2>4, <2>5 DEF CountersSound
  <1>7. QED
    BY <1>1, <1>4, <1>5, <1>6
       DEF LedgerInv, EveryReceiptProved, EveryMemberVerified, TallyCountsMembers, SignedOnce,
           l

\* More proofs leave a sound ledger sound.
LEMMA MoreProofs ==
    ASSUME NEW l, NEW p, NEW q, p \subseteq q, LedgerInv(l, p)
    PROVE  LedgerInv(l, q)
  BY DEF LedgerInv, EveryReceiptProved

\* initialize keeps the ledger invariant.
LEMMA InitializePreserves ==
    ASSUME NEW l, NEW p, LedgerInv(l, p), InitializeAccepts(l)
    PROVE  LedgerInv(InitializeWrites(l), p)
  <1> DEFINE n == InitializeWrites(l)
  <1>1. /\ IsLedger(n)
        /\ n.initialized = TRUE /\ n.totalContracts = 0 /\ n.totalSignatures = 0
        /\ n.contract = l.contract /\ n.signature = l.signature
        /\ n.signerRecord = l.signerRecord
        /\ n.multisig = l.multisig /\ n.member = l.member
    BY InitializeFields DEF LedgerInv, LedgerTypeOK
  <1>2. /\ DOMAIN l.contract = {} /\ l.totalSignatures = 0 /\ l.totalContracts = 0
    BY FS_EmptySet DEF LedgerInv, AccountsLinked, CountersSound, InitializeAccepts
  <1> HIDE DEF n
  <1>t. LedgerTypeOK(l) BY DEF LedgerInv
  <1>t1. n.initialized \in BOOLEAN  BY <1>1
  <1>t2.  /\ n.totalContracts \in Nat /\ n.totalSignatures \in Nat  BY <1>1
  <1>t3.  /\ DOMAIN n.contract \subseteq Hash
    /\ n.contract \in [DOMAIN n.contract -> Contract] BY <1>1, <1>t DEF LedgerTypeOK
  <1>t4.  n.signature \subseteq Receipt
    /\ n.signerRecord \subseteq SignerRecord BY <1>1, <1>t DEF LedgerTypeOK
  <1>t5.  DOMAIN n.multisig \subseteq Address
    /\ n.multisig \in [DOMAIN n.multisig -> MultiSigContract]
    /\ n.member \subseteq Member BY <1>1, <1>t DEF LedgerTypeOK
  <1>3. LedgerTypeOK(n)
    BY <1>1,<1>t1,<1>t2,<1>t3,<1>t4,<1>t5 DEF LedgerTypeOK
  <1>4. AccountsLinked(n)
    BY <1>1 DEF LedgerInv, AccountsLinked
  <1>5. CountersSound(n)
    BY <1>1, <1>2 DEF LedgerInv, CountersSound, ReceiptsOf
  <1>6. QED
    BY <1>1, <1>3, <1>4, <1>5
       DEF LedgerInv, EveryReceiptProved, EveryMemberVerified, TallyCountsMembers, MembersOf,
           SignedOnce, n

\* register_contract keeps the ledger invariant.
LEMMA RegisterPreserves ==
    ASSUME NEW l, NEW p, LedgerInv(l, p), NEW d \in Digest, RegisterContractAccepts(l, d)
    PROVE  LedgerInv(RegisterContractWrites(l, d), p)
  <1> DEFINE n == RegisterContractWrites(l, d)
             c == [signatureCount |-> 0, active |-> TRUE]
  <1> HIDE DEF c
  <1>1. /\ IsLedger(n)
        /\ n.contract = Create(l.contract, d, c)
        /\ n.totalContracts = l.totalContracts + 1
        /\ n.initialized = l.initialized /\ n.totalSignatures = l.totalSignatures
        /\ n.signature = l.signature /\ n.signerRecord = l.signerRecord
        /\ n.multisig = l.multisig /\ n.member = l.member
    BY RegisterFields DEF LedgerInv, LedgerTypeOK, c
  <1>2. d \notin DOMAIN l.contract /\ d \in Hash /\ l.initialized
    BY DEF RegisterContractAccepts, Hash
  <1> HIDE DEF n
  <1>3. /\ DOMAIN n.contract = DOMAIN l.contract \cup {d}
        /\ n.contract[d] = c
        /\ \A h \in DOMAIN l.contract : n.contract[h] = l.contract[h]
    BY <1>1, <1>2 DEF Create
  <1>4. c \in Contract
    BY DEF Contract, c
  <1>5. n.contract \in [DOMAIN n.contract -> Contract]
    BY <1>1, <1>2, <1>4 DEF Create, LedgerInv, LedgerTypeOK
  <1>6. c.signatureCount = 0 /\ c.active = TRUE
    BY DEF c
  <1>7. LedgerTypeOK(n)
    BY <1>1, <1>2, <1>3, <1>5 DEF LedgerInv, LedgerTypeOK
  <1>8. /\ IsFiniteSet(DOMAIN n.contract)
        /\ Cardinality(DOMAIN n.contract) = Cardinality(DOMAIN l.contract) + 1
    <2>1. IsFiniteSet(DOMAIN l.contract)
      BY DEF LedgerInv, AccountsLinked
    <2>2. QED
      BY <1>2, <1>3, <2>1, AddCount
  <1>9. AccountsLinked(n)
    BY <1>1, <1>2, <1>3, <1>6, <1>8 DEF LedgerInv, AccountsLinked
  <1>10. CountersSound(n)
    <2>1. \A h : ReceiptsOf(n, h) = ReceiptsOf(l, h)
      BY <1>1 DEF ReceiptsOf
    <2>2. ReceiptsOf(l, d) = {} /\ d \notin LegacyContracts
      BY <1>2 DEF LedgerInv, AccountsLinked, ReceiptsOf
    <2>3. ASSUME NEW h \in DOMAIN n.contract
          PROVE  n.contract[h].signatureCount =
                     (IF h \in LegacyContracts THEN LegacyCount[h] ELSE 0)
                     + Cardinality(ReceiptsOf(n, h))
      <3>1. CASE h = d
        BY <1>3, <1>6, <2>1, <2>2, <3>1, EmptyCount
      <3>2. CASE h \in DOMAIN l.contract
        BY <1>3, <2>1, <3>2 DEF LedgerInv, CountersSound
      <3>3. QED
        BY <1>3, <3>1, <3>2
    <2>4. QED
      BY <1>1, <1>8, <2>3 DEF LedgerInv, CountersSound
  <1>11. QED
    BY <1>1, <1>7, <1>9, <1>10
       DEF LedgerInv, EveryReceiptProved, EveryMemberVerified, TallyCountsMembers, MembersOf,
           SignedOnce, n

\* create_multisig keeps the ledger invariant.
LEMMA CreatePreserves ==
    ASSUME NEW l, NEW p, LedgerInv(l, p), NEW a \in Address, CreateMultisigAccepts(l, a)
    PROVE  LedgerInv(CreateMultisigWrites(l, a), p)
  <1> DEFINE n == CreateMultisigWrites(l, a)
             ms == [contract |-> a.hash, threshold |-> a.threshold,
                    maxSigners |-> a.maxSigners, collected |-> 0, finalized |-> FALSE]
  <1> HIDE DEF ms
  <1>1. /\ IsLedger(n)
        /\ n.multisig = Create(l.multisig, a, ms)
        /\ n.initialized = l.initialized
        /\ n.totalContracts = l.totalContracts /\ n.totalSignatures = l.totalSignatures
        /\ n.contract = l.contract /\ n.signature = l.signature
        /\ n.signerRecord = l.signerRecord /\ n.member = l.member
    BY CreateFields DEF LedgerInv, LedgerTypeOK, ms
  <1>2. a \notin DOMAIN l.multisig
    BY DEF CreateMultisigAccepts
  <1> HIDE DEF n
  <1>3. /\ DOMAIN n.multisig = DOMAIN l.multisig \cup {a}
        /\ n.multisig[a] = ms
        /\ \A b \in DOMAIN l.multisig : n.multisig[b] = l.multisig[b]
    BY <1>1, <1>2 DEF Create
  <1>4. /\ a.threshold \in U8 /\ a.maxSigners \in U8 /\ a.hash \in Hash
        /\ 0 \in U8 /\ U8 \subseteq Nat
    BY LedgerAssumption DEF Address, U8
  <1>5. ms \in MultiSigContract
    BY <1>4 DEF ms, MultiSigContract
  <1>6. AgreementSound(a, ms) /\ ms.collected = 0
    <2>1. /\ ms.contract = a.hash /\ ms.threshold = a.threshold /\ ms.maxSigners = a.maxSigners
          /\ ms.collected = 0 /\ ~ms.finalized
      BY DEF ms
    <2>2. a.threshold > 0 /\ a.maxSigners >= a.threshold
      BY DEF CreateMultisigAccepts
    <2>3. a.threshold \in Nat /\ a.maxSigners \in Nat
      BY <1>4
    <2>4. ms.threshold \in 1..ms.maxSigners /\ ms.collected <= ms.threshold
      BY <2>1, <2>2, <2>3
    <2>5. ms.finalized <=> ms.collected = ms.threshold
      BY <2>1, <2>2, <2>3
    <2>6. QED
      BY <2>1, <2>4, <2>5 DEF AgreementSound
  <1>7. LedgerTypeOK(n)
    <2>1. LedgerTypeOK(l)
      BY DEF LedgerInv
    <2>2. /\ DOMAIN n.multisig \subseteq Address
          /\ n.multisig \in [DOMAIN n.multisig -> MultiSigContract]
      BY <1>1, <1>2, <1>3, <1>5, <2>1 DEF Create, LedgerTypeOK
    <2>3. QED
      BY <1>1, <2>1, <2>2 DEF LedgerTypeOK
  <1>8. AccountsLinked(n) /\ CountersSound(n)
    BY <1>1 DEF LedgerInv, AccountsLinked, CountersSound, ReceiptsOf
  <1>9. EveryReceiptProved(n, p) /\ EveryMemberVerified(n) /\ SignedOnce(n)
    BY <1>1, <1>3 DEF LedgerInv, EveryReceiptProved, EveryMemberVerified, SignedOnce
  <1>10. TallyCountsMembers(n)
    <2>1. \A b : MembersOf(n, b) = MembersOf(l, b)
      BY <1>1 DEF MembersOf
    <2>2. MembersOf(l, a) = {}
      BY <1>2 DEF MembersOf, LedgerInv, EveryMemberVerified
    <2>3. QED
      BY <1>3, <1>6, <2>1, <2>2, EmptyCount DEF LedgerInv, TallyCountsMembers
  <1>11. \A b \in DOMAIN n.multisig : AgreementSound(b, n.multisig[b])
    BY <1>3, <1>6 DEF LedgerInv
  <1>12. QED
    BY <1>7, <1>8, <1>9, <1>10, <1>11 DEF LedgerInv, n

\* An accepted proof carries exactly the key, the commitment and the contract
\* hash of the receipt it creates.
LEMMA AcceptedProofBinds ==
    ASSUME NEW h \in Hash, NEW proof \in Statement, NEW inputs, NEW key, NEW sig,
           CircuitSatisfied(proof), ProofAccepted(h, proof, inputs, key, sig)
    PROVE  /\ proof = StatementOf(key, h, sig.stamp)
           /\ sig = StatementOf(key, h, sig.stamp).sig
           /\ key \in Key /\ sig \in SigCommitment
  <1>1. /\ proof.low = h[1] /\ proof.high = h[2] /\ proof.key = key /\ proof.sig = sig
    BY DEF ProofAccepted, LimbsMatch, PairingHolds
  <1>2. key \in Key /\ sig \in SigCommitment
    BY <1>1 DEF Statement
  <1>3. h = <<h[1], h[2]>>
    BY LedgerAssumption DEF Hash
  <1>4. sig = [key |-> key, digest |-> h, stamp |-> sig.stamp]
    BY <1>1, <1>2, <1>3 DEF SigCommitment, CircuitSatisfied
  <1>5. proof = [key |-> key, sig |-> sig, low |-> h[1], high |-> h[2]]
    BY <1>1 DEF Statement
  <1>6. QED
    BY <1>2, <1>4, <1>5 DEF StatementOf

\* verify_groth16_v2 keeps the ledger invariant.
LEMMA VerifyPreserves ==
    ASSUME NEW l, NEW p, LedgerInv(l, p),
           NEW h \in Hash, NEW proof \in p, NEW inputs, NEW key, NEW sig,
           proof \in Statement, CircuitSatisfied(proof),
           VerifyGroth16V2Accepts(l, h, proof, inputs, key, sig)
    PROVE  LedgerInv(VerifyGroth16V2Writes(l, h, key, sig), p)
  <1> DEFINE n == VerifyGroth16V2Writes(l, h, key, sig)
             r == [contract |-> h, key |-> key, sig |-> sig]
             sr == [contract |-> h, key |-> key]
  <1>0. IsLedger(l)
    BY DEF LedgerInv, LedgerTypeOK
  <1>1. /\ IsLedger(n)
        /\ n.signature = l.signature \cup {r}
        /\ n.signerRecord = l.signerRecord \cup {sr}
        /\ n.contract = [l.contract EXCEPT ![h] = Signed(@)]
        /\ n.totalSignatures = l.totalSignatures + 1
        /\ n.initialized = l.initialized /\ n.totalContracts = l.totalContracts
        /\ n.multisig = l.multisig /\ n.member = l.member
    BY <1>0, VerifyFields
  <1>2. /\ l.initialized /\ h \in DOMAIN l.contract
        /\ r \notin l.signature /\ sr \notin l.signerRecord
    BY DEF VerifyGroth16V2Accepts
  <1>3. /\ proof = StatementOf(key, h, sig.stamp)
        /\ sig = StatementOf(key, h, sig.stamp).sig
        /\ key \in Key /\ sig \in SigCommitment
    BY AcceptedProofBinds DEF VerifyGroth16V2Accepts
  <1>4. /\ r \in Receipt /\ sr \in SignerRecord
        /\ r.contract = h /\ r.key = key /\ r.sig = sig
        /\ sr = [contract |-> r.contract, key |-> r.key]
    BY <1>3 DEF Receipt, SignerRecord
  <1>5. LedgerTypeOK(l) /\ AccountsLinked(l) /\ CountersSound(l)
    BY DEF LedgerInv
  <1> HIDE DEF n, r, sr
  <1>6. /\ DOMAIN n.contract = DOMAIN l.contract
        /\ n.contract[h] = Signed(l.contract[h])
        /\ \A g \in DOMAIN l.contract : g # h => n.contract[g] = l.contract[g]
    BY <1>1, <1>2
  <1>7. /\ l.contract[h] \in Contract
        /\ Signed(l.contract[h]) \in Contract
        /\ Signed(l.contract[h]).active = l.contract[h].active
        /\ Signed(l.contract[h]).signatureCount = l.contract[h].signatureCount + 1
    <2>1. l.contract[h] \in Contract
      BY <1>2, <1>5 DEF LedgerTypeOK
    <2>2. QED
      BY <2>1 DEF Signed, Contract
  <1>8. LedgerTypeOK(n)
    <2>1. n.contract \in [DOMAIN n.contract -> Contract]
      BY <1>1, <1>2, <1>5, <1>7 DEF LedgerTypeOK
    <2>2. n.signature \subseteq Receipt /\ n.signerRecord \subseteq SignerRecord
      BY <1>1, <1>4, <1>5 DEF LedgerTypeOK
    <2>3. QED
      BY <1>1, <1>5, <1>6, <2>1, <2>2 DEF LedgerTypeOK
  <1>9. /\ IsFiniteSet(n.signature) 
        /\ Cardinality(n.signature) = Cardinality(l.signature) + 1
        /\ Cardinality(l.signature) \in Nat
    <2>1. IsFiniteSet(l.signature)
      BY <1>5 DEF AccountsLinked
    <2>2. QED
      BY <1>1, <1>2, <2>1, AddCount
  <1>10. AccountsLinked(n)
    <2>1. \A g \in DOMAIN n.contract : n.contract[g].active
      <3> SUFFICES ASSUME NEW g \in DOMAIN n.contract
                   PROVE  n.contract[g].active
        OBVIOUS
      <3>1. CASE g = h
        BY <1>2, <1>5, <1>6, <1>7, <3>1 DEF AccountsLinked
      <3>2. CASE g # h
        BY <1>5, <1>6, <3>2 DEF AccountsLinked
      <3>3. QED
        BY <3>1, <3>2
    <2>2. \A s \in n.signature : /\ s.contract \in DOMAIN n.contract
                                 /\ [contract |-> s.contract, key |-> s.key] \in n.signerRecord
      BY <1>1, <1>2, <1>4, <1>5, <1>6 DEF AccountsLinked
    <2>3. QED
      BY <1>1, <1>2, <1>5, <1>6, <1>9, <2>1, <2>2 DEF AccountsLinked
  <1>11. EveryReceiptProved(n, p)
    BY <1>1, <1>3, <1>4 DEF LedgerInv, EveryReceiptProved
  <1>12. EveryMemberVerified(n)
    BY <1>1 DEF LedgerInv, EveryMemberVerified
  <1>13. TallyCountsMembers(n) /\ \A a \in DOMAIN n.multisig : AgreementSound(a, n.multisig[a])
    BY <1>1 DEF LedgerInv, TallyCountsMembers, MembersOf
  <1>14. SignedOnce(n)
    <2>1. \A s \in l.signature : ~(s.contract = h /\ s.key = key)
      BY <1>2, <1>4, <1>5 DEF AccountsLinked
    <2>2. QED
      BY <1>1, <1>4, <2>1 DEF LedgerInv, SignedOnce
  <1>15. CountersSound(n)
    <2>1. /\ ReceiptsOf(n, h) = ReceiptsOf(l, h) \cup {r} /\ r \notin ReceiptsOf(l, h)
          /\ \A g : g # h => ReceiptsOf(n, g) = ReceiptsOf(l, g)
      BY <1>1, <1>2, <1>4 DEF ReceiptsOf
    <2>2. /\ Cardinality(ReceiptsOf(n, h)) = Cardinality(ReceiptsOf(l, h)) + 1
          /\ Cardinality(ReceiptsOf(l, h)) \in Nat
      <3>1. IsFiniteSet(ReceiptsOf(l, h))
        <4>1. ReceiptsOf(l, h) \in SUBSET l.signature /\ IsFiniteSet(l.signature)
          BY <1>5 DEF ReceiptsOf, AccountsLinked
        <4>2. QED
          BY <4>1, FS_Subset
      <3>2. QED
        BY <2>1, <3>1, AddCount
    <2>3. LegacyTotal \in Nat /\ \A g \in LegacyContracts : LegacyCount[g] \in Nat
      BY LedgerAssumption
    <2>4. ASSUME NEW g \in DOMAIN n.contract
          PROVE  n.contract[g].signatureCount =
                     (IF g \in LegacyContracts THEN LegacyCount[g] ELSE 0)
                     + Cardinality(ReceiptsOf(n, g))
      <3>1. CASE g = h
        BY <1>2, <1>5, <1>6, <1>7, <2>2, <2>3, <3>1 DEF CountersSound
      <3>2. CASE g # h
        BY <1>5, <1>6, <2>1, <3>2 DEF CountersSound
      <3>3. QED
        BY <3>1, <3>2
    <2>5. QED
      BY <1>1, <1>5, <1>6, <1>9, <2>3, <2>4 DEF CountersSound
  <1>16. QED
    BY <1>8, <1>10, <1>11, <1>12, <1>13, <1>14, <1>15 DEF LedgerInv, n

\* record_verified_multisig keeps the ledger invariant.
LEMMA RecordPreserves ==
    ASSUME NEW l, NEW p, LedgerInv(l, p),
           NEW h \in Hash, NEW key \in Key, NEW a, NEW r,
           RecordVerifiedMultisigAccepts(l, h, key, a, r)
    PROVE  LedgerInv(RecordVerifiedMultisigWrites(l, key, a), p)
  <1> DEFINE n == RecordVerifiedMultisigWrites(l, key, a)
             m == [multisig |-> a, key |-> key]
             ms == l.multisig[a]
  <1>0. IsLedger(l) /\ LedgerTypeOK(l) /\ AccountsLinked(l)
    BY DEF LedgerInv, LedgerTypeOK
  <1>1. /\ IsLedger(n)
        /\ n.member = l.member \cup {m}
        /\ n.multisig = [l.multisig EXCEPT ![a] = Counted(@)]
        /\ n.initialized = l.initialized
        /\ n.totalContracts = l.totalContracts /\ n.totalSignatures = l.totalSignatures
        /\ n.contract = l.contract /\ n.signature = l.signature
        /\ n.signerRecord = l.signerRecord
    BY <1>0 DEF IsLedger, RecordVerifiedMultisigWrites
  <1>2. /\ a \in DOMAIN l.multisig /\ m \notin l.member
        /\ ~ms.finalized
        /\ SignerVerified(l, h, key, r) /\ AgreementOf(l, a, h)
    BY DEF RecordVerifiedMultisigAccepts
  <1>3. a \in Address /\ a.hash = h /\ ms \in MultiSigContract /\ AgreementSound(a, ms)
    BY <1>0, <1>2 DEF LedgerTypeOK, AgreementOf, LedgerInv
  <1>4. m \in Member /\ m.multisig = a /\ m.key = key
    BY <1>3 DEF Member
  <1> HIDE DEF n, m, ms
  <1>5. /\ DOMAIN n.multisig = DOMAIN l.multisig
        /\ n.multisig[a] = Counted(ms)
        /\ \A b \in DOMAIN l.multisig : b # a => n.multisig[b] = l.multisig[b]
    BY <1>1, <1>2 DEF ms
  <1>6. /\ ms.threshold \in Nat /\ ms.maxSigners \in Nat /\ ms.collected \in Nat
        /\ ms.collected < ms.threshold /\ ms.threshold <= ms.maxSigners
        /\ ms.maxSigners <= MaxU8 /\ MaxU8 \in Nat
    <2>1. /\ ms.threshold \in U8 /\ ms.maxSigners \in U8 /\ ms.collected \in U8
      BY <1>3 DEF MultiSigContract
    <2>2. /\ ms.threshold \in Nat /\ ms.maxSigners \in Nat /\ ms.collected \in Nat
          /\ ms.maxSigners <= MaxU8 /\ MaxU8 \in Nat
      BY <2>1, LedgerAssumption DEF U8
    <2>3. /\ ms.threshold \in 1..ms.maxSigners /\ ms.collected <= ms.threshold
          /\ ms.finalized <=> ms.collected = ms.threshold
      BY <1>3 DEF AgreementSound
    <2>4. QED
      BY <1>2, <2>2, <2>3 DEF ms
  <1>7. /\ Counted(ms).collected = ms.collected + 1
        /\ Counted(ms).threshold = ms.threshold /\ Counted(ms).maxSigners = ms.maxSigners
        /\ Counted(ms).contract = ms.contract
        /\ Counted(ms).finalized <=> ms.collected + 1 = ms.threshold
        /\ Counted(ms) \in MultiSigContract
    <2>1. ms.collected + 1 \in U8
      BY <1>6 DEF U8
    <2>2. ~ms.finalized
      BY <1>2 DEF ms
    <2>3. (ms.finalized \/ ms.collected + 1 >= ms.threshold) <=> ms.collected + 1 = ms.threshold
      BY <1>6, <2>2
    <2>4. QED
      BY <1>3, <2>1, <2>3 DEF Counted, MultiSigContract
  <1>8. LedgerTypeOK(n)
    <2>1. n.multisig \in [DOMAIN n.multisig -> MultiSigContract]
      BY <1>0, <1>1, <1>2, <1>5, <1>7 DEF LedgerTypeOK
    <2>2. n.member \subseteq Member
      BY <1>0, <1>1, <1>4 DEF LedgerTypeOK
    <2>3. QED
      BY <1>0, <1>1, <1>5, <2>1, <2>2 DEF LedgerTypeOK
  <1>9. IsFiniteSet(n.member)
    BY <1>0, <1>1, <1>2, AddCount DEF AccountsLinked
  <1>10. AccountsLinked(n)
    BY <1>0, <1>1, <1>9 DEF AccountsLinked
  <1>11. EveryReceiptProved(n, p) /\ SignedOnce(n) /\ CountersSound(n)
    BY <1>1 DEF LedgerInv, EveryReceiptProved, SignedOnce, CountersSound, ReceiptsOf
  <1>12. EveryMemberVerified(n)
    <2>1. EveryMemberVerified(l)
      BY DEF LedgerInv
    <2>2. SUFFICES ASSUME NEW x \in n.member
                   PROVE  /\ x.multisig \in DOMAIN n.multisig
                          /\ [contract |-> x.multisig.hash, key |-> x.key] \in n.signerRecord
                          /\ \E s \in n.signature : s.contract = x.multisig.hash /\ s.key = x.key
      BY DEF EveryMemberVerified
    <2>3. CASE x \in l.member
      BY <1>1, <1>5, <2>1, <2>3 DEF EveryMemberVerified
    <2>4. CASE x = m
      BY <1>1, <1>2, <1>3, <1>4, <1>5, <2>4 DEF SignerVerified
    <2>5. QED
      BY <1>1, <2>3, <2>4
  <1>13. TallyCountsMembers(n)
    <2>1. /\ MembersOf(n, a) = MembersOf(l, a) \cup {m} /\ m \notin MembersOf(l, a)
          /\ \A b : b # a => MembersOf(n, b) = MembersOf(l, b)
      BY <1>1, <1>2, <1>4 DEF MembersOf
    <2>2. IsFiniteSet(MembersOf(l, a))
      <3>1. MembersOf(l, a) \in SUBSET l.member /\ IsFiniteSet(l.member)
        BY <1>0 DEF MembersOf, AccountsLinked
      <3>2. QED
        BY <3>1, FS_Subset
    <2>3. Cardinality(MembersOf(n, a)) = Cardinality(MembersOf(l, a)) + 1
      BY <2>1, <2>2, AddCount
    <2>4. ms.collected = Cardinality(MembersOf(l, a))
      BY <1>2 DEF LedgerInv, TallyCountsMembers, ms
    <2>5. QED
      BY <1>5, <1>7, <2>1, <2>3, <2>4 DEF LedgerInv, TallyCountsMembers
  <1>14. \A b \in DOMAIN n.multisig : AgreementSound(b, n.multisig[b])
    <2>1. AgreementSound(a, Counted(ms))
      <3>1. /\ ms.contract = a.hash /\ ms.threshold = a.threshold /\ ms.maxSigners = a.maxSigners
            /\ ms.threshold \in 1..ms.maxSigners
        BY <1>3 DEF AgreementSound
      <3>2. ms.collected + 1 <= ms.threshold
        BY <1>6
      <3>3. QED
        BY <1>7, <3>1, <3>2 DEF AgreementSound
    <2>2. QED
      BY <1>5, <2>1 DEF LedgerInv
  <1>15. QED
    BY <1>8, <1>10, <1>11, <1>12, <1>13, <1>14 DEF LedgerInv, n

\* Both instructions of the multisig transaction.
LEMMA VerifyAndRecordPreserves ==
    ASSUME NEW l, NEW p, LedgerInv(l, p),
           NEW h \in Hash, NEW proof \in p, NEW inputs, NEW key \in Key, NEW sig, NEW a,
           proof \in Statement, CircuitSatisfied(proof),
           VerifyAndRecordAccepts(l, h, proof, inputs, key, sig, a)
    PROVE  LedgerInv(VerifyAndRecordWrites(l, h, key, sig, a), p)
  BY VerifyPreserves, RecordPreserves DEF VerifyAndRecordAccepts, VerifyAndRecordWrites

\* A sound ledger leaves finalize_multisig nothing to do.
LEMMA NothingToFinalize ==
    ASSUME NEW l, NEW p, LedgerInv(l, p), NEW a, NEW h
    PROVE  ~FinalizeMultisigAccepts(l, a, h)
  <1> SUFFICES ASSUME FinalizeMultisigAccepts(l, a, h)
               PROVE  FALSE
    OBVIOUS
  <1> DEFINE ms == l.multisig[a]
  <1>1. a \in DOMAIN l.multisig /\ ~ms.finalized /\ ms.collected >= ms.threshold
    BY DEF FinalizeMultisigAccepts
  <1>2. AgreementSound(a, ms) /\ ms \in MultiSigContract
    BY <1>1 DEF LedgerInv, LedgerTypeOK
  <1> HIDE DEF ms
  <1>3. ms.collected \in Nat /\ ms.threshold \in Nat
    BY <1>2, LedgerAssumption DEF MultiSigContract, U8
  <1>4. QED
    BY <1>1, <1>2, <1>3 DEF AgreementSound

-----------------------------------------------------------------------------
(* Consequences of LedgerInv. *)

\* Finitely many proofs were made by finitely many keys.
LEMMA ConsentingFinite ==
    ASSUME NEW p, p \subseteq Statement, IsFiniteSet(p), NEW h
    PROVE  IsFiniteSet(Consenting(p, h))
  <1> DEFINE provers == {q.key : q \in p}
             f == [q \in p |-> q.key]
  <1>1. f \in Surjection(p, provers)
    <2>1. f \in [p -> provers]
      OBVIOUS
    <2>2. \A k \in provers : \E q \in p : f[q] = k
      OBVIOUS
    <2> HIDE DEF f, provers
    <2>3. QED
      BY <2>1, <2>2, Fun_IsSurj
  <1>2. IsFiniteSet(provers)
    BY <1>1, FS_Surjection
  <1>3. Consenting(p, h) \in SUBSET provers
    BY DEF Consenting
  <1>4. QED
    BY <1>2, <1>3, FS_Subset

\* The members of an agreement are as many different keys, each of which
\* proved a statement about its contract.
LEMMA QuorumConsented ==
    ASSUME NEW l, NEW p, LedgerInv(l, p), p \subseteq Statement, IsFiniteSet(p),
           NEW a \in FinalAgreements(l)
    PROVE  Cardinality(Consenting(p, a.hash)) >= a.threshold
  <1> DEFINE M == MembersOf(l, a)
             K == Consenting(p, a.hash)
             f == [m \in M |-> m.key]
             ms == l.multisig[a]
  <1>1. a \in DOMAIN l.multisig /\ ms.finalized
    BY DEF FinalAgreements
  <1>2. a \in Address /\ AgreementSound(a, ms) /\ ms \in MultiSigContract
    BY <1>1 DEF LedgerInv, LedgerTypeOK
  <1>3. Cardinality(M) = a.threshold
    BY <1>1, <1>2 DEF LedgerInv, TallyCountsMembers, AgreementSound
  <1>4. \A m \in M : m.key \in K
    <2>1. SUFFICES ASSUME NEW m \in M
                   PROVE  m.key \in K
      OBVIOUS
    <2>2. m \in l.member /\ m.multisig = a /\ m.key \in Key
      BY DEF MembersOf, LedgerInv, LedgerTypeOK, Member
    <2>3. PICK r \in l.signature : r.contract = a.hash /\ r.key = m.key
      BY <2>2 DEF LedgerInv, EveryMemberVerified
    <2>4. StatementOf(m.key, a.hash, r.sig.stamp) \in p
      BY <2>3 DEF LedgerInv, EveryReceiptProved
    <2>5. a.hash = <<a.hash[1], a.hash[2]>>
      BY <1>2, LedgerAssumption DEF Address, Hash
    <2>6. QED
      BY <2>2, <2>4, <2>5 DEF Consenting, StatementOf
  <1>5. \A m, w \in M : m.key = w.key => m = w
    BY DEF MembersOf, LedgerInv, LedgerTypeOK, Member
  <1>6. f \in Injection(M, K)
    <2>1. f \in [M -> K] /\ \A m, w \in M : f[m] = f[w] => m = w
      BY <1>4, <1>5
    <2> HIDE DEF f, M, K
    <2>2. QED
      BY <2>1, Fun_IsInj
  <1>7. IsFiniteSet(K)
    BY ConsentingFinite
  <1> HIDE DEF f, M, K
  <1>8. Cardinality(M) <= Cardinality(K)
    BY <1>6, <1>7, FS_Injection
  <1>9. Cardinality(K) \in Nat /\ a.threshold \in Nat
    BY <1>2, <1>7, FS_CardinalityType, LedgerAssumption DEF Address, U8
  <1>10. QED
    BY <1>3, <1>8, <1>9 DEF K

\* An instruction that leaves agreements and members alone advances nothing.
LEMMA UntouchedAdvances ==
    ASSUME NEW l, NEW n, n.multisig = l.multisig, n.member = l.member
    PROVE  OnlyAdvances(l, n)
  BY DEF OnlyAdvances, MembersOf

\* A new agreement leaves the others alone.
LEMMA CreateAdvances ==
    ASSUME NEW l, IsLedger(l), NEW a, CreateMultisigAccepts(l, a)
    PROVE  OnlyAdvances(l, CreateMultisigWrites(l, a))
  <1> DEFINE n == CreateMultisigWrites(l, a)
  <1>1. /\ a \notin DOMAIN l.multisig
        /\ n.member = l.member
        /\ DOMAIN n.multisig = DOMAIN l.multisig \cup {a}
        /\ \A b \in DOMAIN l.multisig : n.multisig[b] = l.multisig[b]
    BY DEF CreateMultisigAccepts, Create, CreateMultisigWrites, IsLedger
  <1> HIDE DEF n
  <1>2. QED
    BY <1>1 DEF OnlyAdvances, MembersOf, n

\* Counting a signer changes one agreement, and not a finalized one.
LEMMA RecordAdvances ==
    ASSUME NEW l, IsLedger(l), NEW h, NEW key, NEW a, NEW r,
           RecordVerifiedMultisigAccepts(l, h, key, a, r)
    PROVE  OnlyAdvances(l, RecordVerifiedMultisigWrites(l, key, a))
  <1> DEFINE n == RecordVerifiedMultisigWrites(l, key, a)
             m == [multisig |-> a, key |-> key]
  <1>1. /\ n.member = l.member \cup {m}
        /\ n.multisig = [l.multisig EXCEPT ![a] = Counted(@)]
        /\ m.multisig = a
    BY DEF RecordVerifiedMultisigWrites, IsLedger
  <1>2. a \in DOMAIN l.multisig /\ ~l.multisig[a].finalized
    BY DEF RecordVerifiedMultisigAccepts
  <1> HIDE DEF n, m
  <1>3. /\ n.multisig[a] = Counted(l.multisig[a])
        /\ DOMAIN n.multisig = DOMAIN l.multisig
        /\ \A b \in DOMAIN l.multisig : b # a => n.multisig[b] = l.multisig[b]
    BY <1>1, <1>2
  <1>4. /\ Counted(l.multisig[a]).threshold = l.multisig[a].threshold
        /\ Counted(l.multisig[a]).maxSigners = l.multisig[a].maxSigners
    BY DEF Counted
  <1>5. \A b : /\ MembersOf(l, b) \subseteq MembersOf(n, b)
               /\ b # a => MembersOf(n, b) = MembersOf(l, b)
    BY <1>1 DEF MembersOf
  <1>6. QED
    BY <1>2, <1>3, <1>4, <1>5 DEF OnlyAdvances, n

-----------------------------------------------------------------------------
(* Member accounts and the abstract sets of signers. *)

\* An agreement has as many signers as member accounts.
LEMMA SignersAreMembers ==
    ASSUME NEW l, LedgerTypeOK(l), IsFiniteSet(l.member), NEW a \in Address
    PROVE  Cardinality(SignersOf(l)[a]) = Cardinality(MembersOf(l, a))
  <1> DEFINE M == MembersOf(l, a)
             S == SignersOf(l)[a]
             f == [m \in M |-> m.key]
  <1>1. S = {k \in Key : [multisig |-> a, key |-> k] \in l.member}
    BY DEF SignersOf
  <1>2. \A m \in M : /\ m = [multisig |-> a, key |-> m.key]
                     /\ m \in l.member /\ m.key \in Key
    BY DEF MembersOf, LedgerTypeOK, Member
  <1>3. \A k \in S : [multisig |-> a, key |-> k] \in M /\ [multisig |-> a, key |-> k].key = k
    BY <1>1 DEF MembersOf
  <1> HIDE DEF M, S
  <1>4. f \in [M -> S] /\ \A m, w \in M : f[m] = f[w] => m = w
    BY <1>1, <1>2
  <1>5. \A k \in S : \E m \in M : f[m] = k
    BY <1>3
  <1>6. IsFiniteSet(M)
    <2>1. M \in SUBSET l.member
      BY <1>2
    <2>2. QED
      BY <2>1, FS_Subset
  <1> HIDE DEF f
  <1>7. f \in Bijection(M, S)
    BY <1>4, <1>5, Fun_IsBij
  <1>8. ExistsBijection(M, S)
    BY <1>7, Fun_ExistsBij
  <1>9. QED
    BY <1>6, <1>8, FS_Bijection DEF M, S

\* What leaves agreements and members alone leaves signers and finality alone.
LEMMA UntouchedViews ==
    ASSUME NEW l, NEW n, n.multisig = l.multisig, n.member = l.member
    PROVE  /\ DOMAIN n.multisig = DOMAIN l.multisig
           /\ SignersOf(n) = SignersOf(l) /\ FinalAgreements(n) = FinalAgreements(l)
  BY DEF SignersOf, FinalAgreements

\* A new agreement has no signers yet and is not final.
LEMMA CreateViews ==
    ASSUME NEW l, IsLedger(l), NEW a \in Address, CreateMultisigAccepts(l, a)
    PROVE  LET n == CreateMultisigWrites(l, a) IN
           /\ a \notin DOMAIN l.multisig /\ a.threshold \in 1..a.maxSigners
           /\ DOMAIN n.multisig = DOMAIN l.multisig \cup {a}
           /\ SignersOf(n) = SignersOf(l) /\ FinalAgreements(n) = FinalAgreements(l)
  <1> DEFINE n == CreateMultisigWrites(l, a)
  <1>1. /\ a \notin DOMAIN l.multisig
        /\ a.threshold > 0 /\ a.maxSigners >= a.threshold
    BY DEF CreateMultisigAccepts
  <1>2. /\ n.member = l.member
        /\ DOMAIN n.multisig = DOMAIN l.multisig \cup {a}
        /\ ~n.multisig[a].finalized
        /\ \A b \in DOMAIN l.multisig : n.multisig[b] = l.multisig[b]
    BY <1>1 DEF CreateMultisigWrites, Create, IsLedger
  <1> HIDE DEF n
  <1>3. SignersOf(n) = SignersOf(l)
    BY <1>2 DEF SignersOf
  <1>4. FinalAgreements(n) = FinalAgreements(l)
    BY <1>1, <1>2 DEF FinalAgreements
  <1>5. a.threshold \in 1..a.maxSigners
    BY <1>1, LedgerAssumption DEF Address, U8
  <1>6. QED
    BY <1>1, <1>2, <1>3, <1>4, <1>5 DEF n

\* A member recorded is one more signer who had consented, and the agreement is
\* final when they are as many as its threshold.
LEMMA RecordViews ==
    ASSUME NEW P, NEW l, IsLedger(l), LedgerInv(l, P),
           NEW h \in Hash, NEW k \in Key, NEW a \in DOMAIN l.multisig, NEW r,
           RecordVerifiedMultisigAccepts(l, h, k, a, r),
           NEW n, n = RecordVerifiedMultisigWrites(l, k, a), LedgerInv(n, P)
    PROVE  /\ a \in Address /\ a \in DOMAIN l.multisig \ FinalAgreements(l)
           /\ <<a.hash, k>> \in Consents(P) /\ k \notin SignersOf(l)[a]
           /\ DOMAIN n.multisig = DOMAIN l.multisig
           /\ SignersOf(n) = [SignersOf(l) EXCEPT ![a] = @ \cup {k}]
           /\ FinalAgreements(n) =
                  IF Cardinality(SignersOf(n)[a]) >= a.threshold
                  THEN FinalAgreements(l) \cup {a} ELSE FinalAgreements(l)
  <1> DEFINE m == [multisig |-> a, key |-> k]
  <1>1. /\ LedgerTypeOK(l) /\ LedgerTypeOK(n) /\ AccountsLinked(n) /\ TallyCountsMembers(n)
        /\ \A b \in DOMAIN n.multisig : AgreementSound(b, n.multisig[b])
        /\ EveryReceiptProved(l, P)
    BY DEF LedgerInv
  <1>2. a \in Address
    BY <1>1 DEF LedgerTypeOK
  <1>3. /\ a.hash = h /\ m \notin l.member /\ ~l.multisig[a].finalized
        /\ r \in l.signature /\ r.contract = h /\ r.key = k
    BY DEF RecordVerifiedMultisigAccepts, AgreementOf, SignerVerified
  <1>4. /\ n.member = l.member \cup {m}
        /\ n.multisig = [l.multisig EXCEPT ![a] = Counted(@)]
    BY DEF RecordVerifiedMultisigWrites, IsLedger
  <1>5. /\ DOMAIN n.multisig = DOMAIN l.multisig
        /\ \A b \in DOMAIN l.multisig : b # a => n.multisig[b] = l.multisig[b]
    BY <1>4
  <1>6. /\ SignersOf(n) = [SignersOf(l) EXCEPT ![a] = @ \cup {k}]
        /\ k \notin SignersOf(l)[a]
    <2>1. \A b \in Address, j \in Key :
             [multisig |-> b, key |-> j] \in n.member <=>
                 [multisig |-> b, key |-> j] \in l.member \/ (b = a /\ j = k)
      BY <1>4
    <2>2. \A b \in Address :
             SignersOf(n)[b] = IF b = a THEN SignersOf(l)[b] \cup {k} ELSE SignersOf(l)[b]
      BY <2>1 DEF SignersOf
    <2>3. /\ SignersOf(n) = [b \in Address |-> SignersOf(n)[b]]
          /\ SignersOf(l) = [b \in Address |-> SignersOf(l)[b]]
      BY DEF SignersOf
    <2>4. k \notin SignersOf(l)[a]
      BY <1>2, <1>3 DEF SignersOf
    <2>5. QED
      BY <1>2, <2>2, <2>3, <2>4
  <1>7. <<a.hash, k>> \in Consents(P)
    <2>1. StatementOf(k, h, r.sig.stamp) \in P
      BY <1>1, <1>3 DEF EveryReceiptProved
    <2>2. h = <<h[1], h[2]>>
      BY LedgerAssumption DEF Hash
    <2>3. k \in Consenting(P, h)
      BY <2>1, <2>2 DEF Consenting, StatementOf
    <2>4. QED
      BY <1>3, <2>3 DEF Consents
  <1>8. n.multisig[a].finalized <=> Cardinality(SignersOf(n)[a]) >= a.threshold
    <2>1. Cardinality(SignersOf(n)[a]) = n.multisig[a].collected
      BY <1>1, <1>2, <1>5, SignersAreMembers DEF TallyCountsMembers, AccountsLinked
    <2>2. n.multisig[a] \in MultiSigContract /\ AgreementSound(a, n.multisig[a])
      BY <1>1, <1>5 DEF LedgerTypeOK
    <2>3. n.multisig[a].collected \in Nat /\ a.threshold \in Nat
      BY <1>2, <2>2, LedgerAssumption DEF MultiSigContract, Address, U8
    <2>4. QED
      BY <2>1, <2>2, <2>3 DEF AgreementSound
  <1>9. FinalAgreements(n) =
            IF Cardinality(SignersOf(n)[a]) >= a.threshold
            THEN FinalAgreements(l) \cup {a} ELSE FinalAgreements(l)
    BY <1>3, <1>5, <1>8 DEF FinalAgreements
  <1>10. a \in DOMAIN l.multisig \ FinalAgreements(l)
    BY <1>3 DEF FinalAgreements
  <1>11. QED
    BY <1>2, <1>5, <1>6, <1>7, <1>9, <1>10
=============================================================================
