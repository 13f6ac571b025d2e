------------------------ MODULE ObliviaProgramProofs -----------------------
(* The program's safety properties for every value of the constants: any    *)
(* contracts, keys, settings up to MaxU8 and legacy accounts.               *)
EXTENDS ObliviaProgram, ObliviaLedgerProofs

\* The initial ledger satisfies the inductive invariant.
LEMMA InitIInv == Init => IInv
  BY InitialLedgerSound, FS_EmptySet DEF Init, IInv

\* What the circuit proves is a statement, and satisfies the circuit.
LEMMA StatementWellFormed ==
    ASSUME NEW k \in Key, NEW d \in Hash, NEW ts \in Stamp
    PROVE  /\ StatementOf(k, d, ts) \in Statement
           /\ CircuitSatisfied(StatementOf(k, d, ts))
           /\ StatementOf(k, d, ts).key = k
           /\ StatementOf(k, d, ts).low = d[1] /\ StatementOf(k, d, ts).high = d[2]
           /\ d = <<d[1], d[2]>>
  <1>1. d = <<d[1], d[2]>> /\ d[1] \in Half /\ d[2] \in Half
    BY LedgerAssumption DEF Hash
  <1>2. QED
    BY <1>1 DEF StatementOf, Statement, SigCommitment, CircuitSatisfied

\* Every step preserves the inductive invariant.
LEMMA NextIInv == IInv /\ [Next]_vars => IInv'
  <1> SUFFICES ASSUME IInv, [Next]_vars
               PROVE  IInv'
    OBVIOUS
  <1>0. /\ LedgerInv(ledger, proofs)
        /\ proofs \subseteq Statement /\ IsFiniteSet(proofs)
        /\ \A q \in proofs : CircuitSatisfied(q)
    BY DEF IInv
  <1>1. ASSUME NEW k \in Key, NEW d \in Hash, NEW ts \in Stamp, Prove(k, d, ts)
        PROVE  IInv'
    <2>1. ledger' = ledger /\ proofs' = proofs \cup {StatementOf(k, d, ts)}
      BY <1>1 DEF Prove
    <2>2. LedgerInv(ledger, proofs')
      BY <1>0, <2>1, MoreProofs
    <2>3. IsFiniteSet(proofs')
      BY <1>0, <2>1, FS_AddElement
    <2>4. QED
      BY <1>0, <2>1, <2>2, <2>3, StatementWellFormed DEF IInv
  <1>2. CASE Initialize
    BY <1>0, <1>2, InitializePreserves DEF Initialize, IInv
  <1>3. ASSUME NEW d \in Digest, RegisterContract(d)
        PROVE  IInv'
    BY <1>0, <1>3, RegisterPreserves DEF RegisterContract, IInv
  <1>4. ASSUME NEW a \in Address, CreateMultisig(a)
        PROVE  IInv'
    BY <1>0, <1>4, CreatePreserves DEF CreateMultisig, IInv
  <1>5. ASSUME NEW h \in Hash, NEW p \in proofs, NEW q \in Statement, NEW k \in Key,
               NEW s \in SigCommitment, VerifyGroth16V2(h, p, q, k, s)
        PROVE  IInv'
    BY <1>0, <1>5, VerifyPreserves DEF VerifyGroth16V2, IInv
  <1>6. ASSUME NEW h \in Hash, NEW p \in proofs, NEW q \in Statement, NEW k \in Key,
               NEW s \in SigCommitment, NEW a \in DOMAIN ledger.multisig,
               VerifyAndRecord(h, p, q, k, s, a)
        PROVE  IInv'
    BY <1>0, <1>6, VerifyAndRecordPreserves DEF VerifyAndRecord, IInv
  <1>7. ASSUME NEW h \in Hash, NEW k \in Key, NEW a \in DOMAIN ledger.multisig,
               NEW r \in ledger.signature, RecordVerifiedMultisig(h, k, a, r)
        PROVE  IInv'
    BY <1>0, <1>7, RecordPreserves DEF RecordVerifiedMultisig, IInv
  <1>8. ASSUME NEW a \in DOMAIN ledger.multisig, NEW h \in Hash, FinalizeMultisig(a, h)
        PROVE  IInv'
    BY <1>0, <1>8, NothingToFinalize DEF FinalizeMultisig, IInv
  <1>9. CASE UNCHANGED vars
    BY <1>0, <1>9 DEF vars, IInv
  <1>10. QED
    BY <1>1, <1>2, <1>3, <1>4, <1>5, <1>6, <1>7, <1>8, <1>9 DEF Next, SubmitProof, NoEffect

\* The inductive invariant holds in every reachable state.
THEOREM Invariance == Spec => []IInv
  BY InitIInv, NextIInv, PTL DEF Spec

\* Every account keeps its type; a u8 tally never overflows.
THEOREM TypeCorrect == Spec => []TypeOK
  <1>1. IInv => TypeOK
    BY DEF IInv, LedgerInv, TypeOK
  <1>2. QED
    BY <1>1, Invariance, PTL

\* No receipt without a proof by its key for its contract.
THEOREM ReceiptsAreProved == Spec => []ReceiptsProved
  <1>1. IInv => ReceiptsProved
    BY DEF IInv, LedgerInv, ReceiptsProved
  <1>2. QED
    BY <1>1, Invariance, PTL

\* No counted member without its receipt and signer record.
THEOREM MembersAreVerified == Spec => []MembersVerified
  <1>1. IInv => MembersVerified
    BY DEF IInv, LedgerInv, MembersVerified
  <1>2. QED
    BY <1>1, Invariance, PTL

\* Stored tallies count the member accounts.
THEOREM TalliesCountMembers == Spec => []TallyIsMembership
  <1>1. IInv => TallyIsMembership
    BY DEF IInv, LedgerInv, TallyIsMembership
  <1>2. QED
    BY <1>1, Invariance, PTL

\* An agreement is finalized exactly at its threshold, with its own settings.
THEOREM FinalizedAtThreshold == Spec => []FinalizedExactlyAtThreshold
  <1>1. IInv => FinalizedExactlyAtThreshold
    BY DEF IInv, LedgerInv, FinalizedExactlyAtThreshold
  <1>2. QED
    BY <1>1, Invariance, PTL

\* A finalized agreement has a quorum of distinct proven keys behind it.
THEOREM QuorumBehindFinality == Spec => []FinalizedByQuorum
  <1>1. IInv => FinalizedByQuorum
    BY QuorumConsented DEF IInv, FinalizedByQuorum
  <1>2. QED
    BY <1>1, Invariance, PTL

\* A key signs a contract at most once.
THEOREM SigningIsOnce == Spec => []OneReceiptPerKey
  <1>1. IInv => OneReceiptPerKey
    BY DEF IInv, LedgerInv, OneReceiptPerKey
  <1>2. QED
    BY <1>1, Invariance, PTL

\* The registry's and contracts' counters count the accounts.
THEOREM CountersAreRight == Spec => []CountersMatchReceipts
  <1>1. IInv => CountersMatchReceipts
    BY DEF IInv, LedgerInv, CountersMatchReceipts
  <1>2. QED
    BY <1>1, Invariance, PTL

\* verify_signature accepts every receipt: its contract is registered and is
\* never deactivated.
THEOREM ReceiptsAreVerifiable == Spec => []ReceiptsStayVerifiable
  <1>1. IInv => ReceiptsStayVerifiable
    <2> SUFFICES ASSUME IInv, NEW r \in ledger.signature
                 PROVE  VerifySignatureAccepts(ledger, r.contract, r)
      BY DEF ReceiptsStayVerifiable
    <2>1. AccountsLinked(ledger)
      BY DEF IInv, LedgerInv
    <2>2. r.contract \in DOMAIN ledger.contract /\ ledger.contract[r.contract].active
      BY <2>1 DEF AccountsLinked
    <2>3. QED
      BY <2>2 DEF VerifySignatureAccepts
  <1>2. QED
    BY <1>1, Invariance, PTL

\* finalize_multisig is refused in every reachable state.
THEOREM FinalizeIsNeverNeeded == Spec => []FinalizeNeverNeeded
  <1>1. IInv => FinalizeNeverNeeded
    BY NothingToFinalize DEF IInv, FinalizeNeverNeeded
  <1>2. QED
    BY <1>1, Invariance, PTL

\* Agreements only advance, and nothing changes a finalized one.
THEOREM FinalityHolds == Spec => FinalityIsTerminal
  <1>1. ASSUME IInv, Next
        PROVE  OnlyAdvances(ledger, ledger')
    <2>0. LedgerInv(ledger, proofs) /\ IsLedger(ledger)
      BY <1>1 DEF IInv, LedgerInv, LedgerTypeOK
    <2>1. ASSUME NEW k \in Key, NEW d \in Hash, NEW ts \in Stamp, Prove(k, d, ts)
          PROVE  OnlyAdvances(ledger, ledger')
      BY <2>1, UntouchedAdvances DEF Prove
    <2>2. CASE Initialize
      BY <2>0, <2>2, InitializeFields, UntouchedAdvances DEF Initialize
    <2>3. ASSUME NEW d \in Digest, RegisterContract(d)
          PROVE  OnlyAdvances(ledger, ledger')
      BY <2>0, <2>3, RegisterFields, UntouchedAdvances DEF RegisterContract
    <2>4. ASSUME NEW a \in Address, CreateMultisig(a)
          PROVE  OnlyAdvances(ledger, ledger')
      BY <2>0, <2>4, CreateAdvances DEF CreateMultisig
    <2>5. ASSUME NEW h \in Hash, NEW p \in proofs, NEW q \in Statement, NEW k \in Key,
                 NEW s \in SigCommitment, VerifyGroth16V2(h, p, q, k, s)
          PROVE  OnlyAdvances(ledger, ledger')
      <3>1. ledger'.multisig = ledger.multisig /\ ledger'.member = ledger.member
        BY <2>0, <2>5 DEF VerifyGroth16V2, VerifyGroth16V2Writes, IsLedger
      <3>2. QED
        BY <3>1, UntouchedAdvances
    <2>6. ASSUME NEW h \in Hash, NEW p \in proofs, NEW q \in Statement, NEW k \in Key,
                 NEW s \in SigCommitment, NEW a \in DOMAIN ledger.multisig,
                 VerifyAndRecord(h, p, q, k, s, a)
          PROVE  OnlyAdvances(ledger, ledger')
      <3> DEFINE v == VerifyGroth16V2Writes(ledger, h, k, s)
      <3>1. IsLedger(v) /\ v.multisig = ledger.multisig /\ v.member = ledger.member
        BY <2>0 DEF VerifyGroth16V2Writes, IsLedger
      <3>2. OnlyAdvances(v, ledger')
        BY <2>6, <3>1, RecordAdvances
           DEF VerifyAndRecord, VerifyAndRecordAccepts, VerifyAndRecordWrites
      <3>3. QED
        BY <3>1, <3>2 DEF OnlyAdvances, MembersOf
    <2>7. ASSUME NEW h \in Hash, NEW k \in Key, NEW a \in DOMAIN ledger.multisig,
                 NEW r \in ledger.signature, RecordVerifiedMultisig(h, k, a, r)
          PROVE  OnlyAdvances(ledger, ledger')
      BY <2>0, <2>7, RecordAdvances DEF RecordVerifiedMultisig
    <2>8. ASSUME NEW a \in DOMAIN ledger.multisig, NEW h \in Hash, FinalizeMultisig(a, h)
          PROVE  OnlyAdvances(ledger, ledger')
      BY <2>0, <2>8, NothingToFinalize, UntouchedAdvances DEF FinalizeMultisig
    <2>9. CASE NoEffect
      BY <2>9, UntouchedAdvances DEF NoEffect, vars
    <2>10. QED
      BY <1>1, <2>1, <2>2, <2>3, <2>4, <2>5, <2>6, <2>7, <2>8, <2>9 DEF Next, SubmitProof
  <1>2. QED
    BY <1>1, Invariance, PTL DEF Spec, FinalityIsTerminal

-----------------------------------------------------------------------------
(* The program implements ThresholdAgreement. *)

\* A step that leaves agreements, members and proofs alone is invisible.
LEMMA Invisible ==
    ASSUME ledger'.multisig = ledger.multisig, ledger'.member = ledger.member,
           proofs' = proofs
    PROVE  UNCHANGED Agreement!vars
  BY DEF Agreement!vars, Consents, Consenting, SignersOf, FinalAgreements

\* A proof is a consent.
LEMMA ProveConsents ==
    ASSUME NEW k \in Key, NEW d \in Hash, NEW ts \in Stamp, Prove(k, d, ts)
    PROVE  Agreement!Next
  <1>1. ledger' = ledger /\ proofs' = proofs \cup {StatementOf(k, d, ts)}
    BY DEF Prove
  <1>2. Consents(proofs') = Consents(proofs) \cup {<<d, k>>}
    <2>1. \A h, j : j \in Consenting(proofs', h) <=>
                       j \in Consenting(proofs, h) \/ (j = k /\ h = d)
      BY <1>1, StatementWellFormed DEF Consenting
    <2>2. \A c \in Hash \X Key : c = <<d, k>> <=> c[1] = d /\ c[2] = k
      OBVIOUS
    <2>3. <<d, k>> \in Hash \X Key
      OBVIOUS
    <2>4. QED
      BY <2>1, <2>2, <2>3 DEF Consents
  <1>3. PICK a \in Address : a.hash = d
    <2>1. [hash |-> d, threshold |-> 0, maxSigners |-> 0] \in Address
      BY LedgerAssumption DEF Address, U8
    <2>2. QED
      BY <2>1
  <1>4. Agreement!Consent(a.hash, k)
    BY <1>1, <1>2, <1>3 DEF Agreement!Consent
  <1>5. QED
    BY <1>4 DEF Agreement!Next

\* Creating an agreement opens it.
LEMMA CreateOpens ==
    ASSUME IInv, NEW a \in Address, CreateMultisig(a)
    PROVE  Agreement!Next
  <1>1. /\ IsLedger(ledger) /\ CreateMultisigAccepts(ledger, a)
        /\ ledger' = CreateMultisigWrites(ledger, a) /\ proofs' = proofs
    BY DEF IInv, LedgerInv, LedgerTypeOK, CreateMultisig
  <1>2. Agreement!Open(a)
    BY <1>1, CreateViews DEF Agreement!Open
  <1>3. QED
    BY <1>2 DEF Agreement!Next

\* The abstract specification counts as this one does.
LEMMA SameCardinality ==
    ASSUME NEW S
    PROVE  Agreement!Cardinality(S) = Cardinality(S)
  BY Zenon DEF Agreement!Cardinality, Cardinality, Agreement!IsFiniteSet, IsFiniteSet

\* Counting a verified signer, from a sound ledger l with the same agreements
\* and members as the current one, counts that signer.
LEMMA RecordCounts ==
    ASSUME IInv', proofs' = proofs,
           NEW l, IsLedger(l), LedgerInv(l, proofs),
           l.multisig = ledger.multisig, l.member = ledger.member,
           NEW h \in Hash, NEW k \in Key, NEW a \in DOMAIN ledger.multisig, NEW r,
           RecordVerifiedMultisigAccepts(l, h, k, a, r),
           ledger' = RecordVerifiedMultisigWrites(l, k, a)
    PROVE  Agreement!Next
  <1>1. /\ DOMAIN l.multisig = DOMAIN ledger.multisig
        /\ SignersOf(l) = SignersOf(ledger) /\ FinalAgreements(l) = FinalAgreements(ledger)
    BY UntouchedViews
  <1>2. LedgerInv(ledger', proofs)
    BY DEF IInv
  <1>3. /\ a \in Address /\ a \in DOMAIN ledger.multisig \ FinalAgreements(ledger)
        /\ <<a.hash, k>> \in Consents(proofs) /\ k \notin SignersOf(ledger)[a]
        /\ DOMAIN ledger'.multisig = DOMAIN ledger.multisig
        /\ SignersOf(ledger') = [SignersOf(ledger) EXCEPT ![a] = @ \cup {k}]
        /\ FinalAgreements(ledger') =
               IF Cardinality(SignersOf(ledger')[a]) >= a.threshold
               THEN FinalAgreements(ledger) \cup {a} ELSE FinalAgreements(ledger)
    BY <1>1, <1>2, RecordViews
  <1>4. FinalAgreements(ledger') =
            IF Agreement!Cardinality(SignersOf(ledger')[a]) >= a.threshold
            THEN FinalAgreements(ledger) \cup {a} ELSE FinalAgreements(ledger)
    BY <1>3, SameCardinality
  <1>5. Consents(proofs') = Consents(proofs)
    OBVIOUS
  <1>6. Agreement!Count(a, k)
    BY <1>3, <1>4, <1>5 DEF Agreement!Count
  <1>7. QED
    BY <1>3, <1>6 DEF Agreement!Next

\* Every behaviour of the program is one of the abstract agreement.
THEOREM Refinement == Spec => ImplementsAgreement
  <1>1. Init => Agreement!Init
    BY DEF Init, InitialLedger, Agreement!Init, Consents, Consenting, SignersOf, FinalAgreements
  <1>2. ASSUME IInv, IInv', [Next]_vars
        PROVE  [Agreement!Next]_(Agreement!vars)
    <2>0. LedgerInv(ledger, proofs) /\ IsLedger(ledger)
      BY <1>2 DEF IInv, LedgerInv, LedgerTypeOK
    <2>1. ASSUME NEW k \in Key, NEW d \in Hash, NEW ts \in Stamp, Prove(k, d, ts)
          PROVE  Agreement!Next
      BY <2>1, ProveConsents
    <2>2. CASE Initialize
      BY <2>0, <2>2, InitializeFields, Invisible DEF Initialize
    <2>3. ASSUME NEW d \in Digest, RegisterContract(d)
          PROVE  UNCHANGED Agreement!vars
      BY <2>0, <2>3, RegisterFields, Invisible DEF RegisterContract
    <2>4. ASSUME NEW a \in Address, CreateMultisig(a)
          PROVE  Agreement!Next
      BY <1>2, <2>4, CreateOpens
    <2>5. ASSUME NEW h \in Hash, NEW p \in proofs, NEW q \in Statement, NEW k \in Key,
                 NEW s \in SigCommitment, VerifyGroth16V2(h, p, q, k, s)
          PROVE  UNCHANGED Agreement!vars
      <3>1. ledger'.multisig = ledger.multisig /\ ledger'.member = ledger.member
            /\ proofs' = proofs
        BY <2>0, <2>5 DEF VerifyGroth16V2, VerifyGroth16V2Writes, IsLedger
      <3>2. QED
        BY <3>1, Invisible
    <2>6. ASSUME NEW h \in Hash, NEW p \in proofs, NEW q \in Statement, NEW k \in Key,
                 NEW s \in SigCommitment, NEW a \in DOMAIN ledger.multisig,
                 VerifyAndRecord(h, p, q, k, s, a)
          PROVE  Agreement!Next
      <3> DEFINE v == VerifyGroth16V2Writes(ledger, h, k, s)
                 r == [contract |-> h, key |-> k, sig |-> s]
      <3>1. IsLedger(v) /\ v.multisig = ledger.multisig /\ v.member = ledger.member
        BY <2>0 DEF VerifyGroth16V2Writes, IsLedger
      <3>2. /\ VerifyGroth16V2Accepts(ledger, h, p, q, k, s)
            /\ RecordVerifiedMultisigAccepts(v, h, k, a, r)
            /\ ledger' = RecordVerifiedMultisigWrites(v, k, a) /\ proofs' = proofs
        BY <2>6 DEF VerifyAndRecord, VerifyAndRecordAccepts, VerifyAndRecordWrites
      <3>3. LedgerInv(v, proofs)
        BY <1>2, <2>0, <3>2, VerifyPreserves DEF IInv
      <3> HIDE DEF v, r
      <3>4. QED
        BY <1>2, <3>1, <3>2, <3>3, RecordCounts
    <2>7. ASSUME NEW h \in Hash, NEW k \in Key, NEW a \in DOMAIN ledger.multisig,
                 NEW r \in ledger.signature, RecordVerifiedMultisig(h, k, a, r)
          PROVE  Agreement!Next
      BY <1>2, <2>0, <2>7, RecordCounts DEF RecordVerifiedMultisig
    <2>8. ASSUME NEW a \in DOMAIN ledger.multisig, NEW h \in Hash, FinalizeMultisig(a, h)
          PROVE  UNCHANGED Agreement!vars
      BY <2>0, <2>8, NothingToFinalize, Invisible DEF FinalizeMultisig
    <2>9. CASE UNCHANGED vars
      BY <2>9, Invisible DEF vars
    <2>10. QED
      BY <1>2, <2>1, <2>2, <2>3, <2>4, <2>5, <2>6, <2>7, <2>8, <2>9
         DEF Next, SubmitProof, NoEffect
  <1>3. QED
    BY <1>1, <1>2, Invariance, PTL DEF Spec, ImplementsAgreement, Agreement!Spec
=============================================================================
