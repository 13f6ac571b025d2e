---------------------------- MODULE RelayProofs -----------------------------
(* The ledger's invariant under the relay, the SDK and other clients, for   *)
(* any number of requests and whatever is asked in them.                    *)
EXTENDS Relay, ObliviaLedgerProofs

Route == {"/sign", "signContract", "/multisig/create", "createMultiSigContract",
          "/multisig/sign", "signMultiSig", "/multisig/status",
          "finalizeMultiSigContract", "initializeRegistry"}

\* Whatever is asked has passed the parsers, and its proof was made by a prover.
WellFormed(b) ==
    /\ b = [route |-> b.route, hash |-> b.hash, key |-> b.key, sig |-> b.sig, proof |-> b.proof,
            threshold |-> b.threshold, maxSigners |-> b.maxSigners]
    /\ b.route \in Route /\ b.hash \in Digest /\ b.key \in Key
    /\ b.threshold \in U8 /\ b.maxSigners \in U8
    /\ b.proof \in Statement /\ CircuitSatisfied(b.proof)

RequestsWellFormed ==
    /\ \A b \in Bodies : WellFormed(b)
    /\ \A t \in Outside : t.kind \in Kind

\* A handler acts for a request that has arrived, and nothing is sent but what
\* was asked for.
HandlersSound ==
    /\ DOMAIN todo = Request /\ DOMAIN body = Request /\ DOMAIN reply = Request
    /\ \A r \in Request : body[r] \in Bodies \/ (body[r] = NoBody /\ todo[r] = <<>>)

LateSound == \A t \in late : t.kind \in Kind /\ t.body \in Bodies

RInv == LedgerInv(ledger, Proofs) /\ HandlersSound /\ LateSound

\* What a transaction that has landed leaves on chain, for ever.
Done(l, kind, b) ==
    CASE kind = "initialize" -> l.initialized
      [] kind = "register" -> b.hash \in DOMAIN l.contract
      [] kind = "create" -> AgreementAt(b) \in DOMAIN l.multisig
      [] kind = "verify" -> ReceiptAt(b) \in l.signature
      [] kind = "submit" -> /\ ReceiptAt(b) \in l.signature
                            /\ [multisig |-> AgreementAt(b), key |-> b.key] \in l.member
      [] kind = "finalize" -> AgreementAt(b) \in FinalAgreements(l)

LandedIsDone == \A t \in landed : t.kind \in Kind /\ t.body \in Bodies /\ Done(ledger, t.kind, t.body)

\* No agreement without its contract: the accounts constraint of create_multisig.
AgreementsRegistered == \A a \in DOMAIN ledger.multisig : a.hash \in DOMAIN ledger.contract

HistorySound ==
    /\ \A r \in Request : body[r] # NoBody /\ ~ledger.initialized => r \in early
    /\ \A r \in wasFinal : r \in Request => body[r] # NoBody /\ AgreementFinal(body[r])

\* Only a signer's own request sends a lone verification.
LateVerifications ==
    \A t \in late : t.kind = "verify" =>
        \E r \in Request : SignsAlone(body[r]) /\ body[r] = t.body

\* The registration that was refused found the contract there, unless it had to be
\* refused or the refusal was only a lost confirmation.
Registered(r) ==
    r \in Flaky \/ r \in early \/ body[r].hash = ZeroDigest \/ ContractExists(body[r])

\* The steps each handler has left, and what it knows of the chain by then.
SigningAlone(r, steps) ==
    \/ steps \in {<<"readContract", "register", "verify">>, <<"register", "verify">>}
    \/ steps = <<"rereadContract", "verify">> /\ Registered(r)
    \/ steps = <<"verify">> /\ ContractExists(body[r])
    \/ steps = <<>> /\ Done(ledger, "verify", body[r])

Creating(r, steps) ==
    \/ steps \in {<<"readContract", "readMultisig", "register", "create">>,
                  <<"readContract", "register", "readMultisig", "create">>,
                  <<"readMultisig", "register", "create">>,
                  <<"register", "readMultisig", "create">>, <<"register", "create">>}
    \/ /\ steps \in {<<"rereadContract", "readMultisig", "create">>, <<"rereadContract", "create">>}
       /\ Registered(r)
    \/ steps \in {<<"readMultisig", "create">>, <<"create">>} /\ ContractExists(body[r])
    \/ steps = <<"rereadMultisig">> /\ (r \in Flaky \/ AgreementExists(body[r]))
    \/ steps \in {<<"register">>, <<"rereadContract">>, <<>>} /\ AgreementExists(body[r])

CoSigning(r, steps) ==
    \/ steps \in {<<"submit", "readStatus">>, <<"submit">>}
    \/ steps \in {<<"readStatus">>, <<>>} /\ Done(ledger, "submit", body[r])

AskingStatus(r, steps) ==
    \/ steps = <<"readMultisig">>
    \/ steps = <<>> /\ (reply[r] = "absent" \/ AgreementExists(body[r]))

Finalizing(r, steps) ==
    \/ steps = <<"readMultisig", "finalize">>
    \/ steps = <<"finalize">> /\ r \notin wasFinal
    \/ steps = <<>> /\ AgreementFinal(body[r])

Initializing(steps) == steps \in {<<"initialize">>, <<>>}

OnCourse(r, steps) ==
    /\ ~InvalidSettings(body[r])
    /\ SignsAlone(body[r]) => SigningAlone(r, steps)
    /\ Creates(body[r]) => Creating(r, steps)
    /\ CoSigns(body[r]) => CoSigning(r, steps)
    /\ AsksStatus(body[r]) => AskingStatus(r, steps)
    /\ Finalizes(body[r]) => Finalizing(r, steps)
    /\ body[r].route = "initializeRegistry" => Initializing(steps)
    /\ reply[r] = "finalized" => AgreementFinal(body[r])

\* A handler that has failed is done; any other is on course.
HandlerOnCourse(r) ==
    body[r] # NoBody => IF reply[r] = "failed" THEN todo[r] = <<>> ELSE OnCourse(r, todo[r])

HandlersOnCourse == \A r \in Request : HandlerOnCourse(r)

Inv == /\ RInv /\ LandedIsDone /\ AgreementsRegistered /\ HistorySound
       /\ LateVerifications /\ HandlersOnCourse /\ SignedIsCounted

\* Contract h was to be registered by another client, or by a request to sign it
\* alone or to create an agreement on it whose settings are valid.
AsksFor(r, h) ==
    (SignsAlone(body[r]) \/ Creates(body[r])) /\ body[r].hash = h /\ ~InvalidSettings(body[r])
AskedFor(h) ==
    \/ \E t \in Outside : t.kind = "register" /\ t.body.hash = h
    \/ \E r \in Request : AsksFor(r, h)

\* So was every contract on chain, and every registration nobody waits for.
ContractsAskedFor == \A h \in DOMAIN ledger.contract \ LegacyContracts : AskedFor(h)
LateRegistrations == \A t \in late : t.kind = "register" => AskedFor(t.body.hash)
AskedInv == ContractsAskedFor /\ LateRegistrations

\* Each kind of transaction is the instruction it is named for.
LEMMA TxCases ==
    ASSUME NEW l, NEW b
    PROVE  /\ TxAccepts(l, "initialize", b) => InitializeAccepts(l)
           /\ TxWrites(l, "initialize", b) = InitializeWrites(l)
           /\ TxAccepts(l, "register", b) => RegisterContractAccepts(l, b.hash)
           /\ TxWrites(l, "register", b) = RegisterContractWrites(l, b.hash)
           /\ TxAccepts(l, "create", b) => CreateMultisigAccepts(l, AgreementAt(b))
           /\ TxWrites(l, "create", b) = CreateMultisigWrites(l, AgreementAt(b))
           /\ TxAccepts(l, "verify", b) => VerifyGroth16V2Accepts(l, b.hash, b.proof, b.proof, b.key, b.sig)
           /\ TxWrites(l, "verify", b) = VerifyGroth16V2Writes(l, b.hash, b.key, b.sig)
           /\ TxAccepts(l, "submit", b) => VerifyAndRecordAccepts(l, b.hash, b.proof, b.proof, b.key, b.sig, AgreementAt(b))
           /\ TxWrites(l, "submit", b) = VerifyAndRecordWrites(l, b.hash, b.key, b.sig, AgreementAt(b))
           /\ TxAccepts(l, "finalize", b) => FinalizeMultisigAccepts(l, AgreementAt(b), b.hash)
           /\ TxWrites(l, "finalize", b) = FinalizeMultisigWrites(l, AgreementAt(b))
  <1>1. TxAccepts(l, "initialize", b) => InitializeAccepts(l)
    BY Zenon DEF TxAccepts
  <1>2. TxWrites(l, "initialize", b) = InitializeWrites(l)
    BY Zenon DEF TxWrites
  <1>3. TxAccepts(l, "register", b) => RegisterContractAccepts(l, b.hash)
    BY Zenon DEF TxAccepts
  <1>4. TxWrites(l, "register", b) = RegisterContractWrites(l, b.hash)
    BY Zenon DEF TxWrites
  <1>5. TxAccepts(l, "create", b) => CreateMultisigAccepts(l, AgreementAt(b))
    BY Zenon DEF TxAccepts
  <1>6. TxWrites(l, "create", b) = CreateMultisigWrites(l, AgreementAt(b))
    BY Zenon DEF TxWrites
  <1>7. TxAccepts(l, "verify", b) => VerifyGroth16V2Accepts(l, b.hash, b.proof, b.proof, b.key, b.sig)
    BY Zenon DEF TxAccepts
  <1>8. TxWrites(l, "verify", b) = VerifyGroth16V2Writes(l, b.hash, b.key, b.sig)
    BY Zenon DEF TxWrites
  <1>9. TxAccepts(l, "submit", b) => VerifyAndRecordAccepts(l, b.hash, b.proof, b.proof, b.key, b.sig, AgreementAt(b))
    BY Zenon DEF TxAccepts
  <1>10. TxWrites(l, "submit", b) = VerifyAndRecordWrites(l, b.hash, b.key, b.sig, AgreementAt(b))
    BY Zenon DEF TxWrites
  <1>11. TxAccepts(l, "finalize", b) => FinalizeMultisigAccepts(l, AgreementAt(b), b.hash)
    BY Zenon DEF TxAccepts
  <1>12. TxWrites(l, "finalize", b) = FinalizeMultisigWrites(l, AgreementAt(b))
    BY Zenon DEF TxWrites
  <1>13. QED
    BY <1>1, <1>2, <1>3, <1>4, <1>5, <1>6, <1>7, <1>8, <1>9, <1>10, <1>11, <1>12

\* Every transaction preserves the ledger's invariant.
LEMMA TxPreserves ==
    ASSUME NEW l, NEW p, LedgerInv(l, p), NEW kind \in Kind, NEW b,
           WellFormed(b), b.proof \in p, TxAccepts(l, kind, b)
    PROVE  LedgerInv(TxWrites(l, kind, b), p)
  <1>0. LedgerTypeOK(l)
    BY DEF LedgerInv
  <1>1. CASE kind = "initialize"
    BY <1>1, TxCases, InitializePreserves
  <1>2. CASE kind = "register"
    BY <1>2, TxCases, RegisterPreserves DEF WellFormed
  <1>3. CASE kind = "create"
    <2>1. CreateMultisigAccepts(l, AgreementAt(b))
      BY <1>3, TxCases
    <2>2. AgreementAt(b) \in Address
      BY <1>0, <2>1 DEF CreateMultisigAccepts, LedgerTypeOK, AgreementAt, Address, WellFormed
    <2>3. QED
      BY <1>3, <2>1, <2>2, TxCases, CreatePreserves
  <1>4. CASE kind = "verify"
    <2>1. VerifyGroth16V2Accepts(l, b.hash, b.proof, b.proof, b.key, b.sig)
      BY <1>4, TxCases
    <2>2. b.hash \in Hash
      BY <1>0, <2>1 DEF VerifyGroth16V2Accepts, LedgerTypeOK
    <2>3. QED
      BY <1>4, <2>1, <2>2, TxCases, VerifyPreserves DEF WellFormed
  <1>5. CASE kind = "submit"
    <2>1. VerifyAndRecordAccepts(l, b.hash, b.proof, b.proof, b.key, b.sig, AgreementAt(b))
      BY <1>5, TxCases
    <2>2. b.hash \in Hash
      BY <1>0, <2>1 DEF VerifyAndRecordAccepts, VerifyGroth16V2Accepts, LedgerTypeOK
    <2>3. QED
      BY <1>5, <2>1, <2>2, TxCases, VerifyAndRecordPreserves DEF WellFormed
  <1>6. CASE kind = "finalize"
    BY <1>6, TxCases, NothingToFinalize
  <1>7. QED
    BY <1>1, <1>2, <1>3, <1>4, <1>5, <1>6 DEF Kind

\* What only grows: accounts are never closed, and final agreements stay final.
Grows(l, n) ==
    /\ l.initialized => n.initialized
    /\ DOMAIN l.contract \subseteq DOMAIN n.contract
    /\ l.signature \subseteq n.signature /\ l.signerRecord \subseteq n.signerRecord
    /\ DOMAIN l.multisig \subseteq DOMAIN n.multisig
    /\ l.member \subseteq n.member
    /\ FinalAgreements(l) \subseteq FinalAgreements(n)

\* What a transaction does to contracts, agreements, receipts and members.
Effect(l, n, kind, b) ==
    /\ Grows(l, n) /\ Done(n, kind, b)
    /\ \A a \in DOMAIN n.multisig : a \in DOMAIN l.multisig \/ a.hash \in DOMAIN l.contract
    /\ kind \notin {"verify", "submit"} => n.signature = l.signature
    /\ kind \in {"verify", "submit"} => n.signature = l.signature \cup {ReceiptAt(b)}
    /\ kind # "register" => DOMAIN n.contract = DOMAIN l.contract
    /\ kind = "register" => DOMAIN n.contract = DOMAIN l.contract \cup {b.hash}

\* Done, kind by kind.
LEMMA DoneCases ==
    ASSUME NEW l, NEW b
    PROVE  /\ Done(l, "initialize", b) <=> l.initialized
           /\ Done(l, "register", b) <=> b.hash \in DOMAIN l.contract
           /\ Done(l, "create", b) <=> AgreementAt(b) \in DOMAIN l.multisig
           /\ Done(l, "verify", b) <=> ReceiptAt(b) \in l.signature
           /\ Done(l, "submit", b) <=>
                 ReceiptAt(b) \in l.signature
                 /\ [multisig |-> AgreementAt(b), key |-> b.key] \in l.member
           /\ Done(l, "finalize", b) <=> AgreementAt(b) \in FinalAgreements(l)
  <1>1. Done(l, "initialize", b) <=> l.initialized
    BY Zenon DEF Done
  <1>2. Done(l, "register", b) <=> b.hash \in DOMAIN l.contract
    BY Zenon DEF Done
  <1>3. Done(l, "create", b) <=> AgreementAt(b) \in DOMAIN l.multisig
    BY Zenon DEF Done
  <1>4. Done(l, "verify", b) <=> ReceiptAt(b) \in l.signature
    BY Zenon DEF Done
  <1>5. Done(l, "submit", b) <=>
            ReceiptAt(b) \in l.signature
            /\ [multisig |-> AgreementAt(b), key |-> b.key] \in l.member
    BY Zenon DEF Done
  <1>6. Done(l, "finalize", b) <=> AgreementAt(b) \in FinalAgreements(l)
    BY Zenon DEF Done
  <1>7. QED
    BY <1>1, <1>2, <1>3, <1>4, <1>5, <1>6

\* What has been done stays done.
LEMMA DoneStays ==
    ASSUME NEW l, NEW n, Grows(l, n), NEW kind \in Kind, NEW b, Done(l, kind, b)
    PROVE  Done(n, kind, b)
  <1>1. CASE kind = "initialize"
    BY <1>1, DoneCases DEF Grows
  <1>2. CASE kind = "register"
    BY <1>2, DoneCases DEF Grows
  <1>3. CASE kind = "create"
    BY <1>3, DoneCases DEF Grows
  <1>4. CASE kind = "verify"
    BY <1>4, DoneCases DEF Grows
  <1>5. CASE kind = "submit"
    BY <1>5, DoneCases DEF Grows
  <1>6. CASE kind = "finalize"
    BY <1>6, DoneCases DEF Grows
  <1>7. QED
    BY <1>1, <1>2, <1>3, <1>4, <1>5, <1>6 DEF Kind

\* The multisig transaction, field by field: what verify_groth16_v2 writes, and
\* then one more member and one more in the tally.
LEMMA SubmitFields ==
    ASSUME NEW l, IsLedger(l), NEW h, NEW key, NEW sig, NEW a, a \in DOMAIN l.multisig
    PROVE  LET n == VerifyAndRecordWrites(l, h, key, sig, a)
           IN  /\ n.signature = l.signature \cup {[contract |-> h, key |-> key, sig |-> sig]}
               /\ n.signerRecord = l.signerRecord \cup {[contract |-> h, key |-> key]}
               /\ DOMAIN n.contract = DOMAIN l.contract
               /\ n.initialized = l.initialized
               /\ n.member = l.member \cup {[multisig |-> a, key |-> key]}
               /\ DOMAIN n.multisig = DOMAIN l.multisig
               /\ n.multisig[a] = Counted(l.multisig[a])
               /\ \A c \in DOMAIN l.multisig : c # a => n.multisig[c] = l.multisig[c]
  <1> DEFINE v == VerifyGroth16V2Writes(l, h, key, sig)
             n == VerifyAndRecordWrites(l, h, key, sig, a)
  <1>1. /\ IsLedger(v)
        /\ v.signature = l.signature \cup {[contract |-> h, key |-> key, sig |-> sig]}
        /\ v.signerRecord = l.signerRecord \cup {[contract |-> h, key |-> key]}
        /\ v.contract = [l.contract EXCEPT ![h] = Signed(@)]
        /\ v.initialized = l.initialized
        /\ v.multisig = l.multisig /\ v.member = l.member
    BY VerifyFields
  <1>2. n = RecordVerifiedMultisigWrites(v, key, a)
    BY DEF VerifyAndRecordWrites
  <1> HIDE DEF v, n
  <1>3. /\ n.member = v.member \cup {[multisig |-> a, key |-> key]}
        /\ n.multisig = [v.multisig EXCEPT ![a] = Counted(@)]
        /\ n.initialized = v.initialized /\ n.contract = v.contract
        /\ n.signature = v.signature /\ n.signerRecord = v.signerRecord
    BY <1>1, <1>2 DEF IsLedger, RecordVerifiedMultisigWrites
  <1>4. DOMAIN n.contract = DOMAIN l.contract
    BY <1>1, <1>3
  <1>5. /\ DOMAIN n.multisig = DOMAIN l.multisig
        /\ n.multisig[a] = Counted(l.multisig[a])
        /\ \A c \in DOMAIN l.multisig : c # a => n.multisig[c] = l.multisig[c]
    BY <1>1, <1>3
  <1>6. QED
    BY <1>1, <1>3, <1>4, <1>5 DEF n

\* Every accepted transaction only adds to the ledger, and does what it is for.
LEMMA TxEffect ==
    ASSUME NEW l, NEW p, LedgerInv(l, p), NEW kind \in Kind, NEW b, TxAccepts(l, kind, b)
    PROVE  Effect(l, TxWrites(l, kind, b), kind, b)
  <1> DEFINE n == TxWrites(l, kind, b)
             a == AgreementAt(b)
  <1>0. IsLedger(l)
    BY DEF LedgerInv, LedgerTypeOK
  <1>1. CASE kind = "initialize"
    <2>1. n = InitializeWrites(l)
      BY <1>1, TxCases
    <2> HIDE DEF n
    <2>2. /\ n.initialized = TRUE
          /\ n.contract = l.contract /\ n.signature = l.signature
          /\ n.signerRecord = l.signerRecord
          /\ n.multisig = l.multisig /\ n.member = l.member
      BY <1>0, <2>1, InitializeFields
    <2>3. Done(n, kind, b)
      BY <1>1, <2>2, DoneCases
    <2>4. QED
      BY <1>1, <2>2, <2>3 DEF Effect, Grows, FinalAgreements, n
  <1>2. CASE kind = "register"
    <2>1. n = RegisterContractWrites(l, b.hash)
      BY <1>2, TxCases
    <2> HIDE DEF n
    <2>2. /\ n.initialized = l.initialized
          /\ n.contract = Create(l.contract, b.hash, [signatureCount |-> 0, active |-> TRUE])
          /\ n.signature = l.signature /\ n.signerRecord = l.signerRecord
          /\ n.multisig = l.multisig /\ n.member = l.member
      BY <1>0, <2>1, RegisterFields
    <2>3. DOMAIN n.contract = DOMAIN l.contract \cup {b.hash}
      BY <2>2 DEF Create
    <2>4. Done(n, kind, b)
      BY <1>2, <2>3, DoneCases
    <2>5. QED
      BY <1>2, <2>2, <2>3, <2>4 DEF Effect, Grows, FinalAgreements, n
  <1>3. CASE kind = "create"
    <2>1. n = CreateMultisigWrites(l, a) /\ a.hash \in DOMAIN l.contract /\ a \notin DOMAIN l.multisig
      BY <1>3, TxCases DEF CreateMultisigAccepts
    <2> HIDE DEF n, a
    <2>2. /\ n.initialized = l.initialized
          /\ n.contract = l.contract /\ n.signature = l.signature
          /\ n.signerRecord = l.signerRecord /\ n.member = l.member
          /\ n.multisig = Create(l.multisig, a,
                [contract |-> a.hash, threshold |-> a.threshold,
                 maxSigners |-> a.maxSigners, collected |-> 0, finalized |-> FALSE])
      BY <1>0, <2>1, CreateFields
    <2>3. /\ DOMAIN n.multisig = DOMAIN l.multisig \cup {a}
          /\ \A c \in DOMAIN l.multisig : n.multisig[c] = l.multisig[c]
      BY <2>1, <2>2 DEF Create
    <2>4. Done(n, kind, b)
      BY <1>3, <2>3, DoneCases DEF a
    <2>5. FinalAgreements(l) \subseteq FinalAgreements(n)
      BY <2>3 DEF FinalAgreements
    <2>6. QED
      BY <1>3, <2>1, <2>2, <2>3, <2>4, <2>5 DEF Effect, Grows, n
  <1>4. CASE kind = "verify"
    <2>1. n = VerifyGroth16V2Writes(l, b.hash, b.key, b.sig)
      BY <1>4, TxCases
    <2> HIDE DEF n
    <2>2. /\ n.initialized = l.initialized
          /\ n.contract = [l.contract EXCEPT ![b.hash] = Signed(@)]
          /\ n.signature = l.signature \cup {ReceiptAt(b)}
          /\ n.signerRecord = l.signerRecord \cup {[contract |-> b.hash, key |-> b.key]}
          /\ n.multisig = l.multisig /\ n.member = l.member
      BY <1>0, <2>1, VerifyFields DEF ReceiptAt
    <2>3. DOMAIN n.contract = DOMAIN l.contract
      BY <2>2
    <2>4. Done(n, kind, b)
      BY <1>4, <2>2, DoneCases
    <2>5. QED
      BY <1>4, <2>2, <2>3, <2>4 DEF Effect, Grows, FinalAgreements, n
  <1>5. CASE kind = "submit"
    <2>1. n = VerifyAndRecordWrites(l, b.hash, b.key, b.sig, a)
      BY <1>5, TxCases
    <2>2. a \in DOMAIN l.multisig
      BY <1>5, Zenon DEF TxAccepts
    <2> HIDE DEF n
    <2>3. /\ n.initialized = l.initialized
          /\ DOMAIN n.contract = DOMAIN l.contract
          /\ n.signature = l.signature \cup {ReceiptAt(b)}
          /\ l.signerRecord \subseteq n.signerRecord
          /\ n.member = l.member \cup {[multisig |-> a, key |-> b.key]}
          /\ DOMAIN n.multisig = DOMAIN l.multisig
          /\ n.multisig[a] = Counted(l.multisig[a])
          /\ \A c \in DOMAIN l.multisig : c # a => n.multisig[c] = l.multisig[c]
      BY <1>0, <2>1, <2>2, SubmitFields DEF ReceiptAt
    <2>4. Done(n, kind, b)
      BY <1>5, <2>3, DoneCases
    <2>5. l.multisig[a].finalized => Counted(l.multisig[a]).finalized
      <3>1. l.multisig[a] \in MultiSigContract
        BY <2>2 DEF LedgerInv, LedgerTypeOK
      <3>2. QED
        BY <3>1 DEF Counted, MultiSigContract
    <2>6. FinalAgreements(l) \subseteq FinalAgreements(n)
      BY <2>3, <2>5 DEF FinalAgreements
    <2>7. QED
      BY <1>5, <2>3, <2>4, <2>6 DEF Effect, Grows, n
  <1>6. CASE kind = "finalize"
    BY <1>6, TxCases, NothingToFinalize
  <1>7. QED
    BY <1>1, <1>2, <1>3, <1>4, <1>5, <1>6 DEF Kind

\* A transaction of something that was asked for preserves it, too.
LEMMA SentPreserves ==
    ASSUME RequestsWellFormed, LedgerInv(ledger, Proofs),
           NEW kind \in Kind, NEW b \in Bodies, TxAccepts(ledger, kind, b),
           ledger' = TxWrites(ledger, kind, b)
    PROVE  LedgerInv(ledger', Proofs)
  <1>1. WellFormed(b) /\ b.proof \in Proofs
    BY DEF RequestsWellFormed, Proofs
  <1>2. QED
    BY <1>1, TxPreserves

\* A failure leaves the handler with some steps, perhaps none.
LEMMA FailureContinues ==
    ASSUME NEW r \in Request, OnFailure(r)
    PROVE  \E s, a : todo' = [todo EXCEPT ![r] = s] /\ reply' = [reply EXCEPT ![r] = a]
  BY Zenon DEF OnFailure, Fail, Continue

\* A handler that goes on acts for the same request.
LEMMA HandlerGoesOn ==
    ASSUME HandlersSound, NEW r \in Request, todo[r] # <<>>, UNCHANGED body,
           NEW s, todo' = [todo EXCEPT ![r] = s],
           NEW a, reply' = [reply EXCEPT ![r] = a]
    PROVE  body[r] \in Bodies /\ HandlersSound'
  <1>1. body[r] \in Bodies /\ body' = body
    BY DEF HandlersSound
  <1>2. DOMAIN todo' = Request /\ DOMAIN reply' = Request /\ \A q \in Request \ {r} : todo'[q] = todo[q]
    BY DEF HandlersSound
  <1>3. QED
    BY <1>1, <1>2 DEF HandlersSound, Bodies

\* Requests start with nothing sent.
LEMMA InitRInv == Init => RInv
  <1> SUFFICES ASSUME Init
               PROVE  RInv
    OBVIOUS
  <1>1. LedgerInv(ledger, Proofs)
    BY InitialLedgerSound, MoreProofs DEF Init
  <1>2. HandlersSound /\ LateSound
    BY DEF Init, HandlersSound, LateSound
  <1>3. QED
    BY <1>1, <1>2 DEF RInv

\* A step of a handler keeps the invariant.
LEMMA StepRInv ==
    ASSUME RequestsWellFormed, RInv, NEW r \in Request, Step(r)
    PROVE  RInv'
  <1>0. LedgerInv(ledger, Proofs) /\ HandlersSound /\ LateSound
    BY DEF RInv
  <1>1. ASSUME todo[r] # <<>>, UNCHANGED <<ledger, body, late>>, NEW s, todo' = [todo EXCEPT ![r] = s],
               NEW a, reply' = [reply EXCEPT ![r] = a]
        PROVE  RInv'
    BY <1>0, <1>1, HandlerGoesOn DEF RInv, LateSound, Proofs, Bodies
  <1>2. CASE ReadContract(r)
    BY <1>1, <1>2 DEF ReadContract, At, Continue, handlers
  <1>3. CASE ReadMultisig(r)
    BY <1>1, <1>3 DEF ReadMultisig, At, Continue, Fail, handlers
  <1>4. CASE Reread(r)
    BY <1>1, <1>4 DEF Reread, At, Continue, Fail, handlers
  <1>5. CASE ReadFails(r)
    BY <1>1, <1>5 DEF ReadFails, At, Continue, Fail, handlers
  <1>6. CASE ReadStatus(r)
    BY <1>1, <1>6 DEF ReadStatus, At, Continue, handlers
  <1>7. CASE Land(r)
    <2>1. /\ todo[r] # <<>> /\ Head(todo[r]) \in Kind
          /\ UNCHANGED <<body, late>>
          /\ OnSuccess(r) \/ OnFailure(r)
      BY <1>7 DEF Land, At, handlers
    <2>2. PICK s, a : todo' = [todo EXCEPT ![r] = s] /\ reply' = [reply EXCEPT ![r] = a]
      BY <2>1, FailureContinues DEF OnSuccess, Continue
    <2>3. body[r] \in Bodies /\ HandlersSound'
      BY <1>0, <2>1, <2>2, HandlerGoesOn
    <2>4. LedgerInv(ledger', Proofs)
      <3>1. CASE UNCHANGED ledger
        BY <1>0, <3>1
      <3>2. CASE /\ TxAccepts(ledger, Head(todo[r]), body[r])
                 /\ ledger' = TxWrites(ledger, Head(todo[r]), body[r])
        BY <1>0, <2>1, <2>3, <3>2, SentPreserves
      <3>3. QED
        BY <1>7, <3>1, <3>2 DEF Land
    <2>5. QED
      BY <1>0, <2>1, <2>3, <2>4 DEF RInv, LateSound, Proofs, Bodies
  <1>8. CASE Lose(r)
    <2>1. /\ todo[r] # <<>> /\ Head(todo[r]) \in Kind
          /\ UNCHANGED <<body, ledger>>
          /\ OnFailure(r)
          /\ late' = late \cup {[kind |-> Head(todo[r]), body |-> body[r]]}
      BY <1>8 DEF Lose, At, handlers
    <2>2. PICK s, a : todo' = [todo EXCEPT ![r] = s] /\ reply' = [reply EXCEPT ![r] = a]
      BY <2>1, FailureContinues
    <2>3. body[r] \in Bodies /\ HandlersSound'
      BY <1>0, <2>1, <2>2, HandlerGoesOn
    <2>4. QED
      BY <1>0, <2>1, <2>3 DEF RInv, LateSound, Proofs, Bodies
  <1>9. QED
    BY <1>2, <1>3, <1>4, <1>5, <1>6, <1>7, <1>8 DEF Step

\* Every step keeps the invariant.
LEMMA NextRInv == RequestsWellFormed /\ RInv /\ [Next]_vars => RInv'
  <1> SUFFICES ASSUME RequestsWellFormed, RInv, [Next]_vars
               PROVE  RInv'
    OBVIOUS
  <1>0. LedgerInv(ledger, Proofs) /\ HandlersSound /\ LateSound
    BY DEF RInv
  <1>1. ASSUME NEW r \in Request, NEW b \in Body[r], Arrive(r, b)
        PROVE  RInv'
    <2>1. b \in Bodies
      BY DEF Bodies
    <2>2. /\ body' = [body EXCEPT ![r] = b] /\ UNCHANGED <<ledger, late>>
          /\ \E s, a : todo' = [todo EXCEPT ![r] = s] /\ reply' = [reply EXCEPT ![r] = a]
      BY <1>1 DEF Arrive, Fail, Continue
    <2>3. HandlersSound'
      BY <1>0, <2>1, <2>2 DEF HandlersSound, Bodies
    <2>4. QED
      BY <1>0, <2>2, <2>3 DEF RInv, LateSound, Proofs, Bodies
  <1>2. ASSUME NEW t \in late, LateLand(t)
        PROVE  RInv'
    <2>1. t.kind \in Kind /\ t.body \in Bodies
      BY <1>0 DEF LateSound
    <2>2. /\ late' = late \ {t} /\ UNCHANGED <<body, todo, reply>>
          /\ \/ UNCHANGED ledger
             \/ TxAccepts(ledger, t.kind, t.body) /\ ledger' = TxWrites(ledger, t.kind, t.body)
      BY <1>2 DEF LateLand, handlers
    <2>3. LedgerInv(ledger', Proofs)
      BY <1>0, <2>1, <2>2, SentPreserves
    <2>4. QED
      BY <1>0, <2>2, <2>3 DEF RInv, HandlersSound, LateSound, Proofs, Bodies
  <1>3. ASSUME NEW t \in Outside, Outsider(t)
        PROVE  RInv'
    <2>1. t.kind \in Kind /\ t.body \in Bodies
      BY DEF RequestsWellFormed, Bodies
    <2>2. LedgerInv(ledger', Proofs)
      BY <1>0, <1>3, <2>1, SentPreserves DEF Outsider
    <2>3. QED
      BY <1>0, <1>3, <2>2 DEF Outsider, handlers, RInv, HandlersSound, LateSound, Proofs, Bodies
  <1>4. CASE UNCHANGED vars
    BY <1>0, <1>4 DEF vars, handlers, RInv, HandlersSound, LateSound, Proofs, Bodies
  <1>5. QED
    BY <1>1, <1>2, <1>3, <1>4, StepRInv DEF Next

-----------------------------------------------------------------------------
\* The first of a handler's steps, and the rest.
LEMMA OneStep ==
    ASSUME NEW a
    PROVE  Head(<<a>>) = a /\ Tail(<<a>>) = <<>> /\ <<a>> # <<>>
  OBVIOUS

\* The same of two steps.
LEMMA TwoSteps ==
    ASSUME NEW a, NEW b
    PROVE  Head(<<a, b>>) = a /\ Tail(<<a, b>>) = <<b>> /\ <<a, b>> # <<>>
  OBVIOUS

\* The same of three steps.
LEMMA ThreeSteps ==
    ASSUME NEW a, NEW b, NEW c
    PROVE  Head(<<a, b, c>>) = a /\ Tail(<<a, b, c>>) = <<b, c>> /\ <<a, b, c>> # <<>>
  <1>1. Tail(<<a, b, c>>) = <<b, c>>
    OBVIOUS
  <1>2. QED
    BY <1>1

\* The same of four steps.
LEMMA FourSteps ==
    ASSUME NEW a, NEW b, NEW c, NEW d
    PROVE  Head(<<a, b, c, d>>) = a /\ Tail(<<a, b, c, d>>) = <<b, c, d>> /\ <<a, b, c, d>> # <<>>
  <1>1. Tail(<<a, b, c, d>>) = <<b, c, d>>
    OBVIOUS
  <1>2. QED
    BY <1>1

\* The rereading that takes the place of a failed initialization.
LEMMA Replaced ==
    ASSUME NEW x, NEW a, NEW b, NEW c
    PROVE  /\ [<<x>> EXCEPT ![1] = a] = <<a>>
           /\ [<<x, b>> EXCEPT ![1] = a] = <<a, b>>
           /\ [<<x, b, c>> EXCEPT ![1] = a] = <<a, b, c>>
  <1>1. [<<x>> EXCEPT ![1] = a] = <<a>>
    OBVIOUS
  <1>2. [<<x, b>> EXCEPT ![1] = a] = <<a, b>>
    OBVIOUS
  <1>3. [<<x, b, c>> EXCEPT ![1] = a] = <<a, b, c>>
    OBVIOUS
  <1>4. QED
    BY <1>1, <1>2, <1>3

\* The steps saved by an account that exists.
LEMMA Saved ==
    /\ Without(<<"register", "verify">>, "register") = <<"verify">>
    /\ Without(<<"readMultisig", "register", "create">>, "register") = <<"readMultisig", "create">>
    /\ Without(<<"register", "readMultisig", "create">>, "register") = <<"readMultisig", "create">>
    /\ Without(<<"register", "create">>, "create") = <<"register">>
    /\ Without(<<"create">>, "create") = <<>>
  <1>1. Without(<<"register", "verify">>, "register") = <<"verify">>
    BY DEF Without
  <1>2. Without(<<"readMultisig", "register", "create">>, "register") = <<"readMultisig", "create">>
    BY DEF Without
  <1>3. Without(<<"register", "readMultisig", "create">>, "register") = <<"readMultisig", "create">>
    BY DEF Without
  <1>4. Without(<<"register", "create">>, "create") = <<"register">>
    BY DEF Without
  <1>5. Without(<<"create">>, "create") = <<>>
    BY DEF Without
  <1>6. QED
    BY <1>1, <1>2, <1>3, <1>4, <1>5

-----------------------------------------------------------------------------
(* What a handler's step does, by the step. *)

Moves(r, steps, answer) == todo'[r] = steps /\ reply'[r] = answer

\* The handler fails, and is a flaky one or has to.
FailsJustly(r) == Moves(r, <<>>, "failed") /\ (r \in Flaky \/ Unacceptable(r, body[r]))

\* Continuing is moving.
LEMMA ContinueMoves ==
    ASSUME HandlersSound, NEW r \in Request, NEW steps, NEW answer, Continue(r, steps, answer)
    PROVE  Moves(r, steps, answer) /\ \A q \in Request \ {r} : Moves(q, todo[q], reply[q])
  BY DEF HandlersSound, Continue, Moves

\* Who steps has been asked something and has not failed.
LEMMA Acts ==
    ASSUME RequestsWellFormed, Inv, NEW r \in Request, Step(r)
    PROVE  /\ todo[r] # <<>> /\ reply[r] # "failed"
           /\ body[r] \in Bodies /\ WellFormed(body[r]) /\ body[r] # NoBody
           /\ OnCourse(r, todo[r])
           /\ body' = body /\ wasFinal' = wasFinal /\ early' = early
  <1>1. todo[r] # <<>>
    BY DEF Step, ReadContract, ReadMultisig, Reread, ReadFails, Land, Lose, ReadStatus, At
  <1>2. body' = body /\ wasFinal' = wasFinal /\ early' = early
    BY DEF Step, ReadContract, ReadMultisig, Reread, ReadFails, Land, Lose, ReadStatus, handlers
  <1>3. body[r] \in Bodies
    BY <1>1 DEF Inv, RInv, HandlersSound
  <1>4. WellFormed(body[r])
    BY <1>3 DEF RequestsWellFormed
  <1>5. body[r] # NoBody
    <2>1. body[r].route \in Route
      BY <1>4 DEF WellFormed
    <2>2. NoBody.route = "none"
      BY DEF NoBody
    <2>3. QED
      BY <2>1, <2>2 DEF Route
  <1>6. reply[r] # "failed" /\ OnCourse(r, todo[r])
    BY <1>1, <1>5 DEF Inv, HandlersOnCourse, HandlerOnCourse
  <1>7. QED
    BY <1>1, <1>2, <1>3, <1>4, <1>5, <1>6

\* A ledger that does not change only grows.
LEMMA GrowsNot == \A l : Grows(l, l)
  BY DEF Grows

\* A landed transaction that is the same as this one has done this one's work.
LEMMA SameTxDone ==
    ASSUME NEW t, t.kind \in Kind, WellFormed(t.body), NEW kind, NEW b, WellFormed(b),
           SameTx(t, kind, b), NEW l, Done(l, t.kind, t.body)
    PROVE  Done(l, kind, b)
  <1>0. t.kind = kind
    BY DEF SameTx
  <1>1. CASE kind = "initialize"
    BY <1>0, <1>1, DoneCases
  <1>2. CASE kind = "register"
    <2>1. t.body.hash = b.hash
      BY <1>2, Zenon DEF SameTx
    <2>2. QED
      BY <1>0, <1>2, <2>1, DoneCases
  <1>3. CASE kind \in {"create", "finalize"}
    <2>1. AgreementAt(t.body) = AgreementAt(b)
      BY <1>3, SMT DEF SameTx
    <2>2. QED
      BY <1>0, <1>3, <2>1, DoneCases
  <1>4. CASE kind \in {"verify", "submit"}
    <2>1. [t.body EXCEPT !.route = b.route] = b
      BY <1>4, SMT DEF SameTx
    <2>2. /\ t.body.hash = b.hash /\ t.body.key = b.key /\ t.body.sig = b.sig
          /\ t.body.threshold = b.threshold /\ t.body.maxSigners = b.maxSigners
      <3> DEFINE c == t.body
      <3>1. c = [route |-> c.route, hash |-> c.hash, key |-> c.key, sig |-> c.sig, proof |-> c.proof,
                 threshold |-> c.threshold, maxSigners |-> c.maxSigners]
        BY DEF WellFormed
      <3>2. [c EXCEPT !.route = b.route] = b
        BY <2>1
      <3> HIDE DEF c
      <3>3. /\ c.hash = b.hash /\ c.key = b.key /\ c.sig = b.sig
            /\ c.threshold = b.threshold /\ c.maxSigners = b.maxSigners
        BY <3>1, <3>2
      <3>4. QED
        BY <3>3 DEF c
    <2>3. ReceiptAt(t.body) = ReceiptAt(b) /\ AgreementAt(t.body) = AgreementAt(b)
      BY <2>2 DEF ReceiptAt, AgreementAt
    <2>4. QED
      BY <1>0, <1>4, <2>2, <2>3, DoneCases
  <1>5. QED
    BY <1>0, <1>1, <1>2, <1>3, <1>4 DEF Kind

\* A transaction that is awaited is confirmed, and has done its work, or it is refused
\* or lost.
LEMMA Sends ==
    ASSUME RequestsWellFormed, Inv, NEW r \in Request, Step(r),
           NEW kind \in Kind, Head(todo[r]) = kind
    PROVE  /\ Grows(ledger, ledger')
           /\ \/ OnSuccess(r) /\ Done(ledger', kind, body[r])
              \/ OnFailure(r) /\ (r \in Flaky \/ ~TxAccepts(ledger, kind, body[r]))
  <1>0. body[r] \in Bodies /\ WellFormed(body[r])
    BY Acts
  <1>1. Land(r) \/ Lose(r)
    BY DEF Step, ReadContract, ReadMultisig, Reread, ReadFails, ReadStatus, At, Kind
  <1>2. CASE Lose(r)
    BY <1>2, GrowsNot DEF Lose
  <1>3. CASE Land(r)
    <2>1. CASE TxAccepts(ledger, kind, body[r]) /\ ledger' = TxWrites(ledger, kind, body[r]) /\ OnSuccess(r)
      <3>1. Effect(ledger, ledger', kind, body[r])
        BY <2>1, TxEffect DEF Inv, RInv
      <3>2. QED
        BY <2>1, <3>1 DEF Effect
    <2>2. CASE ~TxAccepts(ledger, kind, body[r]) /\ OnFailure(r) /\ ledger' = ledger
      BY <2>2, GrowsNot
    <2>3. ASSUME NEW t \in landed, SameTx(t, kind, body[r]), OnSuccess(r), ledger' = ledger
          PROVE  Grows(ledger, ledger') /\ Done(ledger', kind, body[r])
      <3>1. t.kind \in Kind /\ t.body \in Bodies /\ Done(ledger, t.kind, t.body)
        BY DEF Inv, LandedIsDone
      <3>2. WellFormed(t.body)
        BY <3>1 DEF RequestsWellFormed
      <3>3. Done(ledger, kind, body[r])
        BY <1>0, <2>3, <3>1, <3>2, SameTxDone
      <3>4. QED
        BY <2>3, <3>3, GrowsNot
    <2>4. QED
      BY <1>3, <2>1, <2>2, <2>3 DEF Land
  <1>4. QED
    BY <1>1, <1>2, <1>3

\* A request whose reads succeed has its registration refused only if the contract
\* is there, the hash is zero or it came too early.
LEMMA RefusedRegistration ==
    ASSUME RequestsWellFormed, Inv, NEW r \in Request, body[r] # NoBody,
           ~TxAccepts(ledger, "register", body[r])
    PROVE  Registered(r)
  <1>1. ~RegisterContractAccepts(ledger, body[r].hash)
    BY Zenon DEF TxAccepts
  <1>2. ~ledger.initialized => r \in early
    BY DEF Inv, HistorySound
  <1>3. QED
    BY <1>1, <1>2 DEF RegisterContractAccepts, Registered, ContractExists

\* The creation of an agreement with proper settings whose contract exists is refused
\* only if the agreement is there.
LEMMA RefusedCreation ==
    ASSUME Inv, NEW b, WellFormed(b), Creates(b), ~InvalidSettings(b), ContractExists(b),
           ~TxAccepts(ledger, "create", b)
    PROVE  AgreementExists(b)
  <1>1. ~CreateMultisigAccepts(ledger, AgreementAt(b))
    BY Zenon DEF TxAccepts
  <1>2. ledger.contract[b.hash].active
    BY DEF Inv, RInv, LedgerInv, AccountsLinked, ContractExists
  <1>3. b.threshold \in Nat /\ b.maxSigners \in Nat /\ b.threshold \in 1..b.maxSigners
    BY LedgerAssumption DEF WellFormed, U8, InvalidSettings
  <1>4. AgreementAt(b).hash = b.hash /\ AgreementAt(b).threshold = b.threshold
        /\ AgreementAt(b).maxSigners = b.maxSigners
    BY DEF AgreementAt
  <1>5. QED
    BY <1>1, <1>2, <1>3, <1>4 DEF CreateMultisigAccepts, ContractExists, AgreementExists

\* A proof for the zero hash does not exist.
LEMMA NoProofOfZero ==
    ASSUME NEW b, WellFormed(b), b.hash = ZeroDigest
    PROVE  ~ProofAccepted(b.hash, b.proof, b.proof, b.key, b.sig)
  <1>1. b.proof.sig \in SigCommitment /\ b.proof.sig.digest = <<b.proof.low, b.proof.high>>
    BY DEF WellFormed, Statement, CircuitSatisfied
  <1>2. <<b.proof.low, b.proof.high>> # <<ZeroHalf, ZeroHalf>>
    BY <1>1 DEF SigCommitment, Hash, ZeroDigest
  <1>3. b.hash[1] = ZeroHalf /\ b.hash[2] = ZeroHalf
    BY DEF ZeroDigest
  <1>4. QED
    BY <1>2, <1>3 DEF ProofAccepted, LimbsMatch

\* A signature for an existing contract is refused only for its proof or for an earlier
\* signature of the key.
LEMMA RefusedVerification ==
    ASSUME Inv, NEW b, ContractExists(b),
           ~VerifyGroth16V2Accepts(ledger, b.hash, b.proof, b.proof, b.key, b.sig)
    PROVE  \/ ~ProofAccepted(b.hash, b.proof, b.proof, b.key, b.sig)
           \/ [contract |-> b.hash, key |-> b.key] \in ledger.signerRecord
  <1> DEFINE x == [contract |-> b.hash, key |-> b.key, sig |-> b.sig]
  <1>1. ledger.initialized
    BY DEF Inv, RInv, LedgerInv, AccountsLinked, ContractExists
  <1>2. x \in ledger.signature => [contract |-> b.hash, key |-> b.key] \in ledger.signerRecord
    <2>1. x.contract = b.hash /\ x.key = b.key
      OBVIOUS
    <2> HIDE DEF x
    <2>2. QED
      BY <2>1 DEF Inv, RInv, LedgerInv, AccountsLinked
  <1>3. QED
    BY <1>1, <1>2 DEF VerifyGroth16V2Accepts, ContractExists

\* A co-signature is refused only for these reasons or for its agreement, that does not
\* exist or is final.
LEMMA RefusedSubmission ==
    ASSUME Inv, NEW b, AgreementExists(b), ~AgreementFinal(b),
           ~TxAccepts(ledger, "submit", b)
    PROVE  \/ ~ProofAccepted(b.hash, b.proof, b.proof, b.key, b.sig)
           \/ [contract |-> b.hash, key |-> b.key] \in ledger.signerRecord
  <1> DEFINE a == AgreementAt(b)
             ms == ledger.multisig[a]
             v == VerifyGroth16V2Writes(ledger, b.hash, b.key, b.sig)
             x == [contract |-> b.hash, key |-> b.key, sig |-> b.sig]
             m == [multisig |-> a, key |-> b.key]
  <1>0. LedgerInv(ledger, Proofs) /\ LedgerTypeOK(ledger) /\ IsLedger(ledger)
    BY DEF Inv, RInv, LedgerInv, LedgerTypeOK
  <1>1. a \in DOMAIN ledger.multisig /\ a.hash = b.hash /\ a.threshold = b.threshold
        /\ a.maxSigners = b.maxSigners
        /\ a = [hash |-> b.hash, threshold |-> a.threshold, maxSigners |-> a.maxSigners]
    BY DEF AgreementExists, AgreementAt
  <1>2. ~VerifyAndRecordAccepts(ledger, b.hash, b.proof, b.proof, b.key, b.sig, a)
    BY <1>1, Zenon DEF TxAccepts
  <1>3. ContractExists(b)
    BY <1>1 DEF Inv, AgreementsRegistered, ContractExists
  <1>4. SUFFICES ASSUME VerifyGroth16V2Accepts(ledger, b.hash, b.proof, b.proof, b.key, b.sig),
                        [contract |-> b.hash, key |-> b.key] \notin ledger.signerRecord
                 PROVE  FALSE
    BY <1>3, RefusedVerification
  <1>5. AgreementSound(a, ms) /\ ~ms.finalized /\ ms \in MultiSigContract
    BY <1>0, <1>1 DEF LedgerInv, LedgerTypeOK, AgreementFinal, AgreementExists
  <1>6. m \notin ledger.member
    <2>1. m.multisig = a /\ m.key = b.key
      OBVIOUS
    <2> HIDE DEF m
    <2>2. QED
      BY <1>0, <1>1, <1>4, <2>1 DEF LedgerInv, EveryMemberVerified
  <1>7. ms.collected < ms.maxSigners
    <2>1. ms.collected \in Nat /\ ms.threshold \in Nat /\ ms.maxSigners \in Nat
      BY <1>5, LedgerAssumption DEF MultiSigContract, U8
    <2>2. QED
      BY <1>5, <2>1 DEF AgreementSound
  <1>8. /\ v.signature = ledger.signature \cup {x}
        /\ v.signerRecord = ledger.signerRecord \cup {[contract |-> b.hash, key |-> b.key]}
        /\ v.contract = [ledger.contract EXCEPT ![b.hash] = Signed(@)]
        /\ v.initialized = ledger.initialized
        /\ v.multisig = ledger.multisig /\ v.member = ledger.member
    BY <1>0 DEF IsLedger, VerifyGroth16V2Writes
  <1>9. v.initialized /\ b.hash \in DOMAIN v.contract
    BY <1>3, <1>4, <1>8 DEF VerifyGroth16V2Accepts
  <1>10. v.contract[b.hash].active
    <2>1. ledger.contract[b.hash] \in Contract /\ ledger.contract[b.hash].active
      BY <1>0, <1>3 DEF LedgerInv, LedgerTypeOK, AccountsLinked, ContractExists
    <2>2. v.contract[b.hash] = Signed(ledger.contract[b.hash])
      BY <1>3, <1>8 DEF ContractExists
    <2>3. Signed(ledger.contract[b.hash]).active
      BY <2>1 DEF Signed, Contract
    <2>4. QED
      BY <2>2, <2>3
  <1>11. SignerVerified(v, b.hash, b.key, x)
    BY <1>8 DEF SignerVerified
  <1>12. AgreementOf(v, a, b.hash)
    BY <1>1, <1>5, <1>8 DEF AgreementOf, AgreementSound
  <1>13. RecordVerifiedMultisigAccepts(v, b.hash, b.key, a, x)
    BY <1>1, <1>5, <1>6, <1>7, <1>8, <1>9, <1>10, <1>11, <1>12 DEF RecordVerifiedMultisigAccepts
  <1>14. QED
    BY <1>2, <1>4, <1>13 DEF VerifyAndRecordAccepts

\* Reading the contract saves its registration or not.
LEMMA ReadsContract ==
    ASSUME RequestsWellFormed, Inv, NEW r \in Request, Step(r), Head(todo[r]) = "readContract"
    PROVE  /\ ledger' = ledger
           /\ \/ ContractExists(body[r]) /\ Moves(r, Without(Tail(todo[r]), "register"), reply[r])
              \/ ~ContractExists(body[r]) /\ Moves(r, Tail(todo[r]), reply[r])
              \/ FailsJustly(r)
  <1>0. HandlersSound
    BY DEF Inv, RInv
  <1>1. ReadContract(r) \/ ReadFails(r)
    BY DEF Step, ReadMultisig, Reread, Land, Lose, ReadStatus, At, Kind
  <1>2. CASE ReadContract(r)
    BY <1>0, <1>2, ContinueMoves DEF ReadContract, Rest
  <1>3. CASE ReadFails(r)
    BY <1>0, <1>3, ContinueMoves DEF ReadFails, Fail, FailsJustly
  <1>4. QED
    BY <1>1, <1>2, <1>3

\* Reading the account again after a failure finds it or fails.
LEMMA Rereads ==
    ASSUME RequestsWellFormed, Inv, NEW r \in Request, Step(r),
           Head(todo[r]) \in {"rereadContract", "rereadMultisig"}
    PROVE  /\ ledger' = ledger
           /\ \/ Head(todo[r]) = "rereadContract" /\ ContractExists(body[r]) /\ Moves(r, Tail(todo[r]), reply[r])
              \/ Head(todo[r]) = "rereadMultisig" /\ AgreementExists(body[r]) /\ Moves(r, Tail(todo[r]), "exists")
              \/ Head(todo[r]) = "rereadContract" /\ ~ContractExists(body[r]) /\ Moves(r, <<>>, "failed")
              \/ Head(todo[r]) = "rereadMultisig" /\ ~AgreementExists(body[r]) /\ Moves(r, <<>>, "failed")
              \/ FailsJustly(r)
  <1>0. HandlersSound
    BY DEF Inv, RInv
  <1>1. Reread(r) \/ ReadFails(r)
    BY DEF Step, ReadContract, ReadMultisig, Land, Lose, ReadStatus, At, Kind
  <1>2. CASE Reread(r)
    BY <1>0, <1>2, ContinueMoves DEF Reread, Rest, Fail, At
  <1>3. CASE ReadFails(r)
    BY <1>0, <1>3, ContinueMoves DEF ReadFails, Fail, FailsJustly
  <1>4. QED
    BY <1>1, <1>2, <1>3

\* Reading the agreement, for each kind of request that does.
LEMMA ReadsMultisig ==
    ASSUME RequestsWellFormed, Inv, NEW r \in Request, Step(r), Head(todo[r]) = "readMultisig"
    PROVE  /\ ledger' = ledger
           /\ \/ Creates(body[r]) /\ AgreementExists(body[r])
                 /\ Moves(r, Without(Tail(todo[r]), "create"), "exists")
              \/ Creates(body[r]) /\ Moves(r, Tail(todo[r]), reply[r])
              \/ AsksStatus(body[r]) /\ ~AgreementExists(body[r]) /\ Moves(r, <<>>, "absent")
              \/ AsksStatus(body[r]) /\ AgreementFinal(body[r]) /\ Moves(r, <<>>, "finalized")
              \/ AsksStatus(body[r]) /\ AgreementExists(body[r]) /\ Moves(r, <<>>, "ok")
              \/ Finalizes(body[r]) /\ ~AgreementFinal(body[r]) /\ Moves(r, <<>>, "failed")
              \/ Finalizes(body[r]) /\ AgreementFinal(body[r]) /\ Moves(r, <<>>, "finalized")
              \/ Finalizes(body[r]) /\ ~AgreementFinal(body[r]) /\ Moves(r, Tail(todo[r]), reply[r])
              \/ FailsJustly(r)
  <1>0. HandlersSound
    BY DEF Inv, RInv
  <1>1. ReadMultisig(r) \/ ReadFails(r)
    BY DEF Step, ReadContract, Reread, Land, Lose, ReadStatus, At, Kind
  <1>2. CASE ReadMultisig(r)
    <2>1. ledger' = ledger
      BY <1>2 DEF ReadMultisig
    <2>2. CASE Creates(body[r])
      BY <1>0, <1>2, <2>1, <2>2, ContinueMoves DEF ReadMultisig, Rest, Creates, AsksStatus, Finalizes
    <2>3. CASE AsksStatus(body[r])
      BY <1>0, <1>2, <2>1, <2>3, ContinueMoves DEF ReadMultisig, Rest, Creates, AsksStatus, Finalizes
    <2>4. CASE Finalizes(body[r])
      <3>1. ~AgreementExists(body[r]) => ~AgreementFinal(body[r])
        BY DEF AgreementFinal
      <3>2. QED
        BY <1>0, <1>2, <2>1, <2>4, <3>1, ContinueMoves
           DEF ReadMultisig, Rest, Fail, Creates, AsksStatus, Finalizes
    <2>5. QED
      BY <1>2, <2>2, <2>3, <2>4 DEF ReadMultisig
  <1>3. CASE ReadFails(r)
    BY <1>0, <1>3, ContinueMoves DEF ReadFails, Fail, FailsJustly
  <1>4. QED
    BY <1>1, <1>2, <1>3

\* Sending a transaction, by its outcome.
LEMMA SendsAndMoves ==
    ASSUME RequestsWellFormed, Inv, NEW r \in Request, Step(r),
           NEW kind \in Kind, Head(todo[r]) = kind
    PROVE  \/ /\ Done(ledger', kind, body[r])
              /\ Moves(r, Tail(todo[r]), IF kind = "finalize" THEN "finalized" ELSE reply[r])
           \/ /\ r \in Flaky \/ ~TxAccepts(ledger, kind, body[r])
              /\ \/ kind = "register" /\ Moves(r, [todo[r] EXCEPT ![1] = "rereadContract"], reply[r])
                 \/ kind = "create" /\ Moves(r, [todo[r] EXCEPT ![1] = "rereadMultisig"], reply[r])
                 \/ kind \notin {"register", "create"} /\ Moves(r, <<>>, "failed")
  <1>0. HandlersSound /\ todo[r] # <<>>
    BY Acts DEF Inv, RInv
  <1>1. CASE OnSuccess(r) /\ Done(ledger', kind, body[r])
    <2>1. Moves(r, Tail(todo[r]), IF kind = "finalize" THEN "finalized" ELSE reply[r])
      BY <1>0, <1>1, ContinueMoves DEF OnSuccess, Rest, At
    <2>2. QED
      BY <1>1, <2>1
  <1>2. CASE OnFailure(r) /\ (r \in Flaky \/ ~TxAccepts(ledger, kind, body[r]))
    <2>1. At(r, {"register"}) <=> kind = "register"
      BY <1>0 DEF At
    <2>2. At(r, {"create"}) <=> kind = "create"
      BY <1>0 DEF At
    <2>3. CASE kind = "register"
      <3>1. Continue(r, [todo[r] EXCEPT ![1] = "rereadContract"], reply[r])
        BY <1>2, <2>1, <2>2, <2>3 DEF OnFailure, Instead
      <3>2. QED
        BY <1>0, <1>2, <2>3, <3>1, ContinueMoves
    <2>4. CASE kind = "create"
      <3>1. Continue(r, [todo[r] EXCEPT ![1] = "rereadMultisig"], reply[r])
        BY <1>2, <2>1, <2>2, <2>4 DEF OnFailure, Instead
      <3>2. QED
        BY <1>0, <1>2, <2>4, <3>1, ContinueMoves
    <2>5. CASE kind \notin {"register", "create"}
      <3>1. Continue(r, <<>>, "failed")
        BY <1>2, <2>1, <2>2, <2>5 DEF OnFailure, Fail
      <3>2. QED
        BY <1>0, <1>2, <2>5, <3>1, ContinueMoves
    <2>6. QED
      BY <2>3, <2>4, <2>5
  <1>3. QED
    BY <1>1, <1>2, Sends

\* Reading the state after a co-signature does not fail.
LEMMA ReadsStatus ==
    ASSUME RequestsWellFormed, Inv, NEW r \in Request, Step(r), Head(todo[r]) = "readStatus"
    PROVE  /\ ledger' = ledger
           /\ \/ AgreementFinal(body[r]) /\ Moves(r, Tail(todo[r]), "finalized")
              \/ Moves(r, Tail(todo[r]), "ok")
              \/ Moves(r, Tail(todo[r]), "statusUnavailable")
  <1>0. HandlersSound
    BY DEF Inv, RInv
  <1>1. ReadStatus(r)
    BY DEF Step, ReadContract, ReadMultisig, ReadFails, Reread, Land, Lose, At, Kind
  <1>2. QED
    BY <1>0, <1>1, ContinueMoves DEF ReadStatus, Rest

\* What was known of a request's accounts stays known.
LEMMA Remembers ==
    ASSUME NEW r, body'[r] = body[r], r \in early => r \in early', Grows(ledger, ledger')
    PROVE  /\ Registered(r) => Registered(r)'
           /\ ContractExists(body[r]) => ContractExists(body[r])'
           /\ AgreementExists(body[r]) => AgreementExists(body[r])'
           /\ AgreementFinal(body[r]) => AgreementFinal(body[r])'
           /\ \A kind \in Kind : Done(ledger, kind, body[r]) => Done(ledger', kind, body'[r])
  <1>1. ContractExists(body[r]) => ContractExists(body[r])'
    BY DEF ContractExists, Grows
  <1>2. AgreementExists(body[r]) => AgreementExists(body[r])'
    BY DEF AgreementExists, Grows
  <1>3. AgreementFinal(body[r]) => AgreementFinal(body[r])'
    BY DEF AgreementFinal, AgreementExists, FinalAgreements, Grows
  <1>4. Registered(r) => Registered(r)'
    BY <1>1 DEF Registered
  <1>5. \A kind \in Kind : Done(ledger, kind, body[r]) => Done(ledger', kind, body'[r])
    BY DoneStays
  <1>6. QED
    BY <1>1, <1>2, <1>3, <1>4, <1>5

-----------------------------------------------------------------------------
(* The steps of each kind of request. *)

GoesOn(r) == reply'[r] # "failed" /\ OnCourse(r, todo[r])'

\* Whatever a handler does next, what it knows stays true.
LEMMA StepRemembers ==
    ASSUME RequestsWellFormed, Inv, NEW r \in Request, Step(r)
    PROVE  Grows(ledger, ledger')
  <1>1. CASE Head(todo[r]) \in Kind
    BY <1>1, Sends
  <1>2. CASE Head(todo[r]) \notin Kind
    <2>1. ledger' = ledger
      BY <1>2 DEF Step, ReadContract, ReadMultisig, Reread, ReadFails, Land, Lose, ReadStatus, At
    <2>2. QED
      BY <2>1, GrowsNot
  <1>3. QED
    BY <1>1, <1>2

\* A handler that signs alone goes on as it should, or fails justly.
LEMMA AloneStep ==
    ASSUME RequestsWellFormed, Inv, NEW r \in Request, Step(r), SignsAlone(body[r])
    PROVE  GoesOn(r) \/ FailsJustly(r)
  <1> DEFINE s == todo[r]
             b == body[r]
  <1>0. /\ WellFormed(b) /\ b # NoBody /\ body' = body /\ early' = early
        /\ s # <<>> /\ reply[r] # "failed"
        /\ ~InvalidSettings(b) /\ SigningAlone(r, s)
        /\ reply[r] = "finalized" => AgreementFinal(b)
    BY Acts DEF OnCourse
  <1>1. /\ Registered(r) => Registered(r)'
        /\ ContractExists(b) => ContractExists(b)'
        /\ AgreementFinal(b) => AgreementFinal(b)'
    BY <1>0, StepRemembers, Remembers
  <1>2. ASSUME SigningAlone(r, todo[r])', reply'[r] = reply[r]
        PROVE  GoesOn(r)
    <2>1. ~InvalidSettings(b)'
      BY <1>0 DEF InvalidSettings, Creates, CoSigns, AsksStatus, Finalizes
    <2>2. reply'[r] = "finalized" => AgreementFinal(b)'
      BY <1>0, <1>1, <1>2
    <2>3. QED
      BY <1>0, <1>2, <2>1, <2>2
         DEF GoesOn, OnCourse, SignsAlone, Creates, CoSigns, AsksStatus, Finalizes
  <1>3. CASE s = <<"readContract", "register", "verify">>
    <2>1. Head(s) = "readContract" /\ Tail(s) = <<"register", "verify">>
      BY <1>3, ThreeSteps
    <2>2. \/ ContractExists(b) /\ Moves(r, <<"verify">>, reply[r])
          \/ Moves(r, <<"register", "verify">>, reply[r])
          \/ FailsJustly(r)
      BY <2>1, ReadsContract, Saved
    <2>3. QED
      BY <1>1, <1>2, <2>2 DEF Moves, SigningAlone
  <1>4. CASE s = <<"register", "verify">>
    <2>1. Head(s) = "register" /\ Tail(s) = <<"verify">> /\ "register" \in Kind
      BY <1>4, TwoSteps DEF Kind
    <2>2. [s EXCEPT ![1] = "rereadContract"] = <<"rereadContract", "verify">>
      BY <1>4, Replaced
    <2>3. CASE Done(ledger', "register", b) /\ Moves(r, Tail(s), reply[r])
      BY <1>0, <1>2, <2>1, <2>3, DoneCases DEF Moves, SigningAlone, ContractExists
    <2>4. CASE /\ r \in Flaky \/ ~TxAccepts(ledger, "register", b)
               /\ Moves(r, [s EXCEPT ![1] = "rereadContract"], reply[r])
      <3>1. Registered(r)
        BY <1>0, <2>4, RefusedRegistration DEF Registered
      <3>2. QED
        BY <1>1, <1>2, <2>2, <2>4, <3>1 DEF Moves, SigningAlone
    <2>5. QED
      BY <2>1, <2>3, <2>4, SendsAndMoves
  <1>5. CASE s = <<"rereadContract", "verify">>
    <2>1. Head(s) = "rereadContract" /\ Tail(s) = <<"verify">> /\ Registered(r)
      BY <1>0, <1>5, TwoSteps DEF SigningAlone
    <2>2. CASE ContractExists(b) /\ Moves(r, Tail(s), reply[r])
      BY <1>1, <1>2, <2>1, <2>2 DEF Moves, SigningAlone
    <2>3. CASE ~ContractExists(b) /\ Moves(r, <<>>, "failed")
      BY <1>0, <2>1, <2>3, NoProofOfZero DEF Registered, FailsJustly, Unacceptable
    <2>4. QED
      BY <2>1, <2>2, <2>3, Rereads
  <1>6. CASE s = <<"verify">>
    <2>1. Head(s) = "verify" /\ Tail(s) = <<>> /\ "verify" \in Kind /\ ContractExists(b)
      BY <1>0, <1>6, OneStep DEF Kind, SigningAlone
    <2>2. CASE Done(ledger', "verify", b) /\ Moves(r, Tail(s), reply[r])
      BY <1>0, <1>2, <2>1, <2>2 DEF Moves, SigningAlone
    <2>3. CASE r \in Flaky /\ Moves(r, <<>>, "failed")
      BY <2>3 DEF FailsJustly
    <2>4. CASE ~TxAccepts(ledger, "verify", b) /\ Moves(r, <<>>, "failed")
      <3>1. ~VerifyGroth16V2Accepts(ledger, b.hash, b.proof, b.proof, b.key, b.sig)
        BY <2>4, Zenon DEF TxAccepts
      <3>2. QED
        BY <2>1, <2>4, <3>1, RefusedVerification DEF FailsJustly, Unacceptable
    <2>5. QED
      BY <2>1, <2>2, <2>3, <2>4, SendsAndMoves
  <1>7. QED
    BY <1>0, <1>3, <1>4, <1>5, <1>6 DEF SigningAlone

\* A handler that creates an agreement goes on as it should, or fails justly.
LEMMA CreatingStep ==
    ASSUME RequestsWellFormed, Inv, NEW r \in Request, Step(r), Creates(body[r])
    PROVE  GoesOn(r) \/ FailsJustly(r)
  <1> DEFINE s == todo[r]
             b == body[r]
  <1>0. /\ WellFormed(b) /\ b # NoBody /\ body' = body /\ early' = early
        /\ s # <<>> /\ reply[r] # "failed"
        /\ ~InvalidSettings(b) /\ Creating(r, s)
        /\ reply[r] = "finalized" => AgreementFinal(b)
    BY Acts DEF OnCourse
  <1>1. /\ Registered(r) => Registered(r)'
        /\ ContractExists(b) => ContractExists(b)'
        /\ AgreementExists(b) => AgreementExists(b)'
        /\ AgreementFinal(b) => AgreementFinal(b)'
    BY <1>0, StepRemembers, Remembers
  <1>2. ASSUME Creating(r, todo[r])', reply'[r] \in {reply[r], "exists"}
        PROVE  GoesOn(r)
    <2>1. ~InvalidSettings(b)'
      BY <1>0 DEF InvalidSettings, Creates, CoSigns, AsksStatus, Finalizes
    <2>2. reply'[r] = "finalized" => AgreementFinal(b)'
      BY <1>0, <1>1, <1>2
    <2>3. QED
      BY <1>0, <1>2, <2>1, <2>2
         DEF GoesOn, OnCourse, SignsAlone, Creates, CoSigns, AsksStatus, Finalizes
  <1>3. ~AsksStatus(b) /\ ~Finalizes(b)
    BY DEF Creates, AsksStatus, Finalizes
  <1>4. CASE s \in {<<"readContract", "readMultisig", "register", "create">>,
                    <<"readContract", "register", "readMultisig", "create">>}
    <2>1. /\ Head(s) = "readContract"
          /\ \/ Tail(s) = <<"readMultisig", "register", "create">>
             \/ Tail(s) = <<"register", "readMultisig", "create">>
      <3>1. CASE s = <<"readContract", "readMultisig", "register", "create">>
        BY <3>1, FourSteps
      <3>2. CASE s = <<"readContract", "register", "readMultisig", "create">>
        BY <3>2, FourSteps
      <3>3. QED
        BY <1>4, <3>1, <3>2
    <2>2. \/ ContractExists(b) /\ Moves(r, <<"readMultisig", "create">>, reply[r])
          \/ Moves(r, <<"readMultisig", "register", "create">>, reply[r])
          \/ Moves(r, <<"register", "readMultisig", "create">>, reply[r])
          \/ FailsJustly(r)
      BY <2>1, ReadsContract, Saved
    <2>3. QED
      BY <1>1, <1>2, <2>2 DEF Moves, Creating
  <1>5. CASE s = <<"readMultisig", "register", "create">>
    <2>1. Head(s) = "readMultisig" /\ Tail(s) = <<"register", "create">>
      BY <1>5, ThreeSteps
    <2>2. \/ AgreementExists(b) /\ Moves(r, <<"register">>, "exists")
          \/ Moves(r, <<"register", "create">>, reply[r])
          \/ FailsJustly(r)
      BY <1>3, <2>1, ReadsMultisig, Saved
    <2>3. QED
      BY <1>1, <1>2, <2>2 DEF Moves, Creating
  <1>6. CASE s = <<"readMultisig", "create">>
    <2>1. Head(s) = "readMultisig" /\ Tail(s) = <<"create">> /\ ContractExists(b)
      BY <1>0, <1>6, TwoSteps DEF Creating
    <2>2. \/ AgreementExists(b) /\ Moves(r, <<>>, "exists")
          \/ Moves(r, <<"create">>, reply[r])
          \/ FailsJustly(r)
      BY <1>3, <2>1, ReadsMultisig, Saved
    <2>3. QED
      BY <1>1, <1>2, <2>1, <2>2 DEF Moves, Creating
  <1>7. CASE s \in {<<"register", "readMultisig", "create">>, <<"register", "create">>, <<"register">>}
    <2>1. /\ Head(s) = "register" /\ "register" \in Kind
          /\ \/ s = <<"register", "readMultisig", "create">> /\ Tail(s) = <<"readMultisig", "create">>
             \/ s = <<"register", "create">> /\ Tail(s) = <<"create">>
             \/ s = <<"register">> /\ Tail(s) = <<>> /\ AgreementExists(b)
      <3>1. CASE s = <<"register", "readMultisig", "create">>
        BY <3>1, ThreeSteps DEF Kind
      <3>2. CASE s = <<"register", "create">>
        BY <3>2, TwoSteps DEF Kind
      <3>3. CASE s = <<"register">>
        BY <1>0, <3>3, OneStep DEF Kind, Creating
      <3>4. QED
        BY <1>7, <3>1, <3>2, <3>3
    <2>2. CASE Done(ledger', "register", b) /\ Moves(r, Tail(s), reply[r])
      <3>1. ContractExists(b)'
        BY <1>0, <2>2, DoneCases DEF ContractExists
      <3>2. QED
        BY <1>1, <1>2, <2>1, <2>2, <3>1 DEF Moves, Creating
    <2>3. CASE /\ r \in Flaky \/ ~TxAccepts(ledger, "register", b)
               /\ Moves(r, [s EXCEPT ![1] = "rereadContract"], reply[r])
      <3>1. Registered(r)'
        BY <1>0, <1>1, <2>3, RefusedRegistration DEF Registered
      <3>2. \/ todo'[r] = <<"rereadContract", "readMultisig", "create">>
            \/ todo'[r] = <<"rereadContract", "create">>
            \/ todo'[r] = <<"rereadContract">> /\ AgreementExists(b)
        BY <2>1, <2>3, Replaced DEF Moves
      <3>3. QED
        BY <1>1, <1>2, <2>3, <3>1, <3>2 DEF Moves, Creating
    <2>4. QED
      BY <2>1, <2>2, <2>3, SendsAndMoves
  <1>8. CASE s \in {<<"rereadContract", "readMultisig", "create">>, <<"rereadContract", "create">>,
                    <<"rereadContract">>}
    <2>1. /\ Head(s) = "rereadContract"
          /\ \/ Tail(s) = <<"readMultisig", "create">> /\ Registered(r)
             \/ Tail(s) = <<"create">> /\ Registered(r)
             \/ Tail(s) = <<>> /\ AgreementExists(b)
      <3>1. CASE s = <<"rereadContract", "readMultisig", "create">>
        BY <1>0, <3>1, ThreeSteps DEF Creating
      <3>2. CASE s = <<"rereadContract", "create">>
        BY <1>0, <3>2, TwoSteps DEF Creating
      <3>3. CASE s = <<"rereadContract">>
        BY <1>0, <3>3, OneStep DEF Creating
      <3>4. QED
        BY <1>8, <3>1, <3>2, <3>3
    <2>2. CASE ContractExists(b) /\ Moves(r, Tail(s), reply[r])
      BY <1>1, <1>2, <2>1, <2>2 DEF Moves, Creating
    <2>3. CASE ~ContractExists(b) /\ Moves(r, <<>>, "failed")
      <3>1. ~AgreementExists(b)
        <4>1. AgreementAt(b).hash = b.hash
          BY DEF AgreementAt
        <4>2. QED
          BY <2>3, <4>1 DEF Inv, AgreementsRegistered, AgreementExists, ContractExists
      <3>2. QED
        BY <2>1, <2>3, <3>1 DEF Registered, FailsJustly, Unacceptable
    <2>4. QED
      BY <2>1, <2>2, <2>3, Rereads
  <1>9. CASE s = <<"create">>
    <2>1. Head(s) = "create" /\ Tail(s) = <<>> /\ "create" \in Kind /\ ContractExists(b)
      BY <1>0, <1>9, OneStep DEF Kind, Creating
    <2>2. CASE Done(ledger', "create", b) /\ Moves(r, Tail(s), reply[r])
      BY <1>0, <1>2, <2>1, <2>2, DoneCases DEF Moves, Creating, AgreementExists
    <2>3. CASE /\ r \in Flaky \/ ~TxAccepts(ledger, "create", b)
               /\ Moves(r, [s EXCEPT ![1] = "rereadMultisig"], reply[r])
      <3>1. r \in Flaky \/ AgreementExists(b)'
        BY <1>0, <1>1, <2>1, <2>3, RefusedCreation
      <3>2. todo'[r] = <<"rereadMultisig">>
        BY <1>9, <2>3, Replaced DEF Moves
      <3>3. QED
        BY <1>0, <1>2, <2>3, <3>1, <3>2 DEF Moves, Creating
    <2>4. QED
      BY <2>1, <2>2, <2>3, SendsAndMoves
  <1>10. CASE s = <<"rereadMultisig">>
    <2>1. Head(s) = "rereadMultisig" /\ Tail(s) = <<>> /\ (r \in Flaky \/ AgreementExists(b))
      BY <1>0, <1>10, OneStep DEF Creating
    <2>2. CASE AgreementExists(b) /\ Moves(r, Tail(s), "exists")
      BY <1>1, <1>2, <2>1, <2>2 DEF Moves, Creating
    <2>3. CASE ~AgreementExists(b) /\ Moves(r, <<>>, "failed")
      BY <2>1, <2>3 DEF FailsJustly
    <2>4. QED
      BY <2>1, <2>2, <2>3, Rereads
  <1>11. QED
    BY <1>0, <1>4, <1>5, <1>6, <1>7, <1>8, <1>9, <1>10 DEF Creating

\* A handler that co-signs goes on as it should, or fails justly.
LEMMA CoSigningStep ==
    ASSUME RequestsWellFormed, Inv, NEW r \in Request, Step(r), CoSigns(body[r])
    PROVE  GoesOn(r) \/ FailsJustly(r)
  <1> DEFINE s == todo[r]
             b == body[r]
  <1>0. /\ WellFormed(b) /\ b # NoBody /\ body' = body /\ early' = early
        /\ s # <<>> /\ reply[r] # "failed"
        /\ ~InvalidSettings(b) /\ CoSigning(r, s)
        /\ reply[r] = "finalized" => AgreementFinal(b)
    BY Acts DEF OnCourse
  <1>1. /\ AgreementFinal(b) => AgreementFinal(b)'
        /\ Done(ledger, "submit", b) => Done(ledger', "submit", b')
    <2>1. "submit" \in Kind
      BY DEF Kind
    <2>2. QED
      BY <1>0, <2>1, StepRemembers, Remembers
  <1>2. ASSUME CoSigning(r, todo[r])', reply'[r] # "failed",
               reply'[r] = "finalized" => AgreementFinal(b)'
        PROVE  GoesOn(r)
    <2>1. ~InvalidSettings(b)'
      BY <1>0 DEF InvalidSettings, Creates, CoSigns, AsksStatus, Finalizes
    <2>2. QED
      BY <1>0, <1>2, <2>1
         DEF GoesOn, OnCourse, SignsAlone, Creates, CoSigns, AsksStatus, Finalizes
  <1>3. CASE s \in {<<"submit", "readStatus">>, <<"submit">>}
    <2>1. /\ Head(s) = "submit" /\ "submit" \in Kind
          /\ Tail(s) \in {<<"readStatus">>, <<>>}
      <3>1. CASE s = <<"submit", "readStatus">>
        BY <3>1, TwoSteps DEF Kind
      <3>2. CASE s = <<"submit">>
        BY <3>2, OneStep DEF Kind
      <3>3. QED
        BY <1>3, <3>1, <3>2
    <2>2. CASE Done(ledger', "submit", b) /\ Moves(r, Tail(s), reply[r])
      BY <1>0, <1>1, <1>2, <2>1, <2>2 DEF Moves, CoSigning
    <2>3. CASE r \in Flaky /\ Moves(r, <<>>, "failed")
      BY <2>3 DEF FailsJustly
    <2>4. CASE ~TxAccepts(ledger, "submit", b) /\ Moves(r, <<>>, "failed")
      BY <2>4, RefusedSubmission DEF FailsJustly, Unacceptable
    <2>5. QED
      BY <2>1, <2>2, <2>3, <2>4, SendsAndMoves
  <1>4. CASE s = <<"readStatus">>
    <2>1. Head(s) = "readStatus" /\ Tail(s) = <<>> /\ Done(ledger, "submit", b)
      BY <1>0, <1>4, OneStep DEF CoSigning
    <2>2. \/ AgreementFinal(b) /\ Moves(r, <<>>, "finalized")
          \/ Moves(r, <<>>, "ok") \/ Moves(r, <<>>, "statusUnavailable")
      BY <2>1, ReadsStatus
    <2>3. todo'[r] = <<>> /\ reply'[r] # "failed" /\ (reply'[r] = "finalized" => AgreementFinal(b))
      BY <2>2 DEF Moves
    <2>4. QED
      BY <1>1, <1>2, <2>1, <2>3 DEF CoSigning
  <1>5. QED
    BY <1>0, <1>3, <1>4 DEF CoSigning

\* A handler that is asked for the status answers as it should, or fails justly.
LEMMA AskingStep ==
    ASSUME RequestsWellFormed, Inv, NEW r \in Request, Step(r), AsksStatus(body[r])
    PROVE  GoesOn(r) \/ FailsJustly(r)
  <1> DEFINE s == todo[r]
             b == body[r]
  <1>0. /\ body' = body /\ s # <<>> /\ ~InvalidSettings(b) /\ AskingStatus(r, s)
    BY Acts DEF OnCourse
  <1>1. s = <<"readMultisig">> /\ Head(s) = "readMultisig"
    BY <1>0, OneStep DEF AskingStatus
  <1>2. ~InvalidSettings(b)'
    BY <1>0 DEF InvalidSettings, Creates, CoSigns, AsksStatus, Finalizes
  <1>3. ledger' = ledger
    BY <1>1, ReadsMultisig
  <1>4. \/ Moves(r, <<>>, "absent")
        \/ AgreementFinal(b) /\ Moves(r, <<>>, "finalized")
        \/ AgreementExists(b) /\ Moves(r, <<>>, "ok")
        \/ FailsJustly(r)
    BY <1>1, ReadsMultisig DEF Creates, AsksStatus, Finalizes
  <1>5. AgreementFinal(b) => AgreementExists(b)
    BY DEF AgreementFinal
  <1>6. AgreementExists(b)' = AgreementExists(b) /\ AgreementFinal(b)' = AgreementFinal(b)
    BY <1>0, <1>3 DEF AgreementExists, AgreementFinal
  <1>7. CASE todo'[r] = <<>> /\ reply'[r] # "failed" /\ (reply'[r] = "absent" \/ AgreementExists(b))
             /\ (reply'[r] = "finalized" => AgreementFinal(b))
    <2>1. AskingStatus(r, todo[r])'
      BY <1>0, <1>6, <1>7 DEF AskingStatus
    <2>2. QED
      BY <1>0, <1>2, <1>6, <1>7, <2>1
         DEF GoesOn, OnCourse, SignsAlone, Creates, CoSigns, AsksStatus, Finalizes
  <1>8. QED
    BY <1>4, <1>5, <1>7 DEF Moves

\* A handler that finalizes an agreement goes on as it should, or fails justly.
LEMMA FinalizingStep ==
    ASSUME RequestsWellFormed, Inv, NEW r \in Request, Step(r), Finalizes(body[r])
    PROVE  GoesOn(r) \/ FailsJustly(r)
  <1> DEFINE s == todo[r]
             b == body[r]
  <1>0. /\ body' = body /\ wasFinal' = wasFinal /\ s # <<>> /\ reply[r] # "failed"
        /\ ~InvalidSettings(b) /\ Finalizing(r, s)
        /\ reply[r] = "finalized" => AgreementFinal(b)
    BY Acts DEF OnCourse
  <1>1. AgreementFinal(b) => AgreementFinal(b)'
    <2>1. early' = early
      BY Acts
    <2>2. QED
      BY <1>0, <2>1, StepRemembers, Remembers
  <1>2. ASSUME Finalizing(r, todo[r])', reply'[r] # "failed",
               reply'[r] = "finalized" => AgreementFinal(b)'
        PROVE  GoesOn(r)
    <2>1. ~InvalidSettings(b)'
      BY <1>0 DEF InvalidSettings, Creates, CoSigns, AsksStatus, Finalizes
    <2>2. QED
      BY <1>0, <1>2, <2>1
         DEF GoesOn, OnCourse, SignsAlone, Creates, CoSigns, AsksStatus, Finalizes
  <1>3. r \in wasFinal => AgreementFinal(b)
    BY DEF Inv, HistorySound
  <1>4. CASE s = <<"readMultisig", "finalize">>
    <2>1. Head(s) = "readMultisig" /\ Tail(s) = <<"finalize">>
      BY <1>4, TwoSteps
    <2>2. \/ ~AgreementFinal(b) /\ Moves(r, <<>>, "failed")
          \/ AgreementFinal(b) /\ Moves(r, <<>>, "finalized")
          \/ ~AgreementFinal(b) /\ Moves(r, <<"finalize">>, reply[r])
          \/ FailsJustly(r)
      BY <2>1, ReadsMultisig DEF Creates, AsksStatus, Finalizes
    <2>3. CASE ~AgreementFinal(b) /\ Moves(r, <<>>, "failed")
      BY <1>3, <2>3 DEF FailsJustly, Unacceptable
    <2>4. CASE AgreementFinal(b) /\ Moves(r, <<>>, "finalized")
      BY <1>1, <1>2, <2>4 DEF Moves, Finalizing
    <2>5. CASE ~AgreementFinal(b) /\ Moves(r, <<"finalize">>, reply[r])
      BY <1>0, <1>1, <1>2, <1>3, <2>5 DEF Moves, Finalizing
    <2>6. QED
      BY <2>2, <2>3, <2>4, <2>5
  <1>5. CASE s = <<"finalize">>
    <2>1. Head(s) = "finalize" /\ Tail(s) = <<>> /\ "finalize" \in Kind /\ r \notin wasFinal
      BY <1>0, <1>5, OneStep DEF Kind, Finalizing
    <2>2. CASE Done(ledger', "finalize", b) /\ Moves(r, <<>>, "finalized")
      <3>1. AgreementFinal(b)'
        BY <1>0, <2>2, DoneCases DEF AgreementFinal, AgreementExists, FinalAgreements
      <3>2. QED
        BY <1>2, <2>2, <3>1 DEF Moves, Finalizing
    <2>3. CASE Moves(r, <<>>, "failed")
      BY <2>1, <2>3 DEF FailsJustly, Unacceptable
    <2>4. QED
      BY <2>1, <2>2, <2>3, SendsAndMoves
  <1>6. QED
    BY <1>0, <1>4, <1>5 DEF Finalizing

\* A handler that initializes the registry ends as it should, or fails justly.
LEMMA InitializingStep ==
    ASSUME RequestsWellFormed, Inv, NEW r \in Request, Step(r), body[r].route = "initializeRegistry"
    PROVE  GoesOn(r) \/ FailsJustly(r)
  <1> DEFINE s == todo[r]
             b == body[r]
  <1>0. /\ body' = body /\ s # <<>> /\ reply[r] # "failed"
        /\ ~InvalidSettings(b) /\ Initializing(s)
        /\ reply[r] = "finalized" => AgreementFinal(b)
    BY Acts DEF OnCourse
  <1>1. AgreementFinal(b) => AgreementFinal(b)'
    <2>1. early' = early
      BY Acts
    <2>2. QED
      BY <1>0, <2>1, StepRemembers, Remembers
  <1>2. Head(s) = "initialize" /\ Tail(s) = <<>> /\ "initialize" \in Kind
    BY <1>0, OneStep DEF Kind, Initializing
  <1>3. CASE Moves(r, <<>>, reply[r])
    <2>1. ~InvalidSettings(b)'
      BY <1>0 DEF InvalidSettings, Creates, CoSigns, AsksStatus, Finalizes
    <2>2. QED
      BY <1>0, <1>1, <1>3, <2>1
         DEF Moves, GoesOn, OnCourse, Initializing, SignsAlone, Creates, CoSigns, AsksStatus, Finalizes
  <1>4. CASE r \in Flaky /\ Moves(r, <<>>, "failed")
    BY <1>4 DEF FailsJustly
  <1>5. CASE ~TxAccepts(ledger, "initialize", b) /\ Moves(r, <<>>, "failed")
    <2>1. ledger.initialized
      BY <1>5, Zenon DEF TxAccepts, InitializeAccepts
    <2>2. QED
      BY <1>5, <2>1 DEF FailsJustly, Unacceptable
  <1>6. QED
    BY <1>2, <1>3, <1>4, <1>5, SendsAndMoves

\* Every handler goes on as it should, or fails justly.
LEMMA HandlerStep ==
    ASSUME RequestsWellFormed, Inv, NEW r \in Request, Step(r)
    PROVE  GoesOn(r) \/ FailsJustly(r)
  <1>1. body[r].route \in Route
    BY Acts DEF WellFormed
  <1>2. \/ SignsAlone(body[r]) \/ Creates(body[r]) \/ CoSigns(body[r]) \/ AsksStatus(body[r])
        \/ Finalizes(body[r]) \/ body[r].route = "initializeRegistry"
    BY <1>1 DEF Route, SignsAlone, Creates, CoSigns, AsksStatus, Finalizes
  <1>3. QED
    BY <1>2, AloneStep, CreatingStep, CoSigningStep, AskingStep, FinalizingStep, InitializingStep

-----------------------------------------------------------------------------
(* All steps together. *)

\* A handler that does not step stays on course.
LEMMA BystanderStays ==
    ASSUME NEW q, HandlerOnCourse(q), body'[q] = body[q], todo'[q] = todo[q], reply'[q] = reply[q],
           q \in wasFinal' <=> q \in wasFinal, q \in early => q \in early',
           Grows(ledger, ledger')
    PROVE  HandlerOnCourse(q)'
  <1> DEFINE b == body[q]
             s == todo[q]
  <1>1. SUFFICES ASSUME b # NoBody, reply[q] # "failed", OnCourse(q, s)
                 PROVE  OnCourse(q, todo[q])'
    BY DEF HandlerOnCourse
  <1>2. /\ Registered(q) => Registered(q)'
        /\ ContractExists(b) => ContractExists(b)'
        /\ AgreementExists(b) => AgreementExists(b)'
        /\ AgreementFinal(b) => AgreementFinal(b)'
        /\ Done(ledger, "verify", b) => Done(ledger', "verify", b')
        /\ Done(ledger, "submit", b) => Done(ledger', "submit", b')
    BY Remembers DEF Kind
  <1>3. /\ SignsAlone(b)' <=> SignsAlone(b)
        /\ Creates(b)' <=> Creates(b)
        /\ CoSigns(b)' <=> CoSigns(b)
        /\ AsksStatus(b)' <=> AsksStatus(b)
        /\ Finalizes(b)' <=> Finalizes(b)
        /\ InvalidSettings(b)' <=> InvalidSettings(b)
    BY DEF SignsAlone, Creates, CoSigns, AsksStatus, Finalizes, InvalidSettings
  <1>4. SigningAlone(q, s) => SigningAlone(q, todo[q])'
    BY <1>2 DEF SigningAlone
  <1>5. Creating(q, s) => Creating(q, todo[q])'
    BY <1>2 DEF Creating
  <1>6. CoSigning(q, s) => CoSigning(q, todo[q])'
    BY <1>2 DEF CoSigning
  <1>7. AskingStatus(q, s) => AskingStatus(q, todo[q])'
    BY <1>2 DEF AskingStatus
  <1>8. Finalizing(q, s) => Finalizing(q, todo[q])'
    BY <1>2 DEF Finalizing
  <1>9. reply'[q] = "finalized" => AgreementFinal(b)'
    BY <1>1, <1>2 DEF OnCourse
  <1>10. QED
    BY <1>1, <1>3, <1>4, <1>5, <1>6, <1>7, <1>8, <1>9 DEF OnCourse

\* A handler starts on course.
LEMMA ArrivesOnCourse ==
    ASSUME RequestsWellFormed, Inv, NEW r \in Request, NEW b \in Body[r], Arrive(r, b)
    PROVE  HandlerOnCourse(r)'
  <1>0. HandlersSound /\ WellFormed(b)
    BY DEF Inv, RInv, RequestsWellFormed, Bodies
  <1>1. body'[r] = b
    BY <1>0 DEF Arrive, HandlersSound
  <1>2. CASE InvalidSettings(b)
    <2>1. Moves(r, <<>>, "failed")
      BY <1>0, <1>2, ContinueMoves DEF Arrive, Fail
    <2>2. QED
      BY <2>1 DEF Moves, HandlerOnCourse
  <1>3. CASE ~InvalidSettings(b)
    <2>1. Moves(r, Steps(b.route), "ok")
      BY <1>0, <1>3, ContinueMoves DEF Arrive
    <2>2. b.route \in {"/sign", "signContract"} => Steps(b.route) = <<"readContract", "register", "verify">>
      BY Zenon DEF Steps
    <2>3. b.route = "/multisig/create" =>
             Steps(b.route) = <<"readContract", "readMultisig", "register", "create">>
      BY Zenon DEF Steps
    <2>4. b.route = "createMultiSigContract" =>
             Steps(b.route) = <<"readContract", "register", "readMultisig", "create">>
      BY Zenon DEF Steps
    <2>5. b.route = "/multisig/sign" => Steps(b.route) = <<"submit", "readStatus">>
      BY Zenon DEF Steps
    <2>6. b.route = "signMultiSig" => Steps(b.route) = <<"submit">>
      BY Zenon DEF Steps
    <2>7. b.route = "/multisig/status" => Steps(b.route) = <<"readMultisig">>
      BY Zenon DEF Steps
    <2>8. b.route = "finalizeMultiSigContract" => Steps(b.route) = <<"readMultisig", "finalize">>
      BY Zenon DEF Steps
    <2>9. b.route = "initializeRegistry" => Steps(b.route) = <<"initialize">>
      BY Zenon DEF Steps
    <2>10. b.route \in Route
      BY <1>0 DEF WellFormed
    <2>11. ~InvalidSettings(body'[r])
      BY <1>1, <1>3
    <2>12. ~InvalidSettings(body[r])'
      BY <2>11 DEF InvalidSettings, Creates, CoSigns, AsksStatus, Finalizes
    <2>13. OnCourse(r, todo[r])'
      <3>1. todo'[r] = Steps(b.route) /\ reply'[r] = "ok"
        BY <2>1 DEF Moves
      <3>2. SignsAlone(b) => SigningAlone(r, todo[r])'
        BY <2>2, <3>1 DEF SigningAlone, SignsAlone
      <3>3. Creates(b) => Creating(r, todo[r])'
        BY <2>3, <2>4, <3>1 DEF Creating, Creates
      <3>4. CoSigns(b) => CoSigning(r, todo[r])'
        BY <2>5, <2>6, <3>1 DEF CoSigning, CoSigns
      <3>5. AsksStatus(b) => AskingStatus(r, todo[r])'
        BY <2>7, <3>1 DEF AskingStatus, AsksStatus
      <3>6. Finalizes(b) => Finalizing(r, todo[r])'
        BY <2>8, <3>1 DEF Finalizing, Finalizes
      <3>7. b.route = "initializeRegistry" => Initializing(todo[r])'
        BY <2>9, <3>1 DEF Initializing
      <3>8. QED
        BY <1>1, <2>12, <3>1, <3>2, <3>3, <3>4, <3>5, <3>6, <3>7
           DEF OnCourse, SignsAlone, Creates, CoSigns, AsksStatus, Finalizes
    <2>14. QED
      BY <2>1, <2>13 DEF HandlerOnCourse, Moves
  <1>4. QED
    BY <1>2, <1>3

\* A transaction that lands now.
Sent(kind, b) == TxAccepts(ledger, kind, b) /\ ledger' = TxWrites(ledger, kind, b)

\* Only a handler that signs alone has a verification to send.
LEMMA VerifiesAlone ==
    ASSUME RequestsWellFormed, Inv, NEW r \in Request, Step(r), Head(todo[r]) = "verify"
    PROVE  SignsAlone(body[r])
  <1>1. OnCourse(r, todo[r]) /\ todo[r] # <<>> /\ body[r].route \in Route
    BY Acts DEF WellFormed
  <1>2. Creates(body[r]) => FALSE
    BY <1>1, OneStep, TwoSteps, ThreeSteps, FourSteps DEF OnCourse, Creating
  <1>3. CoSigns(body[r]) => FALSE
    BY <1>1, OneStep, TwoSteps DEF OnCourse, CoSigning
  <1>4. AsksStatus(body[r]) \/ Finalizes(body[r]) \/ body[r].route = "initializeRegistry" => FALSE
    BY <1>1, OneStep, TwoSteps DEF OnCourse, AskingStatus, Finalizing, Initializing
  <1>5. QED
    BY <1>1, <1>2, <1>3, <1>4 DEF Route, SignsAlone, Creates, CoSigns, AsksStatus, Finalizes

\* A step leaves the ledger alone or lands one transaction that was asked for; it is a
\* lone verification only if somebody asked to sign singly.
LEMMA LedgerMoves ==
    ASSUME RequestsWellFormed, Inv, [Next]_vars
    PROVE  /\ \A r \in Request : body[r] # NoBody => body'[r] = body[r]
           /\ \/ ledger' = ledger /\ landed' = landed
              \/ \E kind \in Kind, b \in Bodies :
                    /\ Sent(kind, b)
                    /\ \A t \in landed' : t \in landed \/ (t.kind = kind /\ t.body = b)
                    /\ kind = "verify" => SignedSingly(b.hash, b.key)
  <1> DEFINE Kept == \A r \in Request : body[r] # NoBody => body'[r] = body[r]
             Lands(kind, b) == /\ Sent(kind, b)
                               /\ \A t \in landed' : t \in landed \/ (t.kind = kind /\ t.body = b)
                               /\ kind = "verify" => SignedSingly(b.hash, b.key)
  <1>1. ASSUME NEW r \in Request, Step(r)
        PROVE  Kept /\ ((ledger' = ledger /\ landed' = landed) \/ \E kind \in Kind, b \in Bodies : Lands(kind, b))
    <2>1. body[r] \in Bodies /\ body' = body
      BY <1>1, Acts
    <2>2. CASE /\ Land(r) /\ Sent(Head(todo[r]), body[r])
               /\ landed' = landed \cup {[kind |-> Head(todo[r]), body |-> body[r]]}
      <3>1. Head(todo[r]) \in Kind
        BY <2>2 DEF Land, At
      <3>2. Head(todo[r]) = "verify" => SignedSingly(body[r].hash, body[r].key)
        BY <1>1, VerifiesAlone DEF SignedSingly
      <3>3. Lands(Head(todo[r]), body[r])
        BY <2>2, <3>2
      <3> HIDE DEF Lands
      <3>4. QED
        BY <2>1, <3>1, <3>3
    <2>3. CASE ledger' = ledger /\ landed' = landed
      BY <2>1, <2>3
    <2>4. QED
      BY <1>1, <2>2, <2>3
         DEF Step, ReadContract, ReadMultisig, Reread, ReadFails, Land, Lose, ReadStatus, Sent
  <1>2. ASSUME NEW r \in Request, NEW b \in Body[r], Arrive(r, b)
        PROVE  Kept /\ ledger' = ledger /\ landed' = landed
    BY <1>2 DEF Arrive, Inv, RInv, HandlersSound
  <1>3. ASSUME NEW t \in late, LateLand(t)
        PROVE  Kept /\ ((ledger' = ledger /\ landed' = landed) \/ \E kind \in Kind, b \in Bodies : Lands(kind, b))
    <2>1. Kept
      BY <1>3 DEF LateLand, handlers
    <2>2. t.kind \in Kind /\ t.body \in Bodies
      BY DEF Inv, RInv, LateSound
    <2>3. CASE Sent(t.kind, t.body) /\ landed' = landed \cup {t}
      <3>1. t.kind = "verify" => SignedSingly(t.body.hash, t.body.key)
        BY DEF Inv, LateVerifications, SignedSingly
      <3>2. Lands(t.kind, t.body)
        BY <2>3, <3>1
      <3> HIDE DEF Lands
      <3>3. QED
        BY <2>1, <2>2, <3>2
    <2>4. CASE ledger' = ledger /\ landed' = landed
      BY <2>1, <2>4
    <2>5. QED
      BY <1>3, <2>3, <2>4 DEF LateLand, Sent
  <1>4. ASSUME NEW t \in Outside, Outsider(t)
        PROVE  Kept /\ \E kind \in Kind, b \in Bodies : Lands(kind, b)
    <2>1. t.kind \in Kind /\ t.body \in Bodies
      BY DEF RequestsWellFormed, Bodies
    <2>2. t.kind = "verify" => SignedSingly(t.body.hash, t.body.key)
      BY DEF SignedSingly
    <2>3. Lands(t.kind, t.body) /\ Kept
      BY <1>4, <2>2 DEF Outsider, handlers, Sent
    <2> HIDE DEF Lands
    <2>4. QED
      BY <2>1, <2>3
  <1>5. CASE UNCHANGED vars
    BY <1>5 DEF vars, handlers
  <1>6. QED
    BY <1>1, <1>2, <1>3, <1>4, <1>5 DEF Next

\* Every step lets the ledger grow, with the effect of what has landed.
LEMMA LedgerGrows ==
    ASSUME RequestsWellFormed, Inv, [Next]_vars
    PROVE  Grows(ledger, ledger')
  <1>1. ASSUME NEW kind \in Kind, NEW b \in Bodies, Sent(kind, b)
        PROVE  Grows(ledger, ledger')
    BY <1>1, TxEffect DEF Inv, RInv, Sent, Effect
  <1>2. QED
    BY <1>1, LedgerMoves, GrowsNot

\* What has landed is done, every agreement's contract is registered, and every lone
\* signature was asked for.
LEMMA ChainStaysSound ==
    ASSUME RequestsWellFormed, Inv, [Next]_vars
    PROVE  LandedIsDone' /\ AgreementsRegistered' /\ SignedIsCounted'
  <1>0. LandedIsDone /\ AgreementsRegistered /\ SignedIsCounted /\ Grows(ledger, ledger')
    BY LedgerGrows DEF Inv
  <1>1. Bodies' = Bodies
    BY DEF Bodies
  <1>2. \A t \in landed : t.kind \in Kind /\ t.body \in Bodies' /\ Done(ledger', t.kind, t.body)
    BY <1>0, <1>1, DoneStays DEF LandedIsDone
  <1>3. \A h, k : SignedSingly(h, k) => SignedSingly(h, k)'
    <2>1. ASSUME NEW h, NEW k, SignedSingly(h, k)
          PROVE  SignedSingly(h, k)'
      <3>1. ASSUME NEW r \in Request, SignsAlone(body[r]), body[r].hash = h, body[r].key = k
            PROVE  SignedSingly(h, k)'
        <4>1. body[r] # NoBody
          BY <3>1 DEF SignsAlone, NoBody
        <4>2. body'[r] = body[r]
          BY <4>1, LedgerMoves
        <4>3. QED
          BY <3>1, <4>2 DEF SignedSingly, SignsAlone
      <3>2. QED
        BY <2>1, <3>1 DEF SignedSingly
    <2>2. QED
      BY <2>1
  <1>4. ASSUME NEW s \in ledger.signature
        PROVE  \/ SignedSingly(s.contract, s.key)'
               \/ \E m \in ledger'.member : m.multisig.hash = s.contract /\ m.key = s.key
    BY <1>0, <1>3 DEF SignedIsCounted, Grows
  <1>5. CASE ledger' = ledger /\ landed' = landed
    BY <1>0, <1>1, <1>2, <1>4, <1>5 DEF LandedIsDone, AgreementsRegistered, SignedIsCounted
  <1>6. ASSUME NEW kind \in Kind, NEW b \in Bodies, Sent(kind, b),
               \A t \in landed' : t \in landed \/ (t.kind = kind /\ t.body = b),
               kind = "verify" => SignedSingly(b.hash, b.key)
        PROVE  LandedIsDone' /\ AgreementsRegistered' /\ SignedIsCounted'
    <2>1. Effect(ledger, ledger', kind, b)
      BY <1>6, TxEffect DEF Inv, RInv, Sent
    <2>2. LandedIsDone'
      <3>1. Done(ledger', kind, b)
        BY <2>1 DEF Effect
      <3>2. QED
        BY <1>1, <1>2, <1>6, <3>1 DEF LandedIsDone
    <2>3. AgreementsRegistered'
      BY <1>0, <2>1 DEF AgreementsRegistered, Effect, Grows
    <2>4. SignedIsCounted'
      <3>1. CASE kind \notin {"verify", "submit"}
        BY <1>4, <2>1, <3>1 DEF Effect, SignedIsCounted
      <3>2. ReceiptAt(b).contract = b.hash /\ ReceiptAt(b).key = b.key
        BY DEF ReceiptAt
      <3>3. CASE kind = "verify"
        <4>1. SignedSingly(b.hash, b.key)'
          BY <1>3, <1>6, <3>3
        <4>2. ledger'.signature = ledger.signature \cup {ReceiptAt(b)}
          BY <2>1, <3>3 DEF Effect
        <4>3. QED
          BY <1>4, <3>2, <4>1, <4>2 DEF SignedIsCounted
      <3>4. CASE kind = "submit"
        <4>1. ledger'.signature = ledger.signature \cup {ReceiptAt(b)}
          BY <2>1, <3>4 DEF Effect
        <4>2. [multisig |-> AgreementAt(b), key |-> b.key] \in ledger'.member
          BY <2>1, <3>4, DoneCases DEF Effect
        <4>3. AgreementAt(b).hash = b.hash
          BY DEF AgreementAt
        <4>4. \E m \in ledger'.member : m.multisig.hash = b.hash /\ m.key = b.key
          BY <4>2, <4>3
        <4>5. QED
          BY <1>4, <3>2, <4>1, <4>4 DEF SignedIsCounted
      <3>5. QED
        BY <3>1, <3>3, <3>4
    <2>5. QED
      BY <2>2, <2>3, <2>4
  <1>7. QED
    BY <1>5, <1>6, LedgerMoves

\* A request that has arrived is not replaced, and the histories record its arrival.
LEMMA HistoryStaysSound ==
    ASSUME RequestsWellFormed, Inv, [Next]_vars
    PROVE  HistorySound'
  <1>0. HistorySound /\ HandlersSound /\ Grows(ledger, ledger')
    BY LedgerGrows DEF Inv, RInv
  <1>1. ASSUME NEW q \in wasFinal, q \in Request, body'[q] = body[q]
        PROVE  body'[q] # NoBody /\ AgreementFinal(body[q])'
    <2>1. body[q] # NoBody /\ AgreementFinal(body[q])
      BY <1>0, <1>1 DEF HistorySound
    <2>2. AgreementFinal(body[q])'
      BY <1>0, <1>1, <2>1 DEF AgreementFinal, AgreementExists, FinalAgreements, Grows
    <2>3. QED
      BY <1>1, <2>1, <2>2
  <1>2. CASE body' = body /\ wasFinal' = wasFinal /\ early' = early
    BY <1>0, <1>1, <1>2 DEF HistorySound, Grows
  <1>3. ASSUME NEW r \in Request, NEW b \in Body[r], Arrive(r, b)
        PROVE  HistorySound'
    <2>1. /\ body[r] = NoBody /\ body'[r] = b /\ \A q \in Request \ {r} : body'[q] = body[q]
          /\ ledger' = ledger
          /\ wasFinal' = IF AgreementFinal(b) THEN wasFinal \cup {r} ELSE wasFinal
          /\ early' = IF ledger.initialized THEN early ELSE early \cup {r}
      BY <1>0, <1>3 DEF Arrive, HandlersSound
    <2>2. b # NoBody
      <3>1. b.route \in Route
        BY DEF RequestsWellFormed, WellFormed, Bodies
      <3>2. NoBody.route = "none"
        BY DEF NoBody
      <3>3. QED
        BY <3>1, <3>2 DEF Route
    <2>3. r \notin wasFinal
      BY <1>0, <2>1 DEF HistorySound
    <2>4. AgreementFinal(b) => AgreementFinal(body[r])'
      BY <2>1 DEF AgreementFinal, AgreementExists
    <2>5. \A q \in wasFinal' : q \in Request => body'[q] # NoBody /\ AgreementFinal(body[q])'
      BY <1>1, <2>1, <2>2, <2>3, <2>4
    <2>6. \A q \in Request : body'[q] # NoBody /\ ~ledger'.initialized => q \in early'
      BY <1>0, <2>1 DEF HistorySound
    <2>7. QED
      BY <2>5, <2>6 DEF HistorySound
  <1>4. ASSUME NEW r \in Request, Step(r)
        PROVE  body' = body /\ wasFinal' = wasFinal /\ early' = early
    BY <1>4, Acts
  <1>5. ASSUME NEW t, LateLand(t) \/ Outsider(t) \/ UNCHANGED vars
        PROVE  body' = body /\ wasFinal' = wasFinal /\ early' = early
    BY <1>5 DEF LateLand, Outsider, vars, handlers
  <1>6. QED
    BY <1>2, <1>3, <1>4, <1>5 DEF Next

\* A lone verification that is late was sent by a request to sign alone.
LEMMA LateStaysSound ==
    ASSUME RequestsWellFormed, Inv, [Next]_vars
    PROVE  LateVerifications'
  <1>0. LateVerifications /\ \A r \in Request : body[r] # NoBody => body'[r] = body[r]
    BY LedgerMoves DEF Inv
  <1>1. ASSUME NEW r \in Request, SignsAlone(body[r])
        PROVE  SignsAlone(body'[r]) /\ body'[r] = body[r]
    <2>1. body[r] # NoBody
      BY <1>1 DEF SignsAlone, NoBody
    <2>2. QED
      BY <1>0, <1>1, <2>1
  <1>2. ASSUME NEW t \in late, t.kind = "verify"
        PROVE  \E r \in Request : SignsAlone(body[r])' /\ body'[r] = t.body
    <2>1. PICK r \in Request : SignsAlone(body[r]) /\ body[r] = t.body
      BY <1>0, <1>2 DEF LateVerifications
    <2>2. SignsAlone(body[r])' /\ body'[r] = t.body
      BY <1>1, <2>1 DEF SignsAlone
    <2>3. QED
      BY <2>2
  <1>3. CASE late' \subseteq late
    BY <1>2, <1>3 DEF LateVerifications
  <1>4. ASSUME NEW r \in Request, Step(r)
        PROVE  LateVerifications'
    <2>1. CASE late' = late
      BY <1>3, <2>1
    <2>2. CASE Lose(r)
      <3> DEFINE new == [kind |-> Head(todo[r]), body |-> body[r]]
      <3>1. late' = late \cup {new}
        BY <2>2 DEF Lose
      <3>2. new.kind = "verify" => SignsAlone(body[r])' /\ body'[r] = new.body
        <4>1. Head(todo[r]) = "verify" => SignsAlone(body[r])
          BY <1>4, VerifiesAlone
        <4>2. QED
          BY <1>1, <4>1 DEF SignsAlone
      <3> HIDE DEF new
      <3>3. QED
        BY <1>2, <3>1, <3>2 DEF LateVerifications
    <2>3. QED
      BY <1>4, <2>1, <2>2 DEF Step, ReadContract, ReadMultisig, Reread, ReadFails, Land, ReadStatus
  <1>5. ASSUME NEW r \in Request, NEW b \in Body[r], Arrive(r, b)
        PROVE  late' \subseteq late
    BY <1>5 DEF Arrive
  <1>6. ASSUME NEW t, LateLand(t) \/ Outsider(t) \/ UNCHANGED vars
        PROVE  late' \subseteq late
    BY <1>6 DEF LateLand, Outsider, vars
  <1>7. QED
    BY <1>3, <1>4, <1>5, <1>6 DEF Next

\* Every handler stays on course.
LEMMA HandlersStayOnCourse ==
    ASSUME RequestsWellFormed, Inv, [Next]_vars
    PROVE  HandlersOnCourse'
  <1>0. /\ HandlersSound /\ Grows(ledger, ledger')
        /\ \A q \in Request : HandlerOnCourse(q)
    BY LedgerGrows DEF Inv, RInv, HandlersOnCourse
  <1>1. ASSUME NEW r \in Request, Step(r), NEW q \in Request
        PROVE  HandlerOnCourse(q)'
    <2>1. CASE q = r
      <3>1. GoesOn(r) \/ FailsJustly(r)
        BY <1>1, HandlerStep
      <3>2. QED
        BY <2>1, <3>1 DEF GoesOn, FailsJustly, Moves, HandlerOnCourse
    <2>2. CASE q # r
      <3>1. \E s, a : Continue(r, s, a)
        BY <1>1 DEF Step, ReadContract, ReadMultisig, Reread, ReadFails, Land, Lose, ReadStatus,
           Fail, OnSuccess, OnFailure
      <3>2. todo'[q] = todo[q] /\ reply'[q] = reply[q]
        BY <1>0, <2>2, <3>1, ContinueMoves DEF Moves
      <3>3. body' = body /\ wasFinal' = wasFinal /\ early' = early
        BY <1>1, Acts
      <3>4. QED
        BY <1>0, <3>2, <3>3, BystanderStays
    <2>3. QED
      BY <2>1, <2>2
  <1>2. ASSUME NEW r \in Request, NEW b \in Body[r], Arrive(r, b), NEW q \in Request
        PROVE  HandlerOnCourse(q)'
    <2>1. CASE q = r
      BY <1>2, <2>1, ArrivesOnCourse
    <2>2. CASE q # r
      <3>1. todo'[q] = todo[q] /\ reply'[q] = reply[q]
        BY <1>0, <1>2, <2>2, ContinueMoves DEF Arrive, Fail, Moves
      <3>2. body'[q] = body[q] /\ (q \in wasFinal' <=> q \in wasFinal) /\ (q \in early => q \in early')
        BY <1>0, <1>2, <2>2 DEF Arrive, HandlersSound
      <3>3. QED
        BY <1>0, <3>1, <3>2, BystanderStays
    <2>3. QED
      BY <2>1, <2>2
  <1>3. ASSUME NEW t, LateLand(t) \/ Outsider(t) \/ UNCHANGED vars, NEW q \in Request
        PROVE  HandlerOnCourse(q)'
    <2>1. UNCHANGED <<body, wasFinal, early, todo, reply>>
      BY <1>3 DEF LateLand, Outsider, vars, handlers
    <2>2. QED
      BY <1>0, <2>1, BystanderStays
  <1>4. QED
    BY <1>1, <1>2, <1>3 DEF Next, HandlersOnCourse

\* The invariant of the relay holds at first.
LEMMA InitInv == Init => Inv
  <1> SUFFICES ASSUME Init
               PROVE  Inv
    OBVIOUS
  <1>1. RInv
    BY InitRInv
  <1>2. LandedIsDone /\ LateVerifications
    BY DEF Init, LandedIsDone, LateVerifications
  <1>3. DOMAIN ledger.multisig = {} /\ ledger.signature = {}
    BY DEF Init, InitialLedger
  <1>4. AgreementsRegistered /\ SignedIsCounted
    BY <1>3 DEF AgreementsRegistered, SignedIsCounted
  <1>5. HistorySound /\ HandlersOnCourse
    BY DEF Init, HistorySound, HandlersOnCourse, HandlerOnCourse
  <1>6. QED
    BY <1>1, <1>2, <1>4, <1>5 DEF Inv

\* Every step keeps it.
LEMMA NextInv == RequestsWellFormed /\ Inv /\ [Next]_vars => Inv'
  <1> SUFFICES ASSUME RequestsWellFormed, Inv, [Next]_vars
               PROVE  Inv'
    OBVIOUS
  <1>1. RInv'
    BY NextRInv DEF Inv
  <1>2. LandedIsDone' /\ AgreementsRegistered' /\ SignedIsCounted'
    BY ChainStaysSound
  <1>3. HistorySound' /\ LateVerifications' /\ HandlersOnCourse'
    BY HistoryStaysSound, LateStaysSound, HandlersStayOnCourse
  <1>4. QED
    BY <1>1, <1>2, <1>3 DEF Inv

\* It holds in every reachable state.
THEOREM RelayInvariance ==
    ASSUME RequestsWellFormed
    PROVE  Spec => []Inv
  <1>1. Init => Inv
    BY InitInv
  <1>2. Inv /\ [Next]_vars => Inv'
    BY NextInv
  <1>3. QED
    BY <1>1, <1>2, PTL DEF Spec

\* No verified co-signer is left uncounted, whatever is lost, retried and late.
THEOREM VerifiedIsCounted ==
    ASSUME RequestsWellFormed
    PROVE  Spec => []SignedIsCounted
  <1>1. Inv => SignedIsCounted
    BY DEF Inv
  <1>2. QED
    BY <1>1, RelayInvariance, PTL

\* A success answer is true of the chain.
THEOREM AnswersAreTrue ==
    ASSUME RequestsWellFormed
    PROVE  Spec => []SuccessIsOnChain
  <1>1. Inv => SuccessIsOnChain
    <2> SUFFICES ASSUME Inv, NEW r \in Request, Answered(r), reply[r] \notin {"failed", "absent"}
                 PROVE  LET b == body[r] IN
                        /\ SignsAlone(b) \/ CoSigns(b) => ReceiptAt(b) \in ledger.signature
                        /\ CoSigns(b) => [multisig |-> AgreementAt(b), key |-> b.key] \in ledger.member
                        /\ Creates(b) \/ AsksStatus(b) =>
                              AgreementExists(b) /\ AgreementSound(AgreementAt(b), ledger.multisig[AgreementAt(b)])
                        /\ reply[r] = "finalized" \/ Finalizes(b) => AgreementFinal(b)
      BY DEF SuccessIsOnChain
    <2> DEFINE b == body[r]
    <2>1. todo[r] = <<>> /\ OnCourse(r, <<>>)
      BY DEF Answered, Inv, HandlersOnCourse, HandlerOnCourse
    <2>2. SignsAlone(b) => Done(ledger, "verify", b)
      BY <2>1, OneStep, TwoSteps, ThreeSteps DEF OnCourse, SigningAlone
    <2>3. CoSigns(b) => Done(ledger, "submit", b)
      BY <2>1, OneStep, TwoSteps DEF OnCourse, CoSigning
    <2>4. Creates(b) => AgreementExists(b)
      BY <2>1, OneStep, TwoSteps, ThreeSteps, FourSteps DEF OnCourse, Creating
    <2>5. AsksStatus(b) => AgreementExists(b)
      BY <2>1, OneStep DEF OnCourse, AskingStatus
    <2>6. Finalizes(b) \/ reply[r] = "finalized" => AgreementFinal(b)
      BY <2>1, OneStep, TwoSteps DEF OnCourse, Finalizing
    <2>7. AgreementExists(b) => AgreementSound(AgreementAt(b), ledger.multisig[AgreementAt(b)])
      BY DEF Inv, RInv, LedgerInv, AgreementExists
    <2>8. QED
      BY <2>2, <2>3, <2>4, <2>5, <2>6, <2>7, DoneCases
  <1>2. QED
    BY <1>1, RelayInvariance, PTL

\* A request the node answers fails only for what the program must refuse, whatever
\* races it loses.
THEOREM FailuresAreJust ==
    ASSUME RequestsWellFormed
    PROVE  Spec => FailuresAreJustified
  <1>1. ASSUME Inv, [Next]_vars, NEW r \in Request \ Flaky, reply[r] # reply'[r], reply'[r] = "failed"
        PROVE  Unacceptable(r, body'[r])
    <2>0. HandlersSound
      BY <1>1 DEF Inv, RInv
    <2>1. ASSUME NEW q \in Request, Step(q)
          PROVE  Unacceptable(r, body'[r])
      <3>1. \E s, a : Continue(q, s, a)
        BY <2>1 DEF Step, ReadContract, ReadMultisig, Reread, ReadFails, Land, Lose, ReadStatus,
           Fail, OnSuccess, OnFailure
      <3>2. q = r
        BY <1>1, <2>0, <3>1, ContinueMoves DEF Moves
      <3>3. FailsJustly(r) /\ body' = body
        BY <1>1, <2>1, <3>2, HandlerStep, Acts DEF GoesOn
      <3>4. QED
        BY <1>1, <3>3 DEF FailsJustly
    <2>2. ASSUME NEW q \in Request, NEW b \in Body[q], Arrive(q, b)
          PROVE  Unacceptable(r, body'[r])
      <3>1. q = r
        BY <1>1, <2>0, <2>2, ContinueMoves DEF Arrive, Fail, Moves
      <3>2. body'[r] = b
        BY <2>0, <2>2, <3>1 DEF Arrive, HandlersSound
      <3>3. InvalidSettings(b)
        BY <1>1, <2>0, <2>2, <3>1, ContinueMoves DEF Arrive, Moves
      <3>4. QED
        BY <3>2, <3>3 DEF Unacceptable
    <2>3. ASSUME NEW t, LateLand(t) \/ Outsider(t) \/ UNCHANGED vars
          PROVE  FALSE
      BY <1>1, <2>3 DEF LateLand, Outsider, vars
    <2>4. QED
      BY <1>1, <2>1, <2>2, <2>3 DEF Next
  <1>2. Inv /\ [Next]_vars =>
           [\A r \in Request \ Flaky : reply[r] # reply'[r] /\ reply'[r] = "failed" =>
                Unacceptable(r, body'[r])]_vars
    BY <1>1
  <1>3. QED
    BY <1>2, RelayInvariance, PTL DEF Spec, FailuresAreJustified

-----------------------------------------------------------------------------
(* Who left a contract nobody uses. *)

\* What was asked for stays asked for.
LEMMA AskedStays ==
    ASSUME RequestsWellFormed, Inv, [Next]_vars, NEW h, AskedFor(h)
    PROVE  AskedFor(h)'
  <1>1. ASSUME NEW r \in Request, AsksFor(r, h)
        PROVE  AsksFor(r, h)'
    <2>1. body[r] # NoBody
      BY <1>1 DEF AsksFor, SignsAlone, Creates, NoBody
    <2>2. body'[r] = body[r]
      BY <2>1, LedgerMoves
    <2>3. QED
      BY <1>1, <2>2 DEF AsksFor, SignsAlone, Creates, CoSigns, AsksStatus, Finalizes, InvalidSettings
  <1>2. QED
    BY <1>1 DEF AskedFor

\* Only a handler that signs alone or creates, and whose settings passed, has a
\* contract to register.
LEMMA RegistersAsked ==
    ASSUME RequestsWellFormed, Inv, NEW r \in Request, Step(r), Head(todo[r]) = "register"
    PROVE  AskedFor(body[r].hash)
  <1>1. OnCourse(r, todo[r]) /\ todo[r] # <<>> /\ body[r].route \in Route
    BY Acts DEF WellFormed
  <1>2. CoSigns(body[r]) => FALSE
    BY <1>1, OneStep, TwoSteps DEF OnCourse, CoSigning
  <1>3. AsksStatus(body[r]) \/ Finalizes(body[r]) \/ body[r].route = "initializeRegistry" => FALSE
    BY <1>1, OneStep, TwoSteps DEF OnCourse, AskingStatus, Finalizing, Initializing
  <1>4. SignsAlone(body[r]) \/ Creates(body[r])
    BY <1>1, <1>2, <1>3 DEF Route, SignsAlone, Creates, CoSigns, AsksStatus, Finalizes
  <1>5. QED
    BY <1>1, <1>4 DEF OnCourse, AskedFor, AsksFor

\* A transaction that lands now adds no contract but the one it registers.
LEMMA SentAdds ==
    ASSUME Inv, NEW kind \in Kind, NEW b, Sent(kind, b), kind = "register" => AskedFor(b.hash)
    PROVE  \A h \in DOMAIN ledger'.contract : h \in DOMAIN ledger.contract \/ AskedFor(h)
  BY TxEffect DEF Inv, RInv, Sent, Effect

\* Every step adds only contracts that were asked for.
LEMMA AddsAsked ==
    ASSUME RequestsWellFormed, Inv, AskedInv, [Next]_vars
    PROVE  \A h \in DOMAIN ledger'.contract : h \in DOMAIN ledger.contract \/ AskedFor(h)
  <1>1. ASSUME NEW r \in Request, Step(r)
        PROVE  ledger' = ledger \/ (Head(todo[r]) \in Kind /\ Sent(Head(todo[r]), body[r]))
    BY <1>1 DEF Step, ReadContract, ReadMultisig, Reread, ReadFails, Land, Lose, ReadStatus, At, Sent
  <1>2. ASSUME NEW r \in Request, Step(r)
        PROVE  \A h \in DOMAIN ledger'.contract : h \in DOMAIN ledger.contract \/ AskedFor(h)
    BY <1>1, <1>2, RegistersAsked, SentAdds
  <1>3. ASSUME NEW r \in Request, NEW b \in Body[r], Arrive(r, b)
        PROVE  ledger' = ledger
    BY <1>3 DEF Arrive
  <1>4. ASSUME NEW t \in late, LateLand(t)
        PROVE  \A h \in DOMAIN ledger'.contract : h \in DOMAIN ledger.contract \/ AskedFor(h)
    <2>1. t.kind \in Kind
      BY DEF Inv, RInv, LateSound
    <2>2. ledger' = ledger \/ Sent(t.kind, t.body)
      BY <1>4 DEF LateLand, Sent
    <2>3. t.kind = "register" => AskedFor(t.body.hash)
      BY DEF AskedInv, LateRegistrations
    <2>4. QED
      BY <2>1, <2>2, <2>3, SentAdds
  <1>5. ASSUME NEW t \in Outside, Outsider(t)
        PROVE  \A h \in DOMAIN ledger'.contract : h \in DOMAIN ledger.contract \/ AskedFor(h)
    <2>1. t.kind \in Kind /\ Sent(t.kind, t.body)
      BY <1>5 DEF RequestsWellFormed, Outsider, Sent
    <2>2. t.kind = "register" => AskedFor(t.body.hash)
      BY DEF AskedFor
    <2>3. QED
      BY <2>1, <2>2, SentAdds
  <1>6. CASE UNCHANGED vars
    BY <1>6 DEF vars
  <1>7. QED
    BY <1>2, <1>3, <1>4, <1>5, <1>6 DEF Next

\* A registration nobody waits for was sent by a handler that had it to send.
LEMMA LateAsked ==
    ASSUME RequestsWellFormed, Inv, AskedInv, [Next]_vars
    PROVE  \A t \in late' : t.kind = "register" => AskedFor(t.body.hash)
  <1>1. \A t \in late : t.kind = "register" => AskedFor(t.body.hash)
    BY DEF AskedInv, LateRegistrations
  <1>2. ASSUME NEW r \in Request, Lose(r), NEW t \in late', t.kind = "register"
        PROVE  AskedFor(t.body.hash)
    <2>1. Step(r)
      BY <1>2 DEF Step
    <2>2. CASE t \in late
      BY <1>1, <1>2, <2>2
    <2>3. CASE t = [kind |-> Head(todo[r]), body |-> body[r]]
      BY <1>2, <2>1, <2>3, RegistersAsked
    <2>4. QED
      BY <1>2, <2>2, <2>3 DEF Lose
  <1>3. ASSUME NEW r \in Request, Step(r), ~Lose(r)
        PROVE  late' = late
    BY <1>3 DEF Step, ReadContract, ReadMultisig, Reread, ReadFails, Land, ReadStatus
  <1>4. ASSUME NEW r \in Request, NEW b \in Body[r], Arrive(r, b)
        PROVE  late' = late
    BY <1>4 DEF Arrive
  <1>5. ASSUME NEW t, LateLand(t) \/ Outsider(t) \/ UNCHANGED vars
        PROVE  late' \subseteq late
    BY <1>5 DEF LateLand, Outsider, vars
  <1>6. QED
    BY <1>1, <1>2, <1>3, <1>4, <1>5 DEF Next

\* Every contract was asked for in every state.
LEMMA AskedInvariance ==
    ASSUME RequestsWellFormed
    PROVE  Spec => []AskedInv
  <1>1. Init => AskedInv
    BY DEF Init, InitialLedger, AskedInv, ContractsAskedFor, LateRegistrations
  <1>2. ASSUME Inv, AskedInv, [Next]_vars
        PROVE  AskedInv'
    <2>1. ContractsAskedFor'
      BY <1>2, AddsAsked, AskedStays DEF AskedInv, ContractsAskedFor
    <2>2. LateRegistrations'
      BY <1>2, LateAsked, AskedStays DEF LateRegistrations
    <2>3. QED
      BY <2>1, <2>2 DEF AskedInv
  <1>3. Inv /\ AskedInv /\ [Next]_vars => AskedInv'
    BY <1>2
  <1>4. QED
    BY <1>1, <1>3, RelayInvariance, PTL DEF Spec

\* A contract with neither a receipt nor an agreement is the trace of another client,
\* or of a request under way or failed after its settings had passed.
THEOREM LeftoversExplained ==
    ASSUME RequestsWellFormed
    PROVE  Spec => []LeftoversAreExplained
  <1>1. Inv /\ AskedInv => LeftoversAreExplained
    <2> SUFFICES ASSUME Inv, AskedInv, NEW h \in DOMAIN ledger.contract \ LegacyContracts,
                        LeftOver(h), NEW r \in Request, AsksFor(r, h),
                        Answered(r), reply[r] # "failed"
                 PROVE  FALSE
      BY DEF LeftoversAreExplained, AskedInv, ContractsAskedFor, AskedFor, AsksFor
    <2>1. OnCourse(r, <<>>)
      BY DEF Answered, Inv, HandlersOnCourse, HandlerOnCourse
    <2>2. CASE SignsAlone(body[r])
      <3>1. ReceiptAt(body[r]) \in ledger.signature
        BY <2>1, <2>2, OneStep, TwoSteps, ThreeSteps, DoneCases DEF OnCourse, SigningAlone
      <3>2. ReceiptAt(body[r]).contract = h
        BY DEF ReceiptAt, AsksFor
      <3>3. QED
        BY <3>1, <3>2 DEF LeftOver
    <2>3. CASE Creates(body[r])
      <3>1. AgreementAt(body[r]) \in DOMAIN ledger.multisig
        BY <2>1, <2>3, OneStep, TwoSteps, ThreeSteps, FourSteps DEF OnCourse, Creating, AgreementExists
      <3>2. AgreementAt(body[r]).hash = h
        BY DEF AgreementAt, AsksFor
      <3>3. QED
        BY <3>1, <3>2 DEF LeftOver
    <2>4. QED
      BY <2>2, <2>3 DEF AsksFor
  <1>2. QED
    BY <1>1, RelayInvariance, AskedInvariance, PTL

-----------------------------------------------------------------------------
(* The relay and the SDK implement ThresholdAgreement. *)

\* A step that leaves agreements and members alone is invisible.
LEMMA Invisible ==
    ASSUME ledger'.multisig = ledger.multisig, ledger'.member = ledger.member
    PROVE  UNCHANGED Agreement!vars
  <1>1. Consented' = Consented
    BY DEF Consented, Proofs, Bodies, Consents, Consenting
  <1>2. QED
    BY <1>1, UntouchedViews DEF Agreement!vars

\* The abstract specification counts as this one does.
LEMMA SameCardinality ==
    ASSUME NEW S
    PROVE  Agreement!Cardinality(S) = Cardinality(S)
  BY Zenon DEF Agreement!Cardinality, Cardinality, Agreement!IsFiniteSet, IsFiniteSet

\* A co-signature counts a signer who had consented, in one step.
LEMMA SubmissionCounts ==
    ASSUME LedgerInv(ledger, Proofs), LedgerInv(ledger', Proofs),
           NEW b, WellFormed(b), b.proof \in Proofs, Sent("submit", b)
    PROVE  Agreement!Next
  <1> DEFINE a == AgreementAt(b)
             v == VerifyGroth16V2Writes(ledger, b.hash, b.key, b.sig)
             r == [contract |-> b.hash, key |-> b.key, sig |-> b.sig]
  <1>1. /\ a \in DOMAIN ledger.multisig
        /\ VerifyAndRecordAccepts(ledger, b.hash, b.proof, b.proof, b.key, b.sig, a)
        /\ ledger' = VerifyAndRecordWrites(ledger, b.hash, b.key, b.sig, a)
    BY Zenon DEF Sent, TxAccepts, TxWrites
  <1>2. /\ VerifyGroth16V2Accepts(ledger, b.hash, b.proof, b.proof, b.key, b.sig)
        /\ RecordVerifiedMultisigAccepts(v, b.hash, b.key, a, r)
        /\ ledger' = RecordVerifiedMultisigWrites(v, b.key, a)
    BY <1>1 DEF VerifyAndRecordAccepts, VerifyAndRecordWrites
  <1>3. LedgerTypeOK(ledger) /\ IsLedger(ledger)
    BY DEF LedgerInv, LedgerTypeOK
  <1>4. b.hash \in Hash
    BY <1>2, <1>3 DEF VerifyGroth16V2Accepts, LedgerTypeOK
  <1>5. LedgerInv(v, Proofs)
    BY <1>2, <1>4, VerifyPreserves DEF WellFormed
  <1>6. IsLedger(v) /\ v.multisig = ledger.multisig /\ v.member = ledger.member
    BY <1>3 DEF VerifyGroth16V2Writes, IsLedger
  <1>7. /\ DOMAIN v.multisig = DOMAIN ledger.multisig
        /\ SignersOf(v) = SignersOf(ledger) /\ FinalAgreements(v) = FinalAgreements(ledger)
    BY <1>6, UntouchedViews
  <1>8. b.key \in Key
    BY DEF WellFormed
  <1>9. PICK x, y, w, n, h, k : x = a /\ y = r /\ w = v /\ n = ledger' /\ h = b.hash /\ k = b.key
    OBVIOUS
  <1> HIDE DEF a, v, r
  <1>10. /\ x \in DOMAIN w.multisig /\ IsLedger(w) /\ h \in Hash /\ k \in Key
         /\ LedgerInv(w, Proofs) /\ LedgerInv(n, Proofs)
         /\ RecordVerifiedMultisigAccepts(w, h, k, x, y)
         /\ n = RecordVerifiedMultisigWrites(w, k, x)
    BY <1>1, <1>2, <1>4, <1>5, <1>6, <1>8, <1>9
  <1>11. /\ x \in Address /\ x \in DOMAIN w.multisig \ FinalAgreements(w)
         /\ <<x.hash, k>> \in Consents(Proofs) /\ k \notin SignersOf(w)[x]
         /\ DOMAIN n.multisig = DOMAIN w.multisig
         /\ SignersOf(n) = [SignersOf(w) EXCEPT ![x] = @ \cup {k}]
         /\ FinalAgreements(n) =
                IF Cardinality(SignersOf(n)[x]) >= x.threshold
                THEN FinalAgreements(w) \cup {x} ELSE FinalAgreements(w)
    BY <1>10, RecordViews
  <1>12. /\ x \in Address /\ x \in DOMAIN ledger.multisig \ FinalAgreements(ledger)
         /\ <<x.hash, b.key>> \in Consents(Proofs) /\ b.key \notin SignersOf(ledger)[x]
         /\ DOMAIN ledger'.multisig = DOMAIN ledger.multisig
         /\ SignersOf(ledger') = [SignersOf(ledger) EXCEPT ![x] = @ \cup {b.key}]
         /\ FinalAgreements(ledger') =
                IF Cardinality(SignersOf(ledger')[x]) >= x.threshold
                THEN FinalAgreements(ledger) \cup {x} ELSE FinalAgreements(ledger)
    BY <1>7, <1>9, <1>11
  <1>13. FinalAgreements(ledger') =
             IF Agreement!Cardinality(SignersOf(ledger')[x]) >= x.threshold
             THEN FinalAgreements(ledger) \cup {x} ELSE FinalAgreements(ledger)
    BY <1>12, SameCardinality
  <1>14. Consented' = Consented /\ Consented = Consents(Proofs)
    BY DEF Consented, Proofs, Bodies, Consents, Consenting
  <1>15. Agreement!Count(x, b.key)
    BY <1>12, <1>13, <1>14 DEF Agreement!Count
  <1>16. QED
    BY <1>8, <1>12, <1>15 DEF Agreement!Next

\* Every transaction that lands is a step of an agreement, or invisible.
LEMMA TransactionsImplement ==
    ASSUME LedgerInv(ledger, Proofs), LedgerInv(ledger', Proofs),
           NEW kind \in Kind, NEW b, WellFormed(b), b.proof \in Proofs, Sent(kind, b)
    PROVE  Agreement!Next \/ UNCHANGED Agreement!vars
  <1>0. /\ TxAccepts(ledger, kind, b) /\ ledger' = TxWrites(ledger, kind, b)
        /\ LedgerTypeOK(ledger) /\ IsLedger(ledger)
    BY DEF Sent, LedgerInv, LedgerTypeOK
  <1>1. CASE kind = "initialize"
    <2>1. ledger' = InitializeWrites(ledger)
      BY <1>0, <1>1, TxCases
    <2>2. ledger'.multisig = ledger.multisig /\ ledger'.member = ledger.member
      BY <1>0, <2>1, InitializeFields
    <2>3. QED
      BY <2>2, Invisible
  <1>2. CASE kind = "register"
    <2>1. ledger' = RegisterContractWrites(ledger, b.hash)
      BY <1>0, <1>2, TxCases
    <2>2. ledger'.multisig = ledger.multisig /\ ledger'.member = ledger.member
      BY <1>0, <2>1, RegisterFields
    <2>3. QED
      BY <2>2, Invisible
  <1>3. CASE kind = "create"
    <2>1. PICK a : a = AgreementAt(b)
      OBVIOUS
    <2>2. CreateMultisigAccepts(ledger, a) /\ ledger' = CreateMultisigWrites(ledger, a)
      BY <1>0, <1>3, <2>1, TxCases
    <2>3. a \in Address
      BY <1>0, <2>1, <2>2 DEF CreateMultisigAccepts, LedgerTypeOK, AgreementAt, Address, WellFormed
    <2>4. Consented' = Consented
      BY DEF Consented, Proofs, Bodies, Consents, Consenting
    <2>5. Agreement!Open(a)
      BY <1>0, <2>2, <2>3, <2>4, CreateViews DEF Agreement!Open
    <2>6. QED
      BY <2>3, <2>5 DEF Agreement!Next
  <1>4. CASE kind = "verify"
    <2>1. ledger' = VerifyGroth16V2Writes(ledger, b.hash, b.key, b.sig)
      BY <1>0, <1>4, TxCases
    <2>2. ledger'.multisig = ledger.multisig /\ ledger'.member = ledger.member
      BY <1>0, <2>1 DEF VerifyGroth16V2Writes, IsLedger
    <2>3. QED
      BY <2>2, Invisible
  <1>5. CASE kind = "submit"
    BY <1>5, SubmissionCounts
  <1>6. CASE kind = "finalize"
    BY <1>0, <1>6, TxCases, NothingToFinalize
  <1>7. QED
    BY <1>1, <1>2, <1>3, <1>4, <1>5, <1>6 DEF Kind

\* Whatever is sent, lost, retried and late, every behaviour of the relay, the
\* SDK and other clients is one of the abstract agreement.
THEOREM RelayImplementsAgreement ==
    ASSUME RequestsWellFormed
    PROVE  Spec => ImplementsAgreement
  <1>1. Init => Agreement!Init
    <2> SUFFICES ASSUME Init PROVE Agreement!Init
      OBVIOUS
    <2>1. Consented \subseteq {<<a.hash, k>> : a \in Address, k \in Key}
      <3>1. ASSUME NEW h \in Hash, NEW k \in Key
            PROVE  <<h, k>> \in {<<a.hash, j>> : a \in Address, j \in Key}
        <4>1. [hash |-> h, threshold |-> 0, maxSigners |-> 0] \in Address
          BY LedgerAssumption DEF Address, U8
        <4>2. QED
          BY <4>1
      <3>2. \A c \in Consented : c = <<c[1], c[2]>> /\ c[1] \in Hash /\ c[2] \in Key
        BY DEF Consented, Consents
      <3>3. QED
        BY <3>1, <3>2
    <2>2. /\ DOMAIN ledger.multisig = {} /\ FinalAgreements(ledger) = {}
          /\ SignersOf(ledger) = [a \in Address |-> {}]
      BY DEF Init, InitialLedger, SignersOf, FinalAgreements
    <2>3. QED
      BY <2>1, <2>2 DEF Agreement!Init
  <1>2. ASSUME Inv, Inv', [Next]_vars
        PROVE  Agreement!Next \/ UNCHANGED Agreement!vars
    <2>1. LedgerInv(ledger, Proofs) /\ LedgerInv(ledger', Proofs)
      <3>1. Proofs' = Proofs
        BY DEF Proofs, Bodies
      <3>2. QED
        BY <1>2, <3>1 DEF Inv, RInv
    <2>2. CASE ledger' = ledger
      BY <2>2, Invisible
    <2>3. ASSUME NEW kind \in Kind, NEW b \in Bodies, Sent(kind, b)
          PROVE  Agreement!Next \/ UNCHANGED Agreement!vars
      <3>1. WellFormed(b) /\ b.proof \in Proofs
        BY DEF RequestsWellFormed, Proofs
      <3>2. QED
        BY <2>1, <2>3, <3>1, TransactionsImplement
    <2>4. QED
      BY <1>2, <2>2, <2>3, LedgerMoves
  <1>3. Inv /\ Inv' /\ [Next]_vars => [Agreement!Next]_(Agreement!vars)
    BY <1>2
  <1>4. QED
    BY <1>1, <1>3, RelayInvariance, PTL DEF Spec, ImplementsAgreement, Agreement!Spec
=============================================================================
