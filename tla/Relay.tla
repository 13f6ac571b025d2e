------------------------------- MODULE Relay --------------------------------
(* The clients of the program that read accounts and send transactions: the *)
(* routes of relay/server.js and the calls of the SDK (sdk/index.js), each  *)
(* an async function, concurrent with the others and with clients that use  *)
(* the program directly.  Transactions have the effect ObliviaLedger gives  *)
(* their instructions.  A request here has passed the rate limit, the       *)
(* budget and the parsers.                                                  *)
EXTENDS ObliviaLedger, Sequences

CONSTANTS
    Request,    \* requests and calls; a retry is another one with the same body
    Body,       \* what each may ask: route, hash, key, sig, proof, threshold, maxSigners
    Outside,    \* transactions other clients may send, [kind, body]
    Flaky       \* requests whose reads may fail and whose confirmations may be lost, with
                \* the transaction landing or not

VARIABLES
    ledger,
    body,       \* the body of each request
    todo,       \* the steps its handler has left, the one it awaits first
    reply,      \* the answer being prepared: "ok", "exists", "finalized", "absent",
                \* "statusUnavailable" or "failed"
    late,       \* transactions whose handler has stopped waiting for them
    landed,     \* transactions that have landed for a handler
    wasFinal,   \* history: requests whose agreement was final when they arrived
    early       \* history: requests that arrived before the program was initialized

handlers == <<body, wasFinal, early>>
vars == <<ledger, handlers, todo, reply, late, landed>>

NoBody == [route |-> "none"]

\* What a handler does, one await after the other.  Reading an account that
\* exists saves the step that creates it.
Steps(route) ==
    CASE route \in {"/sign", "signContract"} -> <<"readContract", "register", "verify">>
      [] route = "/multisig/create" -> <<"readContract", "readMultisig", "register", "create">>
      [] route = "createMultiSigContract" -> <<"readContract", "register", "readMultisig", "create">>
      [] route = "/multisig/sign" -> <<"submit", "readStatus">>
      [] route = "signMultiSig" -> <<"submit">>
      [] route = "/multisig/status" -> <<"readMultisig">>
      [] route = "finalizeMultiSigContract" -> <<"readMultisig", "finalize">>
      [] route = "initializeRegistry" -> <<"initialize">>

Sponsored(b) == b.route \in {"/sign", "/multisig/create", "/multisig/sign"}
SignsAlone(b) == b.route \in {"/sign", "signContract"}
CoSigns(b) == b.route \in {"/multisig/sign", "signMultiSig"}
Creates(b) == b.route \in {"/multisig/create", "createMultiSigContract"}
AsksStatus(b) == b.route = "/multisig/status"
Finalizes(b) == b.route = "finalizeMultiSigContract"

\* validateMultisigConfig, before any account is read or paid for.
InvalidSettings(b) ==
    /\ Creates(b) \/ CoSigns(b) \/ AsksStatus(b) \/ Finalizes(b)
    /\ b.threshold \notin 1..b.maxSigners

Init ==
    /\ ledger = InitialLedger
    /\ body = [r \in Request |-> NoBody]
    /\ todo = [r \in Request |-> <<>>]
    /\ reply = [r \in Request |-> "ok"]
    /\ late = {} /\ landed = {} /\ wasFinal = {} /\ early = {}

\* multisigSeeds: the settings are part of the address.
AgreementAt(b) == [hash |-> b.hash, threshold |-> b.threshold, maxSigners |-> b.maxSigners]
ReceiptAt(b) == [contract |-> b.hash, key |-> b.key, sig |-> b.sig]

ContractExists(b) == b.hash \in DOMAIN ledger.contract
AgreementExists(b) == AgreementAt(b) \in DOMAIN ledger.multisig
AgreementFinal(b) == AgreementExists(b) /\ ledger.multisig[AgreementAt(b)].finalized

\* The transactions the handlers send.
Kind == {"initialize", "register", "verify", "create", "submit", "finalize"}

TxAccepts(l, kind, b) ==
    CASE kind = "initialize" -> InitializeAccepts(l)
      [] kind = "register" -> RegisterContractAccepts(l, b.hash)
      [] kind = "create" -> CreateMultisigAccepts(l, AgreementAt(b))
      [] kind = "verify" -> VerifyGroth16V2Accepts(l, b.hash, b.proof, b.proof, b.key, b.sig)
      [] kind = "submit" ->
            AgreementAt(b) \in DOMAIN l.multisig
            /\ VerifyAndRecordAccepts(l, b.hash, b.proof, b.proof, b.key, b.sig, AgreementAt(b))
      [] kind = "finalize" -> FinalizeMultisigAccepts(l, AgreementAt(b), b.hash)

\* Mutant: co-signing as two transactions, of which the second may not land.
TxWrites_Separate(l, kind, b) ==
    CASE kind = "initialize" -> InitializeWrites(l)
      [] kind = "register" -> RegisterContractWrites(l, b.hash)
      [] kind = "create" -> CreateMultisigWrites(l, AgreementAt(b))
      [] kind \in {"verify", "submit"} -> VerifyGroth16V2Writes(l, b.hash, b.key, b.sig)
      [] kind = "finalize" -> FinalizeMultisigWrites(l, AgreementAt(b))

TxWrites(l, kind, b) ==
    CASE kind = "initialize" -> InitializeWrites(l)
      [] kind = "register" -> RegisterContractWrites(l, b.hash)
      [] kind = "create" -> CreateMultisigWrites(l, AgreementAt(b))
      [] kind = "verify" -> VerifyGroth16V2Writes(l, b.hash, b.key, b.sig)
      [] kind = "submit" -> VerifyAndRecordWrites(l, b.hash, b.key, b.sig, AgreementAt(b))
      [] kind = "finalize" -> FinalizeMultisigWrites(l, AgreementAt(b))

\* Two transactions of one payer with the same instructions are one and the
\* same if they were signed with the same recent blockhash.
SameTx(t, kind, b) ==
    /\ t.kind = kind /\ Sponsored(t.body) = Sponsored(b)
    /\ CASE kind = "initialize" -> TRUE
         [] kind = "register" -> t.body.hash = b.hash
         [] kind \in {"create", "finalize"} -> AgreementAt(t.body) = AgreementAt(b)
         [] OTHER -> [t.body EXCEPT !.route = b.route] = b

-----------------------------------------------------------------------------

At(r, steps) == todo[r] # <<>> /\ Head(todo[r]) \in steps
Rest(r) == Tail(todo[r])
Instead(r, step) == [todo[r] EXCEPT ![1] = step]

\* The steps without this one, which is among them.
Without(steps, step) ==
    LET at == CHOOSE i \in 1..Len(steps) : steps[i] = step
    IN  [i \in 1..(Len(steps) - 1) |-> steps[IF i < at THEN i ELSE i + 1]]

Answered(r) == body[r] # NoBody /\ todo[r] = <<>>

\* The handler goes on with these steps; with none it answers.
Continue(r, steps, answer) ==
    todo' = [todo EXCEPT ![r] = steps] /\ reply' = [reply EXCEPT ![r] = answer]
Fail(r) == Continue(r, <<>>, "failed")

\* Mutant: the settings are left for the program to refuse.
Arrive_Unvalidated(r, b) ==
    /\ body[r] = NoBody
    /\ body' = [body EXCEPT ![r] = b]
    /\ wasFinal' = IF AgreementFinal(b) THEN wasFinal \cup {r} ELSE wasFinal
    /\ early' = IF ledger.initialized THEN early ELSE early \cup {r}
    /\ Continue(r, Steps(b.route), "ok")
    /\ UNCHANGED <<ledger, late, landed>>

Arrive(r, b) ==
    /\ body[r] = NoBody
    /\ body' = [body EXCEPT ![r] = b]
    /\ wasFinal' = IF AgreementFinal(b) THEN wasFinal \cup {r} ELSE wasFinal
    /\ early' = IF ledger.initialized THEN early ELSE early \cup {r}
    /\ IF InvalidSettings(b) THEN Fail(r) ELSE Continue(r, Steps(b.route), "ok")
    /\ UNCHANGED <<ledger, late, landed>>

\* Mutants: a failed initialization is final; a failed creation is taken for
\* an existing agreement; a failed initialization is tried again.
OnFailure_NoReread(r) == Fail(r)
OnFailure_AssumeExists(r) ==
    IF At(r, {"create"}) THEN Continue(r, Rest(r), "exists")
    ELSE IF At(r, {"register"}) THEN Continue(r, Instead(r, "rereadContract"), reply[r]) ELSE Fail(r)
OnFailure_Retry(r) ==
    IF At(r, {"register", "create"}) THEN UNCHANGED <<todo, reply>> ELSE Fail(r)

\* initializeOrReadExisting reads the account again; signing just fails.
OnFailure(r) ==
    CASE At(r, {"register"}) -> Continue(r, Instead(r, "rereadContract"), reply[r])
      [] At(r, {"create"}) -> Continue(r, Instead(r, "rereadMultisig"), reply[r])
      [] OTHER -> Fail(r)

OnSuccess(r) == Continue(r, Rest(r), IF At(r, {"finalize"}) THEN "finalized" ELSE reply[r])

ReadContract(r) ==
    /\ At(r, {"readContract"})
    /\ Continue(r, IF ContractExists(body[r]) THEN Without(Rest(r), "register") ELSE Rest(r), reply[r])
    /\ UNCHANGED <<ledger, handlers, late, landed>>

\* The read before an agreement is created or finalized, or of its status.
ReadMultisig(r) ==
    /\ At(r, {"readMultisig"})
    /\ \/ /\ Creates(body[r]) /\ AgreementExists(body[r])
          /\ Continue(r, Without(Rest(r), "create"), "exists")
       \/ /\ Creates(body[r]) /\ ~AgreementExists(body[r])
          /\ Continue(r, Rest(r), reply[r])
       \/ /\ AsksStatus(body[r])
          /\ Continue(r, <<>>, IF ~AgreementExists(body[r]) THEN "absent"
                               ELSE IF AgreementFinal(body[r]) THEN "finalized" ELSE "ok")
       \/ /\ Finalizes(body[r])
          /\ IF ~AgreementExists(body[r]) THEN Fail(r)
             ELSE IF AgreementFinal(body[r]) THEN Continue(r, <<>>, "finalized")
             ELSE Continue(r, Rest(r), reply[r])
    /\ UNCHANGED <<ledger, handlers, late, landed>>

\* The read after a failed initialization.
Reread(r) ==
    /\ \/ /\ At(r, {"rereadContract"})
          /\ IF ContractExists(body[r]) THEN Continue(r, Rest(r), reply[r]) ELSE Fail(r)
       \/ /\ At(r, {"rereadMultisig"})
          /\ IF AgreementExists(body[r]) THEN Continue(r, Rest(r), "exists") ELSE Fail(r)
    /\ UNCHANGED <<ledger, handlers, late, landed>>

ReadFails(r) ==
    /\ r \in Flaky
    /\ At(r, {"readContract", "readMultisig", "rereadContract", "rereadMultisig"})
    /\ Fail(r)
    /\ UNCHANGED <<ledger, handlers, late, landed>>

\* The transaction the handler awaits is confirmed or refused; one that has
\* already landed from another request is confirmed, too.
Land(r) ==
    /\ At(r, Kind)
    /\ LET kind == Head(todo[r]) IN
       \/ /\ TxAccepts(ledger, kind, body[r])
          /\ ledger' = TxWrites(ledger, kind, body[r])
          /\ landed' = landed \cup {[kind |-> kind, body |-> body[r]]}
          /\ OnSuccess(r)
       \/ /\ ~TxAccepts(ledger, kind, body[r])
          /\ OnFailure(r)
          /\ UNCHANGED <<ledger, landed>>
       \/ /\ \E t \in landed : SameTx(t, kind, body[r])
          /\ OnSuccess(r)
          /\ UNCHANGED <<ledger, landed>>
    /\ UNCHANGED <<handlers, late>>

\* The handler sees an error while the transaction may have landed or land yet.
Lose(r) ==
    /\ r \in Flaky /\ At(r, Kind)
    /\ late' = late \cup {[kind |-> Head(todo[r]), body |-> body[r]]}
    /\ OnFailure(r)
    /\ UNCHANGED <<ledger, handlers, landed>>

\* The state read after /multisig/sign is confirmed.
ReadStatus(r) ==
    /\ At(r, {"readStatus"})
    /\ \/ Continue(r, Rest(r), IF AgreementFinal(body[r]) THEN "finalized" ELSE "ok")
       \/ r \in Flaky /\ Continue(r, Rest(r), "statusUnavailable")
    /\ UNCHANGED <<ledger, handlers, late, landed>>

\* A transaction nobody waits for lands, or is refused or expires.
LateLand(t) ==
    /\ late' = late \ {t}
    /\ \/ /\ TxAccepts(ledger, t.kind, t.body)
          /\ ledger' = TxWrites(ledger, t.kind, t.body)
          /\ landed' = landed \cup {t}
       \/ UNCHANGED <<ledger, landed>>
    /\ UNCHANGED <<handlers, todo, reply>>

\* A transaction of another client lands.
Outsider(t) ==
    /\ TxAccepts(ledger, t.kind, t.body)
    /\ ledger' = TxWrites(ledger, t.kind, t.body)
    /\ UNCHANGED <<handlers, todo, reply, late, landed>>

\* A handler's next step.
Step(r) ==
    \/ ReadContract(r) \/ ReadMultisig(r) \/ Reread(r) \/ ReadFails(r)
    \/ Land(r) \/ Lose(r) \/ ReadStatus(r)

Next ==
    \/ \E r \in Request : Step(r) \/ \E b \in Body[r] : Arrive(r, b)
    \/ \E t \in late : LateLand(t)
    \/ \E t \in Outside : Outsider(t)

Spec == Init /\ [][Next]_vars

\* Solana answers every request, be it with an error.
FairSpec == Spec /\ \A r \in Request : WF_vars(Step(r))

-----------------------------------------------------------------------------
(* Properties *)

\* A success answer is true of the chain: the receipt is there, the agreement
\* exists with the settings asked for, the signer is counted, and an agreement
\* reported as finalized is.
SuccessIsOnChain ==
    \A r \in Request : Answered(r) /\ reply[r] \notin {"failed", "absent"} =>
        LET b == body[r] IN
        /\ SignsAlone(b) \/ CoSigns(b) => ReceiptAt(b) \in ledger.signature
        /\ CoSigns(b) => [multisig |-> AgreementAt(b), key |-> b.key] \in ledger.member
        /\ Creates(b) \/ AsksStatus(b) =>
              AgreementExists(b) /\ AgreementSound(AgreementAt(b), ledger.multisig[AgreementAt(b)])
        /\ reply[r] = "finalized" \/ Finalizes(b) => AgreementFinal(b)

\* Somebody asked to sign contract h with key k, but in no agreement.
SignedSingly(h, k) ==
    \/ \E r \in Request : SignsAlone(body[r]) /\ body[r].hash = h /\ body[r].key = k
    \/ \E t \in Outside : t.kind = "verify" /\ t.body.hash = h /\ t.body.key = k

\* Co-signing verifies and counts atomically: a receipt nobody asked for
\* singly is counted by some agreement, even when the confirmation was lost,
\* so no signer is locked out of the agreement by a half-done attempt.
SignedIsCounted ==
    \A s \in ledger.signature :
        SignedSingly(s.contract, s.key)
        \/ \E m \in ledger.member : m.multisig.hash = s.contract /\ m.key = s.key

\* Registered, but neither signed nor with an agreement.
LeftOver(h) ==
    /\ \A s \in ledger.signature : s.contract # h
    /\ \A a \in DOMAIN ledger.multisig : a.hash # h

\* /sign, /multisig/create and their calls pay for a contract in a transaction of
\* its own.  A contract nobody uses is left only by one of them that is under way,
\* or that failed with its settings valid: never by one that reported success, nor
\* by one refused for its settings, which is refused before anything is paid.
LeftoversAreExplained ==
    \A h \in DOMAIN ledger.contract \ LegacyContracts : LeftOver(h) =>
        \/ \E t \in Outside : t.kind = "register" /\ t.body.hash = h
        \/ \E r \in Request :
              /\ SignsAlone(body[r]) \/ Creates(body[r])
              /\ body[r].hash = h /\ ~InvalidSettings(body[r])
              /\ Answered(r) => reply[r] = "failed"

\* What can be wrong with a request whose reads succeed.  Finalizing may fail
\* for an agreement that became final only after the call began, and nothing
\* can be registered before the program is initialized.
Unacceptable(r, b) ==
    \/ (SignsAlone(b) \/ Creates(b)) /\ r \in early
    \/ Creates(b) /\ b.hash = ZeroDigest
    \/ InvalidSettings(b)
    \/ /\ SignsAlone(b) \/ CoSigns(b)
       /\ \/ ~ProofAccepted(b.hash, b.proof, b.proof, b.key, b.sig)
          \/ [contract |-> b.hash, key |-> b.key] \in ledger.signerRecord
    \/ CoSigns(b) /\ (~AgreementExists(b) \/ AgreementFinal(b))
    \/ Finalizes(b) /\ r \notin wasFinal
    \/ b.route = "initializeRegistry" /\ ledger.initialized

\* Losing an initialization race to any other request or client never fails a
\* request (initializeOrReadExisting): if the RPC node answers this request,
\* whatever happens to others, it fails only for what the program must refuse.
FailuresAreJustified ==
    [][\A r \in Request \ Flaky : reply[r] # reply'[r] /\ reply'[r] = "failed" =>
          Unacceptable(r, body'[r])]_vars

\* The proofs signers have made for what is asked.
Bodies == (UNION {Body[r] : r \in Request}) \cup {t.body : t \in Outside}
Proofs == {b.proof : b \in Bodies}
Consented == Consents(Proofs)

Agreement == INSTANCE ThresholdAgreement WITH
    Agreement <- Address, Signer <- Key,
    consent <- Consented,
    open <- DOMAIN ledger.multisig,
    signers <- SignersOf(ledger),
    final <- FinalAgreements(ledger)

\* Whatever the relay, the SDK and other clients send, retry or send late is a
\* step of some agreement, or invisible to it: a lost confirmation never counts
\* a signer twice, nor finalizes early.
ImplementsAgreement == Agreement!Spec

\* Every request is answered.
RequestsAnswered == \A r \in Request : body[r] # NoBody ~> Answered(r)

\* docs/reference/relay-api.md of /sign: "An invalid proof, a proof for another
\* contract, or a key that already signed this contract fails with 502 and
\* records nothing."
FailedSignRecordsNothing ==
    (\A r \in Request : body[r].route = "/sign" /\ reply[r] = "failed") => ledger = InitialLedger
=============================================================================
