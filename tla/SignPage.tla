------------------------------ MODULE SignPage ------------------------------
(* The signing page, browser-client/src/main.js: the text in the editor, the *)
(* unlocked passkey and the receipts of this session change independently   *)
(* of each other while prompts, proofs and submissions are awaited, and the *)
(* page is reloaded, perhaps at another host.                                *)
EXTENDS Integers, Passkeys

CONSTANTS
    NoText,     \* the empty editor
    MaxLoads    \* bound of the instance: reloads of the page

ASSUME PageAssumption == NoText \notin Text /\ MaxLoads \in Nat

\* A receipt by what was signed and whose key signed it.
Receipt == [text : Text, signer : Signer]
NoReceipt == [text |-> NoText, signer |-> NoSigner]

VARIABLES
    recorded,   \* receipts on chain
    loads,
    post,       \* the submission: "none", "sent", "landed", "answered" or "failed"
    told,       \* history: the signatures the relay has confirmed to this page load
    text,       \* what the editor holds
    pc,         \* what is awaited: "idle", "creating", "unlocking", "proving",
                \* "posting"
    signer,     \* the unlocked passkey: signerSecret, signerUnlocked
    job,        \* what signContract is signing
    current,    \* confirmedSignerReceipt
    receipts,   \* confirmedReceipts
    enabled,    \* signBtn can be clicked
    shown       \* the result box: [visible, contract, verdict]

chain == <<recorded, post, told>>
page == <<text, pc, signer, job, current, receipts, enabled, shown>>
vars == <<chain, loads, page, keychain>>

Blank == [visible |-> FALSE, contract |-> NoText, verdict |-> "PENDING"]

Init ==
    /\ host \in Host /\ passkeys = {}
    /\ recorded = {} /\ loads = 0 /\ post = "none" /\ told = {}
    /\ text = NoText /\ pc = "idle" /\ signer = NoSigner /\ job = NoReceipt
    /\ current = NoReceipt /\ receipts = {} /\ enabled = FALSE /\ shown = Blank

\* Receipts are session-only: a reload forgets all but the chain and the
\* keychain.
Reload(h) ==
    /\ loads < MaxLoads
    /\ host' = h
    /\ loads' = loads + 1 /\ post' = "none" /\ told' = {}
    /\ text' = NoText /\ pc' = "idle" /\ signer' = NoSigner /\ job' = NoReceipt
    /\ current' = NoReceipt /\ receipts' = {} /\ enabled' = FALSE /\ shown' = Blank
    /\ UNCHANGED <<recorded, passkeys>>

-----------------------------------------------------------------------------
(* The chain and the relay *)

\* Another session of this user, or a submission nobody waits for any more.
Record(r) ==
    /\ r \notin recorded
    /\ recorded' = recorded \cup {r}
    /\ UNCHANGED <<loads, post, told, page, keychain>>

LandPost ==
    /\ post = "sent" /\ job \notin recorded
    /\ recorded' = recorded \cup {job} /\ post' = "landed"
    /\ UNCHANGED <<told, loads, page, keychain>>

AnswerPost ==
    /\ post = "landed" /\ post' = "answered"
    /\ told' = told \cup {job}
    /\ UNCHANGED <<recorded, loads, page, keychain>>

\* The submission is refused, or its answer is lost.
FailPost ==
    /\ post \in {"sent", "landed"} /\ post' = "failed"
    /\ UNCHANGED <<recorded, told, loads, page, keychain>>

-----------------------------------------------------------------------------
(* The page *)

\* Mutants: a failed submission leaves a receipt; the edited text keeps the
\* verdict; the former passkey's receipt survives an unlock; an error of fetch
\* is not caught.
Confirmed_Always == TRUE
Closing_Unchecked(verdict) == verdict
ReceiptAtUnlock_Kept == current
PostFails_Uncaught == FALSE /\ UNCHANGED vars

ShownReceipt(r) == [visible |-> TRUE, contract |-> r.text, verdict |-> "TRUE"]

\* The button for the text t when r is confirmedSignerReceipt.
Signable(r, t) == r = NoReceipt \/ r.text # t

\* The input handler; the editor is disabled while signing.
Edit(t) ==
    /\ pc \in {"idle", "creating", "unlocking"}
    /\ text' = t
    /\ enabled' = (Signable(current, t) /\ signer # NoSigner /\ pc = "idle")
    /\ shown' = IF current # NoReceipt /\ current.text = t THEN ShownReceipt(current)
                ELSE [shown EXCEPT !.visible = FALSE, !.verdict = "PENDING"]
    /\ UNCHANGED <<chain, loads, keychain, pc, signer, job, current, receipts>>

\* The disabled editor is changed by something else, form restoration or an
\* extension: the input handler ignores it.
Overwrite(t) ==
    /\ pc \in {"proving", "posting"}
    /\ text' = t
    /\ UNCHANGED <<chain, loads, keychain, pc, signer, job, current, receipts, enabled, shown>>

\* Another passkey may be chosen, with another key.
ReceiptAtUnlock == NoReceipt

\* unlockSigner up to its first await; on a host that is not the passkey
\* domain it ends there.
Unlock(create) ==
    /\ pc = "idle"
    /\ signer' = NoSigner /\ enabled' = FALSE /\ current' = ReceiptAtUnlock
    /\ pc' = IF ~DomainAllowed(host) THEN "idle" ELSE IF create THEN "creating" ELSE "unlocking"
    /\ UNCHANGED <<chain, loads, keychain, text, job, receipts, shown>>

Created(k) ==
    /\ pc = "creating"
    /\ MakePasskey(k)
    /\ pc' = "unlocking"
    /\ UNCHANGED <<chain, loads, host, text, signer, job, current, receipts, enabled, shown>>

\* The user chooses any of the passkeys offered.
Unlocked(k) ==
    /\ pc = "unlocking" /\ k \in Offered(host)
    /\ pc' = "idle" /\ signer' = k /\ enabled' = TRUE
    /\ UNCHANGED <<chain, loads, keychain, text, job, current, receipts, shown>>

UnlockFails ==
    /\ pc \in {"creating", "unlocking"}
    /\ pc' = "idle" /\ signer' = NoSigner
    /\ UNCHANGED <<chain, loads, keychain, text, job, current, receipts, enabled, shown>>

\* signContract up to the proof; the key is derived before the first await.
Sign ==
    /\ pc = "idle" /\ enabled
    /\ text # NoText /\ signer # NoSigner
    /\ IF Signable(current, text)
       THEN /\ pc' = "proving" /\ job' = SignerKey(signer, text)
            /\ shown' = [visible |-> FALSE, contract |-> text, verdict |-> "PENDING"]
       ELSE /\ shown' = ShownReceipt(current)
            /\ UNCHANGED <<pc, job>>
    /\ enabled' = FALSE
    /\ UNCHANGED <<chain, loads, keychain, text, signer, current, receipts>>

\* The finally block's verdict on text that was edited meanwhile.
Closing(verdict) == IF text # job.text THEN "TEXT CHANGED" ELSE verdict

\* The finally block, when r is confirmedSignerReceipt.
Finish(verdict, r) ==
    /\ pc' = "idle" /\ job' = NoReceipt /\ current' = r
    /\ shown' = [visible |-> TRUE, contract |-> job.text, verdict |-> Closing(verdict)]
    /\ enabled' = Signable(r, text)

ProofFails ==
    /\ pc = "proving"
    /\ Finish("FALSE", current)
    /\ UNCHANGED <<chain, loads, keychain, text, signer, receipts>>

Known == job \in receipts

\* The key commitment is known only now: an earlier receipt of this key and
\* text is shown again.
Recognised ==
    /\ pc = "proving" /\ Known
    /\ Finish("TRUE", job)
    /\ UNCHANGED <<chain, loads, keychain, text, signer, receipts>>

Submit ==
    /\ pc = "proving" /\ ~Known
    /\ pc' = "posting" /\ post' = "sent"
    /\ UNCHANGED <<recorded, told, loads, keychain, text, signer, job, current, receipts, enabled, shown>>

\* A response is a receipt only if it succeeded and names a transaction.
Confirmed == post = "answered"

PostFails ==
    /\ pc = "posting" /\ post = "failed" /\ ~Confirmed
    /\ post' = "none"
    /\ Finish("UNCONFIRMED", current)
    /\ UNCHANGED <<recorded, told, loads, keychain, text, signer, receipts>>

\* Mutant: the receipt of a text that was edited meanwhile is not kept.
PostConfirmed_Unedited ==
    /\ pc = "posting" /\ post \in {"answered", "failed"} /\ Confirmed
    /\ post' = "none"
    /\ receipts' = IF text = job.text THEN receipts \cup {job} ELSE receipts
    /\ Finish("TRUE", job)
    /\ UNCHANGED <<recorded, told, loads, keychain, text, signer>>

PostConfirmed ==
    /\ pc = "posting" /\ post \in {"answered", "failed"} /\ Confirmed
    /\ post' = "none"
    /\ receipts' = receipts \cup {job}
    /\ Finish("TRUE", job)
    /\ UNCHANGED <<recorded, told, loads, keychain, text, signer>>

Relay == LandPost \/ AnswerPost \/ FailPost
Prompt == UnlockFails \/ \E k \in Signer : Created(k) \/ Unlocked(k)
Prover == ProofFails \/ Recognised \/ Submit
PostArrives == PostFails \/ PostConfirmed

Next ==
    \/ \E h \in Host : Reload(h)
    \/ \E r \in Receipt : Record(r)
    \/ Relay
    \/ \E t \in Text \cup {NoText} : Edit(t)
    \/ \E t \in Text \cup {NoText} : Overwrite(t)
    \/ \E create \in BOOLEAN : Unlock(create)
    \/ Prompt \/ Sign \/ Prover \/ PostArrives

Spec == Init /\ [][Next]_vars

\* Prompts time out, the prover ends, and fetch returns or throws.
FairSpec ==
    Spec /\ WF_vars(AnswerPost \/ FailPost) /\ WF_vars(Prompt) /\ WF_vars(Prover) /\ WF_vars(PostArrives)

-----------------------------------------------------------------------------
(* Properties *)

\* A result TRUE is on chain, whatever failed, was answered late or edited.
ShownReceiptIsReal ==
    /\ shown.visible /\ shown.verdict = "TRUE" => \E r \in recorded : r.text = shown.contract
    /\ receipts \cup {current} \subseteq recorded \cup {NoReceipt}

\* The result box is about the text in the editor, or says that it is not
\* ("This result belongs to the submitted agreement below, not the edited text").
ResultMatchesText ==
    shown.visible => shown.contract = text \/ shown.verdict = "TEXT CHANGED"

\* The receipt that disables the button is one by the unlocked passkey's key
\* ("A different passkey derives a different key").
ReceiptIsOfThisSigner == current # NoReceipt => current.signer = signer

\* What the relay has confirmed to this page is neither submitted nor called
\* unconfirmed again, whatever was edited before the answer arrived and whichever
\* texts and passkeys were used since ("keeping the confirmed receipt").
ConfirmedStaysConfirmed ==
    [][ \/ post = "none" /\ post' = "sent"
        \/ shown' # shown /\ shown'.verdict = "UNCONFIRMED"
        => job \notin told ]_vars

\* Unlocking and signing end, and the page can be used again.
SigningEnds == pc # "idle" ~> pc = "idle"
=============================================================================
