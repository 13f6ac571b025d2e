---------------------------- MODULE MultisigPage ----------------------------
(* The multisig page, browser-client/src/multisig.js: without an agreement  *)
(* in its address it creates one (CreateMode), with one it signs.  In sign  *)
(* mode its status lookup, passkey prompts, proof and submission complete   *)
(* in any order, while other signers, and transactions of submissions this  *)
(* page has given up on, are counted by the agreement.                      *)
EXTENDS Integers, FiniteSets, CreateMode

CONSTANTS
    Key,        \* the keys that can sign, of this page's user or of others
    NoKey,
    Threshold,  \* the agreement's threshold
    MaxLoads    \* bound of the instance: page loads

ASSUME PageAssumption ==
    /\ IsFiniteSet(Key) /\ NoKey \notin Key
    /\ Threshold \in Nat \ {0} /\ MaxLoads \in Nat

VARIABLES
    counted,    \* the keys the agreement has counted on chain
    loads,
    mode,       \* "none" until the page is loaded, then "create" or "sign"
    lookup,     \* the status request: [at |-> "none"|"asked"|"answered"|"failed", revision, status]
    post,       \* the submission: [at |-> "none"|"sent"|"landed"|"answered"|"failed", key, status]
    pc,         \* what the click handler awaits: "idle", "creating", "unlocking", "proving", "posting"
    secret,     \* signerSecret and the witness, as the key derived from it
    enabled,    \* scanBtn can be clicked
    finalized,  \* finalizedStatus is set; its numbers are then the agreement's
    revision,   \* statusRevision
    confirmed,  \* the key of the submission this page has a receipt of
    progress    \* the progress line, [text, collected]

network == <<lookup, post>>
page == <<pc, secret, enabled, finalized, revision, confirmed, progress>>
signVars == <<counted, network, page>>
vars == <<loads, mode, signVars, createVars>>

Final == Cardinality(counted) >= Threshold

\* A status response by the number of signatures in it; validateStatus accepts
\* it only if it says finalized exactly at the threshold.
Unavailable == -1
Reached(status) == status >= Threshold

\* A read of the agreement may lag behind what is already confirmed.
Reads == 0..Cardinality(counted)

NoLookup == [at |-> "none", revision |-> 0, status |-> 0]
NoPost == [at |-> "none", key |-> NoKey, status |-> 0]

Says(t) == [text |-> t, collected |-> 0]
Shows(status) ==
    [text |-> IF Reached(status) THEN "finalized" ELSE "signed", collected |-> status]

\* A fresh page; a link without valid settings leaves the button disabled and
\* asks for nothing.
Loaded(linked) ==
    /\ pc' = "idle" /\ secret' = NoKey /\ enabled' = linked
    /\ finalized' = FALSE /\ confirmed' = NoKey
    /\ revision' = IF linked THEN 1 ELSE 0
    /\ lookup' = IF linked THEN [at |-> "asked", revision |-> 1, status |-> 0] ELSE NoLookup
    /\ post' = NoPost
    /\ progress' = Says(IF linked THEN "loading" ELSE "missing settings")

Init ==
    /\ counted = {} /\ loads = 0 /\ mode = "none"
    /\ CreateInit
    /\ lookup = NoLookup /\ post = NoPost
    /\ pc = "idle" /\ secret = NoKey /\ enabled = FALSE /\ finalized = FALSE
    /\ revision = 0 /\ confirmed = NoKey /\ progress = Says("loading")

\* Opening a link, or the page without one, at any time: only the chain
\* remembers.
Load(m, linked) ==
    /\ loads < MaxLoads
    /\ loads' = loads + 1 /\ mode' = m
    /\ Loaded(linked) /\ CreateLoaded
    /\ UNCHANGED <<counted, agreements>>

-----------------------------------------------------------------------------
(* The chain and the relay *)

\* Another signer, or a submission nobody waits for any more, is counted.
Count(k) ==
    /\ ~Final /\ k \notin counted
    /\ counted' = counted \cup {k}
    /\ UNCHANGED <<network, page>>

AnswerLookup ==
    /\ lookup.at = "asked"
    /\ \/ \E s \in Reads : lookup' = [lookup EXCEPT !.at = "answered", !.status = s]
       \/ lookup' = [lookup EXCEPT !.at = "failed"]
    /\ UNCHANGED <<counted, post, page>>

LandPost ==
    /\ post.at = "sent"
    /\ ~Final /\ post.key \notin counted
    /\ counted' = counted \cup {post.key}
    /\ post' = [post EXCEPT !.at = "landed"]
    /\ UNCHANGED <<lookup, page>>

\* A confirmed submission is answered with the state read afterwards, if that
\* read succeeds.
AnswerPost ==
    /\ post.at = "landed"
    /\ \E s \in Reads \cup {Unavailable} : post' = [post EXCEPT !.at = "answered", !.status = s]
    /\ UNCHANGED <<counted, lookup, page>>

\* The submission is refused, or its answer is lost.
FailPost ==
    /\ post.at \in {"sent", "landed"}
    /\ post' = [post EXCEPT !.at = "failed"]
    /\ UNCHANGED <<counted, lookup, page>>

-----------------------------------------------------------------------------
(* The page *)

\* Mutants: finalizedStatus is ignored; the revision is left alone; the button
\* comes back after a receipt; the secret survives an early return; any
\* response is a receipt; an error of fetch is not caught.
Keeping_Overwrites(known, line) == line
Bumped_Same == revision
ButtonAfter_Always(known, ok) == ~known
UnlockedLate_KeepsSecret ==
    /\ pc = "unlocking" /\ finalized
    /\ \E k \in Key : secret' = k
    /\ pc' = "idle"
    /\ UNCHANGED <<counted, network, enabled, finalized, revision, confirmed, progress>>
Receipt_Any == post.key
PostFails_Uncaught == FALSE /\ UNCHANGED signVars

\* A line of the page when finalization is known or not: finalizedStatus wins.
Keeping(known, line) == IF known THEN Shows(Threshold) ELSE line

Bumped == revision + 1

\* scanBtn after an attempt, ok if it has a receipt.
ButtonAfter(known, ok) == ~known /\ ~ok

\* The key whose signature a response confirms: relayResponse and
\* validateTransaction accept only a success with a transaction.
Receipt == IF post.at = "answered" THEN post.key ELSE confirmed

\* The end of unlockSigner: its finally wipes the secret.
Finish(known, ok) ==
    /\ pc' = "idle" /\ secret' = NoKey
    /\ enabled' = ButtonAfter(known, ok)

\* refreshStatus, after its await.
LookupArrives ==
    /\ lookup.at \in {"answered", "failed"}
    /\ lookup' = NoLookup
    /\ IF lookup.revision # revision
       THEN UNCHANGED <<finalized, progress, enabled>>
       ELSE /\ finalized' = (finalized \/ (lookup.at = "answered" /\ Reached(lookup.status)))
            /\ progress' = Keeping(finalized', IF lookup.at = "answered" THEN Shows(lookup.status)
                                               ELSE Says("status unavailable"))
            /\ enabled' = (enabled /\ ~finalized')
    /\ UNCHANGED <<counted, post, pc, secret, revision, confirmed>>

\* Either button: unlockSigner(create).
Click(create) ==
    /\ enabled /\ ~finalized
    /\ enabled' = FALSE
    /\ pc' = IF create THEN "creating" ELSE "unlocking"
    /\ UNCHANGED <<counted, network, secret, finalized, revision, confirmed, progress>>

Created ==
    /\ pc = "creating"
    /\ IF finalized THEN Finish(finalized, FALSE) ELSE pc' = "unlocking" /\ UNCHANGED <<secret, enabled>>
    /\ UNCHANGED <<counted, network, finalized, revision, confirmed, progress>>

\* The user cancels a prompt, or the authenticator fails.
PromptFails ==
    /\ pc \in {"creating", "unlocking"}
    /\ Finish(finalized, FALSE)
    /\ UNCHANGED <<counted, network, finalized, revision, confirmed, progress>>

Unlocked(k) ==
    /\ pc = "unlocking" /\ ~finalized
    /\ secret' = k
    /\ pc' = "proving"
    /\ UNCHANGED <<counted, network, enabled, finalized, revision, confirmed, progress>>

\* The agreement was finalized while the passkey prompt was open.
UnlockedLate ==
    /\ pc = "unlocking" /\ finalized
    /\ Finish(finalized, FALSE)
    /\ UNCHANGED <<counted, network, finalized, revision, confirmed, progress>>

Proved ==
    /\ pc = "proving" /\ ~finalized
    /\ pc' = "posting"
    /\ post' = [NoPost EXCEPT !.at = "sent", !.key = secret]
    /\ UNCHANGED <<counted, lookup, secret, enabled, finalized, revision, confirmed, progress>>

\* The proof fails, or the agreement was finalized meanwhile.
NotSubmitted ==
    /\ pc = "proving"
    /\ Finish(finalized, FALSE)
    /\ UNCHANGED <<counted, network, finalized, revision, confirmed, progress>>

\* A receipt voids the status request, then the state that came with it is
\* shown, if it is valid.
PostConfirmed ==
    /\ pc = "posting" /\ post.at = "answered"
    /\ confirmed' = Receipt
    /\ post' = NoPost
    /\ revision' = Bumped
    /\ finalized' = (finalized \/ Reached(post.status))
    /\ progress' = Keeping(finalized', CASE post.status = Unavailable -> Says("confirmed, status unavailable")
                                         [] post.status = 0 -> Says("receipt, status unavailable")
                                         [] OTHER -> Shows(post.status))
    /\ Finish(finalized', TRUE)
    /\ UNCHANGED <<counted, lookup>>

PostFails ==
    /\ pc = "posting" /\ post.at = "failed"
    /\ confirmed' = Receipt
    /\ post' = NoPost
    /\ progress' = Keeping(finalized, Says("unconfirmed"))
    /\ Finish(finalized, FALSE)
    /\ UNCHANGED <<counted, lookup, finalized, revision>>

Relay == AnswerLookup \/ LandPost \/ AnswerPost \/ FailPost
Prompt == Created \/ PromptFails \/ UnlockedLate \/ \E k \in Key : Unlocked(k)
Prover == Proved \/ NotSubmitted
PostArrives == PostFails \/ PostConfirmed

SignNext ==
    \/ \E k \in Key : Count(k)
    \/ Relay
    \/ LookupArrives
    \/ \E create \in BOOLEAN : Click(create)
    \/ Prompt
    \/ Prover
    \/ PostArrives

Next ==
    \/ Load("create", FALSE) \/ \E linked \in BOOLEAN : Load("sign", linked)
    \/ mode = "sign" /\ SignNext /\ UNCHANGED <<loads, mode, createVars>>
    \/ mode = "create" /\ CreateNext /\ UNCHANGED <<loads, mode, signVars>>

Spec == Init /\ [][Next]_vars

\* Prompts time out, the prover ends, and fetch returns or throws.
FairSpec ==
    /\ Spec
    /\ WF_signVars(AnswerPost \/ FailPost) /\ WF_signVars(Prompt)
    /\ WF_signVars(Prover) /\ WF_signVars(PostArrives)
    /\ WF_createVars(AnswerCreation) /\ WF_createVars(CreationArrives)

-----------------------------------------------------------------------------
(* Properties *)

\* What the page claims is true of the chain: an agreement shown as finalized
\* is, and a receipt stands for a counted key, although reads lag and answers
\* are late.
ClaimsAreTrue ==
    /\ finalized \/ progress.text = "finalized" => Final
    /\ confirmed # NoKey => confirmed \in counted

\* Once finalization is known no late answer, failure or retry takes it off
\* the page ("Finalization is terminal for this agreement, even if another
\* pending operation fails") or lets the user start again.
FinalityStays ==
    [][finalized /\ loads' = loads =>
          progress' = Shows(Threshold) /\ finalized' /\ ~enabled']_vars

\* A receipt stands until the page is reloaded: no status response that was
\* under way, valid or not, replaces what it left on the page.
ReceiptStands == [][confirmed # NoKey /\ loads' = loads => progress' = progress]_vars

\* The page submits nothing after a receipt or a known finalization ("must not
\* invite an automatic duplicate retry").
NeverSubmitsAgain ==
    [][post.at # "sent" /\ post'.at = "sent" => confirmed = NoKey /\ ~finalized]_vars

\* Whatever ends an attempt, no secret outlives it, and the button is there
\* again exactly when signing still makes sense.
IdlePageIsReady ==
    pc = "idle" =>
        /\ secret = NoKey
        /\ enabled <=> mode = "sign" /\ revision > 0 /\ confirmed = NoKey /\ ~finalized

\* An attempt, to sign or to create, ends.
AttemptsEnd == pc # "idle" \/ creating # NoDraft ~> pc = "idle" /\ creating = NoDraft
=============================================================================
