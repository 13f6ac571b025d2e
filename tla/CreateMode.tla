----------------------------- MODULE CreateMode -----------------------------
(* Creating an agreement and sharing its link: the create mode of           *)
(* browser-client/src/multisig.js.  The form, the agreement being created   *)
(* and the link on the page change independently while the relay works.     *)
CONSTANTS
    Draft,      \* valid settings of an agreement: text, threshold, maximum
    NoDraft     \* a form that is not filled in, or not with valid settings

ASSUME DraftAssumption == NoDraft \notin Draft

VARIABLES
    agreements, \* the agreements that exist on chain
    form,       \* what the inputs hold
    creating,   \* what createMultisig has captured: creatingInProgress if not NoDraft
    creation,   \* its request: "none", "sent", "landed", "answered" or "failed"
    link        \* the settings in the link of the share box; NoDraft while it is hidden

createPage == <<form, creating, creation, link>>
createVars == <<agreements, createPage>>

CreateInit == agreements = {} /\ form = NoDraft /\ creating = NoDraft /\ creation = "none" /\ link = NoDraft

CreateLoaded == form' = NoDraft /\ creating' = NoDraft /\ creation' = "none" /\ link' = NoDraft

-----------------------------------------------------------------------------
(* The chain and the relay *)

\* Somebody else, or a request nobody waits for any more, creates agreement d.
CreatedElsewhere(d) ==
    /\ d \notin agreements
    /\ agreements' = agreements \cup {d}
    /\ UNCHANGED createPage

LandCreation ==
    /\ creation = "sent"
    /\ agreements' = agreements \cup {creating}
    /\ creation' = "landed"
    /\ UNCHANGED <<form, creating, link>>

\* Confirmed, or found to exist already; or refused, or the answer is lost.
AnswerCreation ==
    /\ creation \in {"sent", "landed"}
    /\ \/ creating \in agreements /\ creation' = "answered"
       \/ creation' = "failed"
    /\ UNCHANGED <<agreements, form, creating, link>>

-----------------------------------------------------------------------------
(* The page *)

\* Mutants: the link is built from the inputs, any response is a success, and
\* an error of fetch is not caught.
LinkSettings_Form == form
CreationSucceeded_Any == creation \in {"answered", "failed"}
CreationFails_Uncaught == FALSE /\ UNCHANGED createVars

\* The inputs change.  They are disabled while creating; what changes them
\* then, form restoration or an extension, leaves the share box alone.
Fill(d) ==
    /\ d # form
    /\ form' = d
    /\ link' = IF creating = NoDraft THEN NoDraft ELSE link
    /\ UNCHANGED <<agreements, creating, creation>>

\* createMultisig up to its await, with valid settings.
CreateAgreement ==
    /\ creating = NoDraft /\ form # NoDraft
    /\ creating' = form /\ creation' = "sent" /\ link' = NoDraft
    /\ UNCHANGED <<agreements, form>>

\* A response counts only if it names an agreement and a transaction, or says
\* that the agreement exists.
CreationSucceeded == creation = "answered"

\* The link carries the values captured before the await.
LinkSettings == creating

CreationConfirmed ==
    /\ creating # NoDraft /\ creation # "none" /\ CreationSucceeded
    /\ link' = LinkSettings
    /\ creating' = NoDraft /\ creation' = "none"
    /\ UNCHANGED <<agreements, form>>

\* Creation unconfirmed; the share box stays hidden.
CreationFails ==
    /\ creating # NoDraft /\ creation = "failed" /\ ~CreationSucceeded
    /\ creating' = NoDraft /\ creation' = "none"
    /\ UNCHANGED <<agreements, form, link>>

CreationArrives == CreationFails \/ CreationConfirmed

CreateNext ==
    \/ \E d \in Draft : CreatedElsewhere(d)
    \/ LandCreation \/ AnswerCreation
    \/ \E d \in Draft \cup {NoDraft} : Fill(d)
    \/ CreateAgreement \/ CreationArrives

-----------------------------------------------------------------------------

\* The link a creator copies is one of an agreement that exists on chain with
\* exactly its settings, whatever became of the form meanwhile and however
\* earlier attempts ended: no co-signer is sent to an agreement that is not
\* there.
SharedLinkWorks == link # NoDraft => link \in agreements
=============================================================================
