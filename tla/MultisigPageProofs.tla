------------------------- MODULE MultisigPageProofs -------------------------
(* The multisig page's safety properties for any keys, threshold, drafts    *)
(* and number of page loads: one inductive invariant of the sign mode and   *)
(* one of the create mode.                                                   *)
EXTENDS MultisigPage, FiniteSetTheorems, TLAPS

SignTypeOK ==
    /\ counted \subseteq Key /\ loads \in Nat /\ revision \in Nat
    /\ enabled \in BOOLEAN /\ finalized \in BOOLEAN
    /\ lookup = [at |-> lookup.at, revision |-> lookup.revision, status |-> lookup.status]
    /\ lookup.revision \in Nat /\ lookup.status \in Int
    /\ post = [at |-> post.at, key |-> post.key, status |-> post.status]
    /\ post.status \in Int

\* Signatures can only be added to what a response tells, and a response to a
\* submission comes after the signature.
AnswersAreOld ==
    /\ lookup.at = "answered" => lookup.status <= Cardinality(counted)
    /\ post.at \in {"landed", "answered"} => post.key \in counted
    /\ post.at = "answered" => post.status <= Cardinality(counted)

\* The secret is there while it is used, the submission is made with it, and
\* the attempt that made it awaits it.
SecretInUse ==
    /\ pc \in {"creating", "unlocking"} => secret = NoKey
    /\ pc \in {"proving", "posting"} => secret \in Key
    /\ post.at # "none" => pc = "posting"
    /\ pc = "posting" => post.key \in Key

\* An attempt is made in sign mode, with the button off, and before a receipt.
AttemptIsFirst ==
    pc # "idle" => mode = "sign" /\ revision > 0 /\ ~enabled /\ confirmed = NoKey

\* Finalization is what the page shows and ends signing.
FinalIsShown == finalized => progress = Shows(Threshold) /\ ~enabled

\* A receipt makes the status responses under way stale.
ReceiptVoidsLookup ==
    /\ lookup.at # "none" => lookup.revision <= revision
    /\ confirmed # NoKey /\ lookup.at # "none" => lookup.revision < revision

SignInv ==
    /\ SignTypeOK /\ AnswersAreOld /\ SecretInUse /\ AttemptIsFirst /\ FinalIsShown
    /\ ReceiptVoidsLookup /\ ClaimsAreTrue /\ IdlePageIsReady

\* Counting another key keeps what was true of the agreement.
LEMMA CountGrows ==
    ASSUME counted \subseteq Key, NEW k \in Key, counted' = counted \cup {k}
    PROVE  /\ Cardinality(counted) <= Cardinality(counted')
           /\ Cardinality(counted) \in Nat /\ Cardinality(counted') \in Nat
           /\ counted' \subseteq Key
           /\ Final => Final'
  <1>1. IsFiniteSet(counted)
    BY PageAssumption, FS_Subset
  <1>2. Cardinality(counted) \in Nat
    BY <1>1, FS_CardinalityType
  <1>3. Cardinality(counted') = IF k \in counted THEN Cardinality(counted) ELSE Cardinality(counted) + 1
    BY <1>1, FS_AddElement
  <1>4. QED
    BY <1>2, <1>3, PageAssumption DEF Final

\* Keys are finitely many, so a count of them is a number.
LEMMA CountIsNat == ASSUME counted \subseteq Key PROVE Cardinality(counted) \in Nat
  BY PageAssumption, FS_Subset, FS_CardinalityType

\* What a key more on chain leaves of the invariant when the page stands still.
LEMMA CountKeepsInv ==
    ASSUME SignInv, NEW k \in Key, counted' = counted \cup {k},
           UNCHANGED <<loads, mode, lookup, page>>,
           \/ UNCHANGED post
           \/ post.at = "sent" /\ k = post.key /\ post' = [post EXCEPT !.at = "landed"]
    PROVE  SignInv'
  <1>1. /\ Cardinality(counted) <= Cardinality(counted')
        /\ Cardinality(counted) \in Nat /\ Cardinality(counted') \in Nat
        /\ counted' \subseteq Key /\ (Final => Final')
    BY CountGrows DEF SignInv, SignTypeOK
  <1>2. /\ post'.status = post.status /\ post'.key = post.key
        /\ post' = [at |-> post'.at, key |-> post'.key, status |-> post'.status]
        /\ post'.at = post.at \/ (post.at = "sent" /\ post'.at = "landed" /\ post.key \in counted')
    BY DEF SignInv, SignTypeOK
  <1>3. SignTypeOK'
    BY <1>1, <1>2 DEF SignInv, SignTypeOK, page
  <1>4. AnswersAreOld'
    BY <1>1, <1>2 DEF SignInv, SignTypeOK, AnswersAreOld
  <1>5. SecretInUse' /\ AttemptIsFirst' /\ FinalIsShown' /\ ReceiptVoidsLookup' /\ IdlePageIsReady'
    BY <1>2 DEF SignInv, SecretInUse, AttemptIsFirst, FinalIsShown, ReceiptVoidsLookup,
       IdlePageIsReady, page
  <1>6. ClaimsAreTrue'
    BY <1>1 DEF SignInv, ClaimsAreTrue, page
  <1>7. QED
    BY <1>3, <1>4, <1>5, <1>6 DEF SignInv

\* The relay's answers keep it.
LEMMA AnswersKeepInv ==
    ASSUME SignInv, AnswerLookup \/ AnswerPost \/ FailPost, UNCHANGED <<loads, mode>>
    PROVE  SignInv'
  <1>1. Cardinality(counted) \in Nat
    BY CountIsNat DEF SignInv, SignTypeOK
  <1>2. UNCHANGED <<counted, loads, mode, pc, secret, enabled, finalized, revision, confirmed, progress>>
    BY DEF AnswerLookup, AnswerPost, FailPost, page
  <1>3. CASE AnswerLookup
    <2>1. /\ post' = post /\ lookup.at = "asked"
          /\ \/ \E st \in Reads : lookup' = [lookup EXCEPT !.at = "answered", !.status = st]
             \/ lookup' = [lookup EXCEPT !.at = "failed"]
      BY <1>3 DEF AnswerLookup
    <2>2. PICK a, st : /\ lookup' = [at |-> a, revision |-> lookup.revision, status |-> st]
                       /\ st \in Int
                       /\ a = "failed" \/ (a = "answered" /\ st <= Cardinality(counted))
      <3>1. CASE lookup' = [lookup EXCEPT !.at = "failed"]
        <4>1. lookup' = [at |-> "failed", revision |-> lookup.revision, status |-> lookup.status]
          BY <3>1 DEF SignInv, SignTypeOK
        <4>2. lookup.status \in Int
          BY DEF SignInv, SignTypeOK
        <4>3. QED
          BY <4>1, <4>2
      <3>2. ASSUME NEW st \in Reads, lookup' = [lookup EXCEPT !.at = "answered", !.status = st]
            PROVE  lookup' = [at |-> "answered", revision |-> lookup.revision, status |-> st]
        BY <3>2 DEF SignInv, SignTypeOK
      <3>3. \A st \in Reads : st \in Int /\ st <= Cardinality(counted)
        BY <1>1 DEF Reads
      <3>4. QED
        BY <2>1, <3>1, <3>2, <3>3
    <2>3. QED
      BY <1>2, <2>1, <2>2 DEF SignInv, SignTypeOK, AnswersAreOld, SecretInUse, AttemptIsFirst,
         FinalIsShown, ReceiptVoidsLookup, ClaimsAreTrue, IdlePageIsReady, Final
  <1>4. CASE AnswerPost \/ FailPost
    <2>1. /\ lookup' = lookup /\ post.at \in {"sent", "landed"}
          /\ \/ /\ post.at = "landed"
                /\ \E st \in Reads \cup {Unavailable} :
                      post' = [post EXCEPT !.at = "answered", !.status = st]
             \/ post' = [post EXCEPT !.at = "failed"]
      BY <1>4 DEF AnswerPost, FailPost
    <2>2. PICK a, st : /\ post' = [at |-> a, key |-> post.key, status |-> st]
                       /\ st \in Int
                       /\ \/ a = "failed"
                          \/ a = "answered" /\ post.at = "landed" /\ st <= Cardinality(counted)
      <3>1. CASE post' = [post EXCEPT !.at = "failed"]
        <4>1. post' = [at |-> "failed", key |-> post.key, status |-> post.status]
          BY <3>1 DEF SignInv, SignTypeOK
        <4>2. QED
          BY <4>1 DEF SignInv, SignTypeOK
      <3>2. ASSUME NEW st, post' = [post EXCEPT !.at = "answered", !.status = st]
            PROVE  post' = [at |-> "answered", key |-> post.key, status |-> st]
        BY <3>2 DEF SignInv, SignTypeOK
      <3>3. \A st \in Reads \cup {Unavailable} : st \in Int /\ st <= Cardinality(counted)
        BY <1>1 DEF Reads, Unavailable
      <3>4. QED
        BY <2>1, <3>1, <3>2, <3>3
    <2>3. QED
      BY <1>2, <2>1, <2>2 DEF SignInv, SignTypeOK, AnswersAreOld, SecretInUse, AttemptIsFirst,
         FinalIsShown, ReceiptVoidsLookup, ClaimsAreTrue, IdlePageIsReady, Final
  <1>5. QED
    BY <1>3, <1>4

\* The end of an attempt keeps it, if what it leaves on the page is true: the
\* line is finalization's, or claims none.
LEMMA AttemptEnds ==
    ASSUME SignInv, pc # "idle", NEW ok \in BOOLEAN, Finish(finalized', ok),
           UNCHANGED <<counted, loads, mode, lookup>>,
           UNCHANGED post \/ post' = NoPost, post'.at = "none",
           finalized' \in BOOLEAN, finalized => finalized', finalized' => Final,
           IF finalized' THEN progress' = Shows(Threshold)
           ELSE UNCHANGED progress \/ progress'.text # "finalized" \/ Final,
           \/ ok = FALSE /\ UNCHANGED <<confirmed, revision>>
           \/ ok = TRUE /\ confirmed' \in counted \cap Key /\ revision' = revision + 1
    PROVE  SignInv'
  <1>1. pc' = "idle" /\ secret' = NoKey /\ enabled' = (~finalized' /\ ~ok)
    BY DEF Finish, ButtonAfter
  <1>2. /\ enabled' \in BOOLEAN /\ (finalized' => ~enabled')
        /\ enabled' <=> ~finalized' /\ ~ok
    BY <1>1
  <1>3. revision \in Nat /\ revision' \in Nat /\ revision' > 0
    BY DEF SignInv, SignTypeOK, AttemptIsFirst
  <1>4. /\ post' = [at |-> post'.at, key |-> post'.key, status |-> post'.status]
        /\ post'.status \in Int
    BY DEF SignInv, SignTypeOK, NoPost
  <1>5. SignTypeOK'
    BY <1>2, <1>3, <1>4 DEF SignInv, SignTypeOK
  <1>6. AnswersAreOld' /\ SecretInUse' /\ AttemptIsFirst'
    BY <1>1 DEF SignInv, AnswersAreOld, SecretInUse, AttemptIsFirst
  <1>7. FinalIsShown'
    BY <1>2 DEF FinalIsShown, Shows
  <1>8. ReceiptVoidsLookup'
    BY <1>3 DEF SignInv, SignTypeOK, AttemptIsFirst, ReceiptVoidsLookup
  <1>9. ClaimsAreTrue'
    BY DEF SignInv, AttemptIsFirst, ClaimsAreTrue, Final, FinalIsShown
  <1>10. IdlePageIsReady'
    <2>1. confirmed' = NoKey <=> ~ok
      BY PageAssumption DEF SignInv, AttemptIsFirst
    <2>2. mode' = "sign"
      BY DEF SignInv, AttemptIsFirst
    <2>3. QED
      BY <1>1, <1>2, <1>3, <2>1, <2>2 DEF IdlePageIsReady
  <1>11. QED
    BY <1>5, <1>6, <1>7, <1>8, <1>9, <1>10 DEF SignInv

\* A load leaves only the chain.
LEMMA LoadKeepsInv ==
    ASSUME SignInv, NEW m \in {"create", "sign"}, NEW linked \in BOOLEAN, linked => m = "sign",
           Load(m, linked)
    PROVE  SignInv'
  <1>1. /\ UNCHANGED counted /\ loads' = loads + 1 /\ mode' = m
        /\ pc' = "idle" /\ secret' = NoKey /\ enabled' = linked
        /\ finalized' = FALSE /\ confirmed' = NoKey
        /\ revision' = IF linked THEN 1 ELSE 0
        /\ post' = NoPost
    BY DEF Load, Loaded
  <1>2. lookup' = IF linked THEN [at |-> "asked", revision |-> 1, status |-> 0]
                  ELSE [at |-> "none", revision |-> 0, status |-> 0]
    BY DEF Load, Loaded, NoLookup
  <1>3. /\ lookup' = [at |-> lookup'.at, revision |-> lookup'.revision, status |-> lookup'.status]
        /\ lookup'.revision = revision' /\ lookup'.status \in Int
        /\ lookup'.at # "answered"
    BY <1>1, <1>2
  <1>4. post' = [at |-> post'.at, key |-> post'.key, status |-> post'.status] /\ post'.at = "none"
        /\ post'.status \in Int
    BY <1>1 DEF NoPost
  <1>5. SignTypeOK'
    <2>1. revision' \in Nat /\ finalized' \in BOOLEAN /\ enabled' \in BOOLEAN
      BY <1>1
    <2>2. counted' \subseteq Key /\ loads' \in Nat
      BY <1>1 DEF SignInv, SignTypeOK
    <2>3. QED
      BY <1>3, <1>4, <2>1, <2>2 DEF SignTypeOK
  <1>6. progress'.text # "finalized"
    BY DEF Load, Loaded, Says
  <1>7. QED
    BY <1>1, <1>3, <1>4, <1>5, <1>6 DEF SignInv, AnswersAreOld, SecretInUse, AttemptIsFirst,
       FinalIsShown, ReceiptVoidsLookup, ClaimsAreTrue, IdlePageIsReady

\* A status response keeps it, late or not.
LEMMA LookupKeepsInv ==
    ASSUME SignInv, LookupArrives, UNCHANGED <<loads, mode>>
    PROVE  SignInv'
  <1>1. /\ UNCHANGED <<counted, loads, mode, post, pc, secret, revision, confirmed>>
        /\ lookup' = [at |-> "none", revision |-> 0, status |-> 0]
    BY DEF LookupArrives, NoLookup
  <1>2. /\ lookup' = [at |-> lookup'.at, revision |-> lookup'.revision, status |-> lookup'.status]
        /\ lookup'.at = "none" /\ lookup'.revision \in Nat /\ lookup'.status \in Int
    BY <1>1
  <1>3. CASE lookup.revision # revision
    <2>1. UNCHANGED <<finalized, progress, enabled>>
      BY <1>3 DEF LookupArrives
    <2>2. QED
      BY <1>1, <1>2, <2>1 DEF SignInv, SignTypeOK, AnswersAreOld, SecretInUse, AttemptIsFirst,
         FinalIsShown, ReceiptVoidsLookup, ClaimsAreTrue, IdlePageIsReady, Final
  <1>4. CASE lookup.revision = revision
    <2>0. lookup.at # "none"
      BY DEF LookupArrives
    <2>1. confirmed = NoKey
      BY <1>4, <2>0 DEF SignInv, SignTypeOK, ReceiptVoidsLookup
    <2>2. /\ finalized' = (finalized \/ (lookup.at = "answered" /\ Reached(lookup.status)))
          /\ progress' = Keeping(finalized', IF lookup.at = "answered" THEN Shows(lookup.status)
                                             ELSE Says("status unavailable"))
          /\ enabled' = (enabled /\ ~finalized')
      BY <1>4 DEF LookupArrives
    <2>3. /\ finalized' \in BOOLEAN /\ enabled' \in BOOLEAN
          /\ (finalized => finalized') /\ (finalized' => ~enabled')
          /\ (enabled' => enabled) /\ (enabled /\ ~finalized' => enabled')
      BY <2>2
    <2>4. finalized' => Final
      <3>1. CASE finalized
        BY <3>1 DEF SignInv, ClaimsAreTrue
      <3>2. CASE lookup.at = "answered" /\ Reached(lookup.status)
        <4>1. Threshold <= lookup.status /\ lookup.status <= Cardinality(counted)
          BY <3>2, PageAssumption DEF Reached, SignInv, SignTypeOK, AnswersAreOld
        <4>2. Cardinality(counted) \in Nat /\ lookup.status \in Int
          BY CountIsNat DEF SignInv, SignTypeOK
        <4>3. QED
          BY <4>1, <4>2, PageAssumption DEF Final
      <3>3. QED
        BY <2>2, <3>1, <3>2
    <2>5. finalized' => progress' = Shows(Threshold)
      BY <2>2 DEF Keeping
    <2>6. ~finalized' => progress'.text # "finalized"
      BY <2>2 DEF Keeping, Shows, Says
    <2>7. SignTypeOK'
      BY <1>1, <1>2, <2>3 DEF SignInv, SignTypeOK
    <2>8. ClaimsAreTrue'
      BY <1>1, <2>1, <2>4, <2>6 DEF ClaimsAreTrue, Final
    <2>9. IdlePageIsReady'
      BY <1>1, <2>3 DEF SignInv, SignTypeOK, IdlePageIsReady
    <2>10. QED
      BY <1>1, <1>2, <2>3, <2>5, <2>7, <2>8, <2>9 DEF SignInv, AnswersAreOld, SecretInUse,
         AttemptIsFirst, FinalIsShown, ReceiptVoidsLookup
  <1>5. QED
    BY <1>3, <1>4

\* An attempt begins where the button is on, and goes on before finalization.
LEMMA AttemptGoesOn ==
    ASSUME SignInv, UNCHANGED <<loads, mode>>, mode = "sign",
           \/ \E create \in BOOLEAN : Click(create)
           \/ Created /\ ~finalized
           \/ \E k \in Key : Unlocked(k)
           \/ Proved
    PROVE  SignInv'
  <1>1. UNCHANGED <<counted, loads, mode, lookup, finalized, revision, confirmed, progress>>
    BY DEF Click, Created, Unlocked, Proved, network
  <1>2. CASE \E create \in BOOLEAN : Click(create)
    <2>1. pc = "idle"
      BY <1>2 DEF SignInv, AttemptIsFirst, Click
    <2>2. /\ enabled' = FALSE /\ pc' \in {"creating", "unlocking"} /\ UNCHANGED <<secret, post>>
          /\ enabled /\ ~finalized
      BY <1>2 DEF Click, network
    <2>3. QED
      BY <1>1, <2>1, <2>2 DEF SignInv, SignTypeOK, AnswersAreOld, SecretInUse, AttemptIsFirst,
         FinalIsShown, ReceiptVoidsLookup, ClaimsAreTrue, IdlePageIsReady, Final
  <1>3. CASE Created /\ ~finalized
    BY <1>1, <1>3 DEF Created, network, SignInv, SignTypeOK, AnswersAreOld, SecretInUse, AttemptIsFirst,
       FinalIsShown, ReceiptVoidsLookup, ClaimsAreTrue, IdlePageIsReady, Final
  <1>4. ASSUME NEW k \in Key, Unlocked(k)
        PROVE  SignInv'
    BY <1>1, <1>4 DEF Unlocked, network, SignInv, SignTypeOK, AnswersAreOld, SecretInUse, AttemptIsFirst,
       FinalIsShown, ReceiptVoidsLookup, ClaimsAreTrue, IdlePageIsReady, Final
  <1>5. CASE Proved
    <2>1. post' = [at |-> "sent", key |-> secret, status |-> 0]
      BY <1>5 DEF Proved, NoPost
    <2>2. /\ post' = [at |-> post'.at, key |-> post'.key, status |-> post'.status]
          /\ post'.at = "sent" /\ post'.key = secret /\ post'.status = 0
      BY <2>1
    <2>3. pc = "proving" /\ pc' = "posting" /\ UNCHANGED <<secret, enabled>>
      BY <1>5 DEF Proved
    <2>4. QED
      BY <1>1, <2>2, <2>3 DEF SignInv, SignTypeOK, AnswersAreOld, SecretInUse, AttemptIsFirst,
         FinalIsShown, ReceiptVoidsLookup, ClaimsAreTrue, IdlePageIsReady, Final
  <1>6. QED
    BY <1>2, <1>3, <1>4, <1>5

\* An attempt given up before a submission, or cut short by finalization.
LEMMA GivingUpKeepsInv ==
    ASSUME SignInv, UNCHANGED <<loads, mode>>,
           (Created /\ finalized) \/ PromptFails \/ UnlockedLate \/ NotSubmitted
    PROVE  SignInv'
  <1>1. /\ Finish(finalized, FALSE) /\ pc \in {"creating", "unlocking", "proving"}
        /\ UNCHANGED <<counted, lookup, post, finalized, revision, confirmed, progress>>
    BY DEF Created, PromptFails, UnlockedLate, NotSubmitted, network
  <1>2. /\ Finish(finalized', FALSE) /\ pc # "idle" /\ post'.at = "none"
        /\ finalized' \in BOOLEAN /\ (finalized' => Final)
        /\ (finalized' => progress' = Shows(Threshold))
    BY <1>1 DEF SignInv, SignTypeOK, SecretInUse, FinalIsShown, ClaimsAreTrue
  <1>3. QED
    BY <1>1, <1>2, AttemptEnds

\* The answer to a submission, or its failure.
LEMMA PostKeepsInv ==
    ASSUME SignInv, UNCHANGED <<loads, mode>>, PostFails \/ PostConfirmed
    PROVE  SignInv'
  <1>1. NoPost.at = "none"
    BY DEF NoPost
  <1>2. CASE PostFails
    <2>1. /\ Finish(finalized, FALSE) /\ pc = "posting" /\ post' = NoPost /\ post.at = "failed"
          /\ UNCHANGED <<counted, lookup, finalized, revision>> /\ confirmed' = Receipt
          /\ progress' = Keeping(finalized, Says("unconfirmed"))
      BY <1>2 DEF PostFails
    <2>2. UNCHANGED confirmed
      BY <2>1 DEF Receipt
    <2>3. /\ finalized => progress' = Shows(Threshold)
          /\ ~finalized => progress'.text # "finalized"
      BY <2>1 DEF Keeping, Says
    <2>4. finalized \in BOOLEAN /\ (finalized => Final)
      BY DEF SignInv, SignTypeOK, ClaimsAreTrue
    <2>5. Finish(finalized', FALSE)
      BY <2>1
    <2>6. QED
      BY <1>1, <2>1, <2>2, <2>3, <2>4, <2>5, AttemptEnds
  <1>3. CASE PostConfirmed
    <2>1. /\ Finish(finalized', TRUE) /\ pc = "posting" /\ post.at = "answered" /\ post' = NoPost
          /\ UNCHANGED <<counted, lookup>> /\ confirmed' = Receipt /\ revision' = Bumped
          /\ finalized' = (finalized \/ Reached(post.status))
      BY <1>3 DEF PostConfirmed
    <2>2. confirmed' \in counted \cap Key /\ revision' = revision + 1
      BY <2>1 DEF Receipt, Bumped, SignInv, AnswersAreOld, SecretInUse
    <2>3. finalized' \in BOOLEAN /\ (finalized => finalized')
      BY <2>1
    <2>4. finalized' => Final
      <3>1. CASE finalized
        BY <3>1 DEF SignInv, ClaimsAreTrue
      <3>2. CASE Reached(post.status)
        <4>1. Threshold <= post.status /\ post.status <= Cardinality(counted)
          BY <2>1, <3>2, PageAssumption DEF Reached, SignInv, SignTypeOK, AnswersAreOld
        <4>2. Cardinality(counted) \in Nat /\ post.status \in Int
          BY CountIsNat DEF SignInv, SignTypeOK
        <4>3. QED
          BY <4>1, <4>2, PageAssumption DEF Final
      <3>3. QED
        BY <2>1, <3>1, <3>2
    <2>5. /\ finalized' => progress' = Shows(Threshold)
          /\ ~finalized' => progress' \in {Says("confirmed, status unavailable"),
                                           Says("receipt, status unavailable"), Shows(post.status)}
      <3>1. finalized' => progress' = Shows(Threshold)
        BY <1>3 DEF PostConfirmed, Keeping
      <3>2. CASE post.status = Unavailable
        BY <1>3, <3>1, <3>2, Zenon DEF PostConfirmed, Keeping
      <3>3. CASE post.status # Unavailable /\ post.status = 0
        BY <1>3, <3>1, <3>3, Zenon DEF PostConfirmed, Keeping
      <3>4. CASE post.status # Unavailable /\ post.status # 0
        BY <1>3, <3>1, <3>4, Zenon DEF PostConfirmed, Keeping
      <3>5. QED
        BY <3>2, <3>3, <3>4
    <2>6. ~finalized' => progress'.text # "finalized"
      <3>1. Shows(post.status).text = IF Reached(post.status) THEN "finalized" ELSE "signed"
        BY DEF Shows
      <3>2. ~finalized' => Shows(post.status).text = "signed"
        BY <2>1, <3>1
      <3>3. \A t : Says(t).text = t
        BY DEF Says
      <3>4. QED
        BY <2>5, <3>2, <3>3
    <2>7. QED
      BY <1>1, <2>1, <2>2, <2>3, <2>4, <2>5, <2>6, AttemptEnds
  <1>4. QED
    BY <1>2, <1>3

\* The invariant holds of every page, and every step preserves it.
LEMMA SignInit == Init => SignInv
  <1> SUFFICES ASSUME Init
               PROVE  SignInv
    OBVIOUS
  <1>1. /\ lookup = [at |-> lookup.at, revision |-> lookup.revision, status |-> lookup.status]
        /\ lookup.at = "none" /\ lookup.revision \in Nat /\ lookup.status \in Int
        /\ post = [at |-> post.at, key |-> post.key, status |-> post.status]
        /\ post.at = "none" /\ post.status \in Int
    BY DEF Init, NoLookup, NoPost
  <1>2. progress.text # "finalized"
    BY DEF Init, Says
  <1>3. SignTypeOK
    BY <1>1 DEF Init, SignTypeOK
  <1>4. QED
    BY <1>1, <1>2, <1>3 DEF Init, SignInv, AnswersAreOld, SecretInUse, AttemptIsFirst,
       FinalIsShown, ReceiptVoidsLookup, ClaimsAreTrue, IdlePageIsReady

\* Every step keeps the invariant of the sign mode.
LEMMA SignStep == SignInv /\ [Next]_vars => SignInv'
  <1> SUFFICES ASSUME SignInv, [Next]_vars
               PROVE  SignInv'
    OBVIOUS
  <1>1. CASE Load("create", FALSE) \/ \E linked \in BOOLEAN : Load("sign", linked)
    BY <1>1, LoadKeepsInv
  <1>2. CASE mode = "sign" /\ SignNext /\ UNCHANGED <<loads, mode, createVars>>
    <2> USE <1>2
    <2>1. ASSUME NEW k \in Key, Count(k)
          PROVE  SignInv'
      BY <2>1, CountKeepsInv DEF Count, network
    <2>2. CASE LandPost
      <3>1. post.at = "sent" /\ counted' = counted \cup {post.key} /\ post.key \in Key
        BY <2>2 DEF LandPost, SignInv, SecretInUse
      <3>2. post' = [post EXCEPT !.at = "landed"] /\ UNCHANGED <<lookup, page>>
        BY <2>2 DEF LandPost
      <3>3. QED
        BY <3>1, <3>2, CountKeepsInv
    <2>3. CASE AnswerLookup \/ AnswerPost \/ FailPost
      BY <2>3, AnswersKeepInv
    <2>4. CASE LookupArrives
      BY <2>4, LookupKeepsInv
    <2>5. CASE \E create \in BOOLEAN : Click(create)
      BY <2>5, AttemptGoesOn
    <2>6. CASE Prompt
      BY <2>6, AttemptGoesOn, GivingUpKeepsInv DEF Prompt
    <2>7. CASE Prover
      BY <2>7, AttemptGoesOn, GivingUpKeepsInv DEF Prover
    <2>8. CASE PostArrives
      BY <2>8, PostKeepsInv DEF PostArrives
    <2>9. QED
      BY <2>1, <2>2, <2>3, <2>4, <2>5, <2>6, <2>7, <2>8 DEF SignNext, Relay
  <1>3. CASE UNCHANGED <<loads, mode, signVars>>
    BY <1>3 DEF signVars, network, page, SignInv, SignTypeOK, AnswersAreOld, SecretInUse,
       AttemptIsFirst, FinalIsShown, ReceiptVoidsLookup, ClaimsAreTrue, IdlePageIsReady, Final
  <1>4. QED
    BY <1>1, <1>2, <1>3 DEF Next, vars

\* What the page claims is true of the chain.
THEOREM ClaimsStayTrue == Spec => []ClaimsAreTrue
  <1>1. SignInv => ClaimsAreTrue
    BY DEF SignInv
  <1>2. QED
    BY <1>1, SignInit, SignStep, PTL DEF Spec

\* No secret outlives an attempt, and the button is there when it should be.
THEOREM IdlePagesAreReady == Spec => []IdlePageIsReady
  <1>1. SignInv => IdlePageIsReady
    BY DEF SignInv
  <1>2. QED
    BY <1>1, SignInit, SignStep, PTL DEF Spec

\* Once finalization is known, nothing takes it off the page.
THEOREM FinalityNeverLeaves == Spec => FinalityStays
  <1>1. SignInv /\ SignInv' /\ [Next]_vars =>
            [finalized /\ loads' = loads =>
                progress' = Shows(Threshold) /\ finalized' /\ ~enabled']_vars
    <2> SUFFICES ASSUME SignInv, SignInv', [Next]_vars, finalized, loads' = loads
                 PROVE  finalized'
      BY DEF SignInv, FinalIsShown, Shows
    <2>1. CASE \E m \in {"create", "sign"}, linked \in BOOLEAN : Load(m, linked)
      BY <2>1 DEF Load, SignInv, SignTypeOK
    <2>2. CASE SignNext
      BY <2>2 DEF SignNext, Count, Relay, AnswerLookup, LandPost, AnswerPost, FailPost, LookupArrives,
         Click, Prompt, Created, PromptFails, UnlockedLate, Unlocked, Prover, Proved, NotSubmitted,
         PostArrives, PostFails, PostConfirmed, page
    <2>3. CASE UNCHANGED signVars
      BY <2>3 DEF signVars, page
    <2>4. QED
      BY <2>1, <2>2, <2>3 DEF Next, vars
  <1>2. QED
    BY <1>1, SignInit, SignStep, PTL DEF Spec, FinalityStays

\* No late status response replaces a receipt.
THEOREM ReceiptsStand == Spec => ReceiptStands
  <1>1. SignInv /\ [Next]_vars =>
            [confirmed # NoKey /\ loads' = loads => progress' = progress]_vars
    <2> SUFFICES ASSUME SignInv, [Next]_vars, confirmed # NoKey, loads' = loads
                 PROVE  progress' = progress
      OBVIOUS
    <2>1. pc = "idle"
      BY DEF SignInv, AttemptIsFirst
    <2>2. lookup.at # "none" => lookup.revision # revision
      BY DEF SignInv, SignTypeOK, ReceiptVoidsLookup
    <2>3. CASE \E m \in {"create", "sign"}, linked \in BOOLEAN : Load(m, linked)
      BY <2>3 DEF Load, SignInv, SignTypeOK
    <2>4. CASE LookupArrives
      BY <2>2, <2>4 DEF LookupArrives
    <2>5. CASE SignNext /\ ~LookupArrives
      BY <2>1, <2>5 DEF SignNext, Count, Relay, AnswerLookup, LandPost, AnswerPost, FailPost,
         Click, Prompt, Created, PromptFails, UnlockedLate, Unlocked, Prover, Proved, NotSubmitted,
         PostArrives, PostFails, PostConfirmed, page
    <2>6. CASE UNCHANGED signVars
      BY <2>6 DEF signVars, page
    <2>7. QED
      BY <2>3, <2>4, <2>5, <2>6 DEF Next, vars
  <1>2. QED
    BY <1>1, SignInit, SignStep, PTL DEF Spec, ReceiptStands

\* Nothing is submitted after a receipt or a known finalization.
THEOREM OneSubmissionOnly == Spec => NeverSubmitsAgain
  <1>1. SignInv /\ [Next]_vars =>
            [post.at # "sent" /\ post'.at = "sent" => confirmed = NoKey /\ ~finalized]_vars
    <2> SUFFICES ASSUME SignInv, [Next]_vars, post.at # "sent", post'.at = "sent"
                 PROVE  confirmed = NoKey /\ ~finalized
      OBVIOUS
    <2>1. NoPost.at = "none"
      BY DEF NoPost
    <2>2. CASE Proved
      BY <2>2 DEF Proved, SignInv, AttemptIsFirst
    <2>3. CASE \E m \in {"create", "sign"}, linked \in BOOLEAN : Load(m, linked)
      BY <2>1, <2>3 DEF Load, Loaded
    <2>4. CASE LandPost \/ AnswerPost \/ FailPost
      BY <2>4 DEF LandPost, AnswerPost, FailPost, SignInv, SignTypeOK
    <2>5. CASE PostArrives
      BY <2>1, <2>5 DEF PostArrives, PostFails, PostConfirmed
    <2>6. CASE UNCHANGED post
      BY <2>6
    <2>7. SignNext => Proved \/ LandPost \/ AnswerPost \/ FailPost \/ PostArrives \/ UNCHANGED post
      BY DEF SignNext, Count, Relay, AnswerLookup, LookupArrives, Click, Prompt, Created,
         PromptFails, UnlockedLate, Unlocked, Prover, NotSubmitted, network
    <2>8. QED
      BY <2>2, <2>3, <2>4, <2>5, <2>6, <2>7 DEF Next, vars, signVars, network
  <1>2. QED
    BY <1>1, SignInit, SignStep, PTL DEF Spec, NeverSubmitsAgain

-----------------------------------------------------------------------------

\* A creation is answered for an agreement that exists, and so is the link.
CreateInv ==
    /\ creation = "answered" => creating \in agreements
    /\ SharedLinkWorks

\* Every step keeps the link one of an agreement that exists.
LEMMA CreateStep == CreateInv /\ [Next]_vars => CreateInv'
  <1> SUFFICES ASSUME CreateInv, [Next]_vars
               PROVE  CreateInv'
    OBVIOUS
  <1> USE DEF CreateInv, SharedLinkWorks
  <1>1. ASSUME NEW m, NEW linked, Load(m, linked)
        PROVE  CreateInv'
    BY <1>1 DEF Load, CreateLoaded
  <1>2. ASSUME NEW d \in Draft, CreatedElsewhere(d)
        PROVE  CreateInv'
    BY <1>2 DEF CreatedElsewhere, createPage
  <1>3. CASE LandCreation \/ AnswerCreation \/ CreateAgreement
    BY <1>3 DEF LandCreation, AnswerCreation, CreateAgreement
  <1>4. ASSUME NEW d, Fill(d)
        PROVE  CreateInv'
    BY <1>4 DEF Fill
  <1>5. CASE CreationArrives
    BY <1>5 DEF CreationArrives, CreationFails, CreationConfirmed, CreationSucceeded, LinkSettings
  <1>6. CASE UNCHANGED createVars
    BY <1>6 DEF createVars, createPage
  <1>7. QED
    BY <1>1, <1>2, <1>3, <1>4, <1>5, <1>6 DEF Next, CreateNext, vars

\* A link that is shared is one of an agreement that exists.
THEOREM SharedLinksWork == Spec => []SharedLinkWorks
  <1>1. Init => CreateInv
    BY DEF Init, CreateInit, CreateInv, SharedLinkWorks
  <1>2. CreateInv => SharedLinkWorks
    BY DEF CreateInv
  <1>3. QED
    BY <1>1, <1>2, CreateStep, PTL DEF Spec
=============================================================================
