--------------------------- MODULE SignPageProofs ---------------------------
(* The signing page's safety properties for any passkeys, texts, hosts and  *)
(* number of reloads, by one inductive invariant of the page and one of the *)
(* keychain.                                                                 *)
EXTENDS SignPage, TLAPS

BoxShape(box) ==
    /\ box = [visible |-> box.visible, contract |-> box.contract, verdict |-> box.verdict]
    /\ box.visible \in BOOLEAN

\* A submission is awaited by the attempt that made it.
PostIsAwaited == post # "none" => pc = "posting"

\* The job is the unlocked passkey's, and its result is not shown yet.
JobIsOfThisSigner == pc \in {"proving", "posting"} => job.signer = signer /\ ~shown.visible

\* While a passkey is asked for there is no receipt of the former one.
NoReceiptInPrompt == pc \in {"creating", "unlocking"} => current = NoReceipt

LandedIsRecorded == post \in {"landed", "answered"} => job \in recorded

ReceiptsRecorded == receipts \subseteq recorded /\ current \in recorded \cup {NoReceipt}

BoxIsTrue == shown.visible /\ shown.verdict = "TRUE" => \E r \in recorded : r.text = shown.contract

PageInv ==
    /\ BoxShape(shown) /\ PostIsAwaited /\ JobIsOfThisSigner /\ NoReceiptInPrompt
    /\ LandedIsRecorded /\ ReceiptsRecorded /\ BoxIsTrue
    /\ ResultMatchesText /\ ReceiptIsOfThisSigner

\* The end of an attempt keeps the invariant: its verdict is TRUE only for a
\* recorded job, and its receipt is one of the unlocked passkey.
LEMMA FinishKeepsInv ==
    ASSUME PageInv, NEW verdict, NEW r, Finish(verdict, r),
           UNCHANGED <<recorded, text, signer>>, post' = "none",
           receipts' \subseteq recorded,
           r \in recorded \cup {NoReceipt},
           r # NoReceipt => r.signer = signer,
           verdict = "TRUE" => job \in recorded
    PROVE  PageInv'
  <1>1. pc' = "idle" /\ current' = r
    BY DEF Finish
  <1>2. /\ shown' = [visible |-> TRUE, contract |-> job.text, verdict |-> Closing(verdict)]
        /\ Closing(verdict) = "TRUE" => job \in recorded
        /\ job.text = text \/ Closing(verdict) = "TEXT CHANGED"
    BY DEF Finish, Closing
  <1>3. shown'.visible = TRUE /\ shown'.contract = job.text /\ shown'.verdict = Closing(verdict)
    BY <1>2
  <1>4. BoxShape(shown')
    BY <1>2, <1>3 DEF BoxShape
  <1>5. BoxIsTrue' /\ ResultMatchesText'
    BY <1>2, <1>3 DEF BoxIsTrue, ResultMatchesText
  <1>6. QED
    BY <1>1, <1>4, <1>5 DEF PageInv, PostIsAwaited, JobIsOfThisSigner, NoReceiptInPrompt,
       LandedIsRecorded, ReceiptsRecorded, ReceiptIsOfThisSigner

\* Every way an attempt ends keeps the invariant.
LEMMA AttemptEnds ==
    ASSUME PageInv, ProofFails \/ Recognised \/ PostFails \/ PostConfirmed
    PROVE  PageInv'
  <1>1. pc \in {"proving", "posting"} => job.signer = signer
    BY DEF PageInv, JobIsOfThisSigner
  <1>2. /\ current \in recorded \cup {NoReceipt} /\ receipts \subseteq recorded
        /\ current # NoReceipt => current.signer = signer
    BY DEF PageInv, ReceiptsRecorded, ReceiptIsOfThisSigner
  <1>3. CASE ProofFails
    <2>1. /\ Finish("FALSE", current) /\ pc = "proving"
          /\ UNCHANGED <<recorded, post, text, signer, receipts>>
      BY <1>3 DEF ProofFails, chain
    <2>2. post' = "none"
      BY <2>1 DEF PageInv, PostIsAwaited
    <2>3. QED
      BY <1>2, <2>1, <2>2, FinishKeepsInv
  <1>4. CASE Recognised
    <2>1. /\ Finish("TRUE", job) /\ pc = "proving" /\ job \in receipts
          /\ UNCHANGED <<recorded, post, text, signer, receipts>>
      BY <1>4 DEF Recognised, Known, chain
    <2>2. post' = "none"
      BY <2>1 DEF PageInv, PostIsAwaited
    <2>3. QED
      BY <1>1, <1>2, <2>1, <2>2, FinishKeepsInv
  <1>5. CASE PostFails
    <2>1. /\ Finish("UNCONFIRMED", current) /\ post' = "none"
          /\ UNCHANGED <<recorded, text, signer, receipts>>
      BY <1>5 DEF PostFails
    <2>2. QED
      BY <1>2, <2>1, FinishKeepsInv
  <1>6. CASE PostConfirmed
    <2>1. /\ Finish("TRUE", job) /\ pc = "posting" /\ post = "answered" /\ post' = "none"
          /\ UNCHANGED <<recorded, text, signer>> /\ receipts' = receipts \cup {job}
      BY <1>6 DEF PostConfirmed, Confirmed
    <2>2. job \in recorded
      BY <2>1 DEF PageInv, LandedIsRecorded
    <2>3. QED
      BY <1>1, <1>2, <2>1, <2>2, FinishKeepsInv
  <1>7. QED
    BY <1>3, <1>4, <1>5, <1>6

\* A box that is closed, or shows the receipt of the text, is right about it.
LEMMA BoxAfterEdit ==
    ASSUME PageInv, NEW t, Edit(t)
    PROVE  /\ BoxShape(shown')
           /\ shown'.visible => /\ current \in recorded
                                /\ shown'.contract = t /\ current.text = t
  <1>1. CASE current # NoReceipt /\ current.text = t
    <2>1. shown' = [visible |-> TRUE, contract |-> t, verdict |-> "TRUE"]
      BY <1>1 DEF Edit, ShownReceipt
    <2>2. QED
      BY <1>1, <2>1 DEF BoxShape, PageInv, ReceiptsRecorded
  <1>2. CASE ~(current # NoReceipt /\ current.text = t)
    <2>1. shown' = [shown EXCEPT !.visible = FALSE, !.verdict = "PENDING"]
      BY <1>2 DEF Edit
    <2>2. shown' = [visible |-> FALSE, contract |-> shown.contract, verdict |-> "PENDING"]
      BY <2>1 DEF PageInv, BoxShape
    <2>3. QED
      BY <2>2 DEF BoxShape
  <1>3. QED
    BY <1>1, <1>2

\* Signing starts with an empty box, or shows the receipt there is.
LEMMA SignKeepsInv == ASSUME PageInv, Sign PROVE PageInv'
  <1>1. post = "none" /\ UNCHANGED <<recorded, post, text, signer, current, receipts>>
    BY DEF Sign, chain, PageInv, PostIsAwaited
  <1>2. CASE Signable(current, text)
    <2>1. /\ pc' = "proving" /\ job' = [text |-> text, signer |-> signer]
          /\ shown' = [visible |-> FALSE, contract |-> text, verdict |-> "PENDING"]
      BY <1>2 DEF Sign, SignerKey
    <2>2. BoxShape(shown') /\ shown'.visible = FALSE /\ job'.signer = signer
      BY <2>1 DEF BoxShape
    <2>3. QED
      BY <1>1, <2>1, <2>2 DEF PageInv, PostIsAwaited, JobIsOfThisSigner, NoReceiptInPrompt,
         LandedIsRecorded, ReceiptsRecorded, BoxIsTrue, ResultMatchesText, ReceiptIsOfThisSigner
  <1>3. CASE ~Signable(current, text)
    <2>1. current # NoReceipt /\ current.text = text
      BY <1>3 DEF Signable
    <2>2. /\ pc = "idle" /\ UNCHANGED <<pc, job>>
          /\ shown' = [visible |-> TRUE, contract |-> text, verdict |-> "TRUE"]
      BY <1>3, <2>1 DEF Sign, ShownReceipt
    <2>3. BoxShape(shown') /\ shown'.contract = text
      BY <2>2 DEF BoxShape
    <2>4. current \in recorded
      BY <2>1 DEF PageInv, ReceiptsRecorded
    <2>5. QED
      BY <1>1, <2>1, <2>2, <2>3, <2>4 DEF PageInv, PostIsAwaited, JobIsOfThisSigner,
         NoReceiptInPrompt, LandedIsRecorded, ReceiptsRecorded, BoxIsTrue, ResultMatchesText,
         ReceiptIsOfThisSigner
  <1>4. QED
    BY <1>2, <1>3

\* The invariant holds of every page, and every step preserves it.
LEMMA PageInit == Init => PageInv
  <1> SUFFICES ASSUME Init
               PROVE  PageInv
    OBVIOUS
  <1>1. shown.visible = FALSE /\ BoxShape(shown)
    BY DEF Init, Blank, BoxShape
  <1>2. QED
    BY <1>1 DEF Init, PageInv, PostIsAwaited, JobIsOfThisSigner, NoReceiptInPrompt,
       LandedIsRecorded, ReceiptsRecorded, BoxIsTrue, ResultMatchesText, ReceiptIsOfThisSigner

\* Every step keeps the invariant.
LEMMA PageStep == PageInv /\ [Next]_vars => PageInv'
  <1> SUFFICES ASSUME PageInv, [Next]_vars
               PROVE  PageInv'
    OBVIOUS
  <1> USE DEF PageInv, PostIsAwaited, JobIsOfThisSigner, NoReceiptInPrompt,
              LandedIsRecorded, ReceiptsRecorded, BoxIsTrue, ResultMatchesText, ReceiptIsOfThisSigner
  <1>1. ASSUME NEW h \in Host, Reload(h)
        PROVE  PageInv'
    <2>1. /\ pc' = "idle" /\ current' = NoReceipt /\ receipts' = {} /\ post' = "none"
          /\ shown' = Blank
      BY <1>1 DEF Reload
    <2>2. shown'.visible = FALSE /\ BoxShape(shown')
      BY <2>1 DEF Blank, BoxShape
    <2>3. QED
      BY <2>1, <2>2
  <1>2. ASSUME NEW r \in Receipt, Record(r)
        PROVE  PageInv'
    BY <1>2 DEF Record, page
  <1>3. CASE Relay
    BY <1>3 DEF Relay, LandPost, AnswerPost, FailPost, page
  <1>4. ASSUME NEW t, Edit(t)
        PROVE  PageInv'
    <2>1. /\ pc \in {"idle", "creating", "unlocking"} /\ text' = t
          /\ UNCHANGED <<recorded, post, pc, signer, job, current, receipts>>
      BY <1>4 DEF Edit, chain
    <2>2. QED
      BY <1>4, <2>1, BoxAfterEdit
  <1>5. ASSUME NEW t, Overwrite(t)
        PROVE  PageInv'
    BY <1>5 DEF Overwrite, chain
  <1>6. ASSUME NEW create, Unlock(create)
        PROVE  PageInv'
    BY <1>6 DEF Unlock, chain, ReceiptAtUnlock
  <1>7. CASE Prompt
    BY <1>7 DEF Prompt, UnlockFails, Created, Unlocked, chain
  <1>8. CASE Sign
    BY <1>8, SignKeepsInv
  <1>9. CASE ProofFails \/ Recognised \/ PostFails \/ PostConfirmed
    BY <1>9, AttemptEnds
  <1>10. CASE Submit
    BY <1>10 DEF Submit
  <1>11. CASE UNCHANGED vars
    BY <1>11 DEF vars, chain, page
  <1>12. QED
    BY <1>1, <1>2, <1>3, <1>4, <1>5, <1>6, <1>7, <1>8, <1>9, <1>10, <1>11
       DEF Next, Prover, PostArrives

\* Nothing is shown as signed, or kept as a receipt, that is not on chain.
THEOREM ReceiptsAreReal == Spec => []ShownReceiptIsReal
  <1>1. PageInv => ShownReceiptIsReal
    BY DEF PageInv, ReceiptsRecorded, BoxIsTrue, ShownReceiptIsReal
  <1>2. QED
    BY <1>1, PageInit, PageStep, PTL DEF Spec

\* The result box is about the editor's text or says that it is not.
THEOREM ResultsMatchTheirText == Spec => []ResultMatchesText
  <1>1. PageInv => ResultMatchesText
    BY DEF PageInv
  <1>2. QED
    BY <1>1, PageInit, PageStep, PTL DEF Spec

\* The receipt that disables the button is one by the unlocked passkey's key.
THEOREM ReceiptsAreOfThisSigner == Spec => []ReceiptIsOfThisSigner
  <1>1. PageInv => ReceiptIsOfThisSigner
    BY DEF PageInv
  <1>2. QED
    BY <1>1, PageInit, PageStep, PTL DEF Spec

\* A signature the relay confirmed is in confirmedReceipts once its answer has
\* arrived, and a submission under way is of one it had not confirmed.
ToldInv ==
    /\ \A r \in told : r \in receipts \/ (post = "answered" /\ r = job)
    /\ post \in {"sent", "landed", "failed"} => job \notin told

\* Every step keeps every confirmation of this page load among the receipts.
LEMMA ToldStep == PageInv /\ ToldInv /\ [Next]_vars => ToldInv'
  <1> SUFFICES ASSUME PageInv, ToldInv, [Next]_vars
               PROVE  ToldInv'
    OBVIOUS
  <1>0. post # "none" => pc = "posting"
    BY DEF PageInv, PostIsAwaited
  <1> USE DEF ToldInv
  <1>1. ASSUME NEW h \in Host, Reload(h)
        PROVE  ToldInv'
    BY <1>1 DEF Reload
  <1>2. ASSUME NEW r \in Receipt, Record(r)
        PROVE  ToldInv'
    BY <1>2 DEF Record, page
  <1>3. CASE LandPost
    BY <1>3 DEF LandPost, page
  <1>4. CASE AnswerPost
    BY <1>4 DEF AnswerPost, page
  <1>5. CASE FailPost
    BY <1>5 DEF FailPost, page
  <1>6. ASSUME NEW t, Edit(t) \/ Overwrite(t)
        PROVE  ToldInv'
    BY <1>6 DEF Edit, Overwrite, chain
  <1>7. ASSUME NEW create, Unlock(create)
        PROVE  ToldInv'
    BY <1>7 DEF Unlock, chain
  <1>8. CASE Prompt
    BY <1>8 DEF Prompt, UnlockFails, Created, Unlocked, chain
  <1>9. CASE Sign
    <2>1. post' = "none" /\ UNCHANGED <<told, receipts>> /\ post = "none"
      BY <1>0, <1>9 DEF Sign, chain
    <2>2. QED
      BY <2>1
  <1>10. CASE ProofFails \/ Recognised
    <2>1. post' = "none" /\ UNCHANGED <<told, receipts>> /\ post = "none"
      BY <1>0, <1>10 DEF ProofFails, Recognised, chain
    <2>2. QED
      BY <2>1
  <1>11. CASE Submit
    <2>1. post = "none" /\ job \notin receipts
      BY <1>0, <1>11 DEF Submit, Known
    <2>2. QED
      BY <1>11, <2>1 DEF Submit
  <1>12. CASE PostFails
    BY <1>12 DEF PostFails
  <1>13. CASE PostConfirmed
    BY <1>13 DEF PostConfirmed
  <1>14. CASE UNCHANGED vars
    BY <1>14 DEF vars, chain, page
  <1>15. QED
    BY <1>1, <1>2, <1>3, <1>4, <1>5, <1>6, <1>7, <1>8, <1>9, <1>10, <1>11, <1>12, <1>13, <1>14
       DEF Next, Relay, Prover, PostArrives

\* What the relay has confirmed to this page is neither submitted nor called
\* unconfirmed again: main.js keeps its receipt before anything else can happen.
THEOREM ConfirmedOnce == Spec => ConfirmedStaysConfirmed
  <1>1. Init => PageInv /\ ToldInv
    <2>1. Init => ToldInv
      BY DEF Init, ToldInv
    <2>2. QED
      BY <2>1, PageInit
  <1>2. ASSUME PageInv, ToldInv, Next, post = "none", post' = "sent"
        PROVE  job \notin told
    <2>1. CASE Submit
      BY <1>2, <2>1 DEF Submit, Known, ToldInv
    <2>2. ASSUME NEW h \in Host, Reload(h)
          PROVE  FALSE
      BY <1>2, <2>2 DEF Reload
    <2>3. ASSUME NEW r \in Receipt, Record(r)
          PROVE  FALSE
      BY <1>2, <2>3 DEF Record
    <2>4. ASSUME NEW t, Edit(t) \/ Overwrite(t)
          PROVE  FALSE
      BY <1>2, <2>4 DEF Edit, Overwrite, chain
    <2>5. ASSUME NEW create, Unlock(create)
          PROVE  FALSE
      BY <1>2, <2>5 DEF Unlock, chain
    <2>6. ~(Relay \/ Prompt \/ Sign \/ ProofFails \/ Recognised \/ PostArrives)
      BY <1>2 DEF Relay, LandPost, AnswerPost, FailPost, Prompt, UnlockFails, Created, Unlocked,
         Sign, ProofFails, Recognised, PostArrives, PostFails, PostConfirmed, chain
    <2>7. QED
      BY <1>2, <2>1, <2>2, <2>3, <2>4, <2>5, <2>6 DEF Next, Prover
  <1>3. ASSUME PageInv, ToldInv, Next, shown' # shown, shown'.verdict = "UNCONFIRMED"
        PROVE  job \notin told
    <2>1. CASE PostFails
      BY <1>3, <2>1 DEF PostFails, ToldInv
    <2>2. ASSUME NEW h \in Host, Reload(h)
          PROVE  FALSE
      BY <1>3, <2>2 DEF Reload, Blank
    <2>3. ASSUME NEW t, Edit(t)
          PROVE  FALSE
      <3>1. shown' = [shown EXCEPT !.visible = FALSE, !.verdict = "PENDING"] \/ shown'.verdict = "TRUE"
        BY <2>3 DEF Edit, ShownReceipt
      <3>2. shown' = [visible |-> FALSE, contract |-> shown.contract, verdict |-> "PENDING"]
            \/ shown'.verdict = "TRUE"
        BY <1>3, <3>1 DEF PageInv, BoxShape
      <3>3. QED
        BY <1>3, <3>2
    <2>4. CASE Sign
      <3>1. shown'.verdict \in {"PENDING", "TRUE"}
        BY <2>4 DEF Sign, ShownReceipt
      <3>2. QED
        BY <1>3, <3>1
    <2>5. ASSUME ProofFails \/ Recognised \/ PostConfirmed
          PROVE  FALSE
      <3>1. \E v \in {"FALSE", "TRUE"}, r \in {current, job} : Finish(v, r)
        BY <2>5 DEF ProofFails, Recognised, PostConfirmed
      <3>2. PICK v \in {"FALSE", "TRUE"}, r \in {current, job} : Finish(v, r)
        BY <3>1
      <3>3. shown' = [visible |-> TRUE, contract |-> job.text, verdict |-> Closing(v)]
        BY <3>2 DEF Finish
      <3>4. shown'.verdict = Closing(v)
        BY <3>3
      <3>5. QED
        BY <1>3, <3>4 DEF Closing
    <2>6. ASSUME NEW r \in Receipt, Record(r)
          PROVE  FALSE
      BY <1>3, <2>6 DEF Record, page
    <2>7. ASSUME NEW t, Overwrite(t)
          PROVE  FALSE
      BY <1>3, <2>7 DEF Overwrite
    <2>8. ASSUME NEW create, Unlock(create)
          PROVE  FALSE
      BY <1>3, <2>8 DEF Unlock
    <2>9. ~(Relay \/ Prompt \/ Submit)
      BY <1>3 DEF Relay, LandPost, AnswerPost, FailPost, page, Prompt, UnlockFails, Created,
         Unlocked, Submit
    <2>10. QED
      BY <1>3, <2>1, <2>2, <2>3, <2>4, <2>5, <2>6, <2>7, <2>8, <2>9 DEF Next, Prover, PostArrives
  <1>4. PageInv /\ ToldInv /\ [Next]_vars =>
           [ \/ post = "none" /\ post' = "sent"
             \/ shown' # shown /\ shown'.verdict = "UNCONFIRMED"
             => job \notin told ]_vars
    BY <1>2, <1>3
  <1>5. QED
    BY <1>1, <1>4, PageStep, ToldStep, PTL DEF Spec, ConfirmedStaysConfirmed

\* All builds with permanent passkeys are configured with one domain.
OneDomain == \A h, g \in Host : Permanent(h) /\ Permanent(g) => Build[h].rpId = Build[g].rpId

\* The domain was checked before the prompt under way, and every passkey that is
\* not temporary was made for the permanent domain.
PasskeysOfDomain ==
    /\ host \in Host
    /\ pc = "creating" => DomainAllowed(host)
    /\ \A p \in passkeys : ~p.temporary => \E h \in Host : Permanent(h) /\ p.rp = Build[h].rpId

\* Every step keeps the passkeys made for that domain.
LEMMA PasskeysStep == PasskeysOfDomain /\ [Next]_vars => PasskeysOfDomain'
  <1> SUFFICES ASSUME PasskeysOfDomain, [Next]_vars
               PROVE  PasskeysOfDomain'
    OBVIOUS
  <1>1. ASSUME NEW h \in Host, Reload(h)
        PROVE  PasskeysOfDomain'
    BY <1>1 DEF Reload, PasskeysOfDomain
  <1>2. ASSUME NEW k \in Signer, Created(k)
        PROVE  PasskeysOfDomain'
    <2>1. /\ UNCHANGED host /\ pc = "creating" /\ pc' = "unlocking"
          /\ passkeys' = passkeys \cup
                {[signer |-> k, rp |-> RelyingParty(host), temporary |-> Temporary(host)]}
      BY <1>2 DEF Created, MakePasskey
    <2>2. Permanent(host) => RelyingParty(host) = Build[host].rpId
      BY DEF RelyingParty
    <2>3. Permanent(host) \/ Temporary(host)
      BY <2>1 DEF PasskeysOfDomain, DomainAllowed
    <2>4. ASSUME NEW p \in passkeys', ~p.temporary
          PROVE  \E h \in Host : Permanent(h) /\ p.rp = Build[h].rpId
      <3>1. CASE p \in passkeys
        BY <2>4, <3>1 DEF PasskeysOfDomain
      <3>2. CASE p = [signer |-> k, rp |-> RelyingParty(host), temporary |-> Temporary(host)]
        <4>1. p.temporary = Temporary(host) /\ p.rp = RelyingParty(host)
          BY <3>2
        <4>2. Permanent(host)
          BY <2>3, <2>4, <4>1
        <4>3. QED
          BY <2>2, <4>1, <4>2 DEF PasskeysOfDomain
      <3>3. QED
        BY <2>1, <3>1, <3>2
    <2>5. QED
      BY <2>1, <2>4 DEF PasskeysOfDomain
  <1>3. CASE UNCHANGED keychain /\ (pc' = "creating" => pc = "creating")
    BY <1>3 DEF keychain, PasskeysOfDomain, DomainAllowed, Permanent, Temporary
  <1>4. ASSUME NEW create, Unlock(create)
        PROVE  PasskeysOfDomain'
    <2>1. UNCHANGED keychain /\ (pc' = "creating" => DomainAllowed(host))
      BY <1>4 DEF Unlock
    <2>2. QED
      BY <2>1 DEF keychain, PasskeysOfDomain, DomainAllowed, Permanent, Temporary
  <1>5. ASSUME NEW r \in Receipt, Record(r)
        PROVE  UNCHANGED <<keychain, pc>>
    BY <1>5 DEF Record, page
  <1>6. Relay \/ UnlockFails \/ Sign \/ Prover \/ PostArrives =>
            UNCHANGED keychain /\ (pc' = "creating" => pc = "creating")
    BY DEF Relay, LandPost, AnswerPost, FailPost, page, UnlockFails, Sign, Prover, ProofFails,
       Recognised, Submit, PostArrives, PostFails, PostConfirmed, Finish
  <1>7. ASSUME NEW t, Edit(t) \/ Overwrite(t)
        PROVE  UNCHANGED <<keychain, pc>>
    BY <1>7 DEF Edit, Overwrite
  <1>8. ASSUME NEW k \in Signer, Unlocked(k)
        PROVE  UNCHANGED keychain /\ pc' = "idle"
    BY <1>8 DEF Unlocked
  <1>9. CASE UNCHANGED vars
    BY <1>3, <1>9 DEF vars, page
  <1>10. QED
    BY <1>1, <1>2, <1>3, <1>4, <1>5, <1>6, <1>7, <1>8, <1>9 DEF Next, Prompt

\* No signer is lost to moves within the domain, to test builds or to builds
\* without a domain: checkPasskeyDomain comes before every prompt.
THEOREM SignersAreNotLost ==
    ASSUME OneDomain
    PROVE  Spec => []SignersSurviveMoves
  <1>1. Init => PasskeysOfDomain
    BY DEF Init, PasskeysOfDomain
  <1>2. PasskeysOfDomain => SignersSurviveMoves
    <2> SUFFICES ASSUME PasskeysOfDomain, NEW p \in passkeys, ~p.temporary,
                        NEW h \in Host, Permanent(h)
                 PROVE  p.signer \in Offered(h)
      BY DEF SignersSurviveMoves
    <2>1. p.rp = Build[h].rpId
      BY DEF PasskeysOfDomain, OneDomain
    <2>2. p.rp = RelyingParty(h)
      BY <2>1 DEF RelyingParty
    <2>3. QED
      BY <2>2 DEF Offered
  <1>3. PasskeysOfDomain /\ [Next]_vars => PasskeysOfDomain'
    BY PasskeysStep
  <1>4. QED
    BY <1>1, <1>2, <1>3, PTL DEF Spec
=============================================================================
