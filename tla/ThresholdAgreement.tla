------------------------ MODULE ThresholdAgreement -------------------------
(* What the on-chain program promises to the parties of an M-of-N           *)
(* agreement, without accounts, proofs or transactions: signers consent to  *)
(* a contract, an agreement counts each consenting signer at most once, and *)
(* it becomes final at the very count that reaches its threshold.           *)
EXTENDS Integers, FiniteSets

CONSTANTS
    Agreement,   \* agreements, with fields hash, threshold and maxSigners
    Signer

VARIABLES
    consent,     \* the <<contract hash, signer>> pairs a signer consented to
    open,        \* agreements that exist
    signers,     \* the signers counted by each agreement
    final        \* agreements that reached their threshold

vars == <<consent, open, signers, final>>

\* Signers may have consented to a contract before any agreement about it.
Init ==
    /\ consent \subseteq {<<a.hash, k>> : a \in Agreement, k \in Signer}
    /\ open = {}
    /\ signers = [a \in Agreement |-> {}]
    /\ final = {}

Consent(h, k) ==
    /\ consent' = consent \cup {<<h, k>>}
    /\ UNCHANGED <<open, signers, final>>

Open(a) ==
    /\ a \notin open
    /\ a.threshold \in 1..a.maxSigners
    /\ open' = open \cup {a}
    /\ UNCHANGED <<consent, signers, final>>

Count(a, k) ==
    /\ a \in open \ final
    /\ <<a.hash, k>> \in consent
    /\ k \notin signers[a]
    /\ signers' = [signers EXCEPT ![a] = @ \cup {k}]
    /\ final' = IF Cardinality(signers'[a]) >= a.threshold THEN final \cup {a} ELSE final
    /\ UNCHANGED <<consent, open>>

Next ==
    \/ \E a \in Agreement : Open(a)
    \/ \E a \in Agreement, k \in Signer : Count(a, k) \/ Consent(a.hash, k)

Spec == Init /\ [][Next]_vars
=============================================================================
