--------------------------- MODULE SponsorBudget ---------------------------
(* The sponsor wallet's budget: relay/sponsor_budget.js behind the relay's  *)
(* budgetSponsoredRequest.  Requests wait in one promise queue to be        *)
(* checked; a check awaits a balance reading from the RPC node, and what it *)
(* decides when the reading arrives uses the state of that later moment.    *)
(* Meanwhile admitted requests send transactions, reply, and release.       *)
EXTENDS Integers, Sequences, FiniteSets

CONSTANTS
    Slot,          \* requests that can be alive at the same time
    TxCost,        \* the most one transaction costs
    Reserve, Floor, Daily,      \* reserveLamports, floorLamports, dailyLamports
    StartBalance,  \* what the wallet holds at first
    TopUpAmount,   \* what an operator may add at once
    MayDisconnect, \* clients may go away before they are answered
    MayGiveUp,     \* a handler may answer although its transaction may still land
    MayFail,       \* balance readings may fail
    \* Bounds of the instance: arrivals wait while MaxQueue tasks are queued.
    MaxQueue, MaxDay, MaxTopped, MaxRestarts

ASSUME BudgetAssumption ==
    /\ IsFiniteSet(Slot) /\ Slot # {}
    /\ TxCost \in Nat /\ Reserve \in Nat /\ Floor \in Nat /\ Daily \in Nat
    /\ Reserve >= 2 * TxCost
    /\ StartBalance \in Nat /\ StartBalance >= Floor
    /\ TopUpAmount \subseteq Nat
    /\ MaxQueue \in Nat /\ MaxDay \in Nat /\ MaxTopped \in Nat /\ MaxRestarts \in Nat
    /\ {MayDisconnect, MayGiveUp, MayFail} \subseteq BOOLEAN

VARIABLES
    phase,      \* each request: "idle", "waiting" for its check, or "running" its handler
    gone,       \* live requests whose client has disconnected
    held,       \* running requests whose reservation has not been released
    sent,       \* transactions the handler has sent
    queue,      \* tasks of the promise queue, the one under way first
    reading,    \* the balance reading of that task: [got |-> "none"|"value"|"failed", balance]
    state,      \* the budget's own state
    balance,    \* the wallet's balance on chain
    pending,    \* transactions that may still land
    today,      \* the UTC day
    topped,     \* what the operator has added
    restarts,
    paid,       \* history: what transactions have cost today
    overtaken   \* history: a release freed a reservation that was still needed

requests == <<phase, gone, held, sent>>
chain == <<balance, pending, today, topped, restarts, paid>>
vars == <<requests, queue, reading, state, chain, overtaken>>

\* A request sends at most two transactions: registration, then signing or
\* creation.
Tx == Slot \X {1, 2}
PendingOf(r) == {t \in pending : t[1] = r}

Check(r) == [kind |-> "check", slot |-> r]
Observe(r) == [kind |-> "observe", slot |-> r]
NoReading == [got |-> "none", balance |-> 0]

\* What admitted requests may still spend.
Unsettled == {t \in Tx : t \in pending \/ (phase[t[1]] = "running" /\ t[2] > sent[t[1]])}
Exposure == TxCost * Cardinality(Unsettled)

\* state.day is null until the first reading; days count from 1.
FreshState == [day |-> 0, baseline |-> 0, lastBalance |-> 0, inFlight |-> 0]

Init ==
    /\ phase = [r \in Slot |-> "idle"] /\ gone = {} /\ held = {}
    /\ sent = [r \in Slot |-> 0]
    /\ queue = <<>> /\ reading = NoReading /\ state = FreshState
    /\ balance = StartBalance /\ pending = {} /\ today = 1
    /\ topped = 0 /\ restarts = 0 /\ paid = 0 /\ overtaken = FALSE

-----------------------------------------------------------------------------
(* The budget *)

\* Mutants: the baseline follows every rise; reservations in flight, or the
\* request's own reserve, ignored; a release that never counts.
Observed_RebasedOnRise(s, b, day) ==
    [s EXCEPT !.day = day,
              !.baseline = IF s.day # day \/ b > s.lastBalance THEN b ELSE @,
              !.lastBalance = b]
LowOnFunds_Burst(s, b) == b - Reserve < Floor
LowOnFunds_Own(s, b) == b - s.inFlight * Reserve < Floor
Release_Leaks(r) ==
    IF r \in held
    THEN held' = held \ {r} /\ queue' = Append(queue, Observe(r)) /\ UNCHANGED state
    ELSE UNCHANGED <<held, state, queue>>

\* observe: a rise since the last reading moves the baseline up.
Observed(s, b, day) ==
    [s EXCEPT !.day = day,
              !.baseline = IF s.day # day THEN b
                           ELSE IF b > s.lastBalance THEN @ + (b - s.lastBalance) ELSE @,
              !.lastBalance = b]

Spent(s, b) == IF s.baseline > b THEN s.baseline - b ELSE 0

\* The two refusals of check, of the state after observe.
LowOnFunds(s, b) == b - s.inFlight * Reserve - Reserve < Floor

UsedUp(s, b) == Spent(s, b) + s.inFlight * Reserve + Reserve > Daily

\* The release of request r: finish and close both call it, `released` makes
\* the second call void.
Release(r) ==
    IF r \in held
    THEN /\ held' = held \ {r}
         /\ state' = [state EXCEPT !.inFlight = @ - 1]
         /\ queue' = Append(queue, Observe(r))
    ELSE UNCHANGED <<held, state, queue>>

\* acquire: the check waits its turn in the queue.
Arrive(r) ==
    /\ phase[r] = "idle" /\ PendingOf(r) = {} /\ Len(queue) < MaxQueue
    /\ phase' = [phase EXCEPT ![r] = "waiting"]
    /\ sent' = [sent EXCEPT ![r] = 0]
    /\ queue' = Append(queue, Check(r))
    /\ UNCHANGED <<gone, held, reading, state, chain, overtaken>>

\* The RPC node answers, or fails to answer, the task at the head.
Read ==
    /\ queue # <<>> /\ reading.got = "none"
    /\ \/ reading' = [got |-> "value", balance |-> balance]
       \/ MayFail /\ reading' = [got |-> "failed", balance |-> 0]
    /\ UNCHANGED <<requests, queue, state, chain, overtaken>>

\* The task at the head is over; the next one may start.
Dequeue == queue' = Tail(queue) /\ reading' = NoReading

\* Request r is answered without running its handler: 502 or 503.
Refuse(r) ==
    /\ phase' = [phase EXCEPT ![r] = "idle"]
    /\ gone' = gone \ {r}
    /\ UNCHANGED held

Admit(r) ==
    /\ phase' = [phase EXCEPT ![r] = "running"]
    /\ held' = held \cup {r}
    /\ UNCHANGED gone

\* Mutant: a failed check jams the queue.
CheckFails_Jams(r) ==
    /\ queue # <<>> /\ Head(queue) = Check(r) /\ reading.got = "failed"
    /\ Refuse(r)
    /\ UNCHANGED <<sent, queue, reading, state, chain, overtaken>>

CheckFails(r) ==
    /\ queue # <<>> /\ Head(queue) = Check(r) /\ reading.got = "failed"
    /\ Refuse(r)
    /\ Dequeue
    /\ UNCHANGED <<sent, state, chain, overtaken>>

\* The rest of check, after the await.
CheckBudget(r) ==
    /\ queue # <<>> /\ Head(queue) = Check(r) /\ reading.got = "value"
    /\ LET b == reading.balance
           s == Observed(state, b, today)
       IN  \/ /\ LowOnFunds(s, b) \/ UsedUp(s, b)
              /\ Refuse(r)
              /\ state' = s
           \/ /\ ~LowOnFunds(s, b) /\ ~UsedUp(s, b)
              /\ Admit(r)
              /\ state' = [s EXCEPT !.inFlight = @ + 1]
    /\ Dequeue
    /\ UNCHANGED <<sent, chain, overtaken>>

\* The observation a release has queued; its failures are caught.
ObserveBalance ==
    /\ queue # <<>> /\ Head(queue).kind = "observe" /\ reading.got # "none"
    /\ state' = IF reading.got = "value" THEN Observed(state, reading.balance, today) ELSE state
    /\ Dequeue
    /\ UNCHANGED <<requests, chain, overtaken>>

-----------------------------------------------------------------------------
(* The handlers, their clients and the chain *)

\* A handler sends its next transaction once the one before is settled.
Send(r) ==
    /\ phase[r] = "running" /\ sent[r] < 2 /\ PendingOf(r) = {}
    /\ sent' = [sent EXCEPT ![r] = @ + 1]
    /\ pending' = pending \cup {<<r, sent[r] + 1>>}
    /\ UNCHANGED <<phase, gone, held, queue, reading, state,
                   balance, today, topped, restarts, paid, overtaken>>

\* A transaction lands and costs c, or is refused or expires (c = 0).
Settle(t, c) ==
    /\ t \in pending /\ c <= balance
    /\ pending' = pending \ {t}
    /\ balance' = balance - c
    /\ paid' = paid + c
    /\ UNCHANGED <<requests, queue, reading, state, today, topped, restarts, overtaken>>

\* A release is premature when the handler can still spend, and when a balance
\* read before it has yet to be applied.
Premature(r, stillSpending) ==
    overtaken' = (overtaken \/ (r \in held /\ (stillSpending \/ reading.got = "value")))

\* The handler answers, with success or an error.  A response whose connection
\* is already closed emits no event.
Reply(r) ==
    /\ phase[r] = "running" /\ (PendingOf(r) = {} \/ MayGiveUp)
    /\ phase' = [phase EXCEPT ![r] = "idle"]
    /\ gone' = gone \ {r}
    /\ IF r \notin gone
       THEN Release(r) /\ Premature(r, PendingOf(r) # {})
       ELSE held' = held \ {r} /\ UNCHANGED <<state, queue, overtaken>>
    /\ UNCHANGED <<sent, reading, chain>>

\* The client goes away.  The response emits close, which releases if the
\* middleware has already subscribed to it.
Disconnect(r) ==
    /\ MayDisconnect /\ phase[r] # "idle" /\ r \notin gone
    /\ gone' = gone \cup {r}
    /\ IF phase[r] = "running"
       THEN Release(r) /\ Premature(r, TRUE)
       ELSE UNCHANGED <<held, state, queue, overtaken>>
    /\ UNCHANGED <<phase, sent, reading, chain>>

\* The relay process ends and starts again; only the chain remembers.
Restart ==
    /\ restarts < MaxRestarts
    /\ restarts' = restarts + 1
    /\ phase' = [r \in Slot |-> "idle"] /\ gone' = {} /\ held' = {}
    /\ sent' = [r \in Slot |-> 0]
    /\ queue' = <<>> /\ reading' = NoReading /\ state' = FreshState
    /\ overtaken' = (overtaken \/ Unsettled # {})
    /\ UNCHANGED <<balance, pending, today, topped, paid>>

NewDay ==
    /\ today < MaxDay
    /\ today' = today + 1
    /\ paid' = 0
    /\ UNCHANGED <<requests, queue, reading, state, balance, pending, topped, restarts, overtaken>>

TopUp(a) ==
    /\ topped + a <= MaxTopped
    /\ topped' = topped + a
    /\ balance' = balance + a
    /\ UNCHANGED <<requests, queue, reading, state, pending, today, restarts, paid, overtaken>>

Next ==
    \/ \E r \in Slot : Arrive(r) \/ CheckFails(r) \/ CheckBudget(r)
                          \/ Send(r) \/ Reply(r) \/ Disconnect(r)
    \/ Read \/ ObserveBalance
    \/ \E t \in pending, c \in 0..TxCost : Settle(t, c)
    \/ Restart \/ NewDay
    \/ \E a \in TopUpAmount : TopUp(a)

Spec == Init /\ [][Next]_vars

\* Every balance request is answered or fails, and promise continuations run.
FairSpec ==
    /\ Spec
    /\ WF_vars(Read) /\ WF_vars(ObserveBalance)
    /\ \A r \in Slot : WF_vars(CheckFails(r) \/ CheckBudget(r))

-----------------------------------------------------------------------------
(* Properties *)

\* The reservations do their work: as long as no reservation was released
\* while a balance read before was still to be applied, or while its request
\* could still spend, the wallet stays above the floor whatever the admitted
\* requests still cost (check's first refusal).
FloorKeptUnlessOvertaken == ~overtaken => balance - Exposure >= Floor

\* Whatever is released early, lands late, fails or restarts, the floor is
\* overshot by less than one reserve per concurrent request: the queue admits
\* one request per reading.
FloorOvershootBounded ==
    balance - Exposure >= Floor - (Cardinality(Slot) - 1) * Reserve

\* Spending on one day, unless the relay restarted: the budget, plus what
\* requests cost that earlier or older readings admitted, plus at most what was
\* topped up.  A top-up that is observed together with spending hides it, but
\* never more than its own amount.
DailyOvershootBounded ==
    restarts = 0 =>
        paid <= Daily + (2 * Cardinality(Slot) - 1) * Reserve + topped

\* Every request is answered or let through, failing readings included ("does
\* not jam later checks", tests/sponsor_budget.test.js).
RequestsDecided == \A r \in Slot : phase[r] = "waiting" ~> phase[r] # "waiting"

\* docs/reference/relay-api.md: "a burst cannot overshoot either limit".
FloorKept == balance >= Floor

\* sponsor_budget.js: "Each request in flight also reserves an estimated
\* cost"; what is reserved belongs to a request in flight.
NothingReservedWhenIdle == (\A r \in Slot : phase[r] = "idle") => state.inFlight = 0
=============================================================================
