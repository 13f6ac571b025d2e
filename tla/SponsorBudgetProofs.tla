------------------------ MODULE SponsorBudgetProofs -------------------------
(* What the sponsor budget guarantees of the floor, for any number of       *)
(* concurrent requests, any costs and limits, and however requests,         *)
(* readings, disconnects, restarts and top-ups interleave.                   *)
EXTENDS SponsorBudget, FiniteSetTheorems, TLAPS

SponsorTypeOK ==
    /\ phase \in [Slot -> {"idle", "waiting", "running"}]
    /\ sent \in [Slot -> Nat]
    /\ held \subseteq Slot /\ pending \subseteq Tx
    /\ balance \in Int /\ today \in Int /\ reading.balance \in Int /\ overtaken \in BOOLEAN
    /\ state \in [day : Int, baseline : Int, lastBalance : Int, inFlight : Int]
    /\ queue \in Seq([kind : {"check", "observe"}, slot : Slot])

\* The checks queued are those of the waiting requests, one each.
QueueInv ==
    /\ \A i \in 1..Len(queue) : queue[i].kind = "check" => phase[queue[i].slot] = "waiting"
    /\ \A i, j \in 1..Len(queue) :
           queue[i].kind = "check" /\ queue[j].kind = "check" /\ queue[i].slot = queue[j].slot => i = j
    /\ reading.got # "none" => queue # <<>>

\* Requests that may still spend, or whose transactions may land.
Active == {r \in Slot : phase[r] = "running" \/ PendingOf(r) # {}}

\* What has been sent is not to be sent again, and every reservation held is
\* counted; so is every active request while no release was premature.
ReservationInv ==
    /\ \A r \in Slot : phase[r] = "waiting" => PendingOf(r) = {}
    /\ \A t \in pending : phase[t[1]] = "running" => t[2] <= sent[t[1]]
    /\ \A r \in Slot : phase[r] = "running" /\ r \notin gone => r \in held
    /\ Cardinality(held) <= state.inFlight
    /\ ~overtaken => Cardinality(Active) <= state.inFlight

Headroom == balance - Exposure

\* Concurrent requests but one, at their full reserve.
Others == (Cardinality(Slot) - 1) * Reserve

\* A reading for a check under way exceeds the headroom by what was being spent
\* when it was made.
FloorInv ==
    /\ Headroom >= Floor - Others
    /\ ~overtaken => Headroom >= Floor
    /\ reading.got = "value" /\ Head(queue).kind = "check" =>
           /\ Headroom >= reading.balance - Others
           /\ ~overtaken => Headroom >= reading.balance - state.inFlight * Reserve

BudgetInv == SponsorTypeOK /\ QueueInv /\ ReservationInv /\ FloorInv

-----------------------------------------------------------------------------
(* Exposure *)

\* A product with something that is not negative grows with the other factor.
LEMMA Multiply ==
    ASSUME NEW k \in Nat, NEW x \in Int, NEW y \in Int, x <= y
    PROVE  k * x <= k * y /\ x * k <= y * k
  <1>1. k * (y - x) >= 0
    BY SMTT(20)
  <1>2. k * (y - x) = k * y - k * x
    BY SMTT(20)
  <1>3. k * x = x * k /\ k * y = y * k
    BY SMTT(20)
  <1>4. k * x \in Int /\ k * y \in Int
    OBVIOUS
  <1>5. QED
    BY <1>1, <1>2, <1>3, <1>4

\* Sets of transactions are finite.
LEMMA TxFinite ==
    ASSUME NEW A \in SUBSET Slot
    PROVE  /\ IsFiniteSet(A) /\ Cardinality(A) \in Nat
           /\ IsFiniteSet(A \X {1, 2}) /\ Cardinality(A \X {1, 2}) = 2 * Cardinality(A)
  <1>1. IsFiniteSet(A) /\ Cardinality(A) \in Nat
    BY BudgetAssumption, FS_Subset, FS_CardinalityType
  <1>2. IsFiniteSet({1, 2}) /\ Cardinality({1, 2}) = 2
    <2>1. IsFiniteSet({1}) /\ Cardinality({1}) = 1
      BY FS_Singleton
    <2>2. {1, 2} = {1} \cup {2} /\ 2 \notin {1}
      OBVIOUS
    <2>3. QED
      BY <2>1, <2>2, FS_AddElement
  <1>3. QED
    BY <1>1, <1>2, FS_Product

\* Finitely many transactions may still be spent on.
LEMMA ExposureType ==
    /\ Unsettled \subseteq Tx /\ IsFiniteSet(Unsettled)
    /\ Cardinality(Unsettled) \in Nat /\ Exposure \in Nat
  <1>1. Unsettled \subseteq Tx
    BY DEF Unsettled
  <1>2. IsFiniteSet(Tx)
    BY TxFinite DEF Tx
  <1>3. IsFiniteSet(Unsettled) /\ Cardinality(Unsettled) \in Nat
    BY <1>1, <1>2, FS_Subset, FS_CardinalityType
  <1>4. QED
    BY <1>1, <1>3, BudgetAssumption DEF Exposure

\* Requests A expose the wallet to no more than their reserves.
LEMMA ExposureOf ==
    ASSUME NEW A \in SUBSET Slot, Unsettled \subseteq A \X {1, 2}
    PROVE  Exposure <= Cardinality(A) * Reserve
  <1>0. IsFiniteSet(A \X {1, 2}) /\ Cardinality(A \X {1, 2}) = 2 * Cardinality(A)
    BY TxFinite
  <1>1. /\ Cardinality(Unsettled) \in Nat /\ Cardinality(A) \in Nat
        /\ Cardinality(Unsettled) <= 2 * Cardinality(A)
    <2>1. Cardinality(Unsettled) <= Cardinality(A \X {1, 2})
      BY <1>0, FS_Subset
    <2>2. Cardinality(A) \in Nat
      BY TxFinite
    <2>3. QED
      BY <1>0, <2>1, <2>2, ExposureType
  <1>2. Exposure <= TxCost * (2 * Cardinality(A))
    BY <1>1, Multiply, BudgetAssumption DEF Exposure
  <1>3. Cardinality(A) * (2 * TxCost) <= Cardinality(A) * Reserve
    BY <1>1, Multiply, BudgetAssumption
  <1>4. TxCost * (2 * Cardinality(A)) = Cardinality(A) * (2 * TxCost)
    BY <1>1, BudgetAssumption
  <1>5. Cardinality(A) * Reserve \in Int /\ TxCost * (2 * Cardinality(A)) \in Int /\ Exposure \in Int
    BY <1>1, BudgetAssumption, ExposureType
  <1>6. QED
    BY <1>2, <1>3, <1>4, <1>5

\* The exposure falls with what may be spent.
LEMMA ExposureFalls ==
    ASSUME Unsettled' \subseteq Unsettled
    PROVE  Exposure' <= Exposure /\ Exposure \in Nat /\ Exposure' \in Nat
  <1>1. Cardinality(Unsettled') \in Nat /\ Cardinality(Unsettled') <= Cardinality(Unsettled)
    BY ExposureType, FS_Subset, FS_CardinalityType
  <1>2. QED
    BY <1>1, ExposureType, Multiply, BudgetAssumption DEF Exposure

\* Each settlement takes one cost off the exposure.
LEMMA ExposureSettles ==
    ASSUME NEW t \in Unsettled, Unsettled' = Unsettled \ {t}
    PROVE  Exposure' = Exposure - TxCost /\ Exposure \in Nat
  <1>1. Cardinality(Unsettled') = Cardinality(Unsettled) - 1
    BY ExposureType, FS_RemoveElement
  <1>2. TxCost * (Cardinality(Unsettled) - 1) = TxCost * Cardinality(Unsettled) - TxCost
    BY ExposureType, BudgetAssumption
  <1>3. QED
    BY <1>1, <1>2, ExposureType DEF Exposure

\* An admission adds at most one reserve to it.
LEMMA ExposureRises ==
    ASSUME NEW r \in Slot, Unsettled' \subseteq Unsettled \cup {<<r, 1>>, <<r, 2>>}
    PROVE  Exposure' <= Exposure + Reserve /\ Exposure \in Nat /\ Exposure' \in Nat
  <1> DEFINE W == Unsettled \cup {<<r, 1>>}
             V == W \cup {<<r, 2>>}
  <1>0. IsFiniteSet(W) /\ Cardinality(W) \in Nat /\ Cardinality(W) <= Cardinality(Unsettled) + 1
    <2>1. IsFiniteSet(W) /\ Cardinality(W) \in {Cardinality(Unsettled), Cardinality(Unsettled) + 1}
      BY ExposureType, FS_AddElement
    <2>2. QED
      BY <2>1, ExposureType
  <1>1. IsFiniteSet(V) /\ Cardinality(V) \in Nat /\ Cardinality(V) <= Cardinality(Unsettled) + 2
    <2>1. IsFiniteSet(V) /\ Cardinality(V) \in {Cardinality(W), Cardinality(W) + 1}
      BY <1>0, FS_AddElement
    <2> HIDE DEF V, W
    <2>2. QED
      BY <1>0, <2>1, ExposureType
  <1>2. Unsettled' \subseteq V
    OBVIOUS
  <1>3. Cardinality(Unsettled') \in Nat /\ Cardinality(Unsettled') <= Cardinality(Unsettled) + 2
    BY <1>1, <1>2, FS_Subset, FS_CardinalityType, ExposureType
  <1>4. TxCost * Cardinality(Unsettled') <= TxCost * (Cardinality(Unsettled) + 2)
    BY <1>3, Multiply, BudgetAssumption, ExposureType
  <1>5. TxCost * (Cardinality(Unsettled) + 2) = TxCost * Cardinality(Unsettled) + 2 * TxCost
    BY ExposureType, BudgetAssumption
  <1>6. Exposure' \in Nat
    BY <1>3, BudgetAssumption DEF Exposure
  <1>7. QED
    BY <1>4, <1>5, <1>6, ExposureType, BudgetAssumption DEF Exposure

-----------------------------------------------------------------------------
(* The parts of the invariant *)

Task == [kind : {"check", "observe"}, slot : Slot]

StaysWaiting(S) == \A r \in S : phase[r] = "waiting" => phase'[r] = "waiting"

\* A task is appended; a check for a request that was not waiting.
LEMMA AppendKeepsQueue ==
    ASSUME QueueInv, queue \in Seq(Task), NEW x \in Task, queue' = Append(queue, x),
           reading' = reading, StaysWaiting(Slot),
           x.kind = "check" => phase[x.slot] # "waiting" /\ phase'[x.slot] = "waiting"
    PROVE  /\ QueueInv' /\ queue' \in Seq(Task)
           /\ queue # <<>> => Head(queue') = Head(queue)
  <1>1. /\ Len(queue) \in Nat /\ Len(queue') = Len(queue) + 1 /\ queue'[Len(queue) + 1] = x
        /\ \A i \in 1..Len(queue) : queue'[i] = queue[i] /\ queue[i] \in Task
        /\ queue' # <<>> /\ queue' \in Seq(Task)
        /\ queue # <<>> => Head(queue') = Head(queue)
    OBVIOUS
  <1>2. ASSUME NEW i \in 1..Len(queue'), queue'[i].kind = "check"
        PROVE  phase'[queue'[i].slot] = "waiting"
    <2>1. CASE i \in 1..Len(queue)
      <3>1. queue'[i] = queue[i] /\ queue[i].slot \in Slot
        BY <1>1, <2>1 DEF Task
      <3>2. QED
        BY <1>2, <2>1, <3>1 DEF QueueInv, StaysWaiting
    <2>2. CASE i = Len(queue) + 1
      BY <1>1, <1>2, <2>2
    <2>3. QED
      BY <1>1, <2>1, <2>2
  <1>3. ASSUME NEW i \in 1..Len(queue'), NEW j \in 1..Len(queue'),
               queue'[i].kind = "check", queue'[j].kind = "check", queue'[i].slot = queue'[j].slot
        PROVE  i = j
    <2>1. CASE i \in 1..Len(queue) /\ j \in 1..Len(queue)
      BY <1>1, <1>3, <2>1 DEF QueueInv
    <2>2. CASE i \in 1..Len(queue) /\ j = Len(queue) + 1
      BY <1>1, <1>3, <2>2 DEF QueueInv
    <2>3. CASE i = Len(queue) + 1 /\ j \in 1..Len(queue)
      BY <1>1, <1>3, <2>3 DEF QueueInv
    <2>4. CASE i = Len(queue) + 1 /\ j = Len(queue) + 1
      BY <2>4
    <2>5. QED
      BY <1>1, <2>1, <2>2, <2>3, <2>4
  <1>4. QED
    BY <1>1, <1>2, <1>3 DEF QueueInv

\* The task at the head is over; its request may have been decided.
LEMMA DequeueKeepsQueue ==
    ASSUME QueueInv, queue \in Seq(Task), queue # <<>>, Dequeue,
           StaysWaiting({s \in Slot : Head(queue).kind = "check" => s # Head(queue).slot})
    PROVE  QueueInv' /\ queue' \in Seq(Task) /\ reading'.got = "none" /\ reading'.balance \in Int
  <1>1. /\ Len(queue) \in Nat /\ Len(queue') = Len(queue) - 1 /\ Head(queue) = queue[1]
        /\ \A i \in 1..Len(queue') : queue'[i] = queue[i + 1] /\ i + 1 \in 1..Len(queue)
        /\ \A i \in 1..Len(queue) : queue[i] \in Task
        /\ 1 \in 1..Len(queue) /\ queue' \in Seq(Task)
    BY DEF Dequeue
  <1>2. reading'.got = "none" /\ reading'.balance \in Int
    BY DEF Dequeue, NoReading
  <1>3. ASSUME NEW i \in 1..Len(queue'), queue'[i].kind = "check"
        PROVE  phase'[queue'[i].slot] = "waiting"
    <2>1. queue[i + 1] \in Task /\ queue'[i] = queue[i + 1] /\ i + 1 # 1 /\ queue[i + 1].slot \in Slot
      BY <1>1 DEF Task
    <2>2. phase[queue[i + 1].slot] = "waiting"
      BY <1>1, <1>3, <2>1 DEF QueueInv
    <2>3. Head(queue).kind = "check" => queue[i + 1].slot # Head(queue).slot
      BY <1>1, <1>3, <2>1 DEF QueueInv
    <2>4. QED
      BY <2>1, <2>2, <2>3 DEF StaysWaiting
  <1>4. ASSUME NEW i \in 1..Len(queue'), NEW j \in 1..Len(queue'),
               queue'[i].kind = "check", queue'[j].kind = "check", queue'[i].slot = queue'[j].slot
        PROVE  i = j
    <2>1. i + 1 = j + 1
      BY <1>1, <1>4 DEF QueueInv
    <2>2. QED
      BY <1>1, <2>1
  <1>5. QED
    BY <1>1, <1>2, <1>3, <1>4 DEF QueueInv

\* The queue stands still, and so do those who wait in it.
LEMMA SameQueueKeepsQueue ==
    ASSUME QueueInv, queue \in Seq(Task), queue' = queue, StaysWaiting(Slot),
           reading'.got # "none" => queue # <<>>
    PROVE  QueueInv'
  <1>1. \A i \in 1..Len(queue) : queue[i].slot \in Slot
    <2>1. \A i \in 1..Len(queue) : queue[i] \in Task
      OBVIOUS
    <2>2. QED
      BY <2>1 DEF Task
  <1>2. QED
    BY <1>1 DEF QueueInv, StaysWaiting

\* The reserves of the others are a number.
LEMMA OthersType == Floor \in Nat /\ Reserve \in Nat /\ Others \in Nat
  <1>1. Cardinality(Slot) \in Nat /\ Cardinality(Slot) # 0
    BY BudgetAssumption, FS_CardinalityType, FS_EmptySet
  <1>2. QED
    BY <1>1, BudgetAssumption DEF Others

\* Steps that spend nothing and admit nobody leave the floor where it was.
LEMMA QuietKeepsFloor ==
    ASSUME FloorInv, balance \in Int, balance' \in Int, state.inFlight \in Int, reading.balance \in Int,
           balance' >= balance, Unsettled' \subseteq Unsettled, overtaken => overtaken',
           overtaken \in BOOLEAN, overtaken' \in BOOLEAN,
           reading'.got = "value" /\ Head(queue').kind = "check" =>
               /\ reading' = reading /\ Head(queue).kind = "check"
               /\ ~overtaken' => state'.inFlight = state.inFlight
    PROVE  FloorInv'
  <1>1. Exposure' <= Exposure /\ Exposure \in Nat /\ Exposure' \in Nat
    BY ExposureFalls
  <1>2. Headroom' >= Headroom /\ Headroom \in Int /\ Headroom' \in Int
    <2>1. \A b, c \in Int, e, f \in Nat :
              c >= b /\ f <= e => c - f >= b - e /\ b - e \in Int /\ c - f \in Int
      OBVIOUS
    <2>2. balance' - Exposure' >= balance - Exposure /\ balance - Exposure \in Int /\ balance' - Exposure' \in Int
      BY <1>1, <2>1
    <2>3. QED
      BY <2>2 DEF Headroom
  <1>3. \A x \in Int : Headroom >= x => Headroom' >= x
    BY <1>2
  <1>4. Headroom' >= Floor - Others
    BY <1>3, OthersType DEF FloorInv
  <1>5. ~overtaken' => Headroom' >= Floor
    BY <1>3, OthersType DEF FloorInv
  <1>6. ASSUME reading'.got = "value", Head(queue').kind = "check"
        PROVE  /\ Headroom' >= reading'.balance - Others
               /\ ~overtaken' => Headroom' >= reading'.balance - state'.inFlight * Reserve
    <2>1. reading' = reading /\ reading.got = "value" /\ Head(queue).kind = "check"
      BY <1>6
    <2>2. Headroom' >= reading.balance - Others
      BY <1>3, <2>1, OthersType DEF FloorInv
    <2>3. ASSUME ~overtaken'
          PROVE  Headroom' >= reading.balance - state'.inFlight * Reserve
      <3>1. state'.inFlight = state.inFlight /\ ~overtaken
        BY <1>6, <2>3
      <3>2. reading.balance - state.inFlight * Reserve \in Int
        BY OthersType
      <3>3. QED
        BY <1>3, <2>1, <3>1, <3>2 DEF FloorInv
    <2>4. QED
      BY <2>1, <2>2, <2>3
  <1>7. Others' = Others
    BY DEF Others
  <1>8. QED
    BY <1>4, <1>5, <1>6, <1>7 DEF FloorInv

\* With no new transactions and no newly running requests there is less to spend.
LEMMA LessToSpend ==
    ASSUME pending' \subseteq pending, pending \subseteq Tx,
           \A r \in Slot : phase'[r] = "running" => phase[r] = "running" /\ sent'[r] = sent[r]
    PROVE  /\ Unsettled' \subseteq Unsettled
           /\ Active' \subseteq Active
           /\ Cardinality(Active') \in Nat /\ Cardinality(Active) \in Nat
           /\ Cardinality(Active') <= Cardinality(Active)
           /\ \A r \in Slot : PendingOf(r) = {} => PendingOf(r)' = {}
  <1>1. Unsettled' \subseteq Unsettled
    BY DEF Unsettled, Tx
  <1>2. \A r \in Slot : PendingOf(r)' \subseteq PendingOf(r)
    BY DEF PendingOf
  <1>3. Active' \subseteq Active
    BY <1>2 DEF Active
  <1>4. Active \in SUBSET Slot /\ Active' \in SUBSET Slot
    BY DEF Active
  <1>5. IsFiniteSet(Active) /\ Cardinality(Active) \in Nat /\ Cardinality(Active') \in Nat
    BY <1>4, TxFinite
  <1>6. Cardinality(Active') <= Cardinality(Active)
    BY <1>3, <1>5, FS_Subset
  <1>7. QED
    BY <1>1, <1>2, <1>3, <1>5, <1>6

\* As long as nobody is admitted or released, the reservations stand.
LEMMA QuietKeepsReservations ==
    ASSUME SponsorTypeOK, ReservationInv, pending' \subseteq pending,
           \A r \in Slot : phase'[r] = "running" =>
               phase[r] = "running" /\ sent'[r] = sent[r] /\ (r \notin gone' => r \notin gone),
           \A r \in Slot : phase'[r] = "waiting" => PendingOf(r) = {},
           held' = held, state'.inFlight = state.inFlight, overtaken' = overtaken
    PROVE  ReservationInv'
  <1>1. state.inFlight \in Int
    BY DEF SponsorTypeOK
  <1>2. /\ Cardinality(Active') \in Nat /\ Cardinality(Active) \in Nat
        /\ Cardinality(Active') <= Cardinality(Active)
        /\ \A r \in Slot : PendingOf(r) = {} => PendingOf(r)' = {}
    BY LessToSpend DEF SponsorTypeOK
  <1>3. ~overtaken' => Cardinality(Active') <= state'.inFlight
    BY <1>1, <1>2 DEF ReservationInv
  <1>4. \A t \in pending' : t \in pending /\ t[1] \in Slot
    BY DEF SponsorTypeOK, Tx
  <1>5. \A t \in pending' : phase'[t[1]] = "running" => t[2] <= sent'[t[1]]
    BY <1>4 DEF ReservationInv
  <1>6. \A r \in Slot : phase'[r] = "waiting" => PendingOf(r)' = {}
    BY <1>2
  <1>7. QED
    BY <1>3, <1>5, <1>6 DEF ReservationInv

-----------------------------------------------------------------------------
(* One step at a time *)

\* An arrival only waits; what it spent before is settled.
LEMMA ArriveKeepsInv ==
    ASSUME BudgetInv, NEW r \in Slot, Arrive(r)
    PROVE  BudgetInv'
  <1> USE DEF BudgetInv
  <1>1. /\ phase[r] = "idle" /\ PendingOf(r) = {}
        /\ phase' = [phase EXCEPT ![r] = "waiting"] /\ sent' = [sent EXCEPT ![r] = 0]
        /\ queue' = Append(queue, Check(r))
        /\ UNCHANGED <<gone, held, reading, state, balance, pending, today, overtaken>>
    BY DEF Arrive, chain
  <1>2. /\ phase'[r] = "waiting"
        /\ \A q \in Slot : q # r => phase'[q] = phase[q] /\ sent'[q] = sent[q]
        /\ phase' \in [Slot -> {"idle", "waiting", "running"}] /\ sent' \in [Slot -> Nat]
    BY <1>1 DEF SponsorTypeOK
  <1>3. Check(r) \in Task /\ Check(r).kind = "check" /\ Check(r).slot = r /\ queue \in Seq(Task)
    BY DEF Check, Task, SponsorTypeOK
  <1>4. StaysWaiting(Slot)
    BY <1>1, <1>2 DEF StaysWaiting
  <1>5. QueueInv' /\ queue' \in Seq(Task) /\ (queue # <<>> => Head(queue') = Head(queue))
    BY <1>1, <1>2, <1>3, <1>4, AppendKeepsQueue
  <1>6. SponsorTypeOK'
    BY <1>1, <1>2, <1>5 DEF SponsorTypeOK, Task, Tx
  <1>7. \A q \in Slot : phase'[q] = "running" => phase[q] = "running" /\ sent'[q] = sent[q]
    BY <1>1, <1>2
  <1>8. ReservationInv'
    BY <1>1, <1>2, <1>7, QuietKeepsReservations DEF ReservationInv
  <1>9. Unsettled' \subseteq Unsettled
    BY <1>1, <1>7, LessToSpend DEF SponsorTypeOK
  <1>10. FloorInv'
    <2>1. reading'.got = "value" => queue # <<>> /\ Head(queue') = Head(queue)
      BY <1>1, <1>5 DEF QueueInv
    <2>2. balance \in Int /\ state.inFlight \in Int /\ reading.balance \in Int /\ overtaken \in BOOLEAN
      BY DEF SponsorTypeOK
    <2>3. QED
      BY <1>1, <1>9, <2>1, <2>2, QuietKeepsFloor
  <1>11. QED
    BY <1>5, <1>6, <1>8, <1>10

\* A reading for a check exceeds the headroom by what the others may spend.
LEMMA ReadKeepsInv ==
    ASSUME BudgetInv, Read
    PROVE  BudgetInv'
  <1> USE DEF BudgetInv
  <1>1. /\ queue # <<>> /\ reading.got = "none"
        /\ reading'.got \in {"value", "failed"} /\ reading'.balance \in Int
        /\ reading'.got = "value" => reading'.balance = balance
        /\ UNCHANGED <<phase, gone, held, sent, queue, state, balance, pending, today, overtaken>>
    BY DEF Read, requests, chain, SponsorTypeOK
  <1>2. SponsorTypeOK' /\ QueueInv'
    BY <1>1 DEF SponsorTypeOK, QueueInv, Tx
  <1>3. ReservationInv'
    BY <1>1, QuietKeepsReservations DEF ReservationInv
  <1>4. Headroom' = Headroom /\ Unsettled' = Unsettled /\ Exposure' = Exposure
    BY <1>1 DEF Headroom, Exposure, Unsettled, Tx
  <1>5. ASSUME reading'.got = "value", Head(queue).kind = "check"
        PROVE  Headroom >= balance - Others
    <2> DEFINE r == Head(queue).slot
    <2>0. queue \in Seq(Task)
      BY DEF SponsorTypeOK, Task
    <2>1. 1 \in 1..Len(queue) /\ Head(queue) = queue[1] /\ queue[1] \in Task
      BY <1>1, <2>0
    <2>2. r \in Slot /\ phase[r] = "waiting"
      BY <1>5, <2>1 DEF QueueInv, Task
    <2>3. PendingOf(r) = {}
      BY <2>2 DEF ReservationInv
    <2> HIDE DEF r
    <2>4. Unsettled \subseteq (Slot \ {r}) \X {1, 2}
      BY <2>2, <2>3 DEF Unsettled, Tx, PendingOf
    <2>5. Cardinality(Slot \ {r}) = Cardinality(Slot) - 1
      BY <2>2, BudgetAssumption, FS_RemoveElement
    <2>6. Exposure <= Others
      BY <2>4, <2>5, ExposureOf DEF Others
    <2>7. balance \in Int /\ Exposure \in Nat
      BY ExposureType DEF SponsorTypeOK
    <2>8. QED
      BY <2>6, <2>7, OthersType DEF Headroom
  <1>6. ASSUME ~overtaken
        PROVE  Headroom >= balance - state.inFlight * Reserve
    <2>1. Active \in SUBSET Slot /\ Unsettled \subseteq Active \X {1, 2}
      BY DEF Active, Unsettled, Tx, PendingOf
    <2>2. Exposure <= Cardinality(Active) * Reserve
      BY <2>1, ExposureOf
    <2>3. Cardinality(Active) \in Nat /\ Cardinality(Active) <= state.inFlight /\ state.inFlight \in Int
      BY <1>6, <2>1, TxFinite DEF ReservationInv, SponsorTypeOK
    <2>4. Cardinality(Active) * Reserve <= state.inFlight * Reserve
      BY <2>3, OthersType, Multiply
    <2>5. balance \in Int /\ Exposure \in Nat /\ state.inFlight * Reserve \in Int
          /\ Cardinality(Active) * Reserve \in Int
      BY <2>3, ExposureType, OthersType DEF SponsorTypeOK
    <2>6. QED
      BY <2>2, <2>4, <2>5 DEF Headroom
  <1>7. FloorInv'
    <2>1. Others' = Others
      BY DEF Others
    <2>2. QED
      BY <1>1, <1>4, <1>5, <1>6, <2>1 DEF FloorInv
  <1>8. QED
    BY <1>2, <1>3, <1>7

\* A task that ends without an admission.
LEMMA TaskEndsKeepsInv ==
    ASSUME BudgetInv, queue # <<>>, Dequeue,
           UNCHANGED <<held, sent, balance, pending, today, overtaken>>,
           state' \in [day : Int, baseline : Int, lastBalance : Int, inFlight : Int],
           state'.inFlight = state.inFlight,
           \/ UNCHANGED <<phase, gone>> /\ Head(queue).kind = "observe"
           \/ \E r \in Slot : Head(queue) = Check(r) /\ Refuse(r)
    PROVE  BudgetInv'
  <1> USE DEF BudgetInv
  <1>1. queue \in Seq(Task)
    BY DEF SponsorTypeOK, Task
  <1>2. /\ phase' \in [Slot -> {"idle", "waiting", "running"}]
        /\ \A q \in Slot : phase'[q] # "idle" => phase'[q] = phase[q] /\ (q \notin gone' => q \notin gone)
        /\ StaysWaiting({q \in Slot : Head(queue).kind = "check" => q # Head(queue).slot})
    <2>1. CASE UNCHANGED <<phase, gone>>
      BY <2>1 DEF SponsorTypeOK, StaysWaiting
    <2>2. ASSUME NEW r \in Slot, Head(queue) = Check(r), Refuse(r)
          PROVE  <1>2!1 /\ <1>2!2 /\ <1>2!3
      <3>1. phase' = [phase EXCEPT ![r] = "idle"] /\ gone' = gone \ {r}
        BY <2>2 DEF Refuse
      <3>2. Head(queue).kind = "check" /\ Head(queue).slot = r
        BY <2>2 DEF Check
      <3>3. QED
        BY <3>1, <3>2 DEF SponsorTypeOK, StaysWaiting
    <2>3. QED
      BY <2>1, <2>2
  <1>3. QueueInv' /\ queue' \in Seq(Task) /\ reading'.got = "none" /\ reading'.balance \in Int
    BY <1>1, <1>2, DequeueKeepsQueue
  <1>4. SponsorTypeOK'
    BY <1>2, <1>3 DEF SponsorTypeOK, Task, Tx
  <1>5. ReservationInv'
    BY <1>2, QuietKeepsReservations DEF ReservationInv
  <1>6. Unsettled' \subseteq Unsettled
    BY <1>2, LessToSpend DEF SponsorTypeOK
  <1>7. FloorInv'
    <2>1. balance \in Int /\ state.inFlight \in Int /\ reading.balance \in Int /\ overtaken \in BOOLEAN
      BY DEF SponsorTypeOK
    <2>2. QED
      BY <1>3, <1>6, <2>1, QuietKeepsFloor
  <1>8. QED
    BY <1>3, <1>4, <1>5, <1>7

\* Observing changes the record of the day, not the reservations.
LEMMA ObservedFacts ==
    ASSUME SponsorTypeOK, NEW b \in Int, NEW d \in Int
    PROVE  /\ Observed(state, b, d) \in [day : Int, baseline : Int, lastBalance : Int, inFlight : Int]
           /\ Observed(state, b, d).inFlight = state.inFlight
  <1> DEFINE line == IF state.day # d THEN b
                     ELSE IF b > state.lastBalance THEN state.baseline + (b - state.lastBalance)
                     ELSE state.baseline
  <1>1. /\ state \in [day : Int, baseline : Int, lastBalance : Int, inFlight : Int]
        /\ state.baseline \in Int /\ state.lastBalance \in Int
    BY DEF SponsorTypeOK
  <1>2. line \in Int
    BY <1>1
  <1>3. Observed(state, b, d) = [state EXCEPT !.day = d, !.baseline = line, !.lastBalance = b]
    BY DEF Observed
  <1> HIDE DEF line
  <1>4. QED
    BY <1>1, <1>2, <1>3

\* An admission exposes the wallet to one more reserve; the first refusal of
\* check has left room for it.
LEMMA AdmitKeepsInv ==
    ASSUME BudgetInv, NEW r \in Slot, CheckBudget(r), Admit(r),
           ~LowOnFunds(Observed(state, reading.balance, today), reading.balance),
           state' = [Observed(state, reading.balance, today) EXCEPT !.inFlight = @ + 1]
    PROVE  BudgetInv'
  <1> USE DEF BudgetInv
  <1> DEFINE b == reading.balance
             s == Observed(state, b, today)
  <1>0. state' = [s EXCEPT !.inFlight = @ + 1] /\ ~LowOnFunds(s, b)
    OBVIOUS
  <1>1. /\ queue # <<>> /\ Head(queue) = Check(r) /\ reading.got = "value" /\ Dequeue
        /\ phase' = [phase EXCEPT ![r] = "running"] /\ held' = held \cup {r}
        /\ UNCHANGED <<gone, sent, balance, pending, today, overtaken>>
    BY DEF CheckBudget, Admit, chain
  <1>2. Head(queue).kind = "check" /\ Head(queue).slot = r /\ queue \in Seq(Task)
    BY <1>1 DEF Check, SponsorTypeOK, Task
  <1>3. phase[r] = "waiting" /\ PendingOf(r) = {}
    <2>1. 1 \in 1..Len(queue) /\ Head(queue) = queue[1]
      BY <1>1, <1>2
    <2>2. phase[r] = "waiting"
      BY <1>2, <2>1 DEF QueueInv
    <2>3. QED
      BY <2>2 DEF ReservationInv
  <1>4. /\ phase'[r] = "running" /\ \A q \in Slot : q # r => phase'[q] = phase[q]
        /\ phase' \in [Slot -> {"idle", "waiting", "running"}]
    BY <1>1 DEF SponsorTypeOK
  <1>5. QueueInv' /\ queue' \in Seq(Task) /\ reading'.got = "none" /\ reading'.balance \in Int
    <2>1. StaysWaiting({q \in Slot : Head(queue).kind = "check" => q # Head(queue).slot})
      BY <1>2, <1>4 DEF StaysWaiting
    <2>2. QED
      BY <1>1, <1>2, <2>1, DequeueKeepsQueue
  <1>6. /\ s \in [day : Int, baseline : Int, lastBalance : Int, inFlight : Int]
        /\ s.inFlight = state.inFlight
    BY ObservedFacts DEF SponsorTypeOK
  <1> HIDE DEF s
  <1>7. /\ state' \in [day : Int, baseline : Int, lastBalance : Int, inFlight : Int]
        /\ state'.inFlight = state.inFlight + 1 /\ state.inFlight \in Int
    BY <1>0, <1>6
  <1>8. SponsorTypeOK'
    BY <1>1, <1>4, <1>5, <1>7 DEF SponsorTypeOK, Task, Tx
  <1>9. PendingOf(r)' = {} /\ \A q \in Slot : PendingOf(q)' = PendingOf(q)
    BY <1>1, <1>3 DEF PendingOf
  <1>10. Cardinality(held') <= state'.inFlight /\ Cardinality(held) \in Nat
    <2>1. /\ IsFiniteSet(held) /\ Cardinality(held) \in Nat
          /\ Cardinality(held') \in {Cardinality(held), Cardinality(held) + 1}
      BY <1>1, TxFinite, FS_AddElement DEF SponsorTypeOK
    <2>2. QED
      BY <1>7, <2>1 DEF ReservationInv
  <1>11. ~overtaken' => Cardinality(Active') <= state'.inFlight
    <2>1. Active' = Active \cup {r}
      BY <1>4, <1>9 DEF Active
    <2>2. IsFiniteSet(Active) /\ Cardinality(Active) \in Nat
      BY TxFinite DEF Active
    <2>3. Cardinality(Active') \in {Cardinality(Active), Cardinality(Active) + 1}
      BY <2>1, <2>2, FS_AddElement
    <2>4. QED
      BY <1>1, <1>7, <2>2, <2>3 DEF ReservationInv
  <1>12. ReservationInv'
    <2>1. \A t \in pending' : t \in pending /\ t[1] \in Slot /\ t[1] # r
      BY <1>1, <1>3 DEF SponsorTypeOK, Tx, PendingOf
    <2>2. \A t \in pending' : phase'[t[1]] = "running" => t[2] <= sent'[t[1]]
      BY <1>1, <1>4, <2>1 DEF ReservationInv
    <2>3. \A q \in Slot : phase'[q] = "waiting" => PendingOf(q)' = {}
      BY <1>4, <1>9 DEF ReservationInv
    <2>4. \A q \in Slot : phase'[q] = "running" /\ q \notin gone' => q \in held'
      BY <1>1, <1>4 DEF ReservationInv
    <2>5. QED
      BY <1>10, <1>11, <2>2, <2>3, <2>4 DEF ReservationInv
  <1>13. Headroom' >= Headroom - Reserve /\ Headroom \in Int /\ Headroom' \in Int
    <2>1. Unsettled' \subseteq Unsettled \cup {<<r, 1>>, <<r, 2>>}
      BY <1>1, <1>4 DEF Unsettled, Tx
    <2>2. Exposure' <= Exposure + Reserve /\ Exposure \in Nat /\ Exposure' \in Nat
      BY <2>1, ExposureRises
    <2>3. balance' = balance /\ balance \in Int
      BY <1>1 DEF SponsorTypeOK
    <2>4. \A x \in Int, e, f \in Nat : f <= e + Reserve => x - f >= (x - e) - Reserve
      BY OthersType
    <2>5. QED
      BY <2>2, <2>3, <2>4, OthersType DEF Headroom
  <1>14. b - state.inFlight * Reserve - Reserve >= Floor
    <2>1. b - s.inFlight * Reserve - Reserve \in Int
      <3>1. b \in Int /\ s.inFlight \in Int /\ Reserve \in Int
        BY <1>6, <1>7, OthersType DEF SponsorTypeOK
      <3>2. s.inFlight * Reserve \in Int
        BY <3>1
      <3>3. QED
        BY <3>1, <3>2
    <2>2. ~(b - s.inFlight * Reserve - Reserve < Floor)
      BY <1>0 DEF LowOnFunds
    <2>3. QED
      BY <1>6, <2>1, <2>2, OthersType
  <1>15. FloorInv'
    <2>1. /\ Headroom >= b - Others
          /\ ~overtaken => Headroom >= b - state.inFlight * Reserve
      BY <1>1, <1>2 DEF FloorInv
    <2>2. b \in Int /\ state.inFlight * Reserve \in Int /\ state.inFlight * Reserve >= 0
      <3>1. state.inFlight \in Nat
        BY <1>7, <1>10 DEF ReservationInv
      <3>2. QED
        BY <3>1, OthersType DEF SponsorTypeOK
    <2>3. Headroom' >= Floor - Others
      BY <1>13, <1>14, <2>1, <2>2, OthersType
    <2>4. ~overtaken' => Headroom' >= Floor
      BY <1>1, <1>13, <1>14, <2>1, <2>2, OthersType
    <2>5. Others' = Others
      BY DEF Others
    <2>6. QED
      BY <1>5, <2>3, <2>4, <2>5 DEF FloorInv
  <1>16. QED
    BY <1>5, <1>8, <1>12, <1>15

\* The tasks of the queue, refused, failed or admitted.
LEMMA TasksKeepInv ==
    ASSUME BudgetInv,
           ObserveBalance \/ \E r \in Slot : CheckFails(r) \/ CheckBudget(r)
    PROVE  BudgetInv'
  <1>0. /\ SponsorTypeOK /\ reading.balance \in Int /\ today \in Int
        /\ state \in [day : Int, baseline : Int, lastBalance : Int, inFlight : Int]
    BY DEF BudgetInv, SponsorTypeOK
  <1>1. CASE ObserveBalance
    <2>1. /\ queue # <<>> /\ Head(queue).kind = "observe" /\ Dequeue
          /\ UNCHANGED <<phase, gone, held, sent, balance, pending, today, overtaken>>
          /\ state' = state \/ state' = Observed(state, reading.balance, today)
      BY <1>1 DEF ObserveBalance, requests, chain
    <2>2. /\ state' \in [day : Int, baseline : Int, lastBalance : Int, inFlight : Int]
          /\ state'.inFlight = state.inFlight
      <3>1. CASE state' = state
        BY <1>0, <3>1
      <3>2. CASE state' = Observed(state, reading.balance, today)
        BY <1>0, <3>2, ObservedFacts
      <3>3. QED
        BY <2>1, <3>1, <3>2
    <2>3. QED
      BY <2>1, <2>2, TaskEndsKeepsInv
  <1>2. ASSUME NEW r \in Slot, CheckFails(r)
        PROVE  BudgetInv'
    <2>1. /\ queue # <<>> /\ Head(queue) = Check(r) /\ Dequeue /\ Refuse(r)
          /\ UNCHANGED <<held, sent, state, balance, pending, today, overtaken>>
      BY <1>2 DEF CheckFails, chain, Refuse
    <2>2. QED
      BY <1>0, <2>1, TaskEndsKeepsInv
  <1>3. ASSUME NEW r \in Slot, CheckBudget(r)
        PROVE  BudgetInv'
    <2> DEFINE s == Observed(state, reading.balance, today)
    <2>1. /\ queue # <<>> /\ Head(queue) = Check(r) /\ Dequeue
          /\ UNCHANGED <<sent, balance, pending, today, overtaken>>
          /\ \/ Refuse(r) /\ state' = s
             \/ ~LowOnFunds(s, reading.balance) /\ Admit(r) /\ state' = [s EXCEPT !.inFlight = @ + 1]
      BY <1>3 DEF CheckBudget, chain
    <2>2. CASE Refuse(r) /\ state' = s
      <3>1. held' = held
        BY <2>2 DEF Refuse
      <3>2. QED
        BY <1>0, <2>1, <2>2, <3>1, ObservedFacts, TaskEndsKeepsInv
    <2>3. CASE ~LowOnFunds(s, reading.balance) /\ Admit(r) /\ state' = [s EXCEPT !.inFlight = @ + 1]
      BY <1>3, <2>3, AdmitKeepsInv
    <2>4. QED
      BY <2>1, <2>2, <2>3
  <1>4. QED
    BY <1>1, <1>2, <1>3

\* Sending spends only what was set aside for the request.
LEMMA SendSpendsNothing ==
    ASSUME BudgetInv, NEW r \in Slot, Send(r)
    PROVE  Unsettled' \subseteq Unsettled
  <1> DEFINE t == <<r, sent[r] + 1>>
  <1>1. /\ phase[r] = "running" /\ sent[r] < 2 /\ sent[r] \in Nat /\ sent \in [Slot -> Nat]
        /\ sent' = [sent EXCEPT ![r] = @ + 1] /\ pending' = pending \cup {t}
        /\ phase' = phase
    BY DEF Send, BudgetInv, SponsorTypeOK
  <1>2. /\ sent'[r] = sent[r] + 1 /\ \A q \in Slot : q # r => sent'[q] = sent[q]
    BY <1>1
  <1>3. t \in Tx /\ t[1] = r /\ t[2] = sent[r] + 1
    BY <1>1 DEF Tx
  <1>4. ASSUME NEW u \in Unsettled'
        PROVE  u \in Unsettled
    <2>1. u \in Tx /\ u[1] \in Slot /\ u[2] \in Nat
      BY <1>4 DEF Unsettled, Tx
    <2>2. CASE u \in pending
      BY <2>1, <2>2 DEF Unsettled
    <2>3. CASE u = t
      BY <1>1, <1>3, <2>1, <2>3 DEF Unsettled
    <2>4. CASE phase[u[1]] = "running" /\ u[2] > sent'[u[1]]
      <3>1. u[2] > sent[u[1]]
        BY <1>1, <1>2, <2>1, <2>4
      <3>2. QED
        BY <2>1, <2>4, <3>1 DEF Unsettled
    <2>5. QED
      BY <1>1, <1>4, <2>2, <2>3, <2>4 DEF Unsettled
  <1>5. QED
    BY <1>4

\* A transaction sent is one less to send.
LEMMA SendKeepsInv ==
    ASSUME BudgetInv, NEW r \in Slot, Send(r)
    PROVE  BudgetInv'
  <1> USE DEF BudgetInv
  <1> DEFINE t == <<r, sent[r] + 1>>
  <1>1. /\ phase[r] = "running" /\ sent[r] < 2 /\ sent[r] \in Nat
        /\ sent' = [sent EXCEPT ![r] = @ + 1] /\ pending' = pending \cup {t}
        /\ UNCHANGED <<phase, gone, held, queue, reading, state, balance, today, overtaken>>
    BY DEF Send, SponsorTypeOK
  <1>2. /\ sent' \in [Slot -> Nat] /\ sent'[r] = sent[r] + 1
        /\ \A q \in Slot : q # r => sent'[q] = sent[q]
    BY <1>1 DEF SponsorTypeOK
  <1>3. t \in Tx /\ t[1] = r /\ t[2] = sent[r] + 1
    BY <1>1 DEF Tx
  <1>4. SponsorTypeOK' /\ QueueInv'
    BY <1>1, <1>2, <1>3 DEF SponsorTypeOK, QueueInv, Tx
  <1>5. \A q \in Slot : q # r => PendingOf(q)' = PendingOf(q)
    BY <1>1, <1>3 DEF PendingOf
  <1>6. Active' = Active
    BY <1>1, <1>5 DEF Active
  <1>7. \A u \in pending' : phase'[u[1]] = "running" => u[2] <= sent'[u[1]]
    <2>1. ASSUME NEW u \in pending, phase[u[1]] = "running"
          PROVE  u[2] <= sent'[u[1]]
      <3>1. u[1] \in Slot /\ u[2] \in Nat /\ u[2] <= sent[u[1]]
        BY <2>1 DEF SponsorTypeOK, Tx, ReservationInv
      <3>2. CASE u[1] = r
        BY <1>1, <1>2, <3>1, <3>2
      <3>3. CASE u[1] # r
        BY <1>2, <3>1, <3>3
      <3>4. QED
        BY <3>2, <3>3
    <2>2. t[2] <= sent'[t[1]]
      BY <1>1, <1>2, <1>3
    <2> HIDE DEF t
    <2>3. QED
      BY <1>1, <2>1, <2>2
  <1>8. ReservationInv'
    BY <1>1, <1>5, <1>6, <1>7 DEF ReservationInv
  <1>9. Unsettled' \subseteq Unsettled
    BY SendSpendsNothing
  <1>10. FloorInv'
    <2>1. balance \in Int /\ state.inFlight \in Int /\ reading.balance \in Int /\ overtaken \in BOOLEAN
      BY DEF SponsorTypeOK
    <2>2. QED
      BY <1>1, <1>9, <2>1, QuietKeepsFloor
  <1>11. QED
    BY <1>4, <1>8, <1>10

\* A transaction that lands was exposed, and no longer is.
LEMMA SettlesWhatWasSetAside ==
    ASSUME BudgetInv, NEW t \in pending, NEW c \in 0..TxCost, Settle(t, c)
    PROVE  Exposure' = Exposure - TxCost /\ Exposure \in Nat
  <1> USE DEF BudgetInv
  <1>1. pending' = pending \ {t} /\ UNCHANGED <<phase, sent>>
    BY DEF Settle, requests
  <1>2. t \in Tx /\ t[1] \in Slot /\ t[2] \in Nat
    BY DEF SponsorTypeOK, Tx
  <1>3. ~(phase[t[1]] = "running" /\ t[2] > sent[t[1]])
    BY <1>2 DEF ReservationInv, SponsorTypeOK
  <1>4. t \in Unsettled /\ Unsettled' = Unsettled \ {t}
    BY <1>1, <1>2, <1>3 DEF Unsettled, Tx
  <1>5. QED
    BY <1>4, ExposureSettles

\* A transaction that lands costs no more than was set aside for it.
LEMMA SettleKeepsInv ==
    ASSUME BudgetInv, NEW t \in pending, NEW c \in 0..TxCost, Settle(t, c)
    PROVE  BudgetInv'
  <1> USE DEF BudgetInv
  <1>1. /\ pending' = pending \ {t} /\ balance' = balance - c
        /\ UNCHANGED <<phase, gone, held, sent, queue, reading, state, today, overtaken>>
    BY DEF Settle, requests
  <1>2. c \in Nat /\ c <= TxCost /\ TxCost \in Nat /\ balance \in Int
    BY BudgetAssumption DEF SponsorTypeOK
  <1>3. SponsorTypeOK' /\ QueueInv'
    BY <1>1, <1>2 DEF SponsorTypeOK, QueueInv, Tx
  <1>4. ReservationInv'
    BY <1>1, QuietKeepsReservations DEF ReservationInv
  <1>8. Exposure' = Exposure - TxCost /\ Exposure \in Nat
    BY SettlesWhatWasSetAside
  <1>9. Headroom' >= Headroom /\ Headroom \in Int /\ Headroom' \in Int
    <2>1. \A x \in Int, e \in Nat :
              (x - c) - (e - TxCost) >= x - e /\ x - e \in Int /\ (x - c) - (e - TxCost) \in Int
      BY <1>2
    <2>2. balance' - Exposure' = (balance - c) - (Exposure - TxCost)
      BY <1>1, <1>8
    <2>3. QED
      BY <1>2, <1>8, <2>1, <2>2 DEF Headroom
  <1>10. FloorInv'
    <2>1. \A x \in Int : Headroom >= x => Headroom' >= x
      BY <1>9
    <2>2. Others' = Others /\ Floor - Others \in Int /\ Floor \in Int
      BY OthersType DEF Others
    <2>3. reading.balance - Others \in Int /\ reading.balance - state.inFlight * Reserve \in Int
      BY OthersType DEF SponsorTypeOK
    <2>4. QED
      BY <1>1, <2>1, <2>2, <2>3 DEF FloorInv
  <1>11. QED
    BY <1>3, <1>4, <1>10

\* A release frees one reserve of the request it belongs to; unless it is
\* premature, that request spends no more and no reading is outdated by it.
LEMMA ReleaseKeepsInv ==
    ASSUME BudgetInv, NEW r \in Slot, phase[r] = "running", r \in held, Release(r),
           UNCHANGED <<sent, reading, balance, pending, today>>,
           \/ phase' = phase /\ gone' = gone \cup {r} /\ overtaken'
           \/ phase' = [phase EXCEPT ![r] = "idle"] /\ gone' = gone \ {r},
           overtaken => overtaken', overtaken' \in BOOLEAN,
           ~overtaken' => phase'[r] = "idle" /\ PendingOf(r) = {} /\ reading.got # "value"
    PROVE  BudgetInv'
  <1> USE DEF BudgetInv
  <1>1. /\ held' = held \ {r} /\ state' = [state EXCEPT !.inFlight = @ - 1]
        /\ queue' = Append(queue, Observe(r))
    BY DEF Release
  <1>2. /\ phase' \in [Slot -> {"idle", "waiting", "running"}]
        /\ \A q \in Slot : q # r => phase'[q] = phase[q]
        /\ phase'[r] \in {"running", "idle"}
    BY DEF SponsorTypeOK
  <1>3. /\ state' \in [day : Int, baseline : Int, lastBalance : Int, inFlight : Int]
        /\ state'.inFlight = state.inFlight - 1 /\ state.inFlight \in Int
    <2>1. /\ state \in [day : Int, baseline : Int, lastBalance : Int, inFlight : Int]
          /\ state.inFlight \in Int
      BY DEF SponsorTypeOK
    <2>2. QED
      BY <1>1, <2>1
  <1>4. Observe(r) \in Task /\ Observe(r).kind # "check" /\ queue \in Seq(Task)
    BY DEF Observe, Task, SponsorTypeOK
  <1>5. StaysWaiting(Slot)
    BY <1>2 DEF StaysWaiting
  <1>6. QueueInv' /\ queue' \in Seq(Task) /\ (queue # <<>> => Head(queue') = Head(queue))
    BY <1>1, <1>4, <1>5, AppendKeepsQueue
  <1>7. SponsorTypeOK'
    BY <1>1, <1>2, <1>3, <1>6 DEF SponsorTypeOK, Task, Tx
  <1>8. Cardinality(held') <= state'.inFlight
    <2>1. IsFiniteSet(held) /\ Cardinality(held) \in Nat /\ Cardinality(held') = Cardinality(held) - 1
      BY <1>1, TxFinite, FS_RemoveElement DEF SponsorTypeOK
    <2>2. QED
      BY <1>3, <2>1 DEF ReservationInv
  <1>9. \A q \in Slot : PendingOf(q)' = PendingOf(q)
    BY DEF PendingOf
  <1>10. ~overtaken' => Cardinality(Active') <= state'.inFlight
    <2> SUFFICES ASSUME ~overtaken'
                 PROVE  Cardinality(Active') <= state'.inFlight
      OBVIOUS
    <2>1. r \in Active /\ Active' = Active \ {r}
      BY <1>2, <1>9 DEF Active
    <2>2. IsFiniteSet(Active) /\ Cardinality(Active) \in Nat
      BY TxFinite DEF Active
    <2>3. Cardinality(Active') = Cardinality(Active) - 1
      BY <2>1, <2>2, FS_RemoveElement
    <2>4. Cardinality(Active) <= state.inFlight
      BY DEF ReservationInv
    <2>5. QED
      BY <1>3, <2>2, <2>3, <2>4
  <1>11. ReservationInv'
    <2>1. \A t \in pending : t[1] \in Slot
      BY DEF SponsorTypeOK, Tx
    <2>2. \A t \in pending' : phase'[t[1]] = "running" => t[2] <= sent'[t[1]]
      <3>1. \A q \in Slot : phase'[q] = "running" => phase[q] = "running"
        BY <1>2
      <3>2. QED
        BY <2>1, <3>1 DEF ReservationInv
    <2>3. \A q \in Slot : phase'[q] = "waiting" => PendingOf(q)' = {}
      BY <1>2, <1>9 DEF ReservationInv
    <2>4. \A q \in Slot : phase'[q] = "running" /\ q \notin gone' => q \in held'
      BY <1>1, <1>2 DEF ReservationInv
    <2>5. QED
      BY <1>8, <1>10, <2>2, <2>3, <2>4 DEF ReservationInv
  <1>12. Unsettled' \subseteq Unsettled
    <2>1. \A q \in Slot : phase'[q] = "running" => phase[q] = "running" /\ sent'[q] = sent[q]
      BY <1>2
    <2>2. QED
      BY <2>1, LessToSpend DEF SponsorTypeOK
  <1>13. FloorInv'
    <2>1. balance \in Int /\ state.inFlight \in Int /\ reading.balance \in Int /\ overtaken \in BOOLEAN
      BY DEF SponsorTypeOK
    <2>2. reading'.got = "value" => /\ queue # <<>> /\ Head(queue') = Head(queue)
                                    /\ overtaken'
      BY <1>6 DEF QueueInv
    <2>3. QED
      BY <1>12, <2>1, <2>2, QuietKeepsFloor
  <1>14. QED
    BY <1>6, <1>7, <1>11, <1>13

\* A handler that answers a client who is there releases; a client who left
\* before the check was admitted leaves a reservation behind, which is only
\* more than what is needed.
LEMMA ReplyKeepsInv ==
    ASSUME BudgetInv, NEW r \in Slot, Reply(r)
    PROVE  BudgetInv'
  <1>1. /\ phase[r] = "running" /\ phase' = [phase EXCEPT ![r] = "idle"] /\ gone' = gone \ {r}
        /\ UNCHANGED <<sent, reading, balance, pending, today>>
    BY DEF Reply, chain
  <1>2. /\ phase' \in [Slot -> {"idle", "waiting", "running"}] /\ phase'[r] = "idle"
        /\ \A q \in Slot : q # r => phase'[q] = phase[q]
    BY <1>1 DEF BudgetInv, SponsorTypeOK
  <1>3. CASE r \notin gone
    <2>1. /\ r \in held /\ Release(r)
          /\ overtaken' = (overtaken \/ (r \in held /\ (PendingOf(r) # {} \/ reading.got = "value")))
      BY <1>1, <1>3 DEF Reply, Premature, BudgetInv, ReservationInv
    <2>2. /\ overtaken => overtaken' /\ overtaken' \in BOOLEAN
          /\ ~overtaken' => PendingOf(r) = {} /\ reading.got # "value"
      BY <2>1
    <2>3. QED
      BY <1>1, <1>2, <2>1, <2>2, ReleaseKeepsInv
  <1>4. CASE r \in gone
    <2> USE DEF BudgetInv
    <2>1. held' = held \ {r} /\ UNCHANGED <<state, queue, overtaken>>
      BY <1>4 DEF Reply
    <2>2. SponsorTypeOK'
      BY <1>1, <1>2, <2>1 DEF SponsorTypeOK, Tx
    <2>3. StaysWaiting(Slot)
      BY <1>1, <1>2 DEF StaysWaiting
    <2>4. QueueInv'
      BY <1>1, <2>1, <2>3, SameQueueKeepsQueue DEF SponsorTypeOK, Task, QueueInv
    <2>5. \A q \in Slot : phase'[q] = "running" => phase[q] = "running" /\ sent'[q] = sent[q]
      BY <1>1, <1>2
    <2>6. /\ Unsettled' \subseteq Unsettled
          /\ Cardinality(Active') \in Nat /\ Cardinality(Active) \in Nat
          /\ Cardinality(Active') <= Cardinality(Active)
      BY <1>1, <2>5, LessToSpend DEF SponsorTypeOK
    <2>7. state.inFlight \in Int
      BY DEF SponsorTypeOK
    <2>8. Cardinality(held') <= state'.inFlight
      <3>1. IsFiniteSet(held) /\ Cardinality(held) \in Nat
        BY TxFinite DEF SponsorTypeOK
      <3>2. Cardinality(held') \in {Cardinality(held), Cardinality(held) - 1}
        BY <2>1, <3>1, FS_RemoveElement
      <3>3. Cardinality(held) <= state.inFlight
        BY DEF ReservationInv
      <3>4. QED
        BY <2>1, <2>7, <3>1, <3>2, <3>3
    <2>9. ReservationInv'
      <3>1. \A t \in pending : t[1] \in Slot
        BY DEF SponsorTypeOK, Tx
      <3>2. \A t \in pending' : phase'[t[1]] = "running" => t[2] <= sent'[t[1]]
        BY <1>1, <2>5, <3>1 DEF ReservationInv
      <3>3. \A q \in Slot : phase'[q] = "waiting" => PendingOf(q)' = {}
        BY <1>1, <1>2 DEF ReservationInv, PendingOf
      <3>4. \A q \in Slot : phase'[q] = "running" /\ q \notin gone' => q \in held'
        BY <1>1, <1>2, <2>1 DEF ReservationInv
      <3>5. ~overtaken' => Cardinality(Active') <= state'.inFlight
        BY <2>1, <2>6, <2>7 DEF ReservationInv
      <3>6. QED
        BY <2>8, <3>2, <3>3, <3>4, <3>5 DEF ReservationInv
    <2>10. FloorInv'
      <3>1. balance \in Int /\ reading.balance \in Int /\ overtaken \in BOOLEAN
        BY DEF SponsorTypeOK
      <3>2. QED
        BY <1>1, <2>1, <2>6, <2>7, <3>1, QuietKeepsFloor
    <2>11. QED
      BY <2>2, <2>4, <2>9, <2>10
  <1>5. QED
    BY <1>3, <1>4

\* A client that goes away releases once it is listened to.
LEMMA DisconnectKeepsInv ==
    ASSUME BudgetInv, NEW r \in Slot, Disconnect(r)
    PROVE  BudgetInv'
  <1>1. /\ phase[r] # "idle" /\ r \notin gone /\ gone' = gone \cup {r}
        /\ UNCHANGED <<phase, sent, reading, balance, pending, today>>
    BY DEF Disconnect, chain
  <1>2. CASE phase[r] = "running"
    <2>1. r \in held /\ Release(r) /\ overtaken' = (overtaken \/ (r \in held /\ (TRUE \/ reading.got = "value")))
      BY <1>1, <1>2 DEF Disconnect, Premature, BudgetInv, ReservationInv
    <2>2. overtaken' = TRUE
      BY <2>1
    <2>3. QED
      BY <1>1, <1>2, <2>1, <2>2, ReleaseKeepsInv
  <1>3. CASE phase[r] # "running"
    <2> USE DEF BudgetInv
    <2>1. UNCHANGED <<held, state, queue, overtaken>>
      BY <1>3 DEF Disconnect
    <2>2. SponsorTypeOK' /\ QueueInv'
      BY <1>1, <2>1 DEF SponsorTypeOK, QueueInv, Tx
    <2>3. ReservationInv'
      BY <1>1, <1>3, <2>1, QuietKeepsReservations DEF ReservationInv
    <2>4. Unsettled' \subseteq Unsettled
      BY <1>1, <2>1 DEF Unsettled, Tx
    <2>5. balance \in Int /\ state.inFlight \in Int /\ reading.balance \in Int /\ overtaken \in BOOLEAN
      BY DEF SponsorTypeOK
    <2>6. FloorInv'
      BY <1>1, <2>1, <2>4, <2>5, QuietKeepsFloor
    <2>7. QED
      BY <2>2, <2>3, <2>6
  <1>4. QED
    BY <1>2, <1>3

\* After a restart there is nobody to check or to release; what may still land
\* then marks the budget as overtaken.
LEMMA RestartKeepsInv ==
    ASSUME BudgetInv, Restart
    PROVE  BudgetInv'
  <1> USE DEF BudgetInv
  <1>1. /\ phase' = [r \in Slot |-> "idle"] /\ held' = {} /\ sent' = [r \in Slot |-> 0]
        /\ queue' = <<>> /\ reading' = NoReading /\ state' = FreshState
        /\ overtaken' = (overtaken \/ Unsettled # {})
        /\ UNCHANGED <<balance, pending, today>>
    BY DEF Restart
  <1>2. /\ \A r \in Slot : phase'[r] = "idle" /\ sent'[r] = 0
        /\ state' \in [day : Int, baseline : Int, lastBalance : Int, inFlight : Int]
        /\ state'.inFlight = 0 /\ reading'.got = "none" /\ reading'.balance = 0
        /\ overtaken' \in BOOLEAN /\ Len(queue') = 0
    BY <1>1 DEF FreshState, NoReading, SponsorTypeOK
  <1>3. SponsorTypeOK'
    BY <1>1, <1>2 DEF SponsorTypeOK, Tx
  <1>4. QueueInv'
    BY <1>2 DEF QueueInv
  <1>5. pending = {} \/ overtaken'
    BY <1>1 DEF Unsettled, SponsorTypeOK
  <1>6. ReservationInv'
    <2>1. Cardinality(held') = 0
      BY <1>1, FS_EmptySet
    <2>2. ASSUME ~overtaken'
          PROVE  Cardinality(Active') <= 0
      <3>1. Active' = {}
        BY <1>1, <1>2, <1>5, <2>2 DEF Active, PendingOf
      <3>2. QED
        BY <3>1, FS_EmptySet
    <2>3. \A t \in pending' : t[1] \in Slot
      BY <1>1 DEF SponsorTypeOK, Tx
    <2>4. QED
      BY <1>2, <2>1, <2>2, <2>3 DEF ReservationInv
  <1>7. Unsettled' \subseteq Unsettled
    BY <1>1, <1>2, LessToSpend DEF SponsorTypeOK
  <1>8. FloorInv'
    <2>1. balance \in Int /\ state.inFlight \in Int /\ reading.balance \in Int /\ overtaken \in BOOLEAN
      BY DEF SponsorTypeOK
    <2>2. QED
      BY <1>1, <1>2, <1>7, <2>1, QuietKeepsFloor
  <1>9. QED
    BY <1>3, <1>4, <1>6, <1>8

\* A new day, a top-up or nothing at all.
LEMMA OthersKeepInv ==
    ASSUME BudgetInv,
           NewDay \/ (\E a \in TopUpAmount : TopUp(a)) \/ UNCHANGED vars
    PROVE  BudgetInv'
  <1> USE DEF BudgetInv
  <1>1. UNCHANGED <<phase, gone, held, sent, queue, reading, state, pending, overtaken>>
    BY DEF NewDay, TopUp, vars, requests, chain
  <1>2. today' \in Int /\ balance' \in Int /\ balance' >= balance
    <2>1. balance \in Int /\ today \in Int
      BY DEF SponsorTypeOK
    <2>2. CASE NewDay
      BY <2>1, <2>2 DEF NewDay
    <2>3. CASE \E a \in TopUpAmount : TopUp(a)
      <3>1. PICK a \in TopUpAmount : balance' = balance + a /\ today' = today
        BY <2>3 DEF TopUp
      <3>2. a \in Nat
        BY BudgetAssumption
      <3>3. QED
        BY <2>1, <3>1, <3>2
    <2>4. CASE UNCHANGED vars
      BY <2>1, <2>4 DEF vars, chain
    <2>5. QED
      BY <2>2, <2>3, <2>4
  <1>3. SponsorTypeOK' /\ QueueInv'
    BY <1>1, <1>2 DEF SponsorTypeOK, QueueInv, Tx
  <1>4. ReservationInv'
    BY <1>1, QuietKeepsReservations DEF ReservationInv
  <1>5. Unsettled' \subseteq Unsettled
    BY <1>1 DEF Unsettled, Tx
  <1>6. FloorInv'
    <2>1. balance \in Int /\ state.inFlight \in Int /\ reading.balance \in Int /\ overtaken \in BOOLEAN
      BY DEF SponsorTypeOK
    <2>2. QED
      BY <1>1, <1>2, <1>5, <2>1, QuietKeepsFloor
  <1>7. QED
    BY <1>3, <1>4, <1>6

-----------------------------------------------------------------------------
(* The theorems *)

\* The wallet starts above its floor, with nothing to spend.
LEMMA BudgetStarts == Init => BudgetInv
  <1> SUFFICES ASSUME Init PROVE BudgetInv
    OBVIOUS
  <1>1. /\ phase = [r \in Slot |-> "idle"] /\ held = {} /\ sent = [r \in Slot |-> 0]
        /\ queue = <<>> /\ reading = NoReading /\ state = FreshState
        /\ balance = StartBalance /\ pending = {} /\ today = 1 /\ overtaken = FALSE
    BY DEF Init
  <1>2. /\ \A r \in Slot : phase[r] = "idle" /\ PendingOf(r) = {}
        /\ state \in [day : Int, baseline : Int, lastBalance : Int, inFlight : Int]
        /\ state.inFlight = 0 /\ reading.got = "none" /\ reading.balance = 0 /\ Len(queue) = 0
    BY <1>1 DEF FreshState, NoReading, PendingOf
  <1>3. SponsorTypeOK
    <2>1. phase \in [Slot -> {"idle", "waiting", "running"}] /\ sent \in [Slot -> Nat]
      BY <1>1
    <2>2. queue \in Seq([kind : {"check", "observe"}, slot : Slot])
      BY <1>1
    <2>3. balance \in Int /\ today \in Int /\ reading.balance \in Int
      <3>1. balance = StartBalance /\ StartBalance \in Nat /\ today = 1 /\ reading.balance = 0
        BY <1>1, <1>2, BudgetAssumption
      <3>2. QED
        BY <3>1
    <2>4. held \subseteq Slot /\ pending \subseteq Tx /\ overtaken \in BOOLEAN
      BY <1>1, Zenon
    <2>5. QED
      BY <1>2, <2>1, <2>2, <2>3, <2>4 DEF SponsorTypeOK
  <1>4. QueueInv
    BY <1>2 DEF QueueInv
  <1>5. ReservationInv
    <2>1. Active = {}
      BY <1>2 DEF Active
    <2>2. QED
      BY <1>1, <1>2, <2>1, FS_EmptySet DEF ReservationInv
  <1>6. FloorInv
    <2>1. Unsettled = {}
      BY <1>1, <1>2 DEF Unsettled, Tx
    <2>2. Exposure = 0
      BY <2>1, FS_EmptySet, BudgetAssumption DEF Exposure
    <2>3. Headroom = StartBalance /\ StartBalance \in Nat /\ StartBalance >= Floor
      BY <1>1, <2>2, BudgetAssumption DEF Headroom
    <2>4. QED
      BY <1>2, <2>3, OthersType DEF FloorInv
  <1>7. QED
    BY <1>3, <1>4, <1>5, <1>6 DEF BudgetInv

\* Every step keeps the invariant.
LEMMA BudgetSteps == BudgetInv /\ [Next]_vars => BudgetInv'
  <1> SUFFICES ASSUME BudgetInv, [Next]_vars PROVE BudgetInv'
    OBVIOUS
  <1>1. ASSUME NEW r \in Slot, Arrive(r) PROVE BudgetInv'
    BY <1>1, ArriveKeepsInv
  <1>2. ASSUME NEW r \in Slot, CheckFails(r) \/ CheckBudget(r) PROVE BudgetInv'
    BY <1>2, TasksKeepInv
  <1>3. ASSUME NEW r \in Slot, Send(r) PROVE BudgetInv'
    BY <1>3, SendKeepsInv
  <1>4. ASSUME NEW r \in Slot, Reply(r) PROVE BudgetInv'
    BY <1>4, ReplyKeepsInv
  <1>5. ASSUME NEW r \in Slot, Disconnect(r) PROVE BudgetInv'
    BY <1>5, DisconnectKeepsInv
  <1>6. CASE Read
    BY <1>6, ReadKeepsInv
  <1>7. CASE ObserveBalance
    BY <1>7, TasksKeepInv
  <1>8. ASSUME NEW t \in pending, NEW c \in 0..TxCost, Settle(t, c) PROVE BudgetInv'
    BY <1>8, SettleKeepsInv
  <1>9. CASE Restart
    BY <1>9, RestartKeepsInv
  <1>10. CASE NewDay \/ (\E a \in TopUpAmount : TopUp(a)) \/ UNCHANGED vars
    BY <1>10, OthersKeepInv
  <1>11. QED
    BY <1>1, <1>2, <1>3, <1>4, <1>5, <1>6, <1>7, <1>8, <1>9, <1>10 DEF Next

\* The invariant holds throughout.
LEMMA BudgetInvariant == Spec => []BudgetInv
  <1>1. QED
    BY BudgetStarts, BudgetSteps, PTL DEF Spec

\* relay/sponsor_budget.js, check's first refusal: unless a release was
\* premature, the floor survives whatever the admitted requests still cost.
THEOREM FloorHoldsUnlessOvertaken == Spec => []FloorKeptUnlessOvertaken
  <1>1. BudgetInv => FloorKeptUnlessOvertaken
    BY DEF BudgetInv, FloorInv, Headroom, FloorKeptUnlessOvertaken
  <1>2. QED
    BY <1>1, BudgetInvariant, PTL

\* Whatever is released early, lands late, fails or restarts, the floor is
\* overshot by less than one reserve per concurrent request, because the
\* promise queue of relay/sponsor_budget.js admits one request per reading.
THEOREM FloorOvershootIsBounded == Spec => []FloorOvershootBounded
  <1>1. BudgetInv => FloorOvershootBounded
    BY DEF BudgetInv, FloorInv, Headroom, Others, FloorOvershootBounded
  <1>2. QED
    BY <1>1, BudgetInvariant, PTL

-----------------------------------------------------------------------------
(* Reservations are given back, as long as clients wait for their answers *)

\* One reservation for each running request; the release that is lost in the
\* code is that of a client that has gone.
NoLeak ==
    /\ gone = {}
    /\ \A r \in Slot : r \in held <=> phase[r] = "running"
    /\ state.inFlight = Cardinality(held)

\* A step that admits and answers nobody leaves the reservations as they were.
LEMMA SameReservations ==
    ASSUME NoLeak, gone' = {}, held' = held, state'.inFlight = state.inFlight,
           \A r \in Slot : phase'[r] = "running" <=> phase[r] = "running"
    PROVE  NoLeak'
  BY DEF NoLeak

\* The tasks of the queue admit a request with its reservation or leave the
\* reservations as they were.
LEMMA TasksKeepNoLeak ==
    ASSUME BudgetInv, NoLeak,
           ObserveBalance \/ \E r \in Slot : CheckFails(r) \/ CheckBudget(r)
    PROVE  NoLeak'
  <1>0. /\ SponsorTypeOK /\ reading.balance \in Int /\ today \in Int
        /\ state \in [day : Int, baseline : Int, lastBalance : Int, inFlight : Int]
        /\ phase \in [Slot -> {"idle", "waiting", "running"}] /\ held \subseteq Slot
    BY DEF BudgetInv, SponsorTypeOK
  <1>1. CASE ObserveBalance
    <2>1. UNCHANGED <<phase, gone, held>>
      BY <1>1 DEF ObserveBalance, requests
    <2>2. state' = state \/ state' = Observed(state, reading.balance, today)
      BY <1>1 DEF ObserveBalance
    <2>3. state'.inFlight = state.inFlight
      <3>1. Observed(state, reading.balance, today).inFlight = state.inFlight
        BY <1>0, ObservedFacts
      <3>2. QED
        BY <2>2, <3>1, Zenon
    <2>4. QED
      BY <2>1, <2>3, SameReservations DEF NoLeak
  <1>2. ASSUME NEW r \in Slot, CheckFails(r) \/ CheckBudget(r)
        PROVE  NoLeak'
    <2> DEFINE s == Observed(state, reading.balance, today)
    <2>1. /\ s \in [day : Int, baseline : Int, lastBalance : Int, inFlight : Int]
          /\ s.inFlight = state.inFlight
      BY <1>0, ObservedFacts
    <2>2. queue # <<>> /\ Head(queue) = Check(r)
      BY <1>2 DEF CheckFails, CheckBudget
    <2>3. phase[r] = "waiting"
      <3>1. queue \in Seq(Task)
        BY <1>0 DEF SponsorTypeOK, Task
      <3>2. 1 \in 1..Len(queue) /\ Head(queue) = queue[1]
        BY <2>2, <3>1
      <3>3. queue[1].kind = "check" /\ queue[1].slot = r
        BY <2>2, <3>2 DEF Check
      <3>4. QED
        BY <3>2, <3>3 DEF BudgetInv, QueueInv
    <2>4. \/ Refuse(r) /\ (state' = state \/ state' = s)
          \/ Admit(r) /\ state' = [s EXCEPT !.inFlight = @ + 1]
      BY <1>2 DEF CheckFails, CheckBudget
    <2> HIDE DEF s
    <2>5. CASE Refuse(r) /\ (state' = state \/ state' = s)
      <3>1. phase' = [phase EXCEPT ![r] = "idle"] /\ gone' = gone \ {r} /\ held' = held
        BY <2>5 DEF Refuse
      <3>2. \A q \in Slot : phase'[q] = "running" <=> phase[q] = "running"
        BY <1>0, <2>3, <3>1
      <3>3. QED
        BY <2>1, <2>5, <3>1, <3>2, SameReservations DEF NoLeak
    <2>6. CASE Admit(r) /\ state' = [s EXCEPT !.inFlight = @ + 1]
      <3>1. phase' = [phase EXCEPT ![r] = "running"] /\ held' = held \cup {r} /\ gone' = gone
        BY <2>6 DEF Admit
      <3>2. IsFiniteSet(held) /\ r \notin held
        BY <1>0, <2>3, TxFinite DEF NoLeak
      <3>3. Cardinality(held') = Cardinality(held) + 1
        BY <3>1, <3>2, FS_AddElement
      <3>4. state'.inFlight = s.inFlight + 1
        BY <2>1, <2>6
      <3>5. \A q \in Slot : q \in held' <=> phase'[q] = "running"
        BY <1>0, <3>1 DEF NoLeak
      <3>6. QED
        BY <2>1, <3>1, <3>3, <3>4, <3>5 DEF NoLeak
    <2>7. QED
      BY <2>4, <2>5, <2>6
  <1>3. QED
    BY <1>1, <1>2

\* The answer releases what its request has reserved.
LEMMA ReplyKeepsNoLeak ==
    ASSUME BudgetInv, NoLeak, NEW r \in Slot, Reply(r)
    PROVE  NoLeak'
  <1>0. /\ state \in [day : Int, baseline : Int, lastBalance : Int, inFlight : Int]
        /\ phase \in [Slot -> {"idle", "waiting", "running"}] /\ held \subseteq Slot
    BY DEF BudgetInv, SponsorTypeOK
  <1>1. /\ phase[r] = "running" /\ phase' = [phase EXCEPT ![r] = "idle"] /\ gone' = gone \ {r}
        /\ r \notin gone /\ r \in held
    BY DEF Reply, NoLeak
  <1>2. Release(r)
    BY <1>1 DEF Reply
  <1>3. held' = held \ {r} /\ state' = [state EXCEPT !.inFlight = @ - 1]
    BY <1>1, <1>2 DEF Release
  <1>4. Cardinality(held') = Cardinality(held) - 1
    BY <1>0, <1>1, <1>3, TxFinite, FS_RemoveElement
  <1>5. state'.inFlight = state.inFlight - 1
    BY <1>0, <1>3
  <1>6. \A q \in Slot : q \in held' <=> phase'[q] = "running"
    BY <1>0, <1>1, <1>3 DEF NoLeak
  <1>7. QED
    BY <1>1, <1>4, <1>5, <1>6 DEF NoLeak

\* Without disconnects, every step keeps reservations and requests together.
LEMMA NoLeakSteps ==
    ASSUME MayDisconnect = FALSE
    PROVE  BudgetInv /\ NoLeak /\ [Next]_vars => NoLeak'
  <1> SUFFICES ASSUME BudgetInv, NoLeak, [Next]_vars PROVE NoLeak'
    OBVIOUS
  <1>0. phase \in [Slot -> {"idle", "waiting", "running"}]
    BY DEF BudgetInv, SponsorTypeOK
  <1>1. ASSUME NEW r \in Slot, Arrive(r) PROVE NoLeak'
    <2>1. phase[r] = "idle" /\ phase' = [phase EXCEPT ![r] = "waiting"] /\ UNCHANGED <<gone, held, state>>
      BY <1>1 DEF Arrive
    <2>2. \A q \in Slot : phase'[q] = "running" <=> phase[q] = "running"
      BY <1>0, <2>1
    <2>3. QED
      BY <2>1, <2>2, SameReservations DEF NoLeak
  <1>2. ASSUME NEW r \in Slot, Send(r) PROVE NoLeak'
    BY <1>2, SameReservations DEF Send, NoLeak
  <1>3. ASSUME NEW r \in Slot, Disconnect(r) PROVE NoLeak'
    BY <1>3 DEF Disconnect
  <1>4. CASE Read
    BY <1>4, SameReservations DEF Read, NoLeak, requests
  <1>5. ASSUME NEW t \in pending, NEW c \in 0..TxCost, Settle(t, c) PROVE NoLeak'
    BY <1>5, SameReservations DEF Settle, NoLeak, requests
  <1>6. CASE Restart
    <2>1. phase' = [r \in Slot |-> "idle"] /\ gone' = {} /\ held' = {} /\ state' = FreshState
      BY <1>6 DEF Restart
    <2>2. QED
      BY <2>1, FS_EmptySet DEF NoLeak, FreshState
  <1>7. CASE NewDay \/ (\E a \in TopUpAmount : TopUp(a)) \/ UNCHANGED vars
    <2>1. UNCHANGED <<phase, gone, held, state>>
      BY <1>7 DEF NewDay, TopUp, requests, vars
    <2>2. QED
      BY <2>1, SameReservations DEF NoLeak
  <1>8. QED
    BY <1>1, <1>2, <1>3, <1>4, <1>5, <1>6, <1>7, TasksKeepNoLeak, ReplyKeepsNoLeak DEF Next

\* relay/sponsor_budget.js:11, "Each request in flight also reserves": as long
\* as no client goes away, nothing is reserved when no request is in flight.
THEOREM ReservationsAreReturned ==
    ASSUME MayDisconnect = FALSE
    PROVE  Spec => []NothingReservedWhenIdle
  <1>1. Init => NoLeak
    BY FS_EmptySet DEF Init, NoLeak, FreshState
  <1>2. BudgetInv /\ NoLeak => NothingReservedWhenIdle
    <2> SUFFICES ASSUME BudgetInv, NoLeak, \A r \in Slot : phase[r] = "idle"
                 PROVE  state.inFlight = 0
      BY DEF NothingReservedWhenIdle
    <2>1. held = {}
      BY DEF BudgetInv, SponsorTypeOK, NoLeak
    <2>2. QED
      BY <2>1, FS_EmptySet DEF NoLeak
  <1>3. BudgetInv /\ NoLeak /\ [Next]_vars => NoLeak'
    BY NoLeakSteps
  <1>4. Spec => []NoLeak
    BY <1>1, <1>3, BudgetInvariant, PTL DEF Spec
  <1>5. QED
    BY <1>2, <1>4, BudgetInvariant, PTL
-----------------------------------------------------------------------------
(* Spending on one day *)

AllReserves == Cardinality(Slot) * Reserve

\* Within a day, what is paid and what the wallet still holds, less what was
\* topped up, only ever add up to the baseline and what was spent before it was
\* drawn: a rise hides no more than was topped up, and what earlier days have
\* admitted costs one reserve per request.
DailyInv ==
    /\ paid \in Nat /\ topped \in Nat /\ restarts \in Nat /\ today >= 1 /\ state.day <= today
    /\ restarts = 0 =>
           /\ paid + Exposure <= Daily + Others + AllReserves + topped
           /\ reading.got = "value" => balance - topped <= reading.balance
           /\ state.day = today => paid + balance - topped <= state.baseline + AllReserves
           /\ state.day # today => paid + Exposure <= AllReserves

\* The reserves of all requests are those of one and of the others.
LEMMA AllReservesType ==
    /\ AllReserves \in Nat /\ AllReserves = Others + Reserve
    /\ Daily \in Nat /\ Reserve \in Nat /\ Others \in Nat
  <1>1. Cardinality(Slot) \in Nat
    BY BudgetAssumption, FS_CardinalityType
  <1>2. \A n \in Nat : n * Reserve = (n - 1) * Reserve + Reserve /\ n * Reserve \in Nat
    BY OthersType
  <1>3. QED
    BY <1>1, <1>2, OthersType, BudgetAssumption DEF AllReserves, Others

\* What may still be spent is at most every request's reserve.
LEMMA ExposureWithinReserves == Exposure <= AllReserves /\ Exposure \in Nat
  <1>1. Unsettled \subseteq Slot \X {1, 2}
    BY DEF Unsettled, Tx
  <1>2. QED
    BY <1>1, ExposureOf, ExposureType DEF AllReserves

\* The types the arithmetic of the day needs.
LEMMA DailyTypes ==
    ASSUME BudgetInv
    PROVE  /\ balance \in Int /\ today \in Int /\ reading.balance \in Int
           /\ state.day \in Int /\ state.baseline \in Int /\ state.lastBalance \in Int
           /\ state.inFlight \in Nat
  <1>1. state.inFlight \in Int /\ Cardinality(held) <= state.inFlight
    BY DEF BudgetInv, SponsorTypeOK, ReservationInv
  <1>2. Cardinality(held) \in Nat
    BY TxFinite DEF BudgetInv, SponsorTypeOK
  <1>3. state.inFlight \in Nat
    BY <1>1, <1>2
  <1>4. QED
    BY <1>3 DEF BudgetInv, SponsorTypeOK

\* A step that spends nothing on a day whose baseline stays.
LEMMA QuietKeepsDaily ==
    ASSUME BudgetInv, DailyInv, UNCHANGED <<balance, today, topped, restarts, paid>>,
           Unsettled' \subseteq Unsettled,
           reading'.got = "value" => reading' = reading \/ reading'.balance = balance,
           state'.day = state.day, state'.baseline = state.baseline
    PROVE  DailyInv'
  <1>1. Exposure' <= Exposure /\ Exposure \in Nat /\ Exposure' \in Nat
    BY ExposureFalls
  <1>2. Others' = Others /\ AllReserves' = AllReserves
    BY DEF Others, AllReserves
  <1>3. /\ balance' = balance /\ today' = today /\ topped' = topped
        /\ restarts' = restarts /\ paid' = paid
    OBVIOUS
  <1>4. paid \in Nat /\ topped \in Nat /\ today >= 1 /\ state.day <= today
    BY DEF DailyInv
  <1> DEFINE most == Daily + Others + AllReserves + topped
  <1>5. ASSUME restarts = 0
        PROVE  /\ paid + Exposure' <= most
               /\ state.day # today => paid + Exposure' <= AllReserves
               /\ state.day = today => paid + balance - topped <= state.baseline + AllReserves
               /\ reading.got = "value" => balance - topped <= reading.balance
    <2>1. /\ paid + Exposure <= most
          /\ state.day # today => paid + Exposure <= AllReserves
          /\ state.day = today => paid + balance - topped <= state.baseline + AllReserves
          /\ reading.got = "value" => balance - topped <= reading.balance
      BY <1>5 DEF DailyInv
    <2>2. most \in Int /\ AllReserves \in Int
      BY <1>4, AllReservesType
    <2> HIDE DEF most
    <2>3. \A x \in Int, p, e, f \in Nat : f <= e /\ p + e <= x => p + f <= x
      OBVIOUS
    <2>4. \A x \in Int : paid + Exposure <= x => paid + Exposure' <= x
      BY <1>1, <1>4, <2>3
    <2>5. QED
      BY <2>1, <2>2, <2>4
  <1>6. restarts = 0 /\ reading'.got = "value" => balance - topped <= reading'.balance
    BY <1>4, <1>5, DailyTypes
  <1>7. QED
    BY <1>2, <1>3, <1>4, <1>5, <1>6 DEF DailyInv

\* Whatever the day, a reading that is applied leaves a baseline that the rest
\* of the day is measured against; a baseline only rises by what was topped up.
LEMMA ObservedKeepsDaily ==
    ASSUME BudgetInv, DailyInv, restarts = 0, reading.got = "value"
    PROVE  LET s == Observed(state, reading.balance, today) IN
           /\ s.day = today
           /\ paid + balance - topped <= s.baseline + AllReserves
           /\ s.baseline \in Int
  <1> DEFINE b == reading.balance
             s == Observed(state, b, today)
  <1>1. /\ state \in [day : Int, baseline : Int, lastBalance : Int, inFlight : Int]
        /\ b \in Int /\ balance \in Int /\ paid \in Nat /\ topped \in Nat
        /\ balance - topped <= b
    BY DEF BudgetInv, SponsorTypeOK, DailyInv
  <1>2. s.day = today
    BY <1>1 DEF Observed
  <1>3. CASE state.day # today
    <2>1. s.baseline = b
      BY <1>1, <1>3 DEF Observed
    <2>2. paid <= AllReserves
      BY <1>1, <1>3, ExposureWithinReserves, AllReservesType DEF DailyInv
    <2> HIDE DEF b, s
    <2>3. QED
      BY <1>1, <1>2, <2>1, <2>2, AllReservesType DEF b, s
  <1>4. CASE state.day = today
    <2>1. s.baseline >= state.baseline /\ s.baseline \in Int
      BY <1>1, <1>4 DEF Observed
    <2>2. paid + balance - topped <= state.baseline + AllReserves
      BY <1>4 DEF DailyInv
    <2> HIDE DEF b, s
    <2>3. QED
      BY <1>1, <1>2, <2>1, <2>2, AllReservesType DEF b, s
  <1>5. QED
    BY <1>3, <1>4

\* What observes and admits nobody.
LEMMA ObservingKeepsDaily ==
    ASSUME BudgetInv, DailyInv, reading.got = "value",
           UNCHANGED <<balance, today, topped, restarts, paid>>,
           Unsettled' \subseteq Unsettled, reading' = NoReading,
           state' = Observed(state, reading.balance, today)
    PROVE  DailyInv'
  <1>1. Exposure' <= Exposure /\ Exposure \in Nat /\ Exposure' \in Nat
    BY ExposureFalls
  <1>2. Others' = Others /\ AllReserves' = AllReserves
    BY DEF Others, AllReserves
  <1>3. reading'.got # "value"
    BY DEF NoReading
  <1>4. state'.day = today
    BY DEF Observed, BudgetInv, SponsorTypeOK
  <1>5. restarts = 0 => paid + balance - topped <= state'.baseline + AllReserves
    BY ObservedKeepsDaily
  <1>6. /\ balance' = balance /\ today' = today /\ topped' = topped
        /\ restarts' = restarts /\ paid' = paid
    OBVIOUS
  <1>7. paid \in Nat /\ topped \in Nat /\ restarts \in Nat /\ today >= 1 /\ today \in Int
    BY DailyTypes DEF DailyInv
  <1>8. restarts = 0 => paid + Exposure' <= Daily + Others + AllReserves + topped
    <2>1. restarts = 0 => paid + Exposure <= Daily + Others + AllReserves + topped
      BY DEF DailyInv
    <2>2. \A x \in Int, p, e, f \in Nat : f <= e /\ p + e <= x => p + f <= x
      OBVIOUS
    <2>3. Daily + Others + AllReserves + topped \in Int
      BY AllReservesType DEF DailyInv
    <2>4. QED
      BY <1>1, <1>7, <2>1, <2>2, <2>3
  <1>9. state'.day <= today
    BY <1>4, <1>7
  <1>10. QED
    BY <1>2, <1>3, <1>4, <1>5, <1>6, <1>7, <1>8, <1>9 DEF DailyInv

\* The second refusal of check leaves room for the request it admits, beyond
\* what was paid before the baseline, what was being spent since the reading,
\* and what was topped up.
LEMMA AdmitKeepsDaily ==
    ASSUME BudgetInv, DailyInv, NEW r \in Slot, CheckBudget(r), Admit(r),
           ~UsedUp(Observed(state, reading.balance, today), reading.balance),
           state' = [Observed(state, reading.balance, today) EXCEPT !.inFlight = @ + 1]
    PROVE  DailyInv'
  <1> DEFINE b == reading.balance
             s == Observed(state, b, today)
  <1>1. /\ queue # <<>> /\ Head(queue) = Check(r) /\ reading.got = "value" /\ Dequeue
        /\ phase' = [phase EXCEPT ![r] = "running"]
        /\ UNCHANGED <<sent, balance, pending, today, topped, restarts, paid>>
    BY DEF CheckBudget, Admit, chain
  <1>2. Exposure' <= Exposure + Reserve /\ Exposure \in Nat /\ Exposure' \in Nat
    <2>1. \A q \in Slot : phase'[q] = "running" => q = r \/ phase[q] = "running"
      BY <1>1 DEF BudgetInv, SponsorTypeOK
    <2>2. Unsettled' \subseteq Unsettled \cup {<<r, 1>>, <<r, 2>>}
      BY <1>1, <2>1 DEF Unsettled, Tx
    <2>3. QED
      BY <2>2, ExposureRises
  <1>3. /\ s \in [day : Int, baseline : Int, lastBalance : Int, inFlight : Int]
        /\ s.inFlight = state.inFlight
    BY ObservedFacts DEF BudgetInv, SponsorTypeOK
  <1>4. s.day = today
    BY DEF Observed, BudgetInv, SponsorTypeOK
  <1>5. state'.day = today /\ state'.baseline = s.baseline
    <2>1. state' = [s EXCEPT !.inFlight = @ + 1]
      OBVIOUS
    <2> HIDE DEF s
    <2>2. QED
      BY <1>3, <1>4, <2>1
  <1>6. s.baseline - b <= Daily - Reserve
    <2>1. ~(Spent(s, b) + s.inFlight * Reserve + Reserve > Daily)
      BY DEF UsedUp
    <2>2. b \in Int /\ s.baseline \in Int /\ s.inFlight \in Nat
      BY <1>3, DailyTypes
    <2> HIDE DEF s, b
    <2>3. Spent(s, b) \in Int /\ Spent(s, b) >= s.baseline - b
      BY <2>2 DEF Spent
    <2>4. s.inFlight * Reserve \in Nat
      BY <2>2, AllReservesType
    <2>5. QED
      BY <2>1, <2>2, <2>3, <2>4, AllReservesType
  <1>7. Headroom >= b - Others
    BY <1>1 DEF Check, BudgetInv, FloorInv
  <1>8. restarts = 0 => paid + balance - topped <= s.baseline + AllReserves
    BY <1>1, ObservedKeepsDaily
  <1>9. Others' = Others /\ AllReserves' = AllReserves /\ reading'.got # "value"
    BY <1>1 DEF Others, AllReserves, Dequeue, NoReading
  <1>10. b \in Int /\ s.baseline \in Int /\ balance \in Int /\ paid \in Nat /\ topped \in Nat
    BY <1>3, DailyTypes DEF DailyInv
  <1> HIDE DEF s, b
  <1>11. restarts = 0 => paid + Exposure' <= Daily + Others + AllReserves + topped
    <2>1. balance - Exposure >= b - Others
      BY <1>7 DEF Headroom
    <2>2. QED
      BY <1>2, <1>6, <1>8, <1>10, <2>1, AllReservesType
  <1>12. QED
    BY <1>1, <1>5, <1>8, <1>9, <1>10, <1>11, DailyTypes DEF DailyInv

\* The tasks of the queue.
LEMMA TasksKeepDaily ==
    ASSUME BudgetInv, DailyInv,
           ObserveBalance \/ \E r \in Slot : CheckFails(r) \/ CheckBudget(r)
    PROVE  DailyInv'
  <1>0. phase \in [Slot -> {"idle", "waiting", "running"}] /\ pending \subseteq Tx
    BY DEF BudgetInv, SponsorTypeOK
  <1>1. CASE ObserveBalance
    <2>1. /\ UNCHANGED <<phase, sent, pending, balance, today, topped, restarts, paid>>
          /\ reading' = NoReading
          /\ \/ state' = state
             \/ reading.got = "value" /\ state' = Observed(state, reading.balance, today)
      BY <1>1 DEF ObserveBalance, requests, chain, Dequeue
    <2>2. Unsettled' \subseteq Unsettled /\ reading'.got # "value"
      BY <2>1 DEF Unsettled, NoReading
    <2>3. QED
      BY <2>1, <2>2, QuietKeepsDaily, ObservingKeepsDaily
  <1>2. ASSUME NEW r \in Slot, Refuse(r), sent' = sent, pending' = pending
        PROVE  Unsettled' \subseteq Unsettled
    <2>1. \A q \in Slot : phase'[q] = "running" => phase[q] = "running"
      BY <1>0, <1>2 DEF Refuse
    <2>2. QED
      BY <1>0, <1>2, <2>1, LessToSpend
  <1>3. ASSUME NEW r \in Slot, CheckFails(r)
        PROVE  DailyInv'
    <2>1. /\ Refuse(r) /\ reading' = NoReading
          /\ UNCHANGED <<sent, state, pending, balance, today, topped, restarts, paid>>
      BY <1>3 DEF CheckFails, Dequeue, chain
    <2>2. reading'.got # "value"
      BY <2>1 DEF NoReading
    <2>3. QED
      BY <1>2, <2>1, <2>2, QuietKeepsDaily
  <1>4. ASSUME NEW r \in Slot, CheckBudget(r)
        PROVE  DailyInv'
    <2> DEFINE s == Observed(state, reading.balance, today)
    <2>1. /\ reading.got = "value" /\ reading' = NoReading
          /\ UNCHANGED <<sent, pending, balance, today, topped, restarts, paid>>
          /\ \/ Refuse(r) /\ state' = s
             \/ ~UsedUp(s, reading.balance) /\ Admit(r) /\ state' = [s EXCEPT !.inFlight = @ + 1]
      BY <1>4 DEF CheckBudget, Dequeue, chain
    <2>2. CASE Refuse(r) /\ state' = s
      BY <1>2, <2>1, <2>2, ObservingKeepsDaily
    <2>3. CASE ~UsedUp(s, reading.balance) /\ Admit(r) /\ state' = [s EXCEPT !.inFlight = @ + 1]
      BY <1>4, <2>3, AdmitKeepsDaily
    <2>4. QED
      BY <2>1, <2>2, <2>3
  <1>5. QED
    BY <1>1, <1>3, <1>4

\* The steps of requests outside the queue.
LEMMA RequestsKeepDaily ==
    ASSUME BudgetInv, DailyInv, NEW r \in Slot,
           Arrive(r) \/ Send(r) \/ Reply(r) \/ Disconnect(r)
    PROVE  DailyInv'
  <1>0. /\ phase \in [Slot -> {"idle", "waiting", "running"}] /\ pending \subseteq Tx
        /\ sent \in [Slot -> Nat]
        /\ state \in [day : Int, baseline : Int, lastBalance : Int, inFlight : Int]
    BY DEF BudgetInv, SponsorTypeOK
  <1>1. UNCHANGED <<reading, balance, today, topped, restarts, paid>>
    BY DEF Arrive, Send, Reply, Disconnect, chain
  <1>2. state'.day = state.day /\ state'.baseline = state.baseline
    <2>1. state' = state \/ state' = [state EXCEPT !.inFlight = @ - 1]
      BY DEF Arrive, Send, Reply, Disconnect, Release
    <2>2. QED
      BY <1>0, <2>1
  <1>3. Unsettled' \subseteq Unsettled
    <2>1. CASE Send(r)
      BY <2>1, SendSpendsNothing
    <2>2. CASE Arrive(r) \/ Reply(r) \/ Disconnect(r)
      <3>1. pending' = pending
        BY <2>2 DEF Arrive, Reply, Disconnect, chain
      <3>2. \A q \in Slot : phase'[q] = "running" => phase[q] = "running" /\ sent'[q] = sent[q]
        <4>1. CASE Arrive(r)
          BY <1>0, <4>1 DEF Arrive
        <4>2. CASE Reply(r) \/ Disconnect(r)
          BY <1>0, <4>2 DEF Reply, Disconnect
        <4>3. QED
          BY <2>2, <4>1, <4>2
      <3>3. QED
        BY <1>0, <3>1, <3>2, LessToSpend
    <2>3. QED
      BY <2>1, <2>2
  <1>4. QED
    BY <1>1, <1>2, <1>3, QuietKeepsDaily

\* A transaction that lands moves what it costs from the wallet to what is paid.
LEMMA SettleKeepsDaily ==
    ASSUME BudgetInv, DailyInv, NEW t \in pending, NEW c \in 0..TxCost, Settle(t, c)
    PROVE  DailyInv'
  <1>1. /\ balance' = balance - c /\ paid' = paid + c
        /\ UNCHANGED <<reading, state, today, topped, restarts>>
    BY DEF Settle
  <1>2. c \in Nat /\ c <= TxCost /\ TxCost \in Nat
    BY BudgetAssumption
  <1>3. Exposure' = Exposure - TxCost /\ Exposure \in Nat
    BY SettlesWhatWasSetAside
  <1>4. Others' = Others /\ AllReserves' = AllReserves
    BY DEF Others, AllReserves
  <1>5. QED
    BY <1>1, <1>2, <1>3, <1>4, AllReservesType, DailyTypes DEF DailyInv

\* A reading made, a restart, a new day, a top-up or nothing at all.
LEMMA OthersKeepDaily ==
    ASSUME BudgetInv, DailyInv,
           Read \/ Restart \/ NewDay \/ (\E a \in TopUpAmount : TopUp(a)) \/ UNCHANGED vars
    PROVE  DailyInv'
  <1>0. Others' = Others /\ AllReserves' = AllReserves
    BY DEF Others, AllReserves
  <1>1. CASE Read
    <2>1. /\ UNCHANGED <<phase, sent, pending, state, balance, today, topped, restarts, paid>>
          /\ reading'.got = "value" => reading'.balance = balance
      BY <1>1 DEF Read, requests, chain
    <2>2. Unsettled' \subseteq Unsettled
      BY <2>1 DEF Unsettled
    <2>3. QED
      BY <2>1, <2>2, QuietKeepsDaily
  <1>2. CASE Restart
    <2>1. restarts' = restarts + 1 /\ state'.day = 0 /\ UNCHANGED <<today, topped, paid>>
      BY <1>2 DEF Restart, FreshState
    <2>2. today >= 1
      BY DEF DailyInv
    <2>3. QED
      BY <2>1, <2>2, DailyTypes DEF DailyInv
  <1>3. CASE NewDay
    <2>1. /\ UNCHANGED <<phase, sent, pending, reading, state, balance, topped, restarts>>
          /\ today' = today + 1 /\ paid' = 0
      BY <1>3 DEF NewDay, requests
    <2>2. Exposure' = Exposure
      BY <2>1 DEF Exposure, Unsettled
    <2>3. QED
      BY <1>0, <2>1, <2>2, ExposureWithinReserves, AllReservesType, DailyTypes DEF DailyInv
  <1>4. ASSUME NEW a \in TopUpAmount, TopUp(a)
        PROVE  DailyInv'
    <2>1. /\ UNCHANGED <<phase, sent, pending, reading, state, today, restarts, paid>>
          /\ balance' = balance + a /\ topped' = topped + a
      BY <1>4 DEF TopUp, requests
    <2>2. Exposure' = Exposure
      BY <2>1 DEF Exposure, Unsettled
    <2>3. a \in Nat
      BY BudgetAssumption
    <2>4. QED
      BY <1>0, <2>1, <2>2, <2>3, ExposureType, AllReservesType, DailyTypes DEF DailyInv
  <1>5. CASE UNCHANGED vars
    <2>1. UNCHANGED <<phase, sent, pending, reading, state, balance, today, topped, restarts, paid>>
      BY <1>5 DEF vars, requests, chain
    <2>2. Unsettled' \subseteq Unsettled
      BY <2>1 DEF Unsettled
    <2>3. QED
      BY <2>1, <2>2, QuietKeepsDaily
  <1>6. QED
    BY <1>1, <1>2, <1>3, <1>4, <1>5

\* relay/sponsor_budget.js, check's second refusal: on one day, without a
\* restart, the relay pays at most the daily budget, what requests cost that
\* other readings admitted, and what was topped up.
THEOREM DailyOvershootIsBounded == Spec => []DailyOvershootBounded
  <1>1. Init => DailyInv
    <2> SUFFICES ASSUME Init PROVE DailyInv
      OBVIOUS
    <2>1. paid = 0 /\ topped = 0 /\ restarts = 0 /\ today = 1 /\ state.day = 0 /\ reading.got = "none"
      BY DEF Init, FreshState, NoReading
    <2>2. QED
      BY <2>1, ExposureWithinReserves, AllReservesType DEF DailyInv
  <1>2. BudgetInv /\ DailyInv /\ [Next]_vars => DailyInv'
    BY TasksKeepDaily, RequestsKeepDaily, SettleKeepsDaily, OthersKeepDaily DEF Next
  <1>3. DailyInv => DailyOvershootBounded
    <2>1. (2 * Cardinality(Slot) - 1) * Reserve = Others + AllReserves
      <3>1. \A n \in Nat : (2 * n - 1) * Reserve = (n - 1) * Reserve + n * Reserve
        BY OthersType
      <3>2. QED
        BY <3>1, BudgetAssumption, FS_CardinalityType DEF Others, AllReserves
    <2>2. QED
      BY <2>1, ExposureType, AllReservesType DEF DailyInv, DailyOvershootBounded
  <1>4. QED
    BY <1>1, <1>2, <1>3, BudgetInvariant, PTL DEF Spec
=============================================================================
