-------------------------- MODULE RateLimitProofs ---------------------------
(* What the relay's per-address limit guarantees, for any limit, window     *)
(* length and number of addresses and requests.                              *)
EXTENDS RateLimit, TLAPS

RateTypeOK ==
    /\ now \in Nat
    /\ DOMAIN relayWindows \subseteq Addr
    /\ \A a \in DOMAIN relayWindows :
           /\ relayWindows[a] = [start |-> relayWindows[a].start, count |-> relayWindows[a].count]
           /\ relayWindows[a].start \in Nat /\ relayWindows[a].count \in Nat
    /\ passed \in [Addr -> Seq(Nat)]

\* How the requests let through, the sequence p, lie about a window that began
\* at time s and has let m of them through: the last m are in it, the Limit
\* before those are older, and everything before is older than its
\* predecessor, which ended before s.
Around(p, s, m, t) ==
    /\ m \in 0..Limit /\ m <= Len(p)
    /\ s <= t
    /\ \A i \in 1..Len(p) : p[i] <= t
    /\ \A i \in 1..Len(p) : i <= Len(p) - m => p[i] <= s
    /\ \A i \in 1..Len(p) : i > Len(p) - m => p[i] >= s
    /\ \A i \in 1..Len(p) : i <= Len(p) - m - Limit => s - p[i] > Window

Spaced(p) == \A i \in 1..(Len(p) - 2 * Limit) : p[i + 2 * Limit] - p[i] > Window

LetThrough(n) == IF n > Limit THEN Limit ELSE n

RateInv ==
    /\ RateTypeOK
    /\ \A a \in Addr : Spaced(passed[a])
    /\ \A a \in Addr \ DOMAIN relayWindows : passed[a] = <<>>
    /\ \A a \in DOMAIN relayWindows :
           Around(passed[a], relayWindows[a].start, LetThrough(relayWindows[a].count), now)

\* The window a request falls in lies in time as the known ones do, a new one
\* because the former has ended.
LEMMA CurrentAround ==
    ASSUME RateInv, NEW a \in Addr
    PROVE  /\ Current(a) = [start |-> Current(a).start, count |-> Current(a).count]
           /\ Current(a).start \in Nat /\ Current(a).count \in Nat
           /\ now - Current(a).start <= Window
           /\ Around(passed[a], Current(a).start, LetThrough(Current(a).count), now)
  <1>0. now \in Nat /\ Limit \in Nat \ {0} /\ Window \in Nat /\ passed[a] \in Seq(Nat)
    BY LimitAssumption DEF RateInv, RateTypeOK
  <1>1. CASE a \in DOMAIN relayWindows /\ now - relayWindows[a].start <= Window
    <2>1. Current(a) = relayWindows[a]
      BY <1>1 DEF Current
    <2>2. QED
      BY <1>1, <2>1 DEF RateInv, RateTypeOK
  <1>2. CASE ~(a \in DOMAIN relayWindows /\ now - relayWindows[a].start <= Window)
    <2>1. Current(a) = [start |-> now, count |-> 0]
      BY <1>2 DEF Current
    <2>2. Current(a).start = now /\ Current(a).count = 0 /\ LetThrough(0) = 0
      BY <1>0, <2>1 DEF LetThrough
    <2>3. Around(passed[a], now, 0, now)
      <3>1. CASE a \in DOMAIN relayWindows
        <4>1. /\ relayWindows[a].start \in Nat /\ now - relayWindows[a].start > Window
              /\ LetThrough(relayWindows[a].count) \in 0..Limit
              /\ Around(passed[a], relayWindows[a].start, LetThrough(relayWindows[a].count), now)
          BY <1>0, <1>2, <3>1 DEF RateInv, RateTypeOK, Around
        <4> DEFINE p == passed[a]
                   s == relayWindows[a].start
                   m == LetThrough(relayWindows[a].count)
        <4>2. p \in Seq(Nat) /\ s \in Nat /\ m \in 0..Limit /\ now - s > Window /\ Around(p, s, m, now)
          BY <1>0, <4>1
        <4> HIDE DEF p, s, m
        <4>3. Len(p) \in Nat /\ \A i \in 1..Len(p) : p[i] \in Nat /\ p[i] <= now
          BY <4>2 DEF Around
        <4>4. ASSUME NEW i \in 1..Len(p), i <= Len(p) - 0 - Limit
              PROVE  now - p[i] > Window
          <5>1. i <= Len(p) - m /\ p[i] \in Nat
            BY <1>0, <4>2, <4>3, <4>4
          <5>2. p[i] <= s
            BY <4>2, <5>1 DEF Around
          <5>3. QED
            BY <1>0, <4>2, <5>1, <5>2
        <4>5. Around(p, now, 0, now)
          BY <1>0, <4>3, <4>4 DEF Around
        <4>6. QED
          BY <4>5 DEF p
      <3>2. CASE a \notin DOMAIN relayWindows
        <4>1. passed[a] = <<>>
          BY <3>2 DEF RateInv
        <4>2. QED
          BY <1>0, <4>1 DEF Around
      <3>3. QED
        BY <3>1, <3>2
    <2>4. QED
      BY <1>0, <2>1, <2>2, <2>3
  <1>3. QED
    BY <1>1, <1>2

\* A request let through comes more than a window length after the one 2 * Limit
\* before it, and keeps the order of things.
LEMMA AppendAround ==
    ASSUME NEW p \in Seq(Nat), NEW s \in Nat, NEW m \in 0..Limit, NEW t \in Nat,
           m < Limit, Spaced(p), Around(p, s, m, t)
    PROVE  Spaced(Append(p, t)) /\ Around(Append(p, t), s, m + 1, t)
  <1> DEFINE q == Append(p, t)
  <1>0. Limit \in Nat \ {0} /\ Window \in Nat /\ Len(p) \in Nat
    BY LimitAssumption
  <1>1. Len(q) = Len(p) + 1 /\ q[Len(p) + 1] = t /\ \A i \in 1..Len(p) : q[i] = p[i] /\ p[i] \in Nat
    OBVIOUS
  <1> HIDE DEF q
  <1>2. Spaced(q)
    <2> SUFFICES ASSUME NEW i \in 1..(Len(q) - 2 * Limit)
                 PROVE  q[i + 2 * Limit] - q[i] > Window
      BY DEF Spaced
    <2>1. CASE i + 2 * Limit <= Len(p)
      BY <1>0, <1>1, <2>1 DEF Spaced
    <2>2. CASE i + 2 * Limit = Len(p) + 1
      <3>1. i \in 1..Len(p) /\ i <= Len(p) - m - Limit
        BY <1>0, <2>2
      <3>2. s - p[i] > Window /\ s <= t /\ q[i] = p[i] /\ p[i] \in Nat
        BY <1>1, <3>1 DEF Around
      <3>3. QED
        BY <1>0, <1>1, <2>2, <3>2
    <2>3. QED
      BY <1>0, <1>1, <2>1, <2>2
  <1>3. Around(q, s, m + 1, t)
    <2>1. m + 1 \in 0..Limit /\ m + 1 <= Len(q) /\ s <= t
      BY <1>0, <1>1 DEF Around
    <2>2. ASSUME NEW i \in 1..Len(q)
          PROVE  /\ q[i] <= t
                 /\ i <= Len(q) - (m + 1) => q[i] <= s
                 /\ i > Len(q) - (m + 1) => q[i] >= s
                 /\ i <= Len(q) - (m + 1) - Limit => s - q[i] > Window
      <3>1. CASE i \in 1..Len(p)
        <4>1. /\ q[i] = p[i] /\ p[i] \in Nat /\ p[i] <= t
              /\ i <= Len(p) - m => p[i] <= s
              /\ i > Len(p) - m => p[i] >= s
              /\ i <= Len(p) - m - Limit => s - p[i] > Window
          BY <1>1, <3>1 DEF Around
        <4>2. QED
          BY <1>0, <1>1, <3>1, <4>1
      <3>2. CASE i = Len(p) + 1
        BY <1>0, <1>1, <2>1, <3>2
      <3>3. QED
        BY <1>0, <1>1, <3>1, <3>2
    <2>3. QED
      BY <2>1, <2>2 DEF Around
  <1>4. QED
    BY <1>2, <1>3 DEF q

\* A request keeps the invariant.
LEMMA RequestKeepsInv ==
    ASSUME RateInv, NEW a \in Addr, Request(a)
    PROVE  RateInv'
  <1> DEFINE w == Current(a)
             n == w.count + 1
  <1>0. Limit \in Nat \ {0} /\ now \in Nat /\ passed \in [Addr -> Seq(Nat)] /\ DOMAIN relayWindows \subseteq Addr
    BY LimitAssumption DEF RateInv, RateTypeOK
  <1>1. /\ w = [start |-> w.start, count |-> w.count]
        /\ w.start \in Nat /\ w.count \in Nat
        /\ Around(passed[a], w.start, LetThrough(w.count), now)
    BY CurrentAround
  <1>2. /\ relayWindows' = [b \in DOMAIN relayWindows \cup {a} |->
                               IF b = a THEN [w EXCEPT !.count = n] ELSE relayWindows[b]]
        /\ passed' = IF n > Limit THEN passed ELSE [passed EXCEPT ![a] = Append(@, now)]
        /\ now' = now
    BY DEF Request
  <1> HIDE DEF w
  <1>3. /\ DOMAIN relayWindows' = DOMAIN relayWindows \cup {a}
        /\ relayWindows'[a] = [start |-> w.start, count |-> n]
        /\ \A b \in DOMAIN relayWindows : b # a => relayWindows'[b] = relayWindows[b]
    BY <1>1, <1>2
  <1>4. /\ relayWindows'[a].start = w.start /\ relayWindows'[a].count = n /\ n \in Nat
    BY <1>1, <1>3
  <1>5. /\ passed' \in [Addr -> Seq(Nat)]
        /\ \A b \in Addr : b # a => passed'[b] = passed[b]
    BY <1>0, <1>2
  <1>6. Spaced(passed'[a]) /\ Around(passed'[a], w.start, LetThrough(n), now)
    <2>1. CASE n > Limit
      <3>1. LetThrough(n) = LetThrough(w.count) /\ passed' = passed
        BY <1>0, <1>1, <1>2, <2>1 DEF LetThrough
      <3>2. QED
        BY <1>1, <3>1 DEF RateInv
    <2>2. CASE ~(n > Limit)
      <3>1. /\ LetThrough(w.count) = w.count /\ LetThrough(n) = w.count + 1
            /\ w.count \in 0..Limit /\ w.count < Limit
        BY <1>0, <1>1, <2>2 DEF LetThrough
      <3>2. passed'[a] = Append(passed[a], now) /\ passed[a] \in Seq(Nat)
        BY <1>0, <1>2, <2>2
      <3>3. Spaced(passed[a])
        BY DEF RateInv
      <3>4. QED
        BY <1>0, <1>1, <3>1, <3>2, <3>3, AppendAround
    <2>3. QED
      BY <2>1, <2>2
  <1>7. RateTypeOK'
    BY <1>0, <1>1, <1>2, <1>3, <1>4, <1>5 DEF RateInv, RateTypeOK
  <1>8. \A b \in DOMAIN relayWindows' :
            Around(passed'[b], relayWindows'[b].start, LetThrough(relayWindows'[b].count), now')
    BY <1>0, <1>2, <1>3, <1>4, <1>5, <1>6 DEF RateInv
  <1>9. QED
    BY <1>3, <1>5, <1>6, <1>7, <1>8 DEF RateInv

\* The invariant holds at first, and every step preserves it.
LEMMA RateInit == Init => RateInv
  BY LimitAssumption DEF Init, RateInv, RateTypeOK, Spaced

\* Every step keeps the invariant.
LEMMA RateStep == RateInv /\ [Next]_vars => RateInv'
  <1> SUFFICES ASSUME RateInv, [Next]_vars
               PROVE  RateInv'
    OBVIOUS
  <1>1. CASE Tick
    <2>1. now \in Nat /\ now' = now + 1 /\ UNCHANGED <<relayWindows, passed>> /\ Limit \in Nat
      BY <1>1, LimitAssumption DEF Tick, RateInv, RateTypeOK
    <2>2. ASSUME NEW p \in Seq(Nat), NEW s \in Nat, NEW m, Around(p, s, m, now)
          PROVE  Around(p, s, m, now + 1)
      BY <2>1, <2>2 DEF Around
    <2>3. RateTypeOK'
      BY <2>1 DEF RateInv, RateTypeOK
    <2>4. QED
      BY <2>1, <2>2, <2>3 DEF RateInv, RateTypeOK
  <1>2. CASE Restart
    BY <1>2, LimitAssumption DEF Restart, RateInv, RateTypeOK, Spaced
  <1>3. ASSUME NEW a \in Addr, Request(a)
        PROVE  RateInv'
    BY <1>3, RequestKeepsInv
  <1>4. CASE UNCHANGED vars
    BY <1>4 DEF vars, RateInv, RateTypeOK
  <1>5. QED
    BY <1>1, <1>2, <1>3, <1>4 DEF Next

\* No more than twice the limit is let through in any window length.
THEOREM AtMostTwiceTheLimit == Spec => []TwiceTheLimit
  <1>1. RateInv => TwiceTheLimit
    BY DEF RateInv, Spaced, TwiceTheLimit, AtMost
  <1>2. QED
    BY <1>1, RateInit, RateStep, PTL DEF Spec

\* Only an address that was let through to the limit is refused.
THEOREM RefusalsAreJustified == Spec => []RefusedOnlyAtLimit
  <1>1. RateInv => RefusedOnlyAtLimit
    <2> SUFFICES ASSUME RateInv, NEW a \in Addr, Current(a).count >= Limit
                 PROVE  /\ Len(passed[a]) >= Limit
                        /\ now - passed[a][Len(passed[a]) - Limit + 1] <= Window
      BY DEF RefusedOnlyAtLimit
    <2>0. Limit \in Nat \ {0} /\ Window \in Nat /\ now \in Nat /\ passed[a] \in Seq(Nat)
      BY LimitAssumption DEF RateInv, RateTypeOK
    <2>1. /\ Current(a).start \in Nat /\ Current(a).count \in Nat
          /\ now - Current(a).start <= Window
          /\ Around(passed[a], Current(a).start, Limit, now)
      BY <2>0, CurrentAround DEF LetThrough
    <2> DEFINE p == passed[a]
               i == Len(passed[a]) - Limit + 1
    <2>2. Len(p) >= Limit /\ i \in 1..Len(p) /\ i > Len(p) - Limit /\ p[i] \in Nat
      BY <2>0, <2>1 DEF Around
    <2>3. p[i] >= Current(a).start
      BY <2>1, <2>2 DEF Around
    <2>4. QED
      BY <2>0, <2>1, <2>2, <2>3
  <1>2. QED
    BY <1>1, RateInit, RateStep, PTL DEF Spec
=============================================================================
