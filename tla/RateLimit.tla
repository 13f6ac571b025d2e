----------------------------- MODULE RateLimit ------------------------------
(* The relay's per-address limit on sponsored requests                      *)
(* (limitSponsoredRequest in relay/server.js): a window that starts with    *)
(* the first request and is replaced by the first request after it ends.    *)
EXTENDS Integers, Sequences

CONSTANTS
    Addr,       \* client addresses
    Limit,      \* requests let through per window (10 in the code)
    Window,     \* length of a window (one hour)
    MaxTime, MaxRefused     \* bounds of the instance

ASSUME LimitAssumption ==
    /\ Limit \in Nat \ {0} /\ Window \in Nat
    /\ MaxTime \in Nat /\ MaxRefused \in Nat

VARIABLES
    now,
    relayWindows,   \* the known addresses' windows, [start, count]
    passed          \* history: when each address was let through since the relay started

vars == <<now, relayWindows, passed>>

Init ==
    /\ now = 0
    /\ relayWindows = [a \in {} |-> a]
    /\ passed = [a \in Addr |-> <<>>]

\* Mutants: the count is reset but not the start, and refused requests prolong
\* the window.
Current_OldStart(a) ==
    IF a \in DOMAIN relayWindows
    THEN IF now - relayWindows[a].start <= Window THEN relayWindows[a]
         ELSE [relayWindows[a] EXCEPT !.count = 0]
    ELSE [start |-> now, count |-> 0]
Current_Prolonged(a) ==
    IF a \in DOMAIN relayWindows
       /\ (now - relayWindows[a].start <= Window \/ relayWindows[a].count >= Limit)
    THEN relayWindows[a] ELSE [start |-> now, count |-> 0]

\* The window a request of address a falls in: a new one for an unknown
\* address and once the known one is over.
Current(a) ==
    IF a \in DOMAIN relayWindows /\ now - relayWindows[a].start <= Window
    THEN relayWindows[a] ELSE [start |-> now, count |-> 0]

\* Counted before it is compared; a refused request counts, too.
Request(a) ==
    LET w == Current(a)
        n == w.count + 1
    IN  /\ n <= Limit + MaxRefused
        /\ relayWindows' = [b \in DOMAIN relayWindows \cup {a} |->
                               IF b = a THEN [w EXCEPT !.count = n] ELSE relayWindows[b]]
        /\ passed' = IF n > Limit THEN passed ELSE [passed EXCEPT ![a] = Append(@, now)]
        /\ UNCHANGED now

Tick ==
    /\ now < MaxTime
    /\ now' = now + 1
    /\ UNCHANGED <<relayWindows, passed>>

\* The windows are in memory only.
Restart ==
    /\ relayWindows' = [a \in {} |-> a]
    /\ passed' = [a \in Addr |-> <<>>]
    /\ UNCHANGED now

Next == Tick \/ Restart \/ \E a \in Addr : Request(a)

Spec == Init /\ [][Next]_vars

-----------------------------------------------------------------------------

\* No n + 1 requests of one address are let through within one window length.
AtMost(n) ==
    \A a \in Addr : \A i \in 1..(Len(passed[a]) - n) : passed[a][i + n] - passed[a][i] > Window

\* A window length overlaps at most two windows of an address, so at most twice
\* the limit is let through in any of them.
TwiceTheLimit == AtMost(2 * Limit)

\* A request is refused only if the limit was let through within the window
\* length before it: refusals neither prolong a window nor leak between
\* addresses.
RefusedOnlyAtLimit ==
    \A a \in Addr :
        Current(a).count >= Limit =>
            /\ Len(passed[a]) >= Limit
            /\ now - passed[a][Len(passed[a]) - Limit + 1] <= Window
=============================================================================
