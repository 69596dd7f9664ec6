--------------------------- MODULE SlidingWindow ---------------------------
(***************************************************************************)
(* What a rate limiter promises its callers (BaseRateLimiter.check): of    *)
(* the requests it was asked about since it was created, it turns one away *)
(* exactly when the window that ends now already holds the tier's limit.   *)
(*                                                                         *)
(* Requests are identities: each is asked about once.  at[r] is the time   *)
(* the limiter granted it; unlimited tiers are granted without a record.   *)
(***************************************************************************)
EXTENDS Integers, FiniteSets

CONSTANTS
    Requests,   \* one identity per call of check()
    Keys,       \* key prefixes, the unit of limiting
    Tiers,      \* user tiers
    Limits,     \* requests per window of each tier; Unlimited for no limit
    Window,     \* window_seconds
    MaxTime     \* bound: the clock stops here

Unlimited == -1

VARIABLES
    now,        \* the wall clock; assumed never to step back
    granted,    \* the recorded grants of each key
    at,         \* when a request was granted
    tier,       \* the tier a request was asked under
    asked       \* the requests already answered

vars == <<now, granted, at, tier, asked>>

\* The grants of key k in the window that ends now.
Live(k) == {r \in granted[k] : at[r] > now - Window}

Init ==
    /\ now = 0
    /\ granted = [k \in Keys |-> {}]
    /\ at = [r \in Requests |-> 0]
    /\ tier \in [Requests -> Tiers]
    /\ asked = {}

Ask(r) ==
    /\ r \notin asked
    /\ asked' = asked \cup {r}
    /\ UNCHANGED <<now, tier>>

Pass(r) ==
    /\ Ask(r)
    /\ Limits[tier[r]] = Unlimited
    /\ UNCHANGED <<granted, at>>

Grant(r, k) ==
    /\ Ask(r)
    /\ Limits[tier[r]] # Unlimited
    /\ Cardinality(Live(k)) < Limits[tier[r]]
    /\ granted' = [granted EXCEPT ![k] = @ \cup {r}]
    /\ at' = [at EXCEPT ![r] = now]

Reject(r, k) ==
    /\ Ask(r)
    /\ Limits[tier[r]] # Unlimited
    /\ Cardinality(Live(k)) >= Limits[tier[r]]
    /\ UNCHANGED <<granted, at>>

\* A new limiter (a restart, or a configuration change) knows of no grant.
Forget ==
    /\ granted' = [k \in Keys |-> {}]
    /\ UNCHANGED <<now, at, tier, asked>>

Tick ==
    /\ now < MaxTime
    /\ now' = now + 1
    /\ UNCHANGED <<granted, at, tier, asked>>

Next ==
    \/ \E r \in Requests : Pass(r)
    \/ \E r \in Requests, k \in Keys : Grant(r, k) \/ Reject(r, k)
    \/ Forget
    \/ Tick

Spec == Init /\ [][Next]_vars
=============================================================================
