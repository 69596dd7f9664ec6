--------------------------- MODULE MemoryLimiter ---------------------------
(***************************************************************************)
(* InMemoryRateLimiter (m8_gateway/rate_limit/limiter.py) as the gateway   *)
(* uses it: one limiter per process, called without an await from the      *)
(* check_rate_limit dependency, so a check() is one step.  The admin's     *)
(* PATCH of the configuration puts a new limiter in its place, and so does *)
(* a restart.                                                              *)
(*                                                                         *)
(* A timestamp in a window is the request that put it there; "granted" is  *)
(* a history of what this limiter granted, which the code does not keep.   *)
(***************************************************************************)
EXTENDS Integers, FiniteSets

CONSTANTS Requests, Keys, Tiers, Limits, Window, MaxTime

Unlimited == -1

ASSUME RequestsFinite == IsFiniteSet(Requests)
ASSUME LimitsType == Limits \in [Tiers -> Nat \cup {Unlimited}]
ASSUME WindowPositive == Window \in Nat \ {0}
ASSUME MaxTimeNat == MaxTime \in Nat

VARIABLES
    windows,    \* _windows: the timestamps kept for each key
    now,        \* time.time()
    at,         \* the timestamp a request left
    tier,       \* the tier of the API key a request came with
    asked,      \* requests answered so far
    granted     \* history: all grants of this limiter

vars == <<windows, now, at, tier, asked, granted>>

Times == 0..MaxTime

TypeOK ==
    /\ windows \in [Keys -> SUBSET Requests]
    /\ now \in Times
    /\ at \in [Requests -> Times]
    /\ tier \in [Requests -> Tiers]
    /\ asked \subseteq Requests
    /\ granted \in [Keys -> SUBSET Requests]

Init ==
    /\ windows = [k \in Keys |-> {}]
    /\ now = 0
    /\ at = [r \in Requests |-> 0]
    /\ tier \in [Requests -> Tiers]
    /\ asked = {}
    /\ granted = [k \in Keys |-> {}]

\* (mutation) the window's edge kept.
PruneKeepingEdge(k) == {r \in windows[k] : at[r] >= now - Window}
\* The lazy cleanup: only timestamps younger than the window stay.
Prune(k) == {r \in windows[k] : at[r] > now - Window}

Finite(r) == Limits[tier[r]] # Unlimited

Answered(r) ==
    /\ r \notin asked
    /\ asked' = asked \cup {r}
    /\ UNCHANGED <<now, tier>>

\* check(): an unlimited tier leaves no trace.
CheckUnlimited(r) ==
    /\ Answered(r)
    /\ ~Finite(r)
    /\ UNCHANGED <<windows, at, granted>>

\* check(): room in the window, the request is recorded.
CheckGranted(r, k) ==
    /\ Answered(r)
    /\ Finite(r)
    /\ Cardinality(Prune(k)) < Limits[tier[r]]
    /\ windows' = [windows EXCEPT ![k] = Prune(k) \cup {r}]
    /\ at' = [at EXCEPT ![r] = now]
    /\ granted' = [granted EXCEPT ![k] = @ \cup {r}]

\* check(): the window is full; the pruned list stays.
CheckRejected(r, k) ==
    /\ Answered(r)
    /\ Finite(r)
    /\ Cardinality(Prune(k)) >= Limits[tier[r]]
    /\ windows' = [windows EXCEPT ![k] = Prune(k)]
    /\ UNCHANGED <<at, granted>>

\* get_usage() prunes as well.
GetUsage(k) ==
    /\ windows' = [windows EXCEPT ![k] = Prune(k)]
    /\ UNCHANGED <<now, at, tier, asked, granted>>

\* update_rate_limit_config or a restart: a new limiter with empty windows.
NewLimiter ==
    /\ windows' = [k \in Keys |-> {}]
    /\ granted' = [k \in Keys |-> {}]
    /\ UNCHANGED <<now, at, tier, asked>>

Tick ==
    /\ now < MaxTime
    /\ now' = now + 1
    /\ UNCHANGED <<windows, at, tier, asked, granted>>

Next ==
    \/ \E r \in Requests : CheckUnlimited(r)
    \/ \E r \in Requests, k \in Keys : CheckGranted(r, k) \/ CheckRejected(r, k)
    \/ \E k \in Keys : GetUsage(k)
    \/ NewLimiter
    \/ Tick

Spec == Init /\ [][Next]_vars

-----------------------------------------------------------------------------
\* The grants of key k in the window that ends now, pruned or not.
Live(k) == {r \in granted[k] : at[r] > now - Window}

\* No window of Window seconds holds more grants of a tier than the tier's
\* limit, although check() only sees what earlier checks, get_usage() calls and
\* their clean-ups left in _windows.
WithinLimit ==
    \A k \in Keys, t \in Tiers :
        Limits[t] # Unlimited =>
            Cardinality({r \in Live(k) : tier[r] = t}) <= Limits[t]

\* The lazily cleaned lists forget nothing that still counts, and hold nothing
\* that was not granted.
WindowsExact == \A k \in Keys : Live(k) \subseteq windows[k] /\ windows[k] \subseteq granted[k]

\* InMemoryRateLimiter.check turns a request away exactly when the sliding
\* window is full: never early because of stale timestamps, never late.
Promise == INSTANCE SlidingWindow
IsSlidingWindow == Promise!Spec
=============================================================================
