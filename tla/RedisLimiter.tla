---------------------------- MODULE RedisLimiter ----------------------------
(***************************************************************************)
(* RedisRateLimiter (m8_gateway/rate_limit/redis_limiter.py) of several    *)
(* gateway instances, one API key and one finite limit: check() sends five *)
(* Redis commands one after the other, and only a single command is atomic.*)
(* The commands of different instances interleave, the clock moves between *)
(* them, any of them can fail, and an instance can die after any of them.  *)
(*                                                                         *)
(* A sorted-set member "{now}-{hex}" is the pair <<now, hex>>; its score is*)
(* its time.  Time is shared: the instances' clocks agree and never step   *)
(* back.  What a failed check does next (reject in strict mode, count in   *)
(* the process's own list otherwise, which is MemoryLimiter's algorithm)   *)
(* leaves Redis alone and is not followed here.                            *)
(***************************************************************************)
EXTENDS Integers, FiniteSets

CONSTANTS
    Instances,  \* gateway processes; each runs one check at a time
    Suffixes,   \* the random hex suffixes of members
    Limit,      \* the tier's requests per window
    WindowSeconds, \* window_seconds
    MaxClock,   \* bound: the clock stops here
    NoMember

ASSUME InstancesFinite == IsFiniteSet(Instances) /\ Instances # {}
ASSUME SuffixesFinite == IsFiniteSet(Suffixes)
ASSUME LimitNat == Limit \in Nat
ASSUME WindowSecondsPositive == WindowSeconds \in Nat \ {0}
ASSUME MaxClockNat == MaxClock \in Nat

VARIABLES
    clock,      \* time.time()
    zset,       \* the members of rate_limit:{key_prefix}
    expires,    \* when the key's TTL removes it; Never without a TTL
    stage,      \* the command each instance sends next
    member,     \* the member each instance is about to add
    admitted,   \* history: the grants of the window that ends now
    overtaken   \* history: those the key's TTL took between ZADD and EXPIRE

redisVars == <<clock, zset, expires, stage, member, admitted, overtaken>>

Seconds == 0..MaxClock
Members == Seconds \X Suffixes
Never == MaxClock + 2 * WindowSeconds + 1
Commands == {"idle", "remove", "count", "add", "expire"}

RedisTypeOK ==
    /\ clock \in Seconds
    /\ zset \subseteq Members
    /\ expires \in Nat
    /\ stage \in [Instances -> Commands]
    /\ member \in [Instances -> Members \cup {NoMember}]
    /\ admitted \subseteq Members
    /\ overtaken \subseteq Members

RedisInit ==
    /\ clock = 0
    /\ zset = {}
    /\ expires = Never
    /\ stage = [i \in Instances |-> "idle"]
    /\ member = [i \in Instances |-> NoMember]
    /\ admitted = {}
    /\ overtaken = {}

Goto(i, s) == stage' = [stage EXCEPT ![i] = s]

\* check() returns or raises.
Return(i) ==
    /\ Goto(i, "idle")
    /\ member' = [member EXCEPT ![i] = NoMember]

Younger(S, start) == {m \in S : m[1] > start}

\* Redis deletes a key with its last member, and the TTL with the key.
ExpiresWithout(S) == IF S = {} THEN Never ELSE expires

\* now = time.time(), and the suffix of the member it will add: no other
\* member has both.
ReadClock(i, h) ==
    /\ stage[i] = "idle"
    /\ <<clock, h>> \notin zset \cup admitted \cup overtaken \cup {member[j] : j \in Instances}
    /\ member' = [member EXCEPT ![i] = <<clock, h>>]
    /\ Goto(i, "remove")
    /\ UNCHANGED <<clock, zset, expires, admitted, overtaken>>

\* (mutation) the clean-up drops one second too much.
RemoveTooMuch(i) ==
    /\ stage[i] = "remove"
    /\ zset' = Younger(zset, member[i][1] - WindowSeconds + 1)
    /\ expires' = ExpiresWithout(zset')
    /\ Goto(i, "count")
    /\ UNCHANGED <<clock, member, admitted, overtaken>>

\* ZREMRANGEBYSCORE, with the start of the window as of ReadClock.
Remove(i) ==
    /\ stage[i] = "remove"
    /\ zset' = Younger(zset, member[i][1] - WindowSeconds)
    /\ expires' = ExpiresWithout(zset')
    /\ Goto(i, "count")
    /\ UNCHANGED <<clock, member, admitted, overtaken>>

\* (mutation) the limit itself still passes.
CountAtLimitPasses(i) ==
    /\ stage[i] = "count"
    /\ Cardinality(zset) <= Limit
    /\ Goto(i, "add")
    /\ UNCHANGED <<clock, zset, expires, member, admitted, overtaken>>

\* ZCARD below the limit.
CountBelow(i) ==
    /\ stage[i] = "count"
    /\ Cardinality(zset) < Limit
    /\ Goto(i, "add")
    /\ UNCHANGED <<clock, zset, expires, member, admitted, overtaken>>

\* ZCARD at the limit: check() returns False.
CountFull(i) ==
    /\ stage[i] = "count"
    /\ Cardinality(zset) >= Limit
    /\ Return(i)
    /\ UNCHANGED <<clock, zset, expires, admitted, overtaken>>

\* ZADD.
Add(i) ==
    /\ stage[i] = "add"
    /\ zset' = zset \cup {member[i]}
    /\ Goto(i, "expire")
    /\ UNCHANGED <<clock, expires, member, admitted, overtaken>>

\* EXPIRE with twice the window, without effect on a key that is gone; then
\* check() returns True.
Expire(i) ==
    /\ stage[i] = "expire"
    /\ expires' = IF zset = {} THEN Never ELSE clock + 2 * WindowSeconds
    /\ admitted' = Younger(admitted \cup {member[i]}, clock - WindowSeconds)
    /\ Return(i)
    /\ UNCHANGED <<clock, zset, overtaken>>

\* A command raises (Redis cannot be reached) without having run.
CommandFails(i) ==
    /\ stage[i] # "idle"
    /\ Return(i)
    /\ UNCHANGED <<clock, zset, expires, admitted, overtaken>>

\* ZADD runs, but its answer is lost or the process dies before EXPIRE.
AddWithoutAnswer(i) ==
    /\ stage[i] = "add"
    /\ zset' = zset \cup {member[i]}
    /\ Return(i)
    /\ UNCHANGED <<clock, expires, admitted, overtaken>>

\* get_usage: the same clean-up and count, from an admin's request.
RedisGetUsage ==
    /\ zset' = Younger(zset, clock - WindowSeconds)
    /\ expires' = ExpiresWithout(zset')
    /\ UNCHANGED <<clock, stage, member, admitted, overtaken>>

\* Members added to the key whose EXPIRE is still to come.
Pending == {member[i] : i \in {j \in Instances : stage[j] = "expire"}}

\* Time passes; a key whose TTL is over is gone.
TimePasses ==
    /\ clock < MaxClock
    /\ clock' = clock + 1
    /\ IF expires <= clock + 1
       THEN /\ zset' = {}
            /\ expires' = Never
            /\ overtaken' = Younger(overtaken \cup Pending, clock + 1 - WindowSeconds)
       ELSE /\ overtaken' = Younger(overtaken, clock + 1 - WindowSeconds)
            /\ UNCHANGED <<zset, expires>>
    /\ admitted' = Younger(admitted, clock + 1 - WindowSeconds)
    /\ UNCHANGED <<stage, member>>

RedisNext ==
    \/ \E i \in Instances, h \in Suffixes : ReadClock(i, h)
    \/ \E i \in Instances :
          \/ Remove(i) \/ CountBelow(i) \/ CountFull(i) \/ Add(i) \/ Expire(i)
          \/ CommandFails(i) \/ AddWithoutAnswer(i)
    \/ RedisGetUsage
    \/ TimePasses

RedisSpec == RedisInit /\ [][RedisNext]_redisVars

-----------------------------------------------------------------------------
(***************************************************************************)
(* Properties                                                              *)
(***************************************************************************)

N == Cardinality(Instances)

\* How far the separate count and record of the instances overrun the limit,
\* "Atomic sliding window using Redis ZSET commands" (redis_limiter.py:179)
\* though the docstring says: by one grant for each instance but one.  The key's TTL can overtake a grant
\* between its ZADD and its EXPIRE, if failed EXPIREs kept the key alive on an
\* old TTL; those grants come on top.
RedisBounded == Cardinality(admitted \ overtaken) <= Limit + N - 1

\* The shared set forgets no other grant that still counts: neither another
\* instance's clean-up, with a window computed earlier, nor a TTL removes it.
RedisRemembers == admitted \subseteq zset \cup overtaken
=============================================================================
