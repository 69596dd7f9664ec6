--------------------------- MODULE GatewayProofs ---------------------------
(***************************************************************************)
(* Three parts of the gateway.  The in-memory limiter keeps to the sliding   *)
(* window for every set of requests, keys and tiers, every limit and every *)
(* window length.  What the reload applies of a section runs as stored,    *)
(* but for updates that came late or broke off, for every number of        *)
(* concurrent requests, sections and values.  The limiter in Redis keeps   *)
(* its bound for every number of instances, every limit and every window.  *)
(***************************************************************************)
EXTENDS MemoryLimiter, Configuration, RedisLimiter, FiniteSetTheorems, TLAPS

\* A request has at most one grant, and only after it was asked about.
GrantsAsked == \A k \in Keys : granted[k] \subseteq asked

\* The inductive invariant: WithinLimit needs WindowsExact (what check() counts
\* is what still counts), and WindowsExact needs GrantsAsked (a new timestamp
\* touches no earlier grant).
WindowInv == TypeOK /\ GrantsAsked /\ WindowsExact /\ WithinLimit

-----------------------------------------------------------------------------
\* What check() counts is exactly the live grants.
LEMMA PruneIsLive ==
    ASSUME TypeOK, WindowsExact, NEW k \in Keys
    PROVE  Prune(k) = Live(k)
BY DEF Prune, Live, WindowsExact, TypeOK

\* Sets of requests are finite.
LEMMA LiveFinite ==
    ASSUME TypeOK, NEW k \in Keys
    PROVE  IsFiniteSet(Live(k))
BY RequestsFinite, FS_Subset DEF Live, TypeOK

\* One grant adds at most one live request of a tier, and none to others.
LEMMA OneMore ==
    ASSUME NEW S, NEW T, NEW r, NEW n \in Nat,
           IsFiniteSet(S), T \subseteq S \cup {r}, Cardinality(S) < n
    PROVE  Cardinality(T) <= n
<1> DEFINE U == S \cup {r}
<1>1. IsFiniteSet(U)
  BY FS_AddElement
<1>2. Cardinality(U) = Cardinality(S) \/ Cardinality(U) = Cardinality(S) + 1
  BY FS_AddElement
<1>3. IsFiniteSet(T) /\ Cardinality(T) <= Cardinality(U)
  BY <1>1, FS_Subset
<1>4. Cardinality(S) \in Nat /\ Cardinality(T) \in Nat /\ Cardinality(U) \in Nat
  BY <1>1, <1>3, FS_CardinalityType
<1> HIDE DEF U
<1> QED  BY <1>2, <1>3, <1>4

\* Live sets that only shrink stay within the limits.
LEMMA Shrinking ==
    ASSUME TypeOK, WithinLimit, tier' = tier,
           \A k \in Keys : Live(k)' \subseteq Live(k)
    PROVE  WithinLimit'
<1> SUFFICES ASSUME NEW k \in Keys, NEW t \in Tiers, Limits[t] # Unlimited
             PROVE  Cardinality({r \in Live(k)' : tier[r] = t}) <= Limits[t]
  BY DEF WithinLimit
<1> DEFINE Old == {r \in Live(k) : tier[r] = t}
           New == {r \in Live(k)' : tier[r] = t}
<1>1. IsFiniteSet(Old)
  BY LiveFinite, FS_Subset
<1>2. IsFiniteSet(New) /\ Cardinality(New) <= Cardinality(Old)
  BY <1>1, FS_Subset
<1>3. Cardinality(Old) \in Nat /\ Cardinality(New) \in Nat
  BY <1>1, <1>2, FS_CardinalityType
<1>4. Limits[t] \in Nat
  BY LimitsType
<1>5. Cardinality(Old) <= Limits[t]
  BY DEF WithinLimit
<1> HIDE DEF Old, New
<1>6. Cardinality(New) <= Limits[t]
  BY <1>2, <1>3, <1>4, <1>5
<1> QED  BY <1>6 DEF New

-----------------------------------------------------------------------------
LEMMA InitWindowInv == Init => WindowInv
<1> SUFFICES ASSUME Init PROVE WindowInv
  OBVIOUS
<1>1. TypeOK
  BY MaxTimeNat DEF Init, TypeOK, Times
<1>2. GrantsAsked /\ WindowsExact
  BY DEF Init, GrantsAsked, WindowsExact, Live
<1>3. WithinLimit
  <2> SUFFICES ASSUME NEW k \in Keys, NEW t \in Tiers, Limits[t] # Unlimited
               PROVE  Cardinality({r \in Live(k) : tier[r] = t}) <= Limits[t]
    BY DEF WithinLimit
  <2>1. {r \in Live(k) : tier[r] = t} = {}
    BY DEF Init, Live
  <2>2. Limits[t] \in Nat
    BY LimitsType
  <2> QED  BY <2>1, <2>2, FS_EmptySet
<1> QED  BY <1>1, <1>2, <1>3 DEF WindowInv

\* A grant is the only step that can fill a window.
LEMMA GrantStep ==
    ASSUME WindowInv, NEW r \in Requests, NEW k \in Keys, CheckGranted(r, k)
    PROVE  WindowInv'
<1> USE DEF WindowInv
<1>1. TypeOK'
  BY DEF CheckGranted, Answered, Prune, TypeOK
<1>2. GrantsAsked'
  BY DEF CheckGranted, Answered, GrantsAsked, TypeOK
<1>3. \A j \in Keys : r \notin granted[j]
  BY DEF CheckGranted, Answered, GrantsAsked
<1>4. \A j \in Keys \ {k} : Live(j)' = Live(j)
  BY <1>3 DEF CheckGranted, Answered, Live, TypeOK
<1>5. Live(k)' = Live(k) \cup {r}
  BY <1>3, WindowPositive DEF CheckGranted, Answered, Live, TypeOK, Times
<1>6. WindowsExact'
  <2> SUFFICES ASSUME NEW j \in Keys
               PROVE  Live(j)' \subseteq windows'[j] /\ windows'[j] \subseteq granted'[j]
    BY DEF WindowsExact
  <2>1. CASE j = k
    BY <2>1, <1>5, PruneIsLive DEF CheckGranted, Live, TypeOK
  <2>2. CASE j # k
    BY <2>2, <1>4 DEF CheckGranted, WindowsExact, TypeOK
  <2> QED  BY <2>1, <2>2
<1>7. WithinLimit'
  <2> SUFFICES ASSUME NEW j \in Keys, NEW t \in Tiers, Limits[t] # Unlimited
               PROVE  Cardinality({q \in Live(j)' : tier'[q] = t}) <= Limits[t]
    BY DEF WithinLimit
  <2>1. tier' = tier
    BY DEF CheckGranted, Answered
  <2>2. Limits[t] \in Nat
    BY LimitsType
  <2>3. CASE j = k /\ tier[r] = t
    <3>1. IsFiniteSet(Live(k)) /\ Cardinality(Live(k)) < Limits[t]
      BY <2>3, LiveFinite, PruneIsLive DEF CheckGranted
    <3>2. {q \in Live(j)' : tier'[q] = t} \subseteq Live(k) \cup {r}
      BY <2>3, <1>5
    <3> QED  BY <3>1, <3>2, <2>2, OneMore
  <2>4. CASE ~(j = k /\ tier[r] = t)
    <3>1. {q \in Live(j)' : tier'[q] = t} = {q \in Live(j) : tier[q] = t}
      BY <2>4, <2>1, <1>4, <1>5
    <3> QED  BY <3>1 DEF WithinLimit
  <2> QED  BY <2>3, <2>4
<1> QED  BY <1>1, <1>2, <1>6, <1>7

\* A clean-up (of a rejected check, or of get_usage) drops only what no longer
\* counts.
LEMMA CleanUpStep ==
    ASSUME WindowInv, NEW k \in Keys, windows' = [windows EXCEPT ![k] = Prune(k)],
           UNCHANGED <<now, at, tier, granted>>,
           asked \subseteq asked', asked' \subseteq Requests
    PROVE  WindowInv'
<1> USE DEF WindowInv
<1>1. TypeOK'
  BY DEF Prune, TypeOK
<1>2. GrantsAsked'
  BY DEF GrantsAsked
<1>3. \A j \in Keys : Live(j)' = Live(j)
  BY DEF Live
<1>4. WindowsExact'
  BY <1>3, PruneIsLive DEF WindowsExact, Live, TypeOK
<1>5. WithinLimit'
  BY <1>3, Shrinking
<1> QED  BY <1>1, <1>2, <1>4, <1>5

LEMMA NextWindowInv == WindowInv /\ [Next]_vars => WindowInv'
<1> SUFFICES ASSUME WindowInv, [Next]_vars PROVE WindowInv'
  OBVIOUS
<1>1. ASSUME NEW r \in Requests, CheckUnlimited(r) PROVE WindowInv'
  <2>1. \A k \in Keys : Live(k)' = Live(k)
    BY <1>1 DEF CheckUnlimited, Answered, Live
  <2>2. WithinLimit'
    BY <2>1, <1>1, Shrinking DEF CheckUnlimited, Answered, WindowInv
  <2>3. TypeOK' /\ GrantsAsked' /\ WindowsExact'
    BY <2>1, <1>1 DEF CheckUnlimited, Answered, WindowInv, TypeOK, GrantsAsked, WindowsExact
  <2> QED  BY <2>2, <2>3 DEF WindowInv
<1>2. ASSUME NEW r \in Requests, NEW k \in Keys, CheckGranted(r, k) PROVE WindowInv'
  BY <1>2, GrantStep
<1>3. ASSUME NEW r \in Requests, NEW k \in Keys, CheckRejected(r, k) PROVE WindowInv'
  <2>1. asked \subseteq asked' /\ asked' \subseteq Requests
    BY <1>3 DEF CheckRejected, Answered, WindowInv, TypeOK
  <2> QED  BY <2>1, <1>3, CleanUpStep DEF CheckRejected, Answered
<1>4. ASSUME NEW k \in Keys, GetUsage(k) PROVE WindowInv'
  BY <1>4, CleanUpStep DEF GetUsage, WindowInv, TypeOK
<1>5. CASE NewLimiter
  <2>1. \A k \in Keys : Live(k)' = {}
    BY <1>5 DEF NewLimiter, Live
  <2>2. WithinLimit'
    BY <2>1, <1>5, Shrinking DEF NewLimiter, WindowInv
  <2>3. TypeOK' /\ GrantsAsked' /\ WindowsExact'
    BY <2>1, <1>5 DEF NewLimiter, WindowInv, TypeOK, GrantsAsked, WindowsExact
  <2> QED  BY <2>2, <2>3 DEF WindowInv
<1>6. CASE Tick
  <2>1. TypeOK' /\ GrantsAsked'
    BY <1>6, MaxTimeNat DEF Tick, WindowInv, TypeOK, GrantsAsked, Times
  <2>2. \A k \in Keys : Live(k)' \subseteq Live(k)
    BY <1>6, WindowPositive, MaxTimeNat DEF Tick, Live, WindowInv, TypeOK, Times
  <2>3. WithinLimit'
    BY <2>2, <1>6, Shrinking DEF Tick, WindowInv
  <2>4. WindowsExact'
    BY <2>2, <1>6 DEF Tick, WindowsExact, WindowInv
  <2> QED  BY <2>1, <2>3, <2>4 DEF WindowInv
<1>7. CASE UNCHANGED vars
  BY <1>7 DEF vars, WindowInv, TypeOK, GrantsAsked, WindowsExact, WithinLimit, Live
<1> QED  BY <1>1, <1>2, <1>3, <1>4, <1>5, <1>6, <1>7 DEF Next

LEMMA WindowInductive == Spec => []WindowInv
BY InitWindowInv, NextWindowInv, PTL DEF Spec

-----------------------------------------------------------------------------
\* InMemoryRateLimiter's state is always well formed.
THEOREM TypeCorrect == Spec => []TypeOK
BY WindowInductive, PTL DEF WindowInv

\* No window ever holds more grants of a tier than the tier's limit.
THEOREM LimitKept == Spec => []WithinLimit
BY WindowInductive, PTL DEF WindowInv

\* The lazily cleaned lists hold every grant that counts and nothing else.
THEOREM NothingForgotten == Spec => []WindowsExact
BY WindowInductive, PTL DEF WindowInv

\* InMemoryRateLimiter implements the sliding window: every answer of check()
\* is the one the abstract limiter gives.
THEOREM Refinement == Spec => IsSlidingWindow
<1>1. Init => Promise!Init
  BY DEF Init, Promise!Init
<1>2. ASSUME WindowInv, [Next]_vars
      PROVE  [Promise!Next]_(Promise!vars)
  <2> USE DEF Unlimited, Promise!Unlimited
  <2> DEFINE Same(S) == Promise!Cardinality(S) = Cardinality(S)
  <2>8. \A S : Same(S)
    BY DEF Cardinality, Promise!Cardinality
  <2>0. \A k \in Keys : Prune(k) = Promise!Live(k)
    BY <1>2, PruneIsLive DEF Live, Promise!Live, WindowInv
  <2>1. ASSUME NEW r \in Requests, CheckUnlimited(r) PROVE Promise!Next
    BY <2>1 DEF CheckUnlimited, Answered, Finite, Promise!Next, Promise!Pass, Promise!Ask
  <2>2. ASSUME NEW r \in Requests, NEW k \in Keys, CheckGranted(r, k) PROVE Promise!Next
    <3>1. Promise!Grant(r, k)
      BY <2>0, <2>2, <2>8 DEF CheckGranted, Answered, Finite, Promise!Grant, Promise!Ask
    <3> QED  BY <3>1 DEF Promise!Next
  <2>3. ASSUME NEW r \in Requests, NEW k \in Keys, CheckRejected(r, k) PROVE Promise!Next
    <3>1. Promise!Reject(r, k)
      BY <2>0, <2>3, <2>8 DEF CheckRejected, Answered, Finite, Promise!Reject, Promise!Ask
    <3> QED  BY <3>1 DEF Promise!Next
  <2>4. ASSUME NEW k \in Keys, GetUsage(k) PROVE UNCHANGED Promise!vars
    BY <2>4 DEF GetUsage, Promise!vars
  <2>5. CASE NewLimiter
    BY <2>5 DEF NewLimiter, Promise!Next, Promise!Forget
  <2>6. CASE Tick
    BY <2>6 DEF Tick, Promise!Next, Promise!Tick
  <2>7. CASE UNCHANGED vars
    BY <2>7 DEF vars, Promise!vars
  <2> QED  BY <1>2, <2>1, <2>2, <2>3, <2>4, <2>5, <2>6, <2>7 DEF Next
<1> QED  BY <1>1, <1>2, WindowInductive, PTL DEF Spec, IsSlidingWindow, Promise!Spec
-----------------------------------------------------------------------------
(***************************************************************************)
(* The configuration.                                                      *)
(***************************************************************************)

Stages == {"idle", "opened", "stored", "read"}

Handler == [stage : Stages, section : Sections \cup {None}, given : Section \cup {None},
            read : Section \cup {None}, stale : BOOLEAN, since : SUBSET SectionKeys]

\* A request under way knows its section and its body, and what it has read.
HandlerKnows(h) ==
    /\ handlers[h] \in Handler
    /\ IF Busy(h) THEN handlers[h].section \in Sections /\ handlers[h].given \in Section
       ELSE handlers[h] = Idle
    /\ handlers[h].stage = "read" => handlers[h].read \in Section

\* So do all requests; the store has its type, and so has an engine.
ConfigTyped ==
    /\ DOMAIN handlers = Handlers
    /\ \A h \in Handlers : HandlerKnows(h)
    /\ handlers = [h \in Handlers |-> handlers[h]]
    /\ stored \in [Sections -> Section]
    /\ engine = None \/ engine \in [Sections -> Section]
    /\ applied \subseteq Sections \cap AppliedSections
    /\ applied # {} => engine # None

\* What a request has read is what is stored, unless another one has committed
\* since.
FreshKnows(h) ==
    handlers[h].stage = "read" /\ ~handlers[h].stale =>
        handlers[h].read = stored[handlers[h].section]

\* What a request has stored is there, and was read, but for the keys that
\* another one has written since.
HasKept(h, values) ==
    \A k \in SectionKeys \ handlers[h].since : handlers[h].given[k] \in {None, values[k]}
OwnKept(h) ==
    /\ handlers[h].stage = "stored" => HasKept(h, stored[handlers[h].section])
    /\ handlers[h].stage = "read" => HasKept(h, handlers[h].read)

ConfigInv ==
    /\ ConfigTyped
    /\ \A h \in Handlers : FreshKnows(h) /\ OwnKept(h)
    /\ EngineFollowsStore

-----------------------------------------------------------------------------
LEMMA InitConfigInv == ConfigInit => ConfigInv
<1> SUFFICES ASSUME ConfigInit PROVE ConfigInv
  OBVIOUS
<1>1. ASSUME NEW h \in Handlers PROVE HandlerKnows(h) /\ FreshKnows(h) /\ OwnKept(h)
  BY DEF ConfigInit, HandlerKnows, FreshKnows, OwnKept, Handler, Stages, Idle, Busy
<1>2. stored \in [Sections -> Section]
  BY DEF ConfigInit, Empty, Section, SectionKeys
<1>3. EngineFollowsStore
  BY DEF ConfigInit, EngineFollowsStore
<1> QED  BY <1>1, <1>2, <1>3 DEF ConfigInv, ConfigTyped, ConfigInit

\* An update merges rows of the store with its body.
LEMMA UpsertType ==
    ASSUME NEW old \in Section, NEW given \in Section
    PROVE  /\ Upsert(old, given) \in Section
           /\ \A k \in SectionKeys : given[k] \in {None, Upsert(old, given)[k]}
BY DEF Upsert, Section, SectionKeys

\* A reload keeps a section's type and puts every value in force.
LEMMA ApplyToType ==
    ASSUME NEW old \in Section, NEW data \in Section
    PROVE  /\ ApplyTo(old, data) \in Section
           /\ \A k \in AppliedKeys : data[k] \in {None, Blank, ApplyTo(old, data)[k]}
           /\ \A k \in SectionKeys \ AppliedKeys : ApplyTo(old, data)[k] = old[k]
BY DEF ApplyTo, Section, SectionKeys, AppliedKeys

LEMMA ReceiveConfig ==
    ASSUME ConfigInv, NEW h \in Handlers, Receive(h)
    PROVE  ConfigInv'
<1>1. PICK s \in Sections, given \in Section :
        handlers' = [handlers EXCEPT ![h] =
          [stage |-> "opened", section |-> s, given |-> given, read |-> None,
           stale |-> FALSE, since |-> {}]]
  BY BodiesAreSections DEF Receive
<1>2. ~Busy(h) /\ UNCHANGED <<stored, engine, doubtful, applied>> /\ DOMAIN handlers = Handlers
  BY DEF Receive, ConfigInv, ConfigTyped
<1>3. /\ handlers'[h].stage = "opened" /\ handlers'[h].section = s
      /\ handlers'[h].given = given /\ handlers'[h] \in Handler
  BY <1>1, <1>2 DEF Handler, Stages
<1>4. \A g \in Handlers \ {h} : handlers'[g] = handlers[g]
  BY <1>1, <1>2
<1>5. ConfigTyped'
  <2>1. ASSUME NEW g \in Handlers PROVE HandlerKnows(g)'
    <3>1. CASE g = h
      BY <1>3, <3>1 DEF HandlerKnows, Busy
    <3>2. CASE g # h
      <4>1. HandlerKnows(g)
        BY DEF ConfigInv, ConfigTyped
      <4> QED  BY <1>4, <3>2, <4>1 DEF HandlerKnows, Busy
    <3> QED  BY <3>1, <3>2
  <2>2. handlers' = [g \in Handlers |-> handlers'[g]] /\ DOMAIN handlers' = Handlers
    BY <1>1, <1>2
  <2> QED  BY <1>2, <2>1, <2>2 DEF ConfigInv, ConfigTyped
<1>6. ASSUME NEW g \in Handlers PROVE FreshKnows(g)' /\ OwnKept(g)'
  BY <1>2, <1>3, <1>4 DEF ConfigInv, FreshKnows, OwnKept, HasKept
<1>7. EngineFollowsStore'
  <2>1. \A r \in Sections : (\A g \in Handlers : handlers'[g].section = r => handlers'[g].stage = "opened")
                         => \A g \in Handlers : handlers[g].section = r => handlers[g].stage = "opened"
    BY <1>2, <1>4, ConfigurationAssumption DEF ConfigInv, ConfigTyped, HandlerKnows, Idle
  <2> QED  BY <1>2, <2>1 DEF ConfigInv, ConfigTyped, EngineFollowsStore
<1> QED  BY <1>5, <1>6, <1>7 DEF ConfigInv

LEMMA SetSectionKeeps ==
    ASSUME ConfigInv, NEW h \in Handlers, SetSection(h)
    PROVE  ConfigInv'
<1> DEFINE s == handlers[h].section
           given == handlers[h].given
<1>1. /\ HandlerKnows(h) /\ s \in Sections /\ given \in Section
      /\ handlers[h].stage = "opened" /\ Busy(h)
      /\ UNCHANGED <<engine, doubtful, applied>>
      /\ stored \in [Sections -> Section]
  BY DEF SetSection, ConfigInv, ConfigTyped, HandlerKnows, Busy
<1>2. /\ handlers'[h] = [handlers[h] EXCEPT !.stage = "stored"]
      /\ DOMAIN handlers' = Handlers
      /\ handlers' = [g \in Handlers |-> handlers'[g]]
  BY DEF SetSection
<1>3. /\ handlers'[h] \in Handler /\ handlers'[h].stage = "stored"
      /\ handlers'[h].section = s /\ handlers'[h].given = given
      /\ handlers'[h].read = handlers[h].read /\ handlers'[h].since = handlers[h].since
  BY <1>1, <1>2 DEF HandlerKnows, Handler, Stages
<1>4. ASSUME NEW g \in Handlers \ {h}
      PROVE  handlers'[g] =
               IF handlers[g].stage \in {"stored", "read"} /\ g \in Others(h, s)
               THEN [handlers[g] EXCEPT !.stale = handlers[g].stage = "read",
                                        !.since = @ \cup {k \in SectionKeys : given[k] # None}]
               ELSE handlers[g]
  BY DEF SetSection
<1>5. ASSUME NEW g \in Handlers \ {h}
      PROVE  /\ HandlerKnows(g) /\ handlers'[g] \in Handler
             /\ handlers'[g].stage = handlers[g].stage
             /\ handlers'[g].section = handlers[g].section
             /\ handlers'[g].given = handlers[g].given
             /\ handlers'[g].read = handlers[g].read
             /\ handlers[g].stage = "read" /\ ~handlers'[g].stale =>
                  handlers[g].section # s /\ ~handlers[g].stale
             /\ handlers[g].since \subseteq handlers'[g].since
             /\ ~Busy(g) => handlers'[g] = handlers[g]
  <2>1. HandlerKnows(g) /\ handlers[g] \in Handler
    BY DEF ConfigInv, ConfigTyped, HandlerKnows
  <2>2. CASE handlers[g].stage \in {"stored", "read"} /\ g \in Others(h, s)
    <3> DEFINE K == {k \in SectionKeys : given[k] # None}
               late == handlers[g].stage = "read"
    <3>1. handlers'[g] = [handlers[g] EXCEPT !.stale = late, !.since = handlers[g].since \cup K]
      BY <2>2, <1>4
    <3>2. K \in SUBSET SectionKeys /\ Busy(g) /\ late \in BOOLEAN
      BY <2>2 DEF Busy
    <3>3. late <=> handlers[g].stage = "read"
      OBVIOUS
    <3> HIDE DEF K, late
    <3>4. /\ handlers'[g] \in Handler
          /\ handlers'[g].stage = handlers[g].stage
          /\ handlers'[g].section = handlers[g].section
          /\ handlers'[g].given = handlers[g].given
          /\ handlers'[g].read = handlers[g].read
          /\ handlers'[g].stale = late
          /\ handlers'[g].since = handlers[g].since \cup K
      BY <2>1, <3>1, <3>2 DEF Handler
    <3> QED  BY <2>1, <3>2, <3>3, <3>4
  <2>3. CASE ~(handlers[g].stage \in {"stored", "read"} /\ g \in Others(h, s))
    BY <2>1, <2>3, <1>4 DEF Others, Busy
  <2> QED  BY <2>2, <2>3
<1>6. ASSUME NEW g \in Handlers \ {h}, handlers[g].stage \in {"stored", "read"},
             handlers[g].section = s
      PROVE  \A k \in SectionKeys \ handlers'[g].since : given[k] = None
  <2>1. g \in Others(h, s)
    BY <1>6 DEF Others, Busy
  <2>2. handlers'[g].since = handlers[g].since \cup {k \in SectionKeys : given[k] # None}
    BY <2>1, <1>6, <1>4, <1>5 DEF HandlerKnows, Handler
  <2> QED  BY <2>2
<1>7. stored' = [stored EXCEPT ![s] = Upsert(stored[s], given)]
  BY DEF SetSection
<1>8. /\ stored' \in [Sections -> Section] /\ stored'[s] = Upsert(stored[s], given)
      /\ \A r \in Sections \ {s} : stored'[r] = stored[r]
  BY <1>1, <1>7, UpsertType
<1> HIDE DEF s, given
<1>9. ConfigTyped'
  <2>1. ASSUME NEW g \in Handlers PROVE HandlerKnows(g)'
    <3>1. CASE g = h
      BY <1>1, <1>3, <3>1 DEF HandlerKnows, Busy
    <3>2. CASE g # h
      BY <1>5, <3>2 DEF HandlerKnows, Busy
    <3> QED  BY <3>1, <3>2
  <2> QED  BY <1>1, <1>2, <1>8, <2>1 DEF ConfigInv, ConfigTyped
<1>10. ASSUME NEW g \in Handlers PROVE FreshKnows(g)'
  <2>1. FreshKnows(g)
    BY DEF ConfigInv
  <2>2. CASE g = h
    BY <1>3, <2>2 DEF FreshKnows
  <2>3. CASE g # h
    <3>1. handlers[g].stage = "read" => handlers[g].section \in Sections
      BY <1>5, <2>3 DEF HandlerKnows, Busy
    <3> QED  BY <1>5, <1>8, <2>1, <2>3, <3>1 DEF FreshKnows
  <2> QED  BY <2>2, <2>3
<1>11. ASSUME NEW g \in Handlers PROVE OwnKept(g)'
  <2>1. OwnKept(g)
    BY DEF ConfigInv
  <2>2. CASE g = h
    <3>1. \A k \in SectionKeys : given[k] \in {None, stored'[s][k]}
      BY <1>1, <1>8, UpsertType
    <3> QED  BY <1>3, <2>2, <3>1 DEF OwnKept, HasKept
  <2>3. CASE g # h /\ handlers[g].stage = "stored" /\ handlers[g].section = s
    <3>1. \A k \in SectionKeys \ handlers'[g].since : stored'[s][k] = stored[s][k]
      BY <1>6, <1>8, <2>3 DEF Upsert
    <3>2. \A k \in SectionKeys \ handlers'[g].since : handlers[g].given[k] \in {None, stored[s][k]}
      BY <1>5, <2>1, <2>3 DEF OwnKept, HasKept
    <3> QED  BY <1>5, <2>3, <3>1, <3>2 DEF OwnKept, HasKept
  <2>4. CASE g # h /\ ~(handlers[g].stage = "stored" /\ handlers[g].section = s)
    <3>1. handlers[g].stage = "stored" => stored'[handlers[g].section] = stored[handlers[g].section]
      BY <1>5, <1>8, <2>4 DEF HandlerKnows, Busy
    <3> QED  BY <1>5, <2>1, <2>4, <3>1 DEF OwnKept, HasKept
  <2> QED  BY <2>2, <2>3, <2>4
<1>12. EngineFollowsStore'
  <2>1. ASSUME NEW r \in Sections,
               \A g \in Handlers : handlers'[g].section = r => handlers'[g].stage = "opened"
        PROVE  /\ r # s
               /\ \A g \in Handlers : handlers[g].section = r => handlers[g].stage = "opened"
    BY <1>3, <1>5, <2>1, <1>1 DEF s
  <2> QED  BY <1>1, <1>8, <2>1 DEF ConfigInv, ConfigTyped, EngineFollowsStore
<1> QED  BY <1>9, <1>10, <1>11, <1>12 DEF ConfigInv

LEMMA GetSectionKeeps ==
    ASSUME ConfigInv, NEW h \in Handlers, GetSection(h)
    PROVE  ConfigInv'
<1> DEFINE s == handlers[h].section
<1>1. /\ HandlerKnows(h) /\ s \in Sections /\ handlers[h].stage = "stored" /\ Busy(h)
      /\ UNCHANGED <<stored, engine, doubtful, applied>>
      /\ stored \in [Sections -> Section]
  BY DEF GetSection, ConfigInv, ConfigTyped, HandlerKnows, Busy
<1>2. /\ handlers' = [handlers EXCEPT ![h] = [handlers[h] EXCEPT !.stage = "read", !.read = stored[s]]]
      /\ DOMAIN handlers = Handlers
  BY DEF GetSection, ConfigInv, ConfigTyped
<1>3. /\ handlers'[h] \in Handler /\ handlers'[h].stage = "read"
      /\ handlers'[h].section = s /\ handlers'[h].given = handlers[h].given
      /\ handlers'[h].read = stored[s] /\ handlers'[h].since = handlers[h].since
      /\ stored[s] \in Section
  BY <1>1, <1>2 DEF HandlerKnows, Handler, Stages
<1>4. \A g \in Handlers \ {h} : handlers'[g] = handlers[g]
  BY <1>2
<1>5. ConfigTyped'
  <2>1. ASSUME NEW g \in Handlers PROVE HandlerKnows(g)'
    <3>1. CASE g = h
      BY <1>1, <1>3, <3>1 DEF HandlerKnows, Busy
    <3>2. CASE g # h
      <4>1. HandlerKnows(g)
        BY DEF ConfigInv, ConfigTyped
      <4> QED  BY <1>4, <3>2, <4>1 DEF HandlerKnows, Busy
    <3> QED  BY <3>1, <3>2
  <2>2. handlers' = [g \in Handlers |-> handlers'[g]] /\ DOMAIN handlers' = Handlers
    BY <1>2
  <2> QED  BY <1>1, <2>1, <2>2 DEF ConfigInv, ConfigTyped
<1>6. ASSUME NEW g \in Handlers PROVE FreshKnows(g)' /\ OwnKept(g)'
  <2>1. FreshKnows(g) /\ OwnKept(g)
    BY DEF ConfigInv
  <2>2. CASE g = h
    BY <1>1, <1>3, <2>1, <2>2 DEF FreshKnows, OwnKept, HasKept
  <2>3. CASE g # h
    BY <1>1, <1>4, <2>1, <2>3 DEF FreshKnows, OwnKept, HasKept
  <2> QED  BY <2>2, <2>3
<1> HIDE DEF s
<1>7. EngineFollowsStore'
  <2>1. ASSUME NEW r \in Sections,
               \A g \in Handlers : handlers'[g].section = r => handlers'[g].stage = "opened"
        PROVE  \A g \in Handlers : handlers[g].section = r => handlers[g].stage = "opened"
    BY <1>3, <1>4, <2>1 DEF s
  <2> QED  BY <1>1, <2>1 DEF ConfigInv, ConfigTyped, EngineFollowsStore
<1> QED  BY <1>5, <1>6, <1>7 DEF ConfigInv

\* A request that ends leaves the others as they were.
LEMMA EndKeeps ==
    ASSUME ConfigInv, NEW h \in Handlers, handlers' = [handlers EXCEPT ![h] = Idle],
           stored' = stored,
           engine' = None \/ engine' \in [Sections -> Section],
           applied' \subseteq Sections \cap AppliedSections,
           applied' # {} => engine' # None
    PROVE  ConfigTyped' /\ \A g \in Handlers : FreshKnows(g)' /\ OwnKept(g)'
<1>1. /\ DOMAIN handlers = Handlers /\ handlers'[h] = Idle
      /\ \A g \in Handlers \ {h} : handlers'[g] = handlers[g]
  BY DEF ConfigInv, ConfigTyped
<1>2. Idle \in Handler /\ ~Busy(h)'
  BY <1>1 DEF Idle, Handler, Stages, Busy
<1>3. ConfigTyped'
  <2>1. ASSUME NEW g \in Handlers PROVE HandlerKnows(g)'
    <3>1. CASE g = h
      BY <1>1, <1>2, <3>1 DEF HandlerKnows, Idle
    <3>2. CASE g # h
      <4>1. HandlerKnows(g)
        BY DEF ConfigInv, ConfigTyped
      <4> QED  BY <1>1, <3>2, <4>1 DEF HandlerKnows, Busy
    <3> QED  BY <3>1, <3>2
  <2>2. handlers' = [g \in Handlers |-> handlers'[g]] /\ DOMAIN handlers' = Handlers
    BY <1>1
  <2> QED  BY <2>1, <2>2 DEF ConfigInv, ConfigTyped
<1>4. ASSUME NEW g \in Handlers PROVE FreshKnows(g)' /\ OwnKept(g)'
  <2>1. FreshKnows(g) /\ OwnKept(g)
    BY DEF ConfigInv
  <2>2. CASE g = h
    BY <1>1, <2>2 DEF FreshKnows, OwnKept, Idle
  <2>3. CASE g # h
    BY <1>1, <2>1, <2>3 DEF FreshKnows, OwnKept, HasKept
  <2> QED  BY <2>2, <2>3
<1> QED  BY <1>3, <1>4

LEMMA HotReloadKeeps ==
    ASSUME ConfigInv, NEW h \in Handlers, HotReload(h)
    PROVE  ConfigInv'
<1> DEFINE s == handlers[h].section
<1>1. /\ HandlerKnows(h) /\ s \in Sections /\ handlers[h].stage = "read" /\ Busy(h)
      /\ handlers[h].read \in Section /\ stored' = stored
      /\ handlers' = [handlers EXCEPT ![h] = Idle]
      /\ doubtful' = IF handlers[h].stale THEN doubtful \cup {s} ELSE doubtful \ {s}
  BY DEF HotReload, ConfigInv, ConfigTyped, HandlerKnows, Busy
<1>2. ~handlers[h].stale => handlers[h].read = stored[s]
  BY <1>1 DEF ConfigInv, FreshKnows
<1>3. ASSUME NEW r \in Sections \ {s},
             \A g \in Handlers : handlers'[g].section = r => handlers'[g].stage = "opened"
      PROVE  \A g \in Handlers : handlers[g].section = r => handlers[g].stage = "opened"
  BY <1>1, <1>3 DEF ConfigInv, ConfigTyped
<1>4. CASE engine = None \/ s \notin AppliedSections
  <2>1. UNCHANGED <<engine, applied>> /\ s \notin applied
    BY <1>4 DEF HotReload, ConfigInv, ConfigTyped
  <2>2. EngineFollowsStore'
    BY <1>1, <1>3, <2>1 DEF ConfigInv, ConfigTyped, EngineFollowsStore
  <2> QED  BY <1>1, <2>1, <2>2, EndKeeps DEF ConfigInv, ConfigTyped
<1>5. CASE engine # None /\ s \in AppliedSections
  <2>1. /\ engine \in [Sections -> Section] /\ applied' = applied \cup {s}
        /\ engine' = [engine EXCEPT ![s] = ApplyTo(engine[s], handlers[h].read)]
    BY <1>5 DEF HotReload, ConfigInv, ConfigTyped
  <2>2. /\ engine' \in [Sections -> Section]
        /\ engine'[s] = ApplyTo(engine[s], handlers[h].read)
        /\ \A r \in Sections \ {s} : engine'[r] = engine[r]
    BY <1>1, <2>1, ApplyToType
  <2>3. engine' # None
    BY <2>2, NoneIsNoConfig
  <2>4. EngineFollowsStore'
    <3> SUFFICES ASSUME NEW r \in applied' \ doubtful',
                        \A g \in Handlers : handlers'[g].section = r => handlers'[g].stage = "opened"
                 PROVE  \A k \in AppliedKeys : stored'[r][k] \in {None, Blank, engine'[r][k]}
      BY DEF EngineFollowsStore
    <3>1. CASE r = s
      BY <1>1, <1>2, <2>1, <2>2, <3>1, ApplyToType
    <3>2. CASE r # s
      <4>1. r \in applied \ doubtful /\ r \in Sections
        BY <1>1, <2>1, <3>2 DEF ConfigInv, ConfigTyped
      <4> QED  BY <1>1, <1>3, <2>2, <3>2, <4>1 DEF ConfigInv, EngineFollowsStore
    <3> QED  BY <3>1, <3>2
  <2> QED  BY <1>1, <1>5, <2>1, <2>2, <2>3, <2>4, EndKeeps DEF ConfigInv, ConfigTyped
<1> QED  BY <1>4, <1>5

LEMMA LockTimeoutKeeps ==
    ASSUME ConfigInv, NEW h \in Handlers, LockTimeout(h)
    PROVE  ConfigInv'
<1>1. /\ HandlerKnows(h) /\ handlers' = [handlers EXCEPT ![h] = Idle]
      /\ UNCHANGED <<stored, engine, applied>> /\ DOMAIN handlers = Handlers
      /\ handlers[h].stage \in {"opened", "stored"}
      /\ doubtful' = IF handlers[h].stage = "stored"
                     THEN doubtful \cup {handlers[h].section} ELSE doubtful
  BY DEF LockTimeout, ConfigInv, ConfigTyped
<1>2. ASSUME NEW r \in Sections, r \notin doubtful',
             \A g \in Handlers : handlers'[g].section = r => handlers'[g].stage = "opened"
      PROVE  \A g \in Handlers : handlers[g].section = r => handlers[g].stage = "opened"
  BY <1>1, <1>2
<1>3. EngineFollowsStore'
  BY <1>1, <1>2 DEF ConfigInv, ConfigTyped, EngineFollowsStore
<1> QED  BY <1>1, <1>3, EndKeeps DEF ConfigInv, ConfigTyped
\* Making an engine, the limiter and its settings leave the updates alone.
LEMMA EngineKeeps ==
    ASSUME ConfigInv, UNCHANGED <<stored, handlers, doubtful>>,
           \/ UNCHANGED <<engine, applied>>
           \/ applied' = {} /\ (engine' = None \/ engine' \in [Sections -> Section])
    PROVE  ConfigInv'
<1>1. ConfigTyped'
  BY DEF ConfigInv, ConfigTyped, HandlerKnows, Busy
<1>2. ASSUME NEW g \in Handlers PROVE FreshKnows(g)' /\ OwnKept(g)'
  BY DEF ConfigInv, FreshKnows, OwnKept, HasKept
<1>3. EngineFollowsStore'
  BY DEF ConfigInv, EngineFollowsStore
<1> QED  BY <1>1, <1>2, <1>3 DEF ConfigInv

LEMMA RestartKeeps == ASSUME ConfigInv, Restart PROVE ConfigInv'
<1>1. ASSUME NEW h \in Handlers
      PROVE  HandlerKnows(h)' /\ FreshKnows(h)' /\ OwnKept(h)'
  BY DEF Restart, HandlerKnows, FreshKnows, OwnKept, Handler, Stages, Idle, Busy
<1>2. ConfigTyped'
  BY <1>1 DEF Restart, ConfigInv, ConfigTyped
<1>3. EngineFollowsStore'
  BY DEF Restart, EngineFollowsStore
<1> QED  BY <1>1, <1>2, <1>3 DEF ConfigInv

LEMMA NextConfigInv == ConfigInv /\ [ConfigNext]_configVars => ConfigInv'
<1> SUFFICES ASSUME ConfigInv, [ConfigNext]_configVars PROVE ConfigInv'
  OBVIOUS
<1>1. ASSUME NEW h \in Handlers, Receive(h) \/ SetSection(h) \/ GetSection(h)
                                 \/ HotReload(h) \/ LockTimeout(h)
      PROVE  ConfigInv'
  BY <1>1, ReceiveConfig, SetSectionKeeps, GetSectionKeeps, HotReloadKeeps, LockTimeoutKeeps
<1>2. CASE MakeEngine
  <2>1. PICK given \in Section : engine' = NewConfig(given)
    BY <1>2, BodiesAreSections DEF MakeEngine
  <2>2. Defaults \in Section
    BY ConfigurationAssumption DEF Section, Defaults
  <2>3. engine' \in [Sections -> Section]
    BY <2>1, <2>2, UpsertType DEF NewConfig
  <2> QED  BY <1>2, <2>3, EngineKeeps DEF MakeEngine
<1>3. CASE UpdateRateLimitConfig \/ UNCHANGED configVars
  BY <1>3, EngineKeeps DEF UpdateRateLimitConfig, configVars
<1>4. CASE Restart
  BY <1>4, RestartKeeps
<1> QED  BY <1>1, <1>2, <1>3, <1>4 DEF ConfigNext, InitializeEngine, ReconfigureEngine

\* Once a section has been applied to the running engine, the engine runs with
\* what the store holds of the applied keys, unless its last update came late or
\* broke off.
THEOREM EngineAsStored == ConfigSpec => []EngineFollowsStore
<1>1. ConfigInv => EngineFollowsStore
  BY DEF ConfigInv
<1> QED  BY <1>1, InitConfigInv, NextConfigInv, PTL DEF ConfigSpec

\* Events are counted.
Counted == events \in Nat

LEMMA InitCounted == ConfigInit => Counted
BY DEF ConfigInit, Counted

LEMMA NextCounted == Counted /\ [ConfigNext]_configVars => Counted'
<1>1. [ConfigNext]_configVars => events' = events \/ events' = events + 1
  BY DEF ConfigNext, Receive, SetSection, GetSection, HotReload, LockTimeout,
     InitializeEngine, ReconfigureEngine, MakeEngine, UpdateRateLimitConfig, Restart, configVars
<1> QED  BY <1>1 DEF Counted

\* Only its own reload ends a request that has read its section, while the
\* gateway runs.
LEMMA EndsByReload ==
    ASSUME ConfigInv, Counted, [ConfigNext]_configVars, NEW h \in Handlers,
           handlers[h].stage = "read", handlers'[h] = Idle, events' = events
    PROVE  HotReload(h)
<1>1. /\ handlers'[h].stage = "idle" /\ handlers[h] \in Handler /\ DOMAIN handlers = Handlers
  BY DEF Idle, ConfigInv, ConfigTyped, HandlerKnows
<1>2. ASSUME NEW g \in Handlers, Receive(g) PROVE FALSE
  BY <1>2 DEF Receive, Counted
<1>3. ASSUME NEW g \in Handlers, SetSection(g) PROVE FALSE
  <2>1. g # h
    BY <1>3 DEF SetSection
  <2> DEFINE K == {k \in SectionKeys : handlers[g].given[k] # None}
             late == handlers[h].stage = "read"
  <2>3. \/ handlers'[h] = handlers[h]
        \/ handlers'[h] = [handlers[h] EXCEPT !.stale = late, !.since = handlers[h].since \cup K]
    BY <1>3, <2>1 DEF SetSection
  <2>4. late \in BOOLEAN /\ K \in SUBSET SectionKeys
    OBVIOUS
  <2> HIDE DEF K, late
  <2>2. handlers'[h].stage = handlers[h].stage
    BY <1>1, <2>3, <2>4 DEF Handler
  <2> QED  BY <1>1, <2>2
<1>4. ASSUME NEW g \in Handlers, GetSection(g) PROVE FALSE
  BY <1>1, <1>4 DEF GetSection
<1>5. ASSUME NEW g \in Handlers, LockTimeout(g) PROVE FALSE
  BY <1>1, <1>5 DEF LockTimeout
<1>6. ASSUME NEW g \in Handlers \ {h}, HotReload(g) PROVE FALSE
  BY <1>1, <1>6 DEF HotReload
<1>7. ~(InitializeEngine \/ ReconfigureEngine \/ UpdateRateLimitConfig \/ Restart)
  BY DEF Counted, InitializeEngine, ReconfigureEngine, MakeEngine, UpdateRateLimitConfig, Restart
<1>8. handlers' # handlers
  BY <1>1
<1> QED  BY <1>2, <1>3, <1>4, <1>5, <1>6, <1>7, <1>8 DEF ConfigNext, configVars

\* The values that a reload has put in force are those of its own request, but
\* for the keys that another one has written since.
LEMMA ReloadApplies ==
    ASSUME ConfigInv, Counted, [ConfigNext]_configVars, NEW h \in Handlers
    PROVE  OwnValuesApplied(h)
<1> DEFINE s == handlers[h].section
<1> SUFFICES ASSUME handlers[h].stage = "read", handlers'[h] = Idle, events' = events,
                    engine # None, s \in AppliedSections
             PROVE  /\ \A k \in AppliedKeys \ handlers[h].since :
                         handlers[h].given[k] \in {None, Blank, engine'[s][k]}
                    /\ \A k \in SectionKeys \ AppliedKeys : engine'[s][k] = engine[s][k]
  BY DEF OwnValuesApplied
<1>1. HotReload(h)
  BY EndsByReload
<1>2. /\ s \in Sections /\ handlers[h].read \in Section /\ engine \in [Sections -> Section]
  BY DEF ConfigInv, ConfigTyped, HandlerKnows, Busy
<1>3. \A k \in SectionKeys \ handlers[h].since :
        handlers[h].given[k] \in {None, handlers[h].read[k]}
  BY DEF ConfigInv, OwnKept, HasKept
<1>4. engine'[s] = ApplyTo(engine[s], handlers[h].read)
  BY <1>1, <1>2 DEF HotReload
<1>5. /\ \A k \in AppliedKeys : handlers[h].read[k] \in {None, Blank, engine'[s][k]}
      /\ \A k \in SectionKeys \ AppliedKeys : engine'[s][k] = engine[s][k]
  BY <1>2, <1>4, ApplyToType
<1>6. AppliedKeys \subseteq SectionKeys
  BY DEF AppliedKeys, SectionKeys
<1> HIDE DEF s
<1> QED  BY <1>3, <1>5, <1>6

\* Even when updates meet, an admin whose update ends finds his values in the
\* running engine, but for the keys that another update has written after his
\* and those no reload applies.
THEOREM OwnValuesInForce == ConfigSpec => OwnUpdateInForce
<1> DEFINE AllApplied == \A h \in Handlers : OwnValuesApplied(h)
<1>1. ConfigInv /\ Counted /\ [ConfigNext]_configVars => [AllApplied]_configVars
  BY ReloadApplies
<1>2. ConfigSpec => [][AllApplied]_configVars
  <2> HIDE DEF AllApplied
  <2> QED  BY <1>1, InitConfigInv, NextConfigInv, InitCounted, NextCounted, PTL DEF ConfigSpec
<1> QED  BY <1>2 DEF OwnUpdateInForce

\* The settings, as every limiter is made from them, describe the limiter that
\* was made.
LEMMA CreatedAsConfigured ==
    ASSUME NEW s, NEW pong, Created(s, pong) # None
    PROVE  /\ Created(s, pong).window = s.window
           /\ Created(s, pong).kind = "redis" =>
                Created(s, pong) = OnRedis(s) /\ s.backend = "redis"
           /\ Created(s, pong).kind = "memory" => s.backend # "redis" \/ ~s.strict
BY DEF Created, InMemory, OnRedis

\* The limiter in force is the one that the settings describe, unless a PATCH has
\* failed since, and memory stands in for Redis only where that is allowed.
THEOREM LimiterFollowsSettings == ConfigSpec => []LimiterAsConfigured
<1>1. ConfigInit => LimiterAsConfigured
  BY CreatedAsConfigured DEF ConfigInit, LimiterAsConfigured
<1>2. LimiterAsConfigured /\ [ConfigNext]_configVars => LimiterAsConfigured'
  <2> SUFFICES ASSUME LimiterAsConfigured, [ConfigNext]_configVars
               PROVE  LimiterAsConfigured'
    OBVIOUS
  <2>1. CASE UNCHANGED <<settings, limiter, rejected>>
    BY <2>1 DEF LimiterAsConfigured
  <2>2. CASE UpdateRateLimitConfig
    <3>1. \E wanted, pong :
             /\ settings' = wanted
             /\ ~rejected' => /\ limiter' = Created(wanted, pong)
                              /\ Created(wanted, pong) # None
      BY <2>2 DEF UpdateRateLimitConfig
    <3>2. PICK wanted, pong :
             /\ settings' = wanted
             /\ ~rejected' => /\ limiter' = Created(wanted, pong)
                              /\ Created(wanted, pong) # None
      BY <3>1
    <3> QED  BY <3>1, <3>2, CreatedAsConfigured DEF LimiterAsConfigured
  <2>3. CASE Restart
    <3>1. PICK pong \in BOOLEAN : limiter' = Created(Deployed, pong) /\ limiter' # None
      BY <2>3 DEF Restart
    <3> QED  BY <2>3, <3>1, CreatedAsConfigured DEF Restart, LimiterAsConfigured
  <2> QED
    BY <2>1, <2>2, <2>3 DEF ConfigNext, configVars, Receive, SetSection, GetSection,
       HotReload, LockTimeout, InitializeEngine, ReconfigureEngine, MakeEngine
<1> QED  BY <1>1, <1>2, PTL DEF ConfigSpec
-----------------------------------------------------------------------------
(***************************************************************************)
(* The limiter in Redis.  Instances that find room have not recorded their *)
(* requests yet: live members and those requests together stay in bounds.  *)
(***************************************************************************)

\* The members of the key that the window ending now still counts.
LiveSet == Younger(zset, clock - WindowSeconds)

\* The instances that found room and have not recorded their request yet.
Adding == {i \in Instances : stage[i] = "add"}

\* A check in progress has a member of its own; nothing is from the future.
Stamped ==
    /\ \A i \in Instances : stage[i] # "idle" => member[i] \in Members /\ member[i][1] <= clock
    /\ \A m \in admitted : m[1] > clock - WindowSeconds /\ m[1] <= clock

\* Every grant that counts, given or about to be given, is in the set, unless
\* the TTL overtook it.
Remembered ==
    /\ admitted \subseteq zset \cup overtaken
    /\ \A i \in Instances :
          stage[i] = "expire" /\ member[i][1] > clock - WindowSeconds =>
              member[i] \in zset \cup overtaken

\* The TTL leaves every grant twice its window.
LongLived == \A m \in admitted \ overtaken : m[1] + 2 * WindowSeconds <= expires

\* Records and records to come stay within the bound.
RoomLeft == Cardinality(LiveSet) + Cardinality(Adding) <= Limit + N - 1

RedisInv == RedisTypeOK /\ Stamped /\ Remembered /\ LongLived /\ RoomLeft

-----------------------------------------------------------------------------
LEMMA Finiteness ==
    ASSUME RedisTypeOK
    PROVE  /\ IsFiniteSet(Members)
           /\ IsFiniteSet(zset) /\ IsFiniteSet(LiveSet) /\ IsFiniteSet(admitted)
           /\ IsFiniteSet(Adding)
           /\ N \in Nat \ {0}
<1>1. IsFiniteSet(Members)
  <2>1. IsFiniteSet(Seconds)
    BY MaxClockNat, FS_Interval DEF Seconds
  <2> QED  BY <2>1, SuffixesFinite, FS_Product DEF Members
<1>2. IsFiniteSet(zset) /\ IsFiniteSet(LiveSet) /\ IsFiniteSet(admitted)
  BY <1>1, FS_Subset DEF RedisTypeOK, LiveSet, Younger
<1>3. IsFiniteSet(Adding)
  BY InstancesFinite, FS_Subset DEF Adding
<1>4. N \in Nat /\ N # 0
  BY InstancesFinite, FS_CardinalityType, FS_EmptySet DEF N
<1> QED  BY <1>1, <1>2, <1>3, <1>4

\* Removing and adding one element.
LEMMA Counting ==
    ASSUME NEW S, NEW x, IsFiniteSet(S)
    PROVE  /\ Cardinality(S) \in Nat
           /\ Cardinality(S \cup {x}) \in Nat
           /\ Cardinality(S \cup {x}) <= Cardinality(S) + 1
           /\ x \in S => Cardinality(S \ {x}) = Cardinality(S) - 1
           /\ \A T \in SUBSET S : Cardinality(T) \in Nat /\ Cardinality(T) <= Cardinality(S)
<1> DEFINE U == S \cup {x}
<1>1. IsFiniteSet(U)
  BY FS_AddElement
<1>2. Cardinality(U) = Cardinality(S) \/ Cardinality(U) = Cardinality(S) + 1
  BY FS_AddElement
<1>3. Cardinality(S) \in Nat /\ Cardinality(U) \in Nat
  BY <1>1, FS_CardinalityType
<1>4. Cardinality(U) <= Cardinality(S) + 1
  <2> HIDE DEF U
  <2> QED  BY <1>2, <1>3
<1>5. x \in S => Cardinality(S \ {x}) = Cardinality(S) - 1
  BY FS_RemoveElement
<1>6. ASSUME NEW T \in SUBSET S
      PROVE  Cardinality(T) \in Nat /\ Cardinality(T) <= Cardinality(S)
  BY FS_Subset, FS_CardinalityType
<1> QED  BY <1>3, <1>4, <1>5, <1>6

\* A step that adds no live member and no instance about to add one.
LEMMA NoNewcomer ==
    ASSUME RedisTypeOK, RoomLeft, LiveSet' \subseteq LiveSet, Adding' \subseteq Adding
    PROVE  RoomLeft'
<1>1. /\ Cardinality(LiveSet') \in Nat /\ Cardinality(LiveSet') <= Cardinality(LiveSet)
      /\ Cardinality(LiveSet) \in Nat
  BY Finiteness, Counting
<1>2. /\ Cardinality(Adding') \in Nat /\ Cardinality(Adding') <= Cardinality(Adding)
      /\ Cardinality(Adding) \in Nat
  BY Finiteness, Counting
<1>3. Cardinality(LiveSet') + Cardinality(Adding') <= Limit + N - 1
  BY <1>1, <1>2, Finiteness, LimitNat DEF RoomLeft
<1> QED  BY <1>3 DEF RoomLeft, N

\* An instance that found room makes room for its member.
LEMMA AddRoom ==
    ASSUME RedisTypeOK, RoomLeft, NEW i \in Instances, stage[i] = "add",
           zset' = zset \cup {member[i]}, clock' = clock,
           Adding' = Adding \ {i}
    PROVE  RoomLeft'
<1>1. i \in Adding
  BY DEF Adding
<1>2. Cardinality(Adding') = Cardinality(Adding) - 1 /\ Cardinality(Adding) \in Nat
  BY <1>1, Finiteness, Counting
<1>3. LiveSet' \subseteq LiveSet \cup {member[i]}
  BY DEF LiveSet, Younger
<1>4. IsFiniteSet(LiveSet \cup {member[i]})
  BY Finiteness, FS_AddElement
<1>5. /\ Cardinality(LiveSet') \in Nat
      /\ Cardinality(LiveSet') <= Cardinality(LiveSet \cup {member[i]})
  BY <1>3, <1>4, Counting
<1>6. /\ Cardinality(LiveSet) \in Nat
      /\ Cardinality(LiveSet \cup {member[i]}) \in Nat
      /\ Cardinality(LiveSet \cup {member[i]}) <= Cardinality(LiveSet) + 1
  BY Finiteness, Counting
<1>7. Cardinality(LiveSet') + Cardinality(Adding') <= Limit + N - 1
  BY <1>2, <1>5, <1>6, Finiteness, LimitNat DEF RoomLeft
<1> QED  BY <1>7 DEF RoomLeft, N

\* Finding room: whatever the other instances found before, the set itself is
\* below the limit and at most every instance is about to add one.
LEMMA CountRoom ==
    ASSUME RedisTypeOK, NEW i \in Instances, CountBelow(i)
    PROVE  RoomLeft'
<1>1. LiveSet' \subseteq zset
  BY DEF CountBelow, LiveSet, Younger
<1>2. /\ Cardinality(LiveSet') \in Nat /\ Cardinality(LiveSet') <= Cardinality(zset)
      /\ Cardinality(zset) \in Nat
  BY <1>1, Finiteness, Counting
<1>3. Adding' \subseteq Instances
  BY DEF Adding
<1>4. Cardinality(Adding') \in Nat /\ Cardinality(Adding') <= N
  BY <1>3, InstancesFinite, Counting DEF N
<1>5. Cardinality(zset) < Limit
  BY DEF CountBelow
<1>6. Cardinality(LiveSet') + Cardinality(Adding') <= Limit + N - 1
  BY <1>2, <1>4, <1>5, Finiteness, LimitNat
<1> QED  BY <1>6 DEF RoomLeft, N

-----------------------------------------------------------------------------
LEMMA InitRedisInv == RedisInit => RedisInv
<1> SUFFICES ASSUME RedisInit PROVE RedisInv
  OBVIOUS
<1>1. RedisTypeOK
  BY MaxClockNat, WindowSecondsPositive DEF RedisInit, RedisTypeOK, Seconds, Commands, Never
<1>2. Stamped /\ Remembered /\ LongLived
  BY DEF RedisInit, Stamped, Remembered, LongLived
<1>3. RoomLeft
  <2>1. LiveSet = {} /\ Adding = {}
    BY DEF RedisInit, LiveSet, Younger, Adding
  <2> QED  BY <2>1, Finiteness, <1>1, LimitNat, FS_EmptySet DEF RoomLeft
<1> QED  BY <1>1, <1>2, <1>3 DEF RedisInv

LEMMA ReadClockStep ==
    ASSUME RedisInv, NEW i \in Instances, NEW h \in Suffixes, ReadClock(i, h)
    PROVE  RedisInv'
<1> USE DEF RedisInv, ReadClock, Goto
<1>1. RedisTypeOK'
  BY DEF RedisTypeOK, Members, Commands
<1>2. Stamped'
  BY MaxClockNat DEF Stamped, RedisTypeOK, Members, Seconds
<1>3. Remembered' /\ LongLived'
  BY DEF Remembered, LongLived, RedisTypeOK
<1>4. RoomLeft'
  <2>1. LiveSet' \subseteq LiveSet /\ Adding' \subseteq Adding
    BY DEF LiveSet, Younger, Adding, RedisTypeOK
  <2> QED  BY <2>1, NoNewcomer
<1> QED  BY <1>1, <1>2, <1>3, <1>4

\* A clean-up with a window that started at or before the present one.
LEMMA RemoveStep ==
    ASSUME RedisInv, NEW start \in Int, start <= clock - WindowSeconds,
           zset' = Younger(zset, start), expires' = ExpiresWithout(zset'),
           UNCHANGED <<clock, member, admitted, overtaken>>,
           stage' \in [Instances -> Commands],
           \A j \in Instances : stage'[j] # stage[j] => stage[j] # "idle" /\ stage'[j] = "count"
    PROVE  RedisInv'
<1> USE DEF RedisInv
<1>1. RedisTypeOK'
  BY MaxClockNat, WindowSecondsPositive DEF RedisTypeOK, Younger, ExpiresWithout, Never
<1>2. Stamped'
  BY DEF Stamped
<1>3. Remembered'
  BY MaxClockNat, WindowSecondsPositive DEF Remembered, Stamped, Younger, RedisTypeOK, Members, Seconds
<1>4. LongLived'
  <2> SUFFICES ASSUME NEW m \in admitted \ overtaken
               PROVE  m[1] + 2 * WindowSeconds <= expires'
    BY DEF LongLived
  <2>1. m[1] \in Nat /\ m[1] <= MaxClock
    BY MaxClockNat DEF RedisTypeOK, Members, Seconds
  <2>2. CASE expires' = expires
    BY <2>2 DEF LongLived
  <2>3. CASE expires' = Never
    BY <2>1, <2>3, MaxClockNat, WindowSecondsPositive DEF Never
  <2> QED  BY <2>2, <2>3 DEF ExpiresWithout
<1>5. RoomLeft'
  <2>1. LiveSet' \subseteq LiveSet /\ Adding' \subseteq Adding
    BY DEF LiveSet, Younger, Adding
  <2> QED  BY <2>1, NoNewcomer
<1> QED  BY <1>1, <1>2, <1>3, <1>4, <1>5

LEMMA CountBelowStep ==
    ASSUME RedisInv, NEW i \in Instances, CountBelow(i)
    PROVE  RedisInv'
<1> USE DEF RedisInv
<1>1. RedisTypeOK' /\ Stamped' /\ Remembered' /\ LongLived'
  BY DEF CountBelow, Goto, RedisTypeOK, Commands, Stamped, Remembered, LongLived
<1> QED  BY <1>1, CountRoom

\* Steps in which an instance leaves its check and Redis is left alone.
LEMMA ReturnStep ==
    ASSUME RedisInv, NEW i \in Instances, Return(i),
           UNCHANGED <<clock, zset, expires, admitted, overtaken>>
    PROVE  RedisInv'
<1> USE DEF RedisInv, Return, Goto
<1>1. RedisTypeOK' /\ Stamped' /\ Remembered' /\ LongLived'
  BY DEF RedisTypeOK, Commands, Stamped, Remembered, LongLived
<1>2. RoomLeft'
  <2>1. LiveSet' \subseteq LiveSet /\ Adding' \subseteq Adding
    BY DEF LiveSet, Younger, Adding, RedisTypeOK
  <2> QED  BY <2>1, NoNewcomer
<1> QED  BY <1>1, <1>2

LEMMA AddStep ==
    ASSUME RedisInv, NEW i \in Instances, Add(i) \/ AddWithoutAnswer(i)
    PROVE  RedisInv'
<1> USE DEF RedisInv, Add, AddWithoutAnswer, Return, Goto
<1>1. member[i] \in Members /\ stage[i] = "add"
  BY DEF Stamped
<1>2. RedisTypeOK'
  BY <1>1 DEF RedisTypeOK, Commands
<1>3. Stamped' /\ LongLived'
  BY DEF Stamped, LongLived, RedisTypeOK
<1>4. Remembered'
  BY DEF Remembered, RedisTypeOK
<1>5. RoomLeft'
  <2>1. Adding' = Adding \ {i}
    BY DEF Adding, RedisTypeOK
  <2> QED  BY <1>1, <2>1, AddRoom
<1> QED  BY <1>2, <1>3, <1>4, <1>5

LEMMA ExpireStep ==
    ASSUME RedisInv, NEW i \in Instances, Expire(i)
    PROVE  RedisInv'
<1> USE DEF RedisInv, Expire, Return, Goto
<1>1. member[i] \in Members /\ member[i][1] <= clock /\ stage[i] = "expire"
  BY DEF Stamped
<1>2. RedisTypeOK'
  BY <1>1, MaxClockNat, WindowSecondsPositive DEF RedisTypeOK, Commands, Younger, Never, Seconds
<1>3. Stamped'
  BY <1>1 DEF Stamped, Younger, RedisTypeOK
<1>4. Remembered'
  BY <1>1 DEF Remembered, Younger, RedisTypeOK
<1>5. LongLived'
  <2> SUFFICES ASSUME NEW m \in admitted'
               PROVE  m[1] + 2 * WindowSeconds <= expires'
    BY DEF LongLived
  <2>0. m \in admitted \cup {member[i]}
    BY DEF Younger
  <2>1. m[1] \in Nat /\ m[1] <= clock /\ clock \in Nat /\ clock <= MaxClock
    BY <1>1, <2>0, MaxClockNat DEF RedisTypeOK, Members, Seconds, Stamped
  <2> QED  BY <2>1, MaxClockNat, WindowSecondsPositive DEF Never
<1>6. RoomLeft'
  <2>1. LiveSet' \subseteq LiveSet /\ Adding' \subseteq Adding
    BY DEF LiveSet, Younger, Adding, RedisTypeOK
  <2> QED  BY <2>1, NoNewcomer
<1> QED  BY <1>2, <1>3, <1>4, <1>5, <1>6

\* Only here can the key go with members that count: those are overtaken.
LEMMA TimePassesStep ==
    ASSUME RedisInv, TimePasses
    PROVE  RedisInv'
<1> USE DEF RedisInv
<1>0. clock \in Nat /\ clock + 1 \in Seconds /\ clock' = clock + 1 /\ WindowSeconds \in Nat \ {0}
  BY MaxClockNat, WindowSecondsPositive DEF TimePasses, RedisTypeOK, Seconds
<1>1. RedisTypeOK'
  <2>1. Pending \cap Members \subseteq Members /\ Pending \subseteq Members
    BY DEF Pending, Stamped
  <2> QED  BY <1>0, <2>1, MaxClockNat, WindowSecondsPositive DEF TimePasses, RedisTypeOK, Younger, Never
<1>2. Stamped'
  BY <1>0 DEF TimePasses, Stamped, Younger, RedisTypeOK, Members, Seconds
<1>3. CASE expires > clock + 1
  <2>0. expires' = expires /\ zset' = zset
    BY <1>0, <1>3 DEF TimePasses, RedisTypeOK
  <2>1. \A m \in admitted' : m \in admitted /\ (m \in overtaken => m \in overtaken')
    BY <1>0, <1>3 DEF TimePasses, Younger, RedisTypeOK
  <2>2. \A i \in Instances : stage'[i] = "expire" /\ member'[i][1] > clock' - WindowSeconds =>
                                member'[i] \in zset' \cup overtaken'
    <3> SUFFICES ASSUME NEW i \in Instances, stage[i] = "expire",
                        member[i][1] > clock + 1 - WindowSeconds
                 PROVE  member[i] \in zset \cup overtaken'
      BY <1>0, <2>0 DEF TimePasses
    <3>1. member[i] \in Members /\ member[i][1] \in Nat
      BY DEF Stamped, Members, Seconds
    <3>2. member[i] \in zset \cup overtaken
      BY <1>0, <3>1 DEF Remembered
    <3> QED  BY <1>0, <1>3, <3>2 DEF TimePasses, Younger, RedisTypeOK
  <2>3. Remembered'
    BY <2>0, <2>1, <2>2 DEF Remembered
  <2>4. LongLived'
    BY <2>0, <2>1 DEF LongLived
  <2>5. RoomLeft'
    <3>1. LiveSet' \subseteq LiveSet /\ Adding' \subseteq Adding
      BY <1>0, <2>0 DEF LiveSet, Younger, Adding, TimePasses, RedisTypeOK, Members, Seconds
    <3> QED  BY <3>1, NoNewcomer
  <2> QED  BY <1>1, <1>2, <2>3, <2>4, <2>5
<1>4. CASE expires <= clock + 1
  <2>0. zset' = {} /\ overtaken' = Younger(overtaken \cup Pending, clock + 1 - WindowSeconds)
    BY <1>4 DEF TimePasses
  <2>1. admitted' \subseteq overtaken'
    <3> SUFFICES ASSUME NEW m \in admitted' PROVE m \in overtaken'
      OBVIOUS
    <3>1. m \in admitted /\ m[1] > clock + 1 - WindowSeconds /\ m[1] \in Nat
      BY DEF TimePasses, Younger, RedisTypeOK, Members, Seconds
    <3>2. m \in overtaken
      <4> SUFFICES ASSUME m \notin overtaken PROVE FALSE
        OBVIOUS
      <4>1. m[1] + 2 * WindowSeconds <= expires
        BY <3>1 DEF LongLived
      <4> QED  BY <1>0, <1>4, <3>1, <4>1 DEF RedisTypeOK
    <3> QED  BY <2>0, <3>1, <3>2 DEF Younger
  <2>2. \A i \in Instances : stage'[i] = "expire" /\ member'[i][1] > clock' - WindowSeconds =>
                                member'[i] \in overtaken'
    BY <1>0, <2>0 DEF TimePasses, Pending, Younger
  <2>3. Remembered'
    BY <2>0, <2>1, <2>2 DEF Remembered
  <2>4. LongLived'
    BY <2>1 DEF LongLived
  <2>5. RoomLeft'
    <3>1. LiveSet' \subseteq LiveSet /\ Adding' \subseteq Adding
      BY <2>0 DEF LiveSet, Younger, Adding, TimePasses
    <3> QED  BY <3>1, NoNewcomer
  <2> QED  BY <1>1, <1>2, <2>3, <2>4, <2>5
<1> QED  BY <1>0, <1>3, <1>4 DEF RedisTypeOK

LEMMA NextRedisInv == RedisInv /\ [RedisNext]_redisVars => RedisInv'
<1> SUFFICES ASSUME RedisInv, [RedisNext]_redisVars PROVE RedisInv'
  OBVIOUS
<1>1. ASSUME NEW i \in Instances, NEW h \in Suffixes, ReadClock(i, h) PROVE RedisInv'
  BY <1>1, ReadClockStep
<1>2. ASSUME NEW i \in Instances, Remove(i) PROVE RedisInv'
  <2>1. member[i][1] \in Nat /\ member[i][1] <= clock /\ clock \in Nat
    BY <1>2, MaxClockNat DEF Remove, RedisInv, Stamped, RedisTypeOK, Members, Seconds
  <2>2. member[i][1] - WindowSeconds \in Int /\ member[i][1] - WindowSeconds <= clock - WindowSeconds
    BY <2>1, WindowSecondsPositive
  <2>3. stage' \in [Instances -> Commands]
    BY <1>2 DEF Remove, Goto, Commands, RedisInv, RedisTypeOK
  <2>4. \A j \in Instances : stage'[j] # stage[j] => stage[j] # "idle" /\ stage'[j] = "count"
    BY <1>2 DEF Remove, Goto, RedisInv, RedisTypeOK
  <2> QED  BY <1>2, <2>2, <2>3, <2>4, RemoveStep DEF Remove
<1>3. ASSUME NEW i \in Instances, CountBelow(i) PROVE RedisInv'
  BY <1>3, CountBelowStep
<1>4. ASSUME NEW i \in Instances, CountFull(i) \/ CommandFails(i) PROVE RedisInv'
  BY <1>4, ReturnStep DEF CountFull, CommandFails
<1>5. ASSUME NEW i \in Instances, Add(i) \/ AddWithoutAnswer(i) PROVE RedisInv'
  BY <1>5, AddStep
<1>6. ASSUME NEW i \in Instances, Expire(i) PROVE RedisInv'
  BY <1>6, ExpireStep
<1>7. CASE RedisGetUsage
  <2>1. clock - WindowSeconds \in Int
    BY MaxClockNat, WindowSecondsPositive DEF RedisInv, RedisTypeOK, Seconds
  <2>2. clock - WindowSeconds <= clock - WindowSeconds
    BY <2>1
  <2>3. stage' \in [Instances -> Commands]
    BY <1>7 DEF RedisGetUsage, RedisInv, RedisTypeOK
  <2> QED  BY <1>7, <2>1, <2>2, <2>3, RemoveStep DEF RedisGetUsage
<1>8. CASE TimePasses
  BY <1>8, TimePassesStep
<1>9. CASE UNCHANGED redisVars
  BY <1>9 DEF redisVars, RedisInv, RedisTypeOK, Stamped, Remembered, LongLived, RoomLeft, LiveSet, Adding, Younger
<1> QED  BY <1>1, <1>2, <1>3, <1>4, <1>5, <1>6, <1>7, <1>8, <1>9 DEF RedisNext

LEMMA RedisInductive == RedisSpec => []RedisInv
BY InitRedisInv, NextRedisInv, PTL DEF RedisSpec

-----------------------------------------------------------------------------
\* The shared key, the instances' checks and the histories are well formed.
THEOREM RedisTyped == RedisSpec => []RedisTypeOK
BY RedisInductive, PTL DEF RedisInv

\* Neither clean-ups nor the TTL make Redis forget a grant that counts, but for
\* those overtaken between ZADD and EXPIRE.
THEOREM GrantsRemembered == RedisSpec => []RedisRemembers
<1>1. RedisInv => RedisRemembers
  BY DEF RedisInv, Remembered, RedisRemembers
<1> QED  BY <1>1, RedisInductive, PTL

\* Any number of instances overrun the shared limit by fewer than one grant
\* each, but for those overtaken.
THEOREM OverrunIsBounded == RedisSpec => []RedisBounded
<1>1. ASSUME RedisInv PROVE RedisBounded
  <2>1. admitted \ overtaken \subseteq LiveSet
    BY <1>1 DEF RedisInv, Remembered, Stamped, LiveSet, Younger
  <2>2. /\ Cardinality(admitted \ overtaken) \in Nat
        /\ Cardinality(admitted \ overtaken) <= Cardinality(LiveSet)
        /\ Cardinality(LiveSet) \in Nat
    BY <1>1, <2>1, Finiteness, Counting DEF RedisInv
  <2>3. Cardinality(Adding) \in Nat
    BY <1>1, Finiteness, Counting DEF RedisInv
  <2> QED  BY <1>1, <2>2, <2>3, Finiteness, LimitNat DEF RedisInv, RoomLeft, RedisBounded
<1> QED  BY <1>1, RedisInductive, PTL
=============================================================================
