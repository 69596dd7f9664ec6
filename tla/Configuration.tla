---------------------------- MODULE Configuration ----------------------------
(***************************************************************************)
(* The gateway's configuration at run time.  Two ways lead to it.          *)
(*                                                                         *)
(* POST /admin/config/{section} upserts a section of the store, reads it   *)
(* back and applies what it read to the running QAEngine: three            *)
(* stretches of the event loop, with other requests between them.          *)
(* PATCH /admin/config/rate-limit changes the settings of the limiter,     *)
(* makes a limiter from them and puts it in force, without an await.       *)
(*                                                                         *)
(* The store survives a restart.  The engine, the limiter and its settings *)
(* do not: no start reads the store, the settings are those of the         *)
(* deployment again, and the engine is None until /admin/initialize-engine *)
(* makes one.                                                              *)
(***************************************************************************)
EXTENDS Naturals, FiniteSets

CONSTANTS
    Handlers,     \* requests of POST /admin/config/{section} in flight
    Sections,     \* sections that are written
    Values,       \* values of a section's plain keys (model, engine, ...)
    Secrets,      \* API keys
    Places,       \* where a search engine is (searxng_url, google_cx)
    Bodies,       \* keys and values that requests send
    Default,      \* what a plain key is in a QAConfig nobody configured
    Blank,        \* the empty string, which portals send for an API key
    None,         \* Python's None: a key that is not there, no engine
    Hosts,        \* Redis servers
    Windows,      \* values of window_seconds
    Mode,         \* deployment_mode
    Backend,      \* rate_limit_backend of the deployment
    FirstHost, FirstWindow, FirstStrict,   \* the rest of its RedisConfig
    MaxEvents     \* bound of the model: requests and restarts

ASSUME ConfigurationAssumption ==
    /\ Default \in Values /\ FirstHost \in Hosts /\ FirstWindow \in Windows
    /\ FirstStrict \in BOOLEAN
    /\ Mode \in {"personal", "enterprise", "saas"}
    /\ Backend \in {"auto", "memory", "redis"}
    /\ Blank \notin Secrets /\ None \notin Values \cup Secrets \cup Places \cup {Blank}
    /\ None \notin Hosts \cup Windows \cup Sections

VARIABLES
    stored,      \* section -> its keys in system_config
    engine,      \* section -> its keys in QAEngine._config; None without an engine
    handlers,    \* handler -> [stage, section, given, read, stale, since]
    settings,    \* rate_limit_backend and rate_limit_redis of app.state.config
    limiter,     \* app.state.limiter
    doubtful,    \* history: sections whose last update came late or broke off
    applied,     \* history: sections applied to this engine
    rejected,    \* history: a PATCH has failed since the limiter was made
    events       \* how many there have been

configVars == <<stored, engine, handlers, settings, limiter, doubtful, applied,
          rejected, events>>

(***************************************************************************)
(* The kinds of key that the reload tells apart: one it always applies     *)
(* (provider, model, engine), one it does not apply when it is blank       *)
(* (api_key, base_url), and one it never applies (searxng_url, google_cx,  *)
(* which the engine has attributes for and searches with).                 *)
(***************************************************************************)
SectionKeys == {"plain", "secret", "unapplied"}

Section == [plain : Values \cup {None}, secret : Secrets \cup {Blank, None},
            unapplied : Places \cup {None}]

ASSUME NoneIsNoConfig == None \notin [Sections -> Section]

ASSUME BodiesAreSections == Bodies \subseteq Section

\* GatewayConfig.__post_init__: "auto" becomes a backend, once, at the start.
ResolvedBackend ==
    IF Backend # "auto" THEN Backend
    ELSE IF Mode = "saas" THEN "redis" ELSE "memory"

Deployed == [backend |-> ResolvedBackend, host |-> FirstHost,
             window |-> FirstWindow, strict |-> FirstStrict]

InMemory(s) == [kind |-> "memory", host |-> None, window |-> s.window, strict |-> FALSE]
OnRedis(s)  == [kind |-> "redis", host |-> s.host, window |-> s.window, strict |-> s.strict]

\* create_redis_client: a ping that fails, for whatever reason, means no client.
Client(s, pong) == IF pong THEN s.host ELSE None

\* (mutation) the fallback that a strict configuration forbids
CreatedLenient(s, pong) ==
    IF s.backend = "redis" /\ Client(s, pong) # None THEN OnRedis(s) ELSE InMemory(s)

(***************************************************************************)
(* create_rate_limiter.  Without a client a strict configuration is an     *)
(* error (None here) and another one falls back to memory.                 *)
(***************************************************************************)
Created(s, pong) ==
    CASE s.backend # "redis"         -> InMemory(s)
      [] s.backend = "redis" /\ Client(s, pong) # None -> OnRedis(s)
      [] s.backend = "redis" /\ Client(s, pong) = None ->
            IF s.strict THEN None ELSE InMemory(s)

Idle == [stage |-> "idle", section |-> None, given |-> None, read |-> None,
         stale |-> FALSE, since |-> {}]

Empty == [k \in SectionKeys |-> None]

ConfigInit ==
    /\ stored = [s \in Sections |-> Empty]
    /\ engine = None
    /\ handlers = [h \in Handlers |-> Idle]
    /\ settings = Deployed
    /\ \E pong \in BOOLEAN : limiter = Created(Deployed, pong) /\ limiter # None
    /\ doubtful = {} /\ applied = {} /\ rejected = FALSE
    /\ events = 0

-----------------------------------------------------------------------------
(* POST /admin/config/{section} *)

Busy(h) == handlers[h].stage # "idle"

Others(h, s) == {g \in Handlers \ {h} : Busy(g) /\ handlers[g].section = s}

(***************************************************************************)
(* A request arrives: its body names some of the section's keys (those     *)
(* that are null are dropped), and it opens its connection.                *)
(***************************************************************************)
Receive(h) ==
    /\ ~Busy(h) /\ events < MaxEvents
    /\ \E s \in Sections, given \in Bodies :
          handlers' = [handlers EXCEPT ![h] =
            [stage |-> "opened", section |-> s, given |-> given, read |-> None,
             stale |-> FALSE, since |-> {}]]
    /\ events' = events + 1
    /\ UNCHANGED <<stored, engine, settings, limiter, doubtful, applied, rejected>>

\* The row of a key that is given replaces the one in the store.
Upsert(old, given) == [k \in SectionKeys |-> IF given[k] = None THEN old[k] ELSE given[k]]

(***************************************************************************)
(* _set_section: all the rows are upserted in one transaction, which       *)
(* others see when it commits.                                             *)
(***************************************************************************)
SetSection(h) ==
    LET s == handlers[h].section
        given == handlers[h].given
    IN  /\ handlers[h].stage = "opened"
        /\ stored' = [stored EXCEPT ![s] = Upsert(@, given)]
        /\ handlers' = [g \in Handlers |->
             IF g = h THEN [handlers[h] EXCEPT !.stage = "stored"]
             ELSE IF handlers[g].stage \in {"stored", "read"} /\ g \in Others(h, s)
             THEN [handlers[g] EXCEPT !.stale = handlers[g].stage = "read",
                                      !.since = @ \cup {k \in SectionKeys : given[k] # None}]
             ELSE handlers[g]]
        /\ UNCHANGED <<engine, settings, limiter, doubtful, applied, rejected, events>>

\* (mutation) the answer of the store is patched with the body instead of read
GetSectionEarly(h) ==
    /\ handlers[h].stage = "stored"
    /\ handlers' = [handlers EXCEPT ![h].stage = "read", ![h].read = handlers[h].given]
    /\ UNCHANGED <<stored, engine, settings, limiter, doubtful, applied, rejected, events>>

\* _get_section: one SELECT; the connection is closed before it returns.
GetSection(h) ==
    /\ handlers[h].stage = "stored"
    /\ handlers' = [handlers EXCEPT ![h].stage = "read",
                                    ![h].read = stored[handlers[h].section]]
    /\ UNCHANGED <<stored, engine, settings, limiter, doubtful, applied, rejected, events>>

(***************************************************************************)
(* _apply_config_to_m5.  A plain key that the store does not hold stays as *)
(* it is, and so does an API key that is not there or blank; a key it does *)
(* not name stays whatever the store holds.  Section "retrieval" asks      *)
(* QAConfig for attributes it does not have: the request ends in an        *)
(* exception.  No other section is applied.                                *)
(***************************************************************************)
AppliedSections == {"llm", "web_search"}

\* (mutation) an engine that has a value keeps it
ApplyToOnce(running, data) ==
    [plain  |-> IF running.plain # Default THEN running.plain
                ELSE IF data.plain = None THEN Default ELSE data.plain,
     secret |-> IF data.secret \in {None, Blank} THEN running.secret ELSE data.secret,
     unapplied |-> running.unapplied]

ApplyTo(running, data) ==
    [plain  |-> IF data.plain = None THEN running.plain ELSE data.plain,
     secret |-> IF data.secret \in {None, Blank} THEN running.secret ELSE data.secret,
     unapplied |-> running.unapplied]

HotReload(h) ==
    LET s == handlers[h].section
    IN  /\ handlers[h].stage = "read"
        /\ \/ /\ engine # None /\ s \in AppliedSections
              /\ engine' = [engine EXCEPT ![s] = ApplyTo(@, handlers[h].read)]
              /\ applied' = applied \cup {s}
           \/ /\ engine = None \/ s \notin AppliedSections
              /\ UNCHANGED <<engine, applied>>
        /\ doubtful' = IF handlers[h].stale THEN doubtful \cup {s} ELSE doubtful \ {s}
        /\ handlers' = [handlers EXCEPT ![h] = Idle]
        /\ UNCHANGED <<stored, settings, limiter, rejected, events>>

(***************************************************************************)
(* SQLite gives up a connection that waits for another's lock.  Before the *)
(* commit nothing has happened; after it the section is stored and will    *)
(* not be applied by this request.                                         *)
(***************************************************************************)
LockTimeout(h) ==
    /\ handlers[h].stage \in {"opened", "stored"}
    /\ doubtful' = IF handlers[h].stage = "stored"
                   THEN doubtful \cup {handlers[h].section} ELSE doubtful
    /\ handlers' = [handlers EXCEPT ![h] = Idle]
    /\ UNCHANGED <<stored, engine, settings, limiter, applied, rejected, events>>

-----------------------------------------------------------------------------
(* POST and PUT /admin/initialize-engine *)

(***************************************************************************)
(* QAConfig( **engine_config ).  A body can name every key of the web      *)
(* search, and what it names is taken, a blank one too.  Its LLM is always *)
(* the default: an "llm" in JSON is a dict, with which QAEngine raises.    *)
(***************************************************************************)
Defaults == [plain |-> Default, secret |-> None, unapplied |-> None]

NewConfig(given) ==
    [s \in Sections |-> IF s = "web_search" THEN Upsert(Defaults, given) ELSE Defaults]

MakeEngine ==
    /\ events < MaxEvents
    /\ \E given \in Bodies : engine' = NewConfig(given)
    /\ applied' = {}
    /\ events' = events + 1
    /\ UNCHANGED <<stored, handlers, settings, limiter, doubtful, rejected>>

InitializeEngine  == engine = None /\ MakeEngine

ReconfigureEngine == engine # None /\ MakeEngine

-----------------------------------------------------------------------------
(* PATCH /admin/config/rate-limit *)

Patch == [backend : {None, "auto", "memory", "redis"}, host : Hosts \cup {None},
          window : Windows \cup {None}, strict : BOOLEAN \cup {None}]

ValidRateLimitConfig(body) == ~(body.strict = TRUE /\ body.backend = "memory")

Patched(s, body) == [f \in DOMAIN s |-> IF body[f] = None THEN s[f] ELSE body[f]]

(***************************************************************************)
(* update_rate_limit_config.  The settings change first and stay changed   *)
(* if the limiter cannot be made or its health check, a second ping, fails *)
(* (an in-memory limiter is always healthy).  "auto" is taken as it is, so *)
(* the factory sees no "redis" in it.                                      *)
(***************************************************************************)
UpdateRateLimitConfig ==
    /\ events < MaxEvents
    /\ \E wanted \in {Patched(settings, b) : b \in {p \in Patch : ValidRateLimitConfig(p)}},
          pong, healthy \in BOOLEAN :
          LET new == Created(wanted, pong)
              fit == new # None /\ (new.kind = "memory" \/ healthy)
          IN  /\ settings' = wanted
              /\ limiter' = IF fit THEN new ELSE limiter
              /\ rejected' = ~fit
    /\ events' = events + 1
    /\ UNCHANGED <<stored, engine, handlers, doubtful, applied>>

-----------------------------------------------------------------------------
(***************************************************************************)
(* The gateway's process ends and a new one starts: create_app's startup.  *)
(* It does not come up while Redis is required and unreachable.            *)
(***************************************************************************)
Restart ==
    /\ events < MaxEvents
    /\ \E pong \in BOOLEAN : limiter' = Created(Deployed, pong) /\ limiter' # None
    /\ settings' = Deployed
    /\ engine' = None
    /\ handlers' = [h \in Handlers |-> Idle]
    /\ applied' = {} /\ rejected' = FALSE
    /\ events' = events + 1
    /\ UNCHANGED <<stored, doubtful>>

ConfigNext ==
    \/ \E h \in Handlers : Receive(h) \/ SetSection(h) \/ GetSection(h)
                           \/ HotReload(h) \/ LockTimeout(h)
    \/ InitializeEngine \/ ReconfigureEngine
    \/ UpdateRateLimitConfig \/ Restart

ConfigSpec == ConfigInit /\ [][ConfigNext]_configVars

-----------------------------------------------------------------------------
ConfigTypeOK ==
    /\ stored \in [Sections -> Section]
    /\ engine = None \/ engine \in [Sections -> Section]
    /\ settings \in [backend : {"auto", "memory", "redis"}, host : Hosts,
                     window : Windows, strict : BOOLEAN]
    /\ limiter.kind \in {"memory", "redis"} /\ limiter.window \in Windows
    /\ doubtful \subseteq Sections /\ applied \subseteq Sections

\* The keys that the reload puts into the engine: the other ones stay as they
\* were when the engine was made, whatever the store says.
AppliedKeys == {"plain", "secret"}

(***************************************************************************)
(* "Changes take effect immediately" (admin.py:10), as far as they do:     *)
(* once a section has been applied to the running engine, the engine runs  *)
(* with what the store holds of the applied keys, however many updates     *)
(* met, unless the last reload came late (it applied what another update   *)
(* had replaced since it was read) or an update broke off after its        *)
(* commit.  While an update is between its commit and its reload, nothing  *)
(* is said.                                                                *)
(***************************************************************************)
EngineFollowsStore ==
    \A s \in applied \ doubtful :
        (\A h \in Handlers : handlers[h].section = s => handlers[h].stage = "opened")
        => \A k \in AppliedKeys : stored[s][k] \in {None, Blank, engine[s][k]}

(***************************************************************************)
(* Even when updates meet: an admin whose update ends finds each value of  *)
(* its applied keys in the running engine, unless another update has       *)
(* written that key after his.  (A blank API key is never applied.)  Its   *)
(* other keys have changed nothing in the engine, though the answer says   *)
(* hot_reloaded (admin.py:175).                                            *)
(***************************************************************************)
OwnValuesApplied(h) ==
    LET s == handlers[h].section
        given == handlers[h].given
    IN  /\ handlers[h].stage = "read" /\ handlers'[h] = Idle
        /\ events' = events
        /\ engine # None /\ s \in AppliedSections
        => /\ \A k \in AppliedKeys \ handlers[h].since :
                given[k] \in {None, Blank, engine'[s][k]}
           /\ \A k \in SectionKeys \ AppliedKeys : engine'[s][k] = engine[s][k]

OwnUpdateInForce == [][\A h \in Handlers : OwnValuesApplied(h)]_configVars

(***************************************************************************)
(* The limiter in force is the one that the settings describe, unless a    *)
(* PATCH has failed since: it leaves its settings behind.  An in-memory    *)
(* limiter stands in for Redis only where the settings are not strict.     *)
(***************************************************************************)
LimiterAsConfigured ==
    ~rejected =>
        /\ limiter.window = settings.window
        /\ limiter.kind = "redis" => limiter = OnRedis(settings) /\ settings.backend = "redis"
        /\ limiter.kind = "memory" => settings.backend # "redis" \/ ~settings.strict

=============================================================================
