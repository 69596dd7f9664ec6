----------------------------- MODULE ChatEngine -----------------------------
(***************************************************************************)
(* One chat completion through the gateway and the QA engine:              *)
(* POST /v1/chat/completions (routes/chat.py) stores the request's         *)
(* project id on the one shared QAEngine and awaits QAEngine.chat, which   *)
(* asks ConversationManager.consume_premium for a premium credit, runs a   *)
(* pipeline and finally links the conversation to the project it finds on  *)
(* the engine.                                                             *)
(*                                                                         *)
(* Every step below runs from one await to the next.  Handlers are the     *)
(* requests the event loop can hold at one time; a handler that has        *)
(* answered takes the next request.  SQLite lets one connection write at a *)
(* time: "lock" is the handler whose transaction holds the write lock, and *)
(* what a transaction wrote is seen by others from its commit on.          *)
(***************************************************************************)
EXTENDS Integers, FiniteSets

CONSTANTS
    Handlers,   \* requests the event loop holds at one time
    Users,      \* named users; a request without a user is anonymous
    Projects,   \* project ids
    Limit,      \* TIER_QUOTA_LIMITS["basic"], the only tier ever stored
    LastDay,    \* bound: the calendar stops here
    None        \* no user, no project, nobody holds the lock

ASSUME HandlersFinite == IsFiniteSet(Handlers) /\ Handlers # {}
ASSUME LimitPositive == Limit \in Nat \ {0}
ASSUME LastDayNat == LastDay \in Nat \ {0}
ASSUME NoneIsNew == None \notin Handlers \cup Users \cup Projects

VARIABLES
    stage,          \* where each handler is in its request
    account,        \* the <<user, day>> whose quota row the request asks for
    named,          \* the project the request body names
    target,         \* chat()'s local project_id, read off the engine
    engineProject,  \* QAEngine._project_id, one attribute for all requests
    rows,           \* the committed quota rows
    used,           \* premium_used of each committed row
    lock,           \* the handler holding SQLite's write lock
    day,            \* date.today()
    projects,       \* rows of table projects
    links,          \* project_conversations: <<linked to, named by the request>>
    grants,         \* history: requests upgraded to self_rag, by account
    disturbed       \* history: two requests overlapped, or a step of one failed

quotaVars == <<rows, used, lock>>
linkVars == <<engineProject, projects, links>>
vars == <<stage, account, named, target, engineProject, rows, used, lock, day,
          projects, links, grants, disturbed>>

Days == 1..LastDay
Accounts == Users \X Days
Stages == {"idle", "select", "insert", "update", "commit", "close", "answer",
           "lookup", "link"}

TypeOK ==
    /\ stage \in [Handlers -> Stages]
    /\ account \in [Handlers -> Accounts \cup {None}]
    /\ named \in [Handlers -> Projects \cup {None}]
    /\ target \in [Handlers -> Projects \cup {None}]
    /\ engineProject \in Projects \cup {None}
    /\ rows \subseteq Accounts
    /\ used \in [Accounts -> Nat]
    /\ lock \in Handlers \cup {None}
    /\ day \in Days
    /\ projects \subseteq Projects
    /\ links \subseteq Projects \X (Projects \cup {None})
    /\ grants \in [Accounts -> Nat]
    /\ disturbed \in BOOLEAN

Init ==
    /\ stage = [h \in Handlers |-> "idle"]
    /\ account = [h \in Handlers |-> None]
    /\ named = [h \in Handlers |-> None]
    /\ target = [h \in Handlers |-> None]
    /\ engineProject = None
    /\ rows = {}
    /\ used = [a \in Accounts |-> 0]
    /\ lock = None
    /\ day = 1
    /\ projects = Projects
    /\ links = {}
    /\ grants = [a \in Accounts |-> 0]
    /\ disturbed = FALSE

Goto(h, s) == stage' = [stage EXCEPT ![h] = s]

\* The handler has answered (or raised) and keeps nothing of its request.
Finish(h) ==
    /\ Goto(h, "idle")
    /\ account' = [account EXCEPT ![h] = None]
    /\ named' = [named EXCEPT ![h] = None]
    /\ target' = [target EXCEPT ![h] = None]

(***************************************************************************)
(* chat_completions up to the first await of QAEngine.chat: the project id *)
(* goes onto the shared engine, and a named user's quota is asked for      *)
(* under today's date.  An anonymous request asks for none.                *)
(***************************************************************************)
ReceiveChat(h, u, p) ==
    /\ stage[h] = "idle"
    /\ Goto(h, IF u = None THEN "answer" ELSE "select")
    /\ account' = [account EXCEPT ![h] = IF u = None THEN None ELSE <<u, day>>]
    /\ named' = [named EXCEPT ![h] = p]
    /\ engineProject' = IF p = None THEN engineProject ELSE p
    /\ disturbed' = (disturbed \/ \E g \in Handlers : stage[g] # "idle")
    /\ UNCHANGED <<target, quotaVars, day, projects, links, grants>>

(***************************************************************************)
(* consume_premium, one step per database call.                            *)
(***************************************************************************)

\* (mutation) one credit too many.
QuotaLeftOffByOne(a) == used[a] <= Limit

QuotaLeft(a) == used[a] < Limit

\* SELECT tier, premium_used: no row yet, a credit left, or exhausted (the
\* answer then comes from the tier's default pipeline).
SelectQuota(h) ==
    /\ stage[h] = "select"
    /\ Goto(h, IF account[h] \notin rows THEN "insert"
               ELSE IF QuotaLeft(account[h]) THEN "update" ELSE "answer")
    /\ UNCHANGED <<account, named, target, linkVars, quotaVars, day, grants,
                   disturbed>>

\* (mutation) the connection keeps its lock when the INSERT fails.
InsertRowLeakingLock(h) ==
    /\ stage[h] = "insert"
    /\ lock = None
    /\ lock' = h
    /\ IF account[h] \in rows
       THEN /\ Finish(h)
            /\ disturbed' = TRUE
       ELSE /\ Goto(h, "update")
            /\ UNCHANGED <<account, named, target, disturbed>>
    /\ UNCHANGED <<linkVars, rows, used, day, grants>>

\* INSERT of a first row.  Another request may have committed one since the
\* SELECT: the primary key then raises IntegrityError, which nothing in chat()
\* catches, and closing the connection ends the transaction.
InsertRow(h) ==
    /\ stage[h] = "insert"
    /\ lock = None
    /\ IF account[h] \in rows
       THEN /\ Finish(h)
            /\ disturbed' = TRUE
            /\ UNCHANGED lock
       ELSE /\ lock' = h
            /\ Goto(h, "update")
            /\ UNCHANGED <<account, named, target, disturbed>>
    /\ UNCHANGED <<linkVars, rows, used, day, grants>>

\* UPDATE premium_used = premium_used + 1, in the INSERT's transaction when
\* there was one.
UpdateQuota(h) ==
    /\ stage[h] = "update"
    /\ lock \in {None, h}
    /\ lock' = h
    /\ Goto(h, "commit")
    /\ UNCHANGED <<account, named, target, linkVars, rows, used, day, grants,
                   disturbed>>

\* (mutation) the connection closes without a commit.
CommitQuotaForgotten(h) ==
    /\ stage[h] = "commit"
    /\ lock' = None
    /\ Goto(h, "close")
    /\ UNCHANGED <<account, named, target, linkVars, rows, used, day, grants,
                   disturbed>>

\* The commit makes the row and the increment visible and frees the lock.
CommitQuota(h) ==
    /\ stage[h] = "commit"
    /\ rows' = rows \cup {account[h]}
    /\ used' = [used EXCEPT ![account[h]] = @ + 1]
    /\ lock' = None
    /\ Goto(h, "close")
    /\ UNCHANGED <<account, named, target, linkVars, day, grants, disturbed>>

\* The connection closes, consume_premium returns True and the request is
\* upgraded to the self_rag pipeline.
UpgradeMode(h) ==
    /\ stage[h] = "close"
    /\ Goto(h, "answer")
    /\ grants' = [grants EXCEPT ![account[h]] = @ + 1]
    /\ UNCHANGED <<account, named, target, linkVars, quotaVars, day, disturbed>>

\* SQLite gives up waiting for the write lock ("database is locked").  The
\* exception leaves chat(): the project id stays on the engine.
LockTimeout(h) ==
    /\ stage[h] \in {"insert", "update"}
    /\ lock \notin {None, h}
    /\ Finish(h)
    /\ disturbed' = TRUE
    /\ UNCHANGED <<linkVars, quotaVars, day, grants>>

(***************************************************************************)
(* The rest of chat().  A pipeline's exception becomes the answer's text,  *)
(* so every request that gets here reaches the auto-link step, which reads *)
(* the engine's project id without an await in between.                    *)
(***************************************************************************)
Answer(h) ==
    /\ stage[h] = "answer"
    /\ IF engineProject = None
       THEN Finish(h)
       ELSE /\ Goto(h, "lookup")
            /\ target' = [target EXCEPT ![h] = engineProject]
            /\ UNCHANGED <<account, named>>
    /\ UNCHANGED <<linkVars, quotaVars, day, grants, disturbed>>

\* get_project: a project that is gone is not linked, and the id is cleared.
LookupProject(h) ==
    /\ stage[h] = "lookup"
    /\ IF target[h] \in projects
       THEN /\ Goto(h, "link")
            /\ UNCHANGED <<account, named, target, engineProject>>
       ELSE /\ Finish(h)
            /\ engineProject' = None
    /\ UNCHANGED <<projects, links, quotaVars, day, grants, disturbed>>

\* (mutation) the engine keeps the project after the link.
LinkKeepingProject(h) ==
    /\ stage[h] = "link"
    /\ lock = None
    /\ links' = links \cup {<<target[h], named[h]>>}
    /\ Finish(h)
    /\ UNCHANGED <<engineProject, projects, quotaVars, day, grants, disturbed>>

\* link_conversation, then the engine forgets the project.
LinkConversation(h) ==
    /\ stage[h] = "link"
    /\ lock = None
    /\ links' = links \cup {<<target[h], named[h]>>}
    /\ engineProject' = None
    /\ Finish(h)
    /\ UNCHANGED <<projects, quotaVars, day, grants, disturbed>>

\* Any exception of the auto-link step is swallowed before _project_id = None.
AutoLinkFails(h) ==
    /\ stage[h] \in {"lookup", "link"}
    /\ Finish(h)
    /\ disturbed' = TRUE
    /\ UNCHANGED <<linkVars, quotaVars, day, grants>>

(***************************************************************************)
(* The surroundings: midnight, a project's deletion (with its links), and  *)
(* a restart of the gateway, which drops every request in flight, rolls an *)
(* open transaction back and starts with a fresh engine.                   *)
(***************************************************************************)
Midnight ==
    /\ day < LastDay
    /\ day' = day + 1
    /\ UNCHANGED <<stage, account, named, target, linkVars, quotaVars, grants,
                   disturbed>>

DeleteProject(p) ==
    /\ p \in projects
    /\ lock = None
    /\ projects' = projects \ {p}
    /\ links' = {l \in links : l[1] # p}
    /\ UNCHANGED <<stage, account, named, target, engineProject, quotaVars, day,
                   grants, disturbed>>

Restart ==
    /\ stage' = [h \in Handlers |-> "idle"]
    /\ account' = [h \in Handlers |-> None]
    /\ named' = [h \in Handlers |-> None]
    /\ target' = [h \in Handlers |-> None]
    /\ engineProject' = None
    /\ lock' = None
    /\ UNCHANGED <<rows, used, day, projects, links, grants, disturbed>>

Proceed(h) ==
    \/ SelectQuota(h) \/ InsertRow(h) \/ UpdateQuota(h) \/ CommitQuota(h)
    \/ UpgradeMode(h) \/ Answer(h) \/ LookupProject(h) \/ LinkConversation(h)

Next ==
    \/ \E h \in Handlers, u \in Users \cup {None}, p \in Projects \cup {None} :
          ReceiveChat(h, u, p)
    \/ \E h \in Handlers : Proceed(h) \/ LockTimeout(h) \/ AutoLinkFails(h)
    \/ Midnight
    \/ \E p \in Projects : DeleteProject(p)
    \/ Restart

\* The event loop resumes every coroutine whose await is over; neither a lock
\* timeout nor a failure is relied on.
Fairness == \A h \in Handlers : WF_vars(Proceed(h))

Spec == Init /\ [][Next]_vars /\ Fairness

-----------------------------------------------------------------------------
(***************************************************************************)
(* Properties                                                              *)
(***************************************************************************)

\* The handlers that found a credit (or no row) and have not charged it yet.
Charging(a) ==
    {h \in Handlers : stage[h] \in {"insert", "update", "commit"} /\ account[h] = a}

\* The handlers whose credit is committed and whose upgrade is still to come.
Charged(a) == {h \in Handlers : stage[h] = "close" /\ account[h] = a}

\* How far the daily cap can be overrun: consume_premium checks the limit in one
\* statement and charges in a later one, so a user's premium queries of a day
\* exceed Limit by at most the number of requests held at once, less one.
OvershootBounded == \A a \in Accounts : used[a] <= Limit + Cardinality(Handlers) - 1

\* The daily cap itself, "Basic users are capped at 3 premium queries per day"
\* (conversation/manager.py:52).  Two requests that both read a last credit
\* break it.
QuotaCap == \A a \in Accounts : used[a] <= Limit

\* No request is upgraded to self_rag without a committed charge of its own,
\* through races, lock timeouts and restarts: upgrades given and upgrades about
\* to be given never exceed the credits counted.
NeverUncharged ==
    \A a \in Accounts : grants[a] + Cardinality(Charged(a)) <= used[a]

\* While requests come one at a time and none of their steps fails, a
\* conversation is linked to the project its own request named: the engine's
\* shared _project_id carries nothing from one request to the next.
SerialLinksAreOwn == ~disturbed => \A l \in links : l[1] = l[2]

\* Every request is answered, even if SQLite never gives up waiting for a lock.
EveryChatEnds == \A h \in Handlers : stage[h] # "idle" ~> stage[h] = "idle"
=============================================================================
