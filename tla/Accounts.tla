------------------------------- MODULE Accounts -------------------------------
(***************************************************************************)
(* The accounts of the gateway: registration, login with its lockout and   *)
(* the upgrade of old password hashes, password reset, OAuth, API keys,    *)
(* deletion of an account, and the first administrator                     *)
(* (m8_gateway/routes/auth.py, auth/key_manager.py, core/bootstrap.py,     *)
(* routes/keys.py and delete_account of routes/extras.py).                 *)
(*                                                                         *)
(* Every handler is a coroutine of one process that opens a connection of  *)
(* its own to the SQLite file: an action is what a handler does between    *)
(* two awaits that matter, that is one read, or one transaction with the   *)
(* code around it. What the process keeps in memory - failed logins, the   *)
(* cool-down of reset mails, the attempts at a token, the tasks that       *)
(* upgrade a hash - is gone after a restart; the tables are not.           *)
(*                                                                         *)
(* A request does one thing, and what it creates is named after it: the    *)
(* account of a registration, the key of a login, the token of a           *)
(* forgotten password, the state of an OAuth login. Tiers, timestamps and  *)
(* user names are left out: a user name that is taken acts as an address   *)
(* that is.                                                                *)
(***************************************************************************)
EXTENDS Naturals, FiniteSets

CONSTANTS Requests,         \* requests, each served once
          Emails,           \* addresses, compared after lower-casing
          Passwords,        \* passwords
          Identities,       \* accounts at an OAuth provider
          Old,              \* the accounts made before bcrypt came (Phase 2)
          Admin,            \* ADMIN_USER_ID, which bootstrap always uses
          Prefix,           \* the first ten characters of each key
          MaxLoginAttempts, \* MAX_LOGIN_ATTEMPTS (5)
          MaxResetAttempts, \* MAX_RESET_ATTEMPTS (5)
          MaxRestarts,      \* bound: restarts of the gateway
          None

\* Accounts, their keys and their tokens go by the request that made them.
Ids == Requests \union Old \union {Admin}

ASSUME RequestsAssumption == /\ Requests \cap Old = {}
                             /\ Admin \notin Requests \union Old
                             /\ None \notin Ids \union Emails \union Passwords
                             /\ Prefix \in [Ids -> Nat]
                             /\ IsFiniteSet(Requests)
ASSUME BoundsAssumption == /\ MaxLoginAttempts \in Nat \ {0}
                           /\ MaxResetAttempts \in Nat \ {0}
                           /\ MaxRestarts \in Nat

VARIABLES
  users,      \* table users: [email, pw, legacy] or None
  keys,       \* table api_keys: [user, active] or None
  tokens,     \* table password_reset_tokens: [user, used, expired] or None
  links,      \* table oauth_accounts: the account an identity opens, or None
  states,     \* table oauth_states: "none", "fresh" or "stale"
  req,        \* where each request is, and what it has read
  fails,      \* _login_attempts: unexpired failures of each address
  throttled,  \* _forgot_password_throttle: addresses in their cool-down
  tries,      \* _reset_attempts
  upgrades,   \* the requests whose _upgrade task has not run
  seen,       \* the row of users that a login has read and not yet judged
  phase,      \* "boot", "bootkey" or "up"
  restarts,   \* restarts so far
  overlap,    \* history: most logins of an address in flight at once
  chosen,     \* history: the password each account's owner set last
  raced,      \* history: logins that were to upgrade the hash of their account
              \* when it was last reset
  cut         \* history: accounts deleted while a request had read them

tables  == <<users, keys, tokens, links, states>>
memory  == <<fails, throttled, tries, upgrades>>
process == <<phase, restarts, seen>>
history == <<overlap, chosen, raced, cut>>
vars    == <<tables, req, memory, process, history>>

(***************************************************************************)
(* Types.                                                                  *)
(***************************************************************************)
Account == [email : Emails \union {None}, pw : Passwords \union {None}, legacy : BOOLEAN]
Key     == [user : Ids, active : BOOLEAN]
Token   == [user : Ids, used : BOOLEAN, expired : BOOLEAN]

Ended  == {"ok", "no"}
Stages == {"idle", "reading", "checking", "keying", "finding", "issuing", "redeeming", "resetting",
           "returning", "dropping", "exchanging", "linking", "erasing"} \union Ended
Request == [stage : Stages, user : Ids \union {None}, email : Emails \union {None},
            pw : Passwords \union {None}, ref : Ids \union Identities \union {None}]
Idle == [stage |-> "idle", user |-> None, email |-> None, pw |-> None, ref |-> None]

ASSUME NoneIsNoRow == None \notin Account \union Key \union Token

TypeOK ==
  /\ users \in [Ids -> Account \union {None}]
  /\ keys \in [Ids -> Key \union {None}]
  /\ tokens \in [Ids -> Token \union {None}]
  /\ links \in [Identities -> Ids \union {None}]
  /\ states \in [Requests -> {"none", "fresh", "stale"}]
  /\ req \in [Requests -> Request]
  /\ fails \in [Emails -> Nat]
  /\ throttled \subseteq Emails
  /\ tries \in [Ids -> 0..MaxResetAttempts]
  /\ upgrades \subseteq Requests
  /\ seen \in [Requests -> Account \union {None}]
  /\ phase \in {"boot", "bootkey", "up"}
  /\ restarts \in 0..MaxRestarts
  /\ overlap \in [Emails -> Nat]
  /\ chosen \in [Ids -> Passwords \union {None}]
  /\ raced \subseteq Requests
  /\ cut \subseteq Ids

(***************************************************************************)
(* Helpers.                                                                *)
(***************************************************************************)
Exists(u)    == users[u] /= None
Holder(e)    == {u \in Ids : Exists(u) /\ users[u].email = e}
Reading(e)   == {r \in Requests : req[r].stage \in {"reading", "checking"} /\ req[r].email = e}
InFlight     == {r \in Requests : req[r].stage \notin Ended \union {"idle"}}
TokensOf(u)  == {t \in Ids : tokens[t] /= None /\ tokens[t].user = u}

\* A request goes on to another stage, or ends.
Go(r, s)  == req' = [req EXCEPT ![r].stage = s]
Starts(r) == phase = "up" /\ req[r].stage = "idle"

Unread == [u \in Ids |-> None]

\* A data directory with the old accounts in it, each with a key and an open
\* reset token, or a new one.
OldData(there, e, p) ==
  LET Made(u) == there /\ u \in Old IN
  /\ users  = [u \in Ids |-> IF Made(u) THEN [email |-> e[u], pw |-> p[u], legacy |-> TRUE]
                                        ELSE None]
  /\ keys   = [k \in Ids |-> IF Made(k) THEN [user |-> k, active |-> TRUE] ELSE None]
  /\ tokens = [t \in Ids |-> IF Made(t) THEN [user |-> t, used |-> FALSE, expired |-> FALSE]
                                        ELSE None]
  /\ chosen = [u \in Ids |-> IF Made(u) THEN p[u] ELSE None]

Init ==
  /\ \E there \in BOOLEAN, e \in [Old -> Emails], p \in [Old -> Passwords] :
       /\ \A u, v \in Old : u /= v => e[u] /= e[v]
       /\ OldData(there, e, p)
  /\ links = [i \in Identities |-> None]
  /\ states = [r \in Requests |-> "none"]
  /\ req = [r \in Requests |-> Idle]
  /\ fails = [e \in Emails |-> 0] /\ throttled = {} /\ tries = [t \in Ids |-> 0]
  /\ upgrades = {} /\ seen = [r \in Requests |-> None]
  /\ phase = "boot" /\ restarts = 0
  /\ overlap = [e \in Emails |-> 0] /\ raced = {} /\ cut = {}

(***************************************************************************)
(* The first start: an administrator when no account exists, and then a    *)
(* key for it. A restart between the two leaves it without one for good.   *)
(***************************************************************************)
Boot ==
  /\ phase = "boot"
  /\ IF \E u \in Ids : Exists(u)
       THEN phase' = "up" /\ UNCHANGED <<users, chosen>>
       ELSE \E e \in Emails, p \in Passwords :
              /\ users' = [users EXCEPT ![Admin] = [email |-> e, pw |-> p, legacy |-> FALSE]]
              /\ chosen' = [chosen EXCEPT ![Admin] = p]
              /\ phase' = "bootkey"
  /\ UNCHANGED <<keys, tokens, links, states, req, memory, restarts, seen, overlap, raced, cut>>

BootKey ==
  /\ phase = "bootkey"
  /\ keys' = [keys EXCEPT ![Admin] = [user |-> Admin, active |-> TRUE]]
  /\ phase' = "up"
  /\ UNCHANGED <<users, tokens, links, states, req, memory, restarts, seen, history>>

(***************************************************************************)
(* Registration and login.                                                 *)
(***************************************************************************)
\* The UNIQUE constraints decide, not a SELECT before.
Register(r) ==
  /\ Starts(r)
  /\ \E e \in Emails, p \in Passwords :
       \/ /\ Holder(e) = {}
          /\ users' = [users EXCEPT ![r] = [email |-> e, pw |-> p, legacy |-> FALSE]]
          /\ chosen' = [chosen EXCEPT ![r] = p]
          /\ req' = [req EXCEPT ![r].stage = "keying", ![r].user = r]
       \/ Go(r, "no") /\ UNCHANGED <<users, chosen>>
  /\ UNCHANGED <<keys, tokens, links, states, memory, process, overlap, raced, cut>>

\* _generate_api_key: a connection and a transaction of its own.
GenerateKey(r) ==
  /\ phase = "up"
  /\ req[r].stage = "keying"
  /\ keys' = [keys EXCEPT ![r] = [user |-> req[r].user, active |-> TRUE]]
  /\ Go(r, "ok")
  /\ UNCHANGED <<users, tokens, links, states, memory, process, history>>

\* (mutation) one failure too many before the lockout
LoginCheckLate(r) ==
  /\ Starts(r)
  /\ \E e \in Emails, p \in Passwords :
       IF fails[e] > MaxLoginAttempts
         THEN Go(r, "no") /\ UNCHANGED overlap
         ELSE /\ req' = [req EXCEPT ![r].stage = "reading", ![r].email = e, ![r].pw = p]
              /\ overlap' = [overlap EXCEPT ![e] =
                               LET n == Cardinality(Reading(e)) + 1 IN
                               IF n > @ THEN n ELSE @]
  /\ UNCHANGED <<tables, memory, process, chosen, raced, cut>>

\* The lockout is looked at before the first await.
LoginCheck(r) ==
  /\ Starts(r)
  /\ \E e \in Emails, p \in Passwords :
       IF fails[e] >= MaxLoginAttempts
         THEN Go(r, "no") /\ UNCHANGED overlap
         ELSE /\ req' = [req EXCEPT ![r].stage = "reading", ![r].email = e, ![r].pw = p]
              /\ overlap' = [overlap EXCEPT ![e] =
                               LET n == Cardinality(Reading(e)) + 1 IN
                               IF n > @ THEN n ELSE @]
  /\ UNCHANGED <<tables, memory, process, chosen, raced, cut>>

\* The row of the address, if there is one; the coroutine goes on some time later.
LoginRead(r) ==
  /\ phase = "up"
  /\ req[r].stage = "reading"
  /\ \E u \in IF Holder(req[r].email) /= {} THEN Holder(req[r].email) ELSE {None} :
       /\ req' = [req EXCEPT ![r].stage = "checking", ![r].user = u]
       /\ seen' = [seen EXCEPT ![r] = IF u = None THEN None ELSE users[u]]
  /\ UNCHANGED <<tables, memory, phase, restarts, history>>

\* (mutation) an old hash is taken as it comes
OpensUnchecked(row, p) == row.legacy \/ row.pw = p

\* _verify_password, of either kind of hash.
Opens(row, p) == row.pw = p

\* _maybe_upgrade_password leaves a bcrypt hash alone.
NeedsUpgrade(row) == row.legacy

\* A login with a row that its password opens, and one that will then upgrade it.
Verified(r)  == req[r].stage = "checking" /\ req[r].user /= None /\ Opens(seen[r], req[r].pw)
Upgrading(r) == r \in upgrades \/ (Verified(r) /\ NeedsUpgrade(seen[r]))

\* What follows the read has no await before the key's insert.
LoginVerify(r) ==
  LET e == req[r].email IN
  /\ phase = "up"
  /\ req[r].stage = "checking"
  /\ IF Verified(r)
       THEN /\ fails' = [fails EXCEPT ![e] = 0]
            /\ upgrades' = IF NeedsUpgrade(seen[r]) THEN upgrades \union {r} ELSE upgrades
            /\ Go(r, "keying")
       ELSE /\ fails' = [fails EXCEPT ![e] = @ + 1]
            /\ Go(r, "no")
            /\ UNCHANGED upgrades
  /\ seen' = [seen EXCEPT ![r] = None]
  /\ UNCHANGED <<tables, throttled, tries, phase, restarts, history>>

\* The task hashes the password of the login that created it.
Upgrade(r) ==
  LET u == req[r].user IN
  /\ phase = "up"
  /\ r \in upgrades
  /\ upgrades' = upgrades \ {r}
  /\ users' = IF Exists(u) THEN [users EXCEPT ![u].pw = req[r].pw, ![u].legacy = FALSE] ELSE users
  /\ UNCHANGED <<keys, tokens, links, states, req, fails, throttled, tries, process, history>>

\* _clean_expired_attempts: fifteen minutes after a failure it no longer counts.
FailureExpires(e) ==
  /\ fails[e] > 0
  /\ fails' = [fails EXCEPT ![e] = @ - 1]
  /\ UNCHANGED <<tables, req, throttled, tries, upgrades, process, history>>

(***************************************************************************)
(* Password reset.                                                         *)
(***************************************************************************)
Forgot(r) ==
  /\ Starts(r)
  /\ \E e \in Emails :
       IF e \in throttled
         THEN Go(r, "no") /\ UNCHANGED throttled
         ELSE /\ throttled' = throttled \union {e}
              /\ req' = [req EXCEPT ![r].stage = "finding", ![r].email = e]
  /\ UNCHANGED <<tables, fails, tries, upgrades, process, history>>

\* An unknown address gets the same answer.
FindAccount(r) ==
  /\ phase = "up"
  /\ req[r].stage = "finding"
  /\ \/ Holder(req[r].email) = {} /\ Go(r, "ok")
     \/ \E u \in Holder(req[r].email) :
          req' = [req EXCEPT ![r].stage = "issuing", ![r].user = u]
  /\ UNCHANGED <<tables, memory, process, history>>

\* One transaction: the user's other tokens are used up, and the new one is there.
IssueToken(r) ==
  LET u == req[r].user IN
  /\ phase = "up"
  /\ req[r].stage = "issuing"
  /\ tokens' = [t \in Ids |->
       IF t = r THEN [user |-> u, used |-> FALSE, expired |-> FALSE]
       ELSE IF t \in TokensOf(u) THEN [tokens[t] EXCEPT !.used = TRUE]
       ELSE tokens[t]]
  /\ Go(r, "ok")
  /\ UNCHANGED <<users, keys, links, states, memory, process, history>>

\* The five minutes are over.
CooldownEnds(e) ==
  /\ e \in throttled
  /\ throttled' = throttled \ {e}
  /\ UNCHANGED <<tables, req, fails, tries, upgrades, process, history>>

TokenExpires(t) ==
  /\ tokens[t] /= None
  /\ ~tokens[t].expired
  /\ tokens' = [tokens EXCEPT ![t].expired = TRUE]
  /\ UNCHANGED <<users, keys, links, states, req, memory, process, history>>

\* An attempt counts before the token is looked up; only a token that was
\* issued is asked about.
RedeemCheck(r) ==
  /\ Starts(r)
  /\ \E t \in {t \in Ids : tokens[t] /= None}, p \in Passwords :
       IF tries[t] >= MaxResetAttempts
         THEN Go(r, "no") /\ UNCHANGED tries
         ELSE /\ tries' = [tries EXCEPT ![t] = @ + 1]
              /\ req' = [req EXCEPT ![r].stage = "redeeming", ![r].ref = t, ![r].pw = p]
  /\ UNCHANGED <<tables, fails, throttled, upgrades, process, history>>

Redeemable(t) == tokens[t] /= None /\ ~tokens[t].used /\ ~tokens[t].expired

RedeemRead(r) ==
  LET t == req[r].ref IN
  /\ phase = "up"
  /\ req[r].stage = "redeeming"
  /\ IF Redeemable(t)
       THEN req' = [req EXCEPT ![r].stage = "resetting", ![r].user = tokens[t].user]
       ELSE Go(r, "no")
  /\ UNCHANGED <<tables, memory, process, history>>

\* Of this account, the logins that are still to upgrade its hash.
Pending(u) == {x \in Requests : req[x].user = u /\ Upgrading(x)}
RacedBy(u) == {x \in raced : req[x].user /= u} \union Pending(u)

\* (mutation) the token is left as it was
ResetKeepingToken(r) ==
  LET u == req[r].user IN
  /\ phase = "up"
  /\ req[r].stage = "resetting"
  /\ users' = IF Exists(u) THEN [users EXCEPT ![u].pw = req[r].pw, ![u].legacy = FALSE] ELSE users
  /\ chosen' = IF Exists(u) THEN [chosen EXCEPT ![u] = req[r].pw] ELSE chosen
  /\ raced' = RacedBy(u)
  /\ Go(r, "ok")
  /\ UNCHANGED <<keys, tokens, links, states, memory, process, overlap, cut>>

\* One transaction; a row that is gone by now is not updated.
ResetWrite(r) ==
  LET t == req[r].ref
      u == req[r].user IN
  /\ phase = "up"
  /\ req[r].stage = "resetting"
  /\ users' = IF Exists(u) THEN [users EXCEPT ![u].pw = req[r].pw, ![u].legacy = FALSE] ELSE users
  /\ tokens' = IF tokens[t] /= None THEN [tokens EXCEPT ![t].used = TRUE] ELSE tokens
  /\ chosen' = IF Exists(u) THEN [chosen EXCEPT ![u] = req[r].pw] ELSE chosen
  /\ raced' = RacedBy(u)
  /\ Go(r, "ok")
  /\ UNCHANGED <<keys, links, states, memory, process, overlap, cut>>

(***************************************************************************)
(* OAuth.                                                                  *)
(***************************************************************************)
\* The state goes to the browser; expired ones are cleaned up on the way.
OauthLogin(r) ==
  /\ Starts(r)
  /\ states' = [s \in Requests |-> IF s = r THEN "fresh"
                                   ELSE IF states[s] = "stale" THEN "none" ELSE states[s]]
  /\ Go(r, "ok")
  /\ UNCHANGED <<users, keys, tokens, links, memory, process, history>>

StateExpires(s) ==
  /\ states[s] = "fresh"
  /\ states' = [states EXCEPT ![s] = "stale"]
  /\ UNCHANGED <<users, keys, tokens, links, req, memory, process, history>>

\* The state is looked up, and deleted by another statement.
CallbackRead(r) ==
  /\ Starts(r)
  /\ \E s \in Requests, match \in BOOLEAN :
       \/ states[s] = "none" /\ Go(r, "no")
       \/ /\ states[s] /= "none"
          /\ req' = [req EXCEPT ![r].ref = s,
                       ![r].stage = IF match /\ states[s] = "fresh" THEN "returning" ELSE "dropping"]
  /\ UNCHANGED <<tables, memory, process, history>>

CallbackSpend(r) ==
  /\ phase = "up"
  /\ req[r].stage \in {"returning", "dropping"}
  /\ states' = [states EXCEPT ![req[r].ref] = "none"]
  /\ Go(r, IF req[r].stage = "returning" THEN "exchanging" ELSE "no")
  /\ UNCHANGED <<users, keys, tokens, links, memory, process, history>>

\* The provider is asked twice, and may fail; then the link and the address are looked up.
Exchange(r) ==
  /\ phase = "up"
  /\ req[r].stage = "exchanging"
  /\ \/ Go(r, "no")
     \/ \E i \in Identities, e \in Emails \union {None} :
          \/ /\ links[i] /= None
             /\ req' = [req EXCEPT ![r].stage = "keying", ![r].user = links[i]]
          \/ /\ links[i] = None
             /\ \E u \in IF e /= None /\ Holder(e) /= {} THEN Holder(e) ELSE {None} :
                  req' = [req EXCEPT ![r].stage = "linking", ![r].user = u,
                                     ![r].email = e, ![r].ref = i]
  /\ UNCHANGED <<tables, memory, process, history>>

\* What the transaction of a new link inserts: the account, unless one was found, ...
Inserted(r) == IF req[r].user = None
                 THEN [users EXCEPT ![r] = [email |-> req[r].email, pw |-> None, legacy |-> FALSE]]
                 ELSE users
\* ... and the link. An account without an address has the address '', also UNIQUE.
Collides(r) == \/ links[req[r].ref] /= None
               \/ req[r].user = None /\ Holder(req[r].email) /= {}

\* (mutation) the account is committed before the link
LinkInTwo(r) ==
  LET u == IF req[r].user = None THEN r ELSE req[r].user IN
  /\ phase = "up"
  /\ req[r].stage = "linking"
  /\ \/ /\ ~Collides(r)
        /\ users' = Inserted(r)
        /\ links' = [links EXCEPT ![req[r].ref] = u]
        /\ req' = [req EXCEPT ![r].stage = "keying", ![r].user = u]
     \/ Go(r, "no") /\ UNCHANGED links /\ users' = (IF Collides(r) THEN users ELSE Inserted(r))
  /\ UNCHANGED <<keys, tokens, states, memory, process, history>>

\* One transaction: an IntegrityError - of the address, the user name or the
\* link - ends the request, and nothing is kept.
Link(r) ==
  LET u == IF req[r].user = None THEN r ELSE req[r].user IN
  /\ phase = "up"
  /\ req[r].stage = "linking"
  /\ \/ /\ ~Collides(r)
        /\ users' = Inserted(r)
        /\ links' = [links EXCEPT ![req[r].ref] = u]
        /\ req' = [req EXCEPT ![r].stage = "keying", ![r].user = u]
     \/ Go(r, "no") /\ UNCHANGED <<users, links>>
  /\ UNCHANGED <<keys, tokens, states, memory, process, history>>

(***************************************************************************)
(* Keys, by an administrator, and the deletion of an account.              *)
(***************************************************************************)
\* An account the caller can have heard of: it is there, or it was.
Known(u) == Exists(u) \/ chosen[u] /= None

\* Nothing asks whether the account is there.
CreateKey(r) ==
  /\ Starts(r)
  /\ \E u \in Ids :
       /\ Known(u)
       /\ keys' = [keys EXCEPT ![r] = [user |-> u, active |-> TRUE]]
       /\ cut' = IF Exists(u) THEN cut ELSE cut \union {u}
  /\ Go(r, "ok")
  /\ UNCHANGED <<users, tokens, links, states, memory, process, overlap, chosen, raced>>

\* Every active key with the prefix is revoked, be it one or several.
Revoke(r) ==
  /\ Starts(r)
  /\ \E p \in {Prefix[k] : k \in Ids} :
       LET hit == {k \in Ids : keys[k] /= None /\ keys[k].active /\ Prefix[k] = p} IN
       /\ keys' = [k \in Ids |-> IF k \in hit THEN [keys[k] EXCEPT !.active = FALSE] ELSE keys[k]]
       /\ Go(r, IF hit = {} THEN "no" ELSE "ok")
  /\ UNCHANGED <<users, tokens, links, states, memory, process, history>>

\* validate_key: the hash is known and active.
EraseCheck(r) ==
  /\ Starts(r)
  /\ \/ \E k \in Ids :
          /\ keys[k] /= None /\ keys[k].active
          /\ req' = [req EXCEPT ![r].stage = "erasing", ![r].user = keys[k].user]
     \/ Go(r, "no")
  /\ UNCHANGED <<tables, memory, process, history>>

\* The requests that will still write for the account they have read.
Writers(u) == {x \in Requests :
  req[x].user = u /\ (req[x].stage \in {"keying", "issuing", "linking"} \/ Verified(x))}

\* (mutation) the cascade forgets the keys
EraseKeepingKeys(r) ==
  LET u == req[r].user IN
  /\ phase = "up"
  /\ req[r].stage = "erasing"
  /\ IF Exists(u)
       THEN /\ users' = [users EXCEPT ![u] = None]
            /\ tokens' = [t \in Ids |-> IF t \in TokensOf(u) THEN None ELSE tokens[t]]
            /\ links' = [i \in Identities |-> IF links[i] = u THEN None ELSE links[i]]
            /\ cut' = IF Writers(u) = {} THEN cut ELSE cut \union {u}
            /\ Go(r, "ok")
       ELSE Go(r, "no") /\ UNCHANGED <<users, tokens, links, cut>>
  /\ UNCHANGED <<keys, states, memory, process, overlap, chosen, raced>>

\* delete_account: one transaction over all tables. Where one of the tables it
\* names does not exist - conversations and messages are made by M5, in a file
\* of its own by default - nothing is deleted.
Erase(r) ==
  LET u == req[r].user IN
  /\ phase = "up"
  /\ req[r].stage = "erasing"
  /\ \/ /\ Exists(u)
        /\ users' = [users EXCEPT ![u] = None]
        /\ keys' = [k \in Ids |-> IF keys[k] /= None /\ keys[k].user = u THEN None ELSE keys[k]]
        /\ tokens' = [t \in Ids |-> IF t \in TokensOf(u) THEN None ELSE tokens[t]]
        /\ links' = [i \in Identities |-> IF links[i] = u THEN None ELSE links[i]]
        /\ cut' = IF Writers(u) = {} THEN cut ELSE cut \union {u}
        /\ Go(r, "ok")
     \/ Go(r, "no") /\ UNCHANGED <<users, keys, tokens, links, cut>>
  /\ UNCHANGED <<states, memory, process, overlap, chosen, raced>>

\* The process dies, and starts again.
Restart ==
  /\ restarts < MaxRestarts
  /\ restarts' = restarts + 1
  /\ phase' = "boot"
  /\ req' = [r \in Requests |-> IF r \in InFlight THEN [req[r] EXCEPT !.stage = "no"] ELSE req[r]]
  /\ fails' = [e \in Emails |-> 0] /\ throttled' = {} /\ tries' = [t \in Ids |-> 0]
  /\ upgrades' = {} /\ seen' = [r \in Requests |-> None]
  /\ UNCHANGED <<tables, history>>

Serve(r) ==
  \/ Register(r) \/ GenerateKey(r) \/ LoginCheck(r) \/ LoginRead(r) \/ LoginVerify(r) \/ Upgrade(r)
  \/ Forgot(r) \/ FindAccount(r) \/ IssueToken(r)
  \/ RedeemCheck(r) \/ RedeemRead(r) \/ ResetWrite(r)
  \/ OauthLogin(r) \/ CallbackRead(r) \/ CallbackSpend(r) \/ Exchange(r) \/ Link(r)
  \/ CreateKey(r) \/ Revoke(r) \/ EraseCheck(r) \/ Erase(r)

Passes ==
  \/ \E e \in Emails : FailureExpires(e) \/ CooldownEnds(e)
  \/ \E t \in Ids : TokenExpires(t)
  \/ \E s \in Requests : StateExpires(s)

Next == Boot \/ BootKey \/ Restart \/ Passes \/ \E r \in Requests : Serve(r)

Spec == Init /\ [][Next]_vars

(***************************************************************************)
(* Properties.                                                             *)
(***************************************************************************)
\* The lockout is checked before an await and the failure recorded after it
\* (auth.py:387, 404): several logins pass the check together. The failures of
\* an address exceed the limit by at most those that were in flight at once.
LockoutBounded ==
  \A e \in Emails :
    fails[e] > MaxLoginAttempts => fails[e] - MaxLoginAttempts < overlap[e]

\* The password of an account is the one its owner set last. Only a login can
\* undo a reset, by the upgrade of an old hash, and only one that had read the
\* old row when the last reset was committed (auth.py:397-417): what it brings
\* back is its own password, once its upgrade has run.
NewPasswordStands ==
  \A u \in Ids : Exists(u) /\ users[u].pw /= chosen[u] =>
    /\ u \in Old
    /\ \E r \in raced \ Pending(u) : req[r].user = u /\ req[r].pw = users[u].pw

\* A reset token is taken only while no reset with it has been committed and no
\* other token of its account is open; so that one is used twice only by
\* requests that overlap.
TokenNotReused ==
  [][\A r \in Requests :
       req[r].stage = "redeeming" /\ req'[r].stage = "resetting" =>
         /\ \A x \in Requests : ~(/\ req[x].stage = "ok" /\ req[x].pw /= None
                                  /\ req[x].ref = req[r].ref)
         /\ \A t \in TokensOf(req'[r].user) \ {req[r].ref} : tokens[t].used]_vars

\* Keys, tokens and links of an account that is gone exist only where a request
\* had read the account before it was deleted, and wrote afterwards - or where
\* an administrator made a key for it.
OrphansOnlyIfOverlapping ==
  \A u \in Ids :
    /\ ~Exists(u)
    /\ \/ \E k \in Ids : keys[k] /= None /\ keys[k].user = u
       \/ TokensOf(u) /= {}
       \/ \E i \in Identities : links[i] = u
    => u \in cut

\* An account made by OAuth, which has no password, is linked to an identity:
\* a failed callback leaves no account behind that nobody can open.
PasswordlessLinked ==
  \A u \in Ids : Exists(u) /\ users[u].pw = None => \E i \in Identities : links[i] = u
===============================================================================
