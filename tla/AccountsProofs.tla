---------------------------- MODULE AccountsProofs ----------------------------
(***************************************************************************)
(* What becomes of passwords, tokens and accounts, for every number of     *)
(* requests, addresses and identities.                                     *)
(***************************************************************************)
EXTENDS Accounts, FiniteSetTheorems, TLAPS

(***************************************************************************)
(* Types.                                                                  *)
(***************************************************************************)
LEMMA TypeInit == Init => TypeOK
<1> SUFFICES ASSUME Init PROVE TypeOK
  OBVIOUS
<1>1. PICK there \in BOOLEAN, e \in [Old -> Emails], p \in [Old -> Passwords] : OldData(there, e, p)
  BY DEF Init
<1>2. users \in [Ids -> Account \union {None}]
  BY <1>1 DEF OldData, Account
<1>3. keys \in [Ids -> Key \union {None}] /\ tokens \in [Ids -> Token \union {None}]
  BY <1>1 DEF OldData, Key, Token
<1>4. chosen \in [Ids -> Passwords \union {None}]
  BY <1>1 DEF OldData
<1>5. Idle \in Request
  BY DEF Idle, Request, Stages
<1> QED  BY <1>2, <1>3, <1>4, <1>5, BoundsAssumption DEF Init, TypeOK

LEMMA StageNames ==
  \A s \in {"idle", "reading", "checking", "keying", "finding", "issuing", "redeeming", "resetting",
            "returning", "dropping", "exchanging", "linking", "erasing", "ok", "no"} : s \in Stages
BY DEF Stages, Ended

\* Only request r moves, and this is what it is now.
Becomes(r, s, u, e, p, f) ==
  /\ req' \in [Requests -> Request]
  /\ \A x \in Requests \ {r} : req'[x] = req[x]
  /\ req'[r].stage = s /\ req'[r].user = u /\ req'[r].email = e
  /\ req'[r].pw = p /\ req'[r].ref = f

LEMMA Staged ==
  ASSUME TypeOK, NEW r \in Requests, NEW s \in Stages,
         req' = [req EXCEPT ![r].stage = s]
  PROVE  Becomes(r, s, req[r].user, req[r].email, req[r].pw, req[r].ref)
<1>1. req \in [Requests -> Request]
  BY DEF TypeOK
<1>2. [req[r] EXCEPT !.stage = s] \in Request
  BY <1>1 DEF Request
<1>3. req' = [req EXCEPT ![r] = [req[r] EXCEPT !.stage = s]]
  BY <1>1
<1>4. req'[r] = [req[r] EXCEPT !.stage = s]
  BY <1>1, <1>3
<1>5. req[r] \in Request
  BY <1>1
<1> QED  BY <1>1, <1>2, <1>3, <1>4, <1>5 DEF Becomes, Request

LEMMA StagedUser ==
  ASSUME TypeOK, NEW r \in Requests, NEW s \in Stages, NEW u \in Ids \union {None},
         req' = [req EXCEPT ![r].stage = s, ![r].user = u]
  PROVE  Becomes(r, s, u, req[r].email, req[r].pw, req[r].ref)
<1>1. req \in [Requests -> Request]
  BY DEF TypeOK
<1>2. [req[r] EXCEPT !.stage = s, !.user = u] \in Request
  BY <1>1 DEF Request
<1>3. req' = [req EXCEPT ![r] = [req[r] EXCEPT !.stage = s, !.user = u]]
  BY <1>1
<1>4. req'[r] = [req[r] EXCEPT !.stage = s, !.user = u]
  BY <1>1, <1>3
<1>5. req[r] \in Request
  BY <1>1
<1> QED  BY <1>1, <1>2, <1>3, <1>4, <1>5 DEF Becomes, Request

LEMMA StagedEmail ==
  ASSUME TypeOK, NEW r \in Requests, NEW s \in Stages, NEW e \in Emails \union {None},
         req' = [req EXCEPT ![r].stage = s, ![r].email = e]
  PROVE  Becomes(r, s, req[r].user, e, req[r].pw, req[r].ref)
<1>1. req \in [Requests -> Request]
  BY DEF TypeOK
<1>2. [req[r] EXCEPT !.stage = s, !.email = e] \in Request
  BY <1>1 DEF Request
<1>3. req' = [req EXCEPT ![r] = [req[r] EXCEPT !.stage = s, !.email = e]]
  BY <1>1
<1>4. req'[r] = [req[r] EXCEPT !.stage = s, !.email = e]
  BY <1>1, <1>3
<1>5. req[r] \in Request
  BY <1>1
<1> QED  BY <1>1, <1>2, <1>3, <1>4, <1>5 DEF Becomes, Request

LEMMA StagedLogin ==
  ASSUME TypeOK, NEW r \in Requests, NEW s \in Stages, NEW e \in Emails \union {None}, NEW p \in Passwords \union {None},
         req' = [req EXCEPT ![r].stage = s, ![r].email = e, ![r].pw = p]
  PROVE  Becomes(r, s, req[r].user, e, p, req[r].ref)
<1>1. req \in [Requests -> Request]
  BY DEF TypeOK
<1>2. [req[r] EXCEPT !.stage = s, !.email = e, !.pw = p] \in Request
  BY <1>1 DEF Request
<1>3. req' = [req EXCEPT ![r] = [req[r] EXCEPT !.stage = s, !.email = e, !.pw = p]]
  BY <1>1
<1>4. req'[r] = [req[r] EXCEPT !.stage = s, !.email = e, !.pw = p]
  BY <1>1, <1>3
<1>5. req[r] \in Request
  BY <1>1
<1> QED  BY <1>1, <1>2, <1>3, <1>4, <1>5 DEF Becomes, Request

LEMMA StagedReset ==
  ASSUME TypeOK, NEW r \in Requests, NEW s \in Stages, NEW p \in Passwords \union {None}, NEW f \in Ids \union Identities \union {None},
         req' = [req EXCEPT ![r].stage = s, ![r].ref = f, ![r].pw = p]
  PROVE  Becomes(r, s, req[r].user, req[r].email, p, f)
<1>1. req \in [Requests -> Request]
  BY DEF TypeOK
<1>2. [req[r] EXCEPT !.stage = s, !.ref = f, !.pw = p] \in Request
  BY <1>1 DEF Request
<1>3. req' = [req EXCEPT ![r] = [req[r] EXCEPT !.stage = s, !.ref = f, !.pw = p]]
  BY <1>1
<1>4. req'[r] = [req[r] EXCEPT !.stage = s, !.ref = f, !.pw = p]
  BY <1>1, <1>3
<1>5. req[r] \in Request
  BY <1>1
<1> QED  BY <1>1, <1>2, <1>3, <1>4, <1>5 DEF Becomes, Request

LEMMA StagedRef ==
  ASSUME TypeOK, NEW r \in Requests, NEW s \in Stages, NEW f \in Ids \union Identities \union {None},
         req' = [req EXCEPT ![r].ref = f, ![r].stage = s]
  PROVE  Becomes(r, s, req[r].user, req[r].email, req[r].pw, f)
<1>1. req \in [Requests -> Request]
  BY DEF TypeOK
<1>2. [req[r] EXCEPT !.ref = f, !.stage = s] \in Request
  BY <1>1 DEF Request
<1>3. req' = [req EXCEPT ![r] = [req[r] EXCEPT !.ref = f, !.stage = s]]
  BY <1>1
<1>4. req'[r] = [req[r] EXCEPT !.ref = f, !.stage = s]
  BY <1>1, <1>3
<1>5. req[r] \in Request
  BY <1>1
<1> QED  BY <1>1, <1>2, <1>3, <1>4, <1>5 DEF Becomes, Request

LEMMA StagedLink ==
  ASSUME TypeOK, NEW r \in Requests, NEW s \in Stages, NEW u \in Ids \union {None}, NEW e \in Emails \union {None}, NEW f \in Ids \union Identities \union {None},
         req' = [req EXCEPT ![r].stage = s, ![r].user = u, ![r].email = e, ![r].ref = f]
  PROVE  Becomes(r, s, u, e, req[r].pw, f)
<1>1. req \in [Requests -> Request]
  BY DEF TypeOK
<1>2. [req[r] EXCEPT !.stage = s, !.user = u, !.email = e, !.ref = f] \in Request
  BY <1>1 DEF Request
<1>3. req' = [req EXCEPT ![r] = [req[r] EXCEPT !.stage = s, !.user = u, !.email = e, !.ref = f]]
  BY <1>1
<1>4. req'[r] = [req[r] EXCEPT !.stage = s, !.user = u, !.email = e, !.ref = f]
  BY <1>1, <1>3
<1>5. req[r] \in Request
  BY <1>1
<1> QED  BY <1>1, <1>2, <1>3, <1>4, <1>5 DEF Becomes, Request

LEMMA Gone ==
  ASSUME TypeOK, NEW r \in Requests, NEW s \in Stages, Go(r, s)
  PROVE  Becomes(r, s, req[r].user, req[r].email, req[r].pw, req[r].ref)
BY Staged DEF Go

\* What a request has read by the time it needs it.
Carries(x) ==
  /\ req[x].stage \in {"keying", "issuing", "resetting", "erasing"} => req[x].user \in Ids
  /\ req[x].stage \in {"reading", "checking", "redeeming", "resetting"} => req[x].pw \in Passwords
  /\ req[x].stage \in {"redeeming", "resetting"} => req[x].ref \in Ids
  /\ req[x].stage = "linking" => req[x].ref \in Identities
  /\ x \in upgrades =>
       req[x].stage \in {"keying", "ok", "no"} /\ req[x].user \in Ids /\ req[x].pw \in Passwords

TypeInv == TypeOK /\ \A x \in Requests : Carries(x)

LEMMA Parts ==
  ASSUME TypeInv, NEW r \in Requests
  PROVE  /\ TypeOK /\ Carries(r)
         /\ r \in Ids /\ req \in [Requests -> Request]
         /\ users \in [Ids -> Account \union {None}] /\ keys \in [Ids -> Key \union {None}]
         /\ tokens \in [Ids -> Token \union {None}] /\ links \in [Identities -> Ids \union {None}]
         /\ chosen \in [Ids -> Passwords \union {None}]
         /\ tries \in [Ids -> 0..MaxResetAttempts]
         /\ seen \in [Requests -> Account \union {None}]
         /\ req[r].user \in Ids \union {None} /\ req[r].email \in Emails \union {None}
         /\ req[r].pw \in Passwords \union {None}
         /\ req[r].ref \in Ids \union Identities \union {None}
<1>1. /\ r \in Ids /\ req \in [Requests -> Request] /\ tries \in [Ids -> 0..MaxResetAttempts]
      /\ seen \in [Requests -> Account \union {None}]
  BY DEF Ids, TypeInv, TypeOK
<1>2. req[r] \in Request
  BY <1>1
<1>3. /\ req[r].user \in Ids \union {None} /\ req[r].email \in Emails \union {None}
      /\ req[r].pw \in Passwords \union {None}
      /\ req[r].ref \in Ids \union Identities \union {None}
  BY <1>2 DEF Request
<1> QED  BY <1>1, <1>3 DEF TypeInv, TypeOK

\* Requests other than r carry what they did.
LEMMA CarriesKept ==
  ASSUME TypeInv, NEW r \in Requests, Carries(r)',
         \A x \in Requests \ {r} : req'[x] = req[x] /\ (x \in upgrades' => x \in upgrades)
  PROVE  \A x \in Requests : Carries(x)'
BY DEF TypeInv, Carries

LEMMA NewAccount ==
  ASSUME TypeInv, NEW u \in Ids, NEW e \in Emails \union {None}, NEW p \in Passwords \union {None},
         users' = [users EXCEPT ![u] = [email |-> e, pw |-> p, legacy |-> FALSE]]
  PROVE  users' \in [Ids -> Account \union {None}]
<1>1. users \in [Ids -> Account \union {None}]
  BY DEF TypeInv, TypeOK
<1>2. [email |-> e, pw |-> p, legacy |-> FALSE] \in Account
  BY DEF Account
<1> QED  BY <1>1, <1>2

LEMMA TypeRegister ==
  ASSUME TypeInv, NEW r \in Requests, Register(r)
  PROVE  TypeInv'
<1>1. PICK e \in Emails, p \in Passwords :
        \/ /\ users' = [users EXCEPT ![r] = [email |-> e, pw |-> p, legacy |-> FALSE]]
           /\ chosen' = [chosen EXCEPT ![r] = p]
           /\ req' = [req EXCEPT ![r].stage = "keying", ![r].user = r]
        \/ Go(r, "no") /\ UNCHANGED <<users, chosen>>
  BY DEF Register
<1>2. /\ req[r].stage = "idle"
      /\ UNCHANGED <<keys, tokens, links, states, memory, process, overlap, raced, cut>>
  BY DEF Register, Starts
<1>3. \/ Becomes(r, "keying", r, req[r].email, req[r].pw, req[r].ref)
      \/ Becomes(r, "no", req[r].user, req[r].email, req[r].pw, req[r].ref)
  BY <1>1, Parts, Gone, StagedUser, StageNames
<1>4. users' \in [Ids -> Account \union {None}]
  BY <1>1, Parts, NewAccount
<1>5. chosen' \in [Ids -> Passwords \union {None}]
  BY <1>1, Parts
<1>6. \A x \in Requests : Carries(x)'
  BY <1>2, <1>3, Parts, CarriesKept DEF Becomes, Carries, memory
<1> QED  BY <1>2, <1>3, <1>4, <1>5, <1>6 DEF TypeInv, TypeOK, Becomes, memory, process

LEMMA TypeGenerateKey ==
  ASSUME TypeInv, NEW r \in Requests, GenerateKey(r)
  PROVE  TypeInv'
<1>1. /\ req[r].stage = "keying"
      /\ keys' = [keys EXCEPT ![r] = [user |-> req[r].user, active |-> TRUE]]
      /\ UNCHANGED <<users, tokens, links, states, memory, process, history>>
  BY DEF GenerateKey
<1>2. Becomes(r, "ok", req[r].user, req[r].email, req[r].pw, req[r].ref)
  BY Parts, Gone, StageNames DEF GenerateKey
<1>3. [user |-> req[r].user, active |-> TRUE] \in Key
  BY <1>1, Parts DEF Carries, Key
<1>4. keys' \in [Ids -> Key \union {None}]
  BY <1>1, <1>3, Parts
<1>5. \A x \in Requests : Carries(x)'
  BY <1>1, <1>2, Parts, CarriesKept DEF Becomes, Carries, memory
<1> QED  BY <1>1, <1>2, <1>4, <1>5 DEF TypeInv, TypeOK, Becomes, memory, process, history

LEMMA TypeLoginCheck ==
  ASSUME TypeInv, NEW r \in Requests, LoginCheck(r)
  PROVE  TypeInv'
<1>1. PICK e \in Emails, p \in Passwords :
        \/ Go(r, "no") /\ UNCHANGED overlap
        \/ /\ req' = [req EXCEPT ![r].stage = "reading", ![r].email = e, ![r].pw = p]
           /\ overlap' = [overlap EXCEPT ![e] = LET n == Cardinality(Reading(e)) + 1 IN
                                                IF n > @ THEN n ELSE @]
  BY DEF LoginCheck
<1>2. req[r].stage = "idle" /\ UNCHANGED <<tables, memory, process, chosen, raced, cut>>
  BY DEF LoginCheck, Starts
<1>3. \/ Becomes(r, "reading", req[r].user, e, p, req[r].ref)
      \/ Becomes(r, "no", req[r].user, req[r].email, req[r].pw, req[r].ref)
  BY <1>1, Parts, Gone, StagedLogin, StageNames
<1>4. Cardinality(Reading(e)) \in Nat
  BY RequestsAssumption, FS_Subset, FS_CardinalityType DEF Reading
<1>5. overlap' \in [Emails -> Nat]
  BY <1>1, <1>4 DEF TypeInv, TypeOK
<1>6. \A x \in Requests : Carries(x)'
  BY <1>2, <1>3, Parts, CarriesKept DEF Becomes, Carries, memory
<1> QED  BY <1>2, <1>3, <1>5, <1>6 DEF TypeInv, TypeOK, Becomes, tables, memory, process

\* The account whose row a login reads, or nobody.
LEMMA HolderOf ==
  ASSUME NEW e, NEW u \in IF Holder(e) /= {} THEN Holder(e) ELSE {None}
  PROVE  /\ u \in Ids \union {None}
         /\ u /= None => u \in Ids /\ Exists(u)
BY DEF Holder

LEMMA TypeLoginRead ==
  ASSUME TypeInv, NEW r \in Requests, LoginRead(r)
  PROVE  TypeInv'
<1>1. req[r].stage = "reading" /\ UNCHANGED <<tables, memory, phase, restarts, history>>
  BY DEF LoginRead
<1>2. PICK u \in IF Holder(req[r].email) /= {} THEN Holder(req[r].email) ELSE {None} :
        /\ req' = [req EXCEPT ![r].stage = "checking", ![r].user = u]
        /\ seen' = [seen EXCEPT ![r] = IF u = None THEN None ELSE users[u]]
  BY DEF LoginRead
<1>3. u \in Ids \union {None} /\ (u /= None => u \in Ids)
  BY HolderOf
<1>4. Becomes(r, "checking", u, req[r].email, req[r].pw, req[r].ref)
  BY <1>2, <1>3, Parts, StagedUser, StageNames
<1>5. seen' \in [Requests -> Account \union {None}]
  BY <1>2, <1>3, Parts
<1>6. \A x \in Requests : Carries(x)'
  BY <1>1, <1>4, Parts, CarriesKept DEF Becomes, Carries, memory
<1> QED  BY <1>1, <1>4, <1>5, <1>6 DEF TypeInv, TypeOK, Becomes, tables, memory, history

LEMMA TypeLoginVerify ==
  ASSUME TypeInv, NEW r \in Requests, LoginVerify(r)
  PROVE  TypeInv'
<1>1. /\ req[r].stage = "checking"
      /\ UNCHANGED <<tables, throttled, tries, phase, restarts, history>>
      /\ seen' = [seen EXCEPT ![r] = None]
  BY DEF LoginVerify
<1>2. seen' \in [Requests -> Account \union {None}]
  BY <1>1, Parts
<1>3. CASE ~Verified(r)
  <2>1. /\ fails' = [fails EXCEPT ![req[r].email] = @ + 1]
        /\ Go(r, "no") /\ UNCHANGED upgrades
    BY <1>3 DEF LoginVerify
  <2>2. Becomes(r, "no", req[r].user, req[r].email, req[r].pw, req[r].ref)
    BY <2>1, Parts, Gone, StageNames
  <2>3. \A x \in Requests : Carries(x)'
    BY <1>1, <2>1, <2>2, Parts, CarriesKept DEF Becomes, Carries
  <2>4. fails' \in [Emails -> Nat]
    <3>1. fails \in [Emails -> Nat]
      BY DEF TypeInv, TypeOK
    <3>2. \A e \in Emails : fails[e] + 1 \in Nat
      BY <3>1
    <3> QED  BY <2>1, <3>1, <3>2
  <2> QED  BY <1>1, <1>2, <2>1, <2>2, <2>3, <2>4 DEF TypeInv, TypeOK, Becomes, tables, history
<1>4. CASE Verified(r)
  <2>1. /\ fails' = [fails EXCEPT ![req[r].email] = 0]
        /\ upgrades' = upgrades \/ upgrades' = upgrades \union {r}
        /\ Go(r, "keying")
    BY <1>4 DEF LoginVerify
  <2>2. Becomes(r, "keying", req[r].user, req[r].email, req[r].pw, req[r].ref)
    BY <2>1, Parts, Gone, StageNames
  <2>3. req[r].user \in Ids
    BY <1>4, Parts DEF Verified
  <2>4. \A x \in Requests : Carries(x)'
    BY <1>1, <2>1, <2>2, <2>3, Parts, CarriesKept DEF Becomes, Carries
  <2> QED  BY <1>1, <1>2, <2>1, <2>2, <2>4 DEF TypeInv, TypeOK, Becomes, tables, history
<1> QED  BY <1>3, <1>4

LEMMA NewPassword ==
  ASSUME TypeInv, NEW u \in Ids, NEW p \in Passwords,
         users' = IF Exists(u) THEN [users EXCEPT ![u].pw = p, ![u].legacy = FALSE] ELSE users
  PROVE  users' \in [Ids -> Account \union {None}]
<1>1. users \in [Ids -> Account \union {None}]
  BY DEF TypeInv, TypeOK
<1>2. CASE Exists(u)
  <2>1. users[u] \in Account
    BY <1>1, <1>2 DEF Exists
  <2>2. [users[u] EXCEPT !.pw = p, !.legacy = FALSE] \in Account
    BY <2>1 DEF Account
  <2>3. users' = [users EXCEPT ![u].pw = p, ![u].legacy = FALSE]
    BY <1>2
  <2>4. users' = [users EXCEPT ![u] = [users[u] EXCEPT !.pw = p, !.legacy = FALSE]]
    BY <1>1, <2>3
  <2> QED  BY <1>1, <2>2, <2>4
<1> QED  BY <1>1, <1>2

LEMMA TypeUpgrade ==
  ASSUME TypeInv, NEW r \in Requests, Upgrade(r)
  PROVE  TypeInv'
<1>1. /\ r \in upgrades /\ upgrades' = upgrades \ {r} /\ req' = req
      /\ UNCHANGED <<keys, tokens, links, states, fails, throttled, tries, process, history>>
  BY DEF Upgrade
<1>2. req[r].user \in Ids /\ req[r].pw \in Passwords
  BY <1>1, Parts DEF Carries
<1>3. users' \in [Ids -> Account \union {None}]
  BY <1>2, NewPassword DEF Upgrade
<1>4. Carries(r)'
  BY <1>1, Parts DEF Carries
<1>5. \A x \in Requests : Carries(x)'
  BY <1>1, <1>4, CarriesKept
<1> QED  BY <1>1, <1>3, <1>5 DEF TypeInv, TypeOK, process, history

LEMMA TypeForgot ==
  ASSUME TypeInv, NEW r \in Requests, Forgot(r) \/ FindAccount(r)
  PROVE  TypeInv'
<1>1. /\ req[r].stage \in {"idle", "finding"}
      /\ UNCHANGED <<tables, fails, tries, upgrades, process, history>>
      /\ throttled' \subseteq Emails
  BY Parts DEF Forgot, FindAccount, Starts, TypeOK, memory
<1>2. \/ Becomes(r, "no", req[r].user, req[r].email, req[r].pw, req[r].ref)
      \/ Becomes(r, "ok", req[r].user, req[r].email, req[r].pw, req[r].ref)
      \/ \E e \in Emails : Becomes(r, "finding", req[r].user, e, req[r].pw, req[r].ref)
      \/ \E u \in Ids : Becomes(r, "issuing", u, req[r].email, req[r].pw, req[r].ref)
  <2>1. CASE Go(r, "no") \/ Go(r, "ok")
    BY <2>1, Parts, Gone, StageNames
  <2>2. ASSUME NEW e \in Emails, req' = [req EXCEPT ![r].stage = "finding", ![r].email = e]
        PROVE  Becomes(r, "finding", req[r].user, e, req[r].pw, req[r].ref)
    BY <2>2, Parts, StagedEmail, StageNames
  <2>3. ASSUME NEW u \in Ids, req' = [req EXCEPT ![r].stage = "issuing", ![r].user = u]
        PROVE  Becomes(r, "issuing", u, req[r].email, req[r].pw, req[r].ref)
    BY <2>3, Parts, StagedUser, StageNames
  <2>4. Holder(req[r].email) \subseteq Ids
    BY DEF Holder
  <2> QED  BY <2>1, <2>2, <2>3, <2>4 DEF Forgot, FindAccount
<1>3. \A x \in Requests : Carries(x)'
  BY <1>1, <1>2, Parts, CarriesKept DEF Becomes, Carries
<1> QED  BY <1>1, <1>2, <1>3 DEF TypeInv, TypeOK, Becomes, tables, process, history

LEMMA TypeIssueToken ==
  ASSUME TypeInv, NEW r \in Requests, IssueToken(r)
  PROVE  TypeInv'
<1>1. /\ req[r].stage = "issuing"
      /\ UNCHANGED <<users, keys, links, states, memory, process, history>>
  BY DEF IssueToken
<1>2. Becomes(r, "ok", req[r].user, req[r].email, req[r].pw, req[r].ref)
  BY Parts, Gone, StageNames DEF IssueToken
<1>3. req[r].user \in Ids
  BY <1>1, Parts DEF Carries
<1>4. [user |-> req[r].user, used |-> FALSE, expired |-> FALSE] \in Token
  BY <1>3 DEF Token
<1>5. ASSUME NEW t \in Ids PROVE tokens'[t] \in Token \union {None}
  <2>1. tokens[t] \in Token \union {None}
    BY Parts
  <2>2. t \in TokensOf(req[r].user) => [tokens[t] EXCEPT !.used = TRUE] \in Token
    BY <2>1 DEF TokensOf, Token
  <2> QED  BY <1>4, <2>1, <2>2 DEF IssueToken
<1>6. tokens' \in [Ids -> Token \union {None}]
  BY <1>5 DEF IssueToken
<1>7. \A x \in Requests : Carries(x)'
  BY <1>1, <1>2, Parts, CarriesKept DEF Becomes, Carries, memory
<1> QED  BY <1>1, <1>2, <1>6, <1>7 DEF TypeInv, TypeOK, Becomes, memory, process, history

LEMMA TypeRedeem ==
  ASSUME TypeInv, NEW r \in Requests, RedeemCheck(r) \/ RedeemRead(r)
  PROVE  TypeInv'
<1>1. /\ req[r].stage \in {"idle", "redeeming"}
      /\ UNCHANGED <<tables, fails, throttled, upgrades, process, history>>
  BY DEF RedeemCheck, RedeemRead, Starts, memory
<1>2. tries' \in [Ids -> 0..MaxResetAttempts]
  <2>1. tries \in [Ids -> 0..MaxResetAttempts]
    BY Parts
  <2>2. ASSUME NEW t \in Ids, ~(tries[t] >= MaxResetAttempts), tries' = [tries EXCEPT ![t] = @ + 1]
        PROVE  tries' \in [Ids -> 0..MaxResetAttempts]
    <3>1. tries[t] + 1 \in 0..MaxResetAttempts
      BY <2>1, <2>2, BoundsAssumption
    <3> QED  BY <2>1, <2>2, <3>1
  <2> QED  BY <2>1, <2>2 DEF RedeemCheck, RedeemRead, memory
<1>3. \/ Becomes(r, "no", req[r].user, req[r].email, req[r].pw, req[r].ref)
      \/ \E t \in Ids, p \in Passwords :
           Becomes(r, "redeeming", req[r].user, req[r].email, p, t)
      \/ /\ req[r].stage = "redeeming"
         /\ \E u \in Ids : Becomes(r, "resetting", u, req[r].email, req[r].pw, req[r].ref)
  <2>1. CASE Go(r, "no")
    BY <2>1, Parts, Gone, StageNames
  <2>2. ASSUME NEW t \in Ids, NEW p \in Passwords,
               req' = [req EXCEPT ![r].stage = "redeeming", ![r].ref = t, ![r].pw = p]
        PROVE  Becomes(r, "redeeming", req[r].user, req[r].email, p, t)
    BY <2>2, Parts, StagedReset, StageNames
  <2>3. ASSUME RedeemRead(r), Redeemable(req[r].ref)
        PROVE  \E u \in Ids : Becomes(r, "resetting", u, req[r].email, req[r].pw, req[r].ref)
    <3>1. tokens[req[r].ref] \in Token
      BY <2>3, Parts DEF RedeemRead, Redeemable, Carries
    <3>2. tokens[req[r].ref].user \in Ids
      BY <3>1 DEF Token
    <3> QED  BY <2>3, <3>2, Parts, StagedUser, StageNames DEF RedeemRead
  <2> QED  BY <2>1, <2>2, <2>3 DEF RedeemCheck, RedeemRead
<1>4. \A x \in Requests : Carries(x)'
  BY <1>1, <1>3, Parts, CarriesKept DEF Becomes, Carries
<1> QED  BY <1>1, <1>2, <1>3, <1>4 DEF TypeInv, TypeOK, Becomes, tables, process, history

LEMMA TypeResetWrite ==
  ASSUME TypeInv, NEW r \in Requests, ResetWrite(r)
  PROVE  TypeInv'
<1>1. /\ req[r].stage = "resetting"
      /\ UNCHANGED <<keys, links, states, memory, process, overlap, cut>>
  BY DEF ResetWrite
<1>2. Becomes(r, "ok", req[r].user, req[r].email, req[r].pw, req[r].ref)
  BY Parts, Gone, StageNames DEF ResetWrite
<1>3. req[r].user \in Ids /\ req[r].pw \in Passwords /\ req[r].ref \in Ids
  BY <1>1, Parts DEF Carries
<1>4. users' \in [Ids -> Account \union {None}]
  BY <1>3, NewPassword DEF ResetWrite
<1>5. tokens' \in [Ids -> Token \union {None}]
  <2>1. tokens \in [Ids -> Token \union {None}]
    BY Parts
  <2>2. CASE tokens[req[r].ref] = None
    BY <2>1, <2>2 DEF ResetWrite
  <2>3. CASE tokens[req[r].ref] /= None
    <3>1. tokens[req[r].ref] \in Token
      BY <1>3, <2>1, <2>3
    <3>2. [tokens[req[r].ref] EXCEPT !.used = TRUE] \in Token
      BY <3>1 DEF Token
    <3>3. tokens' = [tokens EXCEPT ![req[r].ref].used = TRUE]
      BY <2>3 DEF ResetWrite
    <3> QED  BY <1>3, <2>1, <3>2, <3>3
  <2> QED  BY <2>2, <2>3
<1>6. chosen' \in [Ids -> Passwords \union {None}]
  BY <1>3, Parts DEF ResetWrite
<1>7. raced' \subseteq Requests
  BY DEF ResetWrite, RacedBy, Pending, TypeInv, TypeOK
<1>8. \A x \in Requests : Carries(x)'
  BY <1>1, <1>2, Parts, CarriesKept DEF Becomes, Carries, memory
<1> QED
  BY <1>1, <1>2, <1>4, <1>5, <1>6, <1>7, <1>8 DEF TypeInv, TypeOK, Becomes, memory, process

LEMMA TypeOauth ==
  ASSUME TypeInv, NEW r \in Requests, OauthLogin(r) \/ CallbackRead(r) \/ CallbackSpend(r)
  PROVE  TypeInv'
<1>1. /\ req[r].stage \in {"idle", "returning", "dropping"}
      /\ UNCHANGED <<users, keys, tokens, links, memory, process, history>>
  BY DEF OauthLogin, CallbackRead, CallbackSpend, Starts, tables
<1>2. states' \in [Requests -> {"none", "fresh", "stale"}]
  <2>1. states \in [Requests -> {"none", "fresh", "stale"}]
    BY DEF TypeInv, TypeOK
  <2> QED  BY <2>1 DEF OauthLogin, CallbackRead, CallbackSpend, tables
<1>3. \/ \E s \in {"ok", "no", "exchanging"} :
           Becomes(r, s, req[r].user, req[r].email, req[r].pw, req[r].ref)
      \/ \E s \in {"returning", "dropping"}, x \in Requests :
           Becomes(r, s, req[r].user, req[r].email, req[r].pw, x)
  <2>1. CASE Go(r, "ok") \/ Go(r, "no") \/ Go(r, "exchanging")
    BY <2>1, Parts, Gone, StageNames
  <2>2. ASSUME NEW x \in Requests, NEW s \in {"returning", "dropping"},
               req' = [req EXCEPT ![r].ref = x, ![r].stage = s]
        PROVE  Becomes(r, s, req[r].user, req[r].email, req[r].pw, x)
    <3>1. x \in Ids
      BY DEF Ids
    <3> QED  BY <2>2, <3>1, Parts, StagedRef, StageNames
  <2>3. ASSUME CallbackRead(r) PROVE <1>3!1 \/ <1>3!2
    <3>1. \/ Go(r, "no")
          \/ \E x \in Requests, s \in {"returning", "dropping"} :
               req' = [req EXCEPT ![r].ref = x, ![r].stage = s]
      BY <2>3 DEF CallbackRead
    <3> QED  BY <2>1, <2>2, <3>1
  <2>4. ASSUME CallbackSpend(r) PROVE <1>3!1 \/ <1>3!2
    <3>1. Go(r, "exchanging") \/ Go(r, "no")
      BY <2>4 DEF CallbackSpend
    <3> QED  BY <2>1, <3>1
  <2> QED  BY <2>1, <2>3, <2>4 DEF OauthLogin
<1>4. \A x \in Requests : Carries(x)'
  BY <1>1, <1>3, Parts, CarriesKept DEF Becomes, Carries, memory
<1> QED  BY <1>1, <1>2, <1>3, <1>4 DEF TypeInv, TypeOK, Becomes, memory, process, history

LEMMA TypeExchange ==
  ASSUME TypeInv, NEW r \in Requests, Exchange(r)
  PROVE  TypeInv'
<1>1. req[r].stage = "exchanging" /\ UNCHANGED <<tables, memory, process, history>>
  BY DEF Exchange
<1>2. \/ Becomes(r, "no", req[r].user, req[r].email, req[r].pw, req[r].ref)
      \/ \E u \in Ids : Becomes(r, "keying", u, req[r].email, req[r].pw, req[r].ref)
      \/ \E i \in Identities, e \in Emails \union {None}, u \in Ids \union {None} :
           Becomes(r, "linking", u, e, req[r].pw, i)
  <2>1. CASE Go(r, "no")
    BY <2>1, Parts, Gone, StageNames
  <2>2. ASSUME NEW u \in Ids, req' = [req EXCEPT ![r].stage = "keying", ![r].user = u]
        PROVE  Becomes(r, "keying", u, req[r].email, req[r].pw, req[r].ref)
    BY <2>2, Parts, StagedUser, StageNames
  <2>3. ASSUME NEW i \in Identities, NEW e \in Emails \union {None}, NEW u \in Ids \union {None},
               req' = [req EXCEPT ![r].stage = "linking", ![r].user = u,
                                  ![r].email = e, ![r].ref = i]
        PROVE  Becomes(r, "linking", u, e, req[r].pw, i)
    BY <2>3, Parts, StagedLink, StageNames
  <2>4. \A i \in Identities : links[i] /= None => links[i] \in Ids
    BY Parts
  <2>5. \A e \in Emails \union {None} : Holder(e) \subseteq Ids
    BY DEF Holder
  <2> QED  BY <2>1, <2>2, <2>3, <2>4, <2>5 DEF Exchange
<1>3. \A x \in Requests : Carries(x)'
  BY <1>1, <1>2, Parts, CarriesKept DEF Becomes, Carries, memory
<1> QED  BY <1>1, <1>2, <1>3 DEF TypeInv, TypeOK, Becomes, tables, memory, process, history

LEMMA TypeLink ==
  ASSUME TypeInv, NEW r \in Requests, Link(r)
  PROVE  TypeInv'
<1> DEFINE u == IF req[r].user = None THEN r ELSE req[r].user
<1>0. u \in Ids /\ req[r].user \in Ids \union {None}
  BY Parts
<1>1. req[r].stage = "linking" /\ UNCHANGED <<keys, tokens, states, memory, process, history>>
  BY DEF Link
<1>2. req[r].ref \in Identities
  BY <1>1, Parts DEF Carries
<1>3. \/ Becomes(r, "keying", u, req[r].email, req[r].pw, req[r].ref)
      \/ Becomes(r, "no", req[r].user, req[r].email, req[r].pw, req[r].ref)
  BY <1>0, Parts, Gone, StagedUser, StageNames DEF Link
<1>4. users' \in [Ids -> Account \union {None}]
  <2>1. users' = users \/ users' = [users EXCEPT ![r] = [email |-> req[r].email, pw |-> None, legacy |-> FALSE]]
    BY DEF Link, Inserted
  <2> QED  BY <2>1, Parts, NewAccount
<1>5. links' \in [Identities -> Ids \union {None}]
  <2>1. links' = links \/ links' = [links EXCEPT ![req[r].ref] = u]
    BY DEF Link
  <2> QED  BY <1>0, <2>1, Parts
<1>6. \A x \in Requests : Carries(x)'
  BY <1>0, <1>1, <1>3, Parts, CarriesKept DEF Becomes, Carries, memory
<1> QED
  BY <1>1, <1>3, <1>4, <1>5, <1>6 DEF TypeInv, TypeOK, Becomes, memory, process, history

LEMMA TypeKeys ==
  ASSUME TypeInv, NEW r \in Requests, CreateKey(r) \/ Revoke(r)
  PROVE  TypeInv'
<1>1. /\ req[r].stage = "idle"
      /\ UNCHANGED <<users, tokens, links, states, memory, process, overlap, chosen, raced>>
  BY DEF CreateKey, Revoke, Starts, history
<1>2. \E s \in {"ok", "no"} : Becomes(r, s, req[r].user, req[r].email, req[r].pw, req[r].ref)
  BY Parts, Gone, StageNames DEF CreateKey, Revoke
<1>3. keys' \in [Ids -> Key \union {None}]
  <2>1. keys \in [Ids -> Key \union {None}] /\ r \in Ids
    BY Parts
  <2>2. ASSUME NEW u \in Ids, keys' = [keys EXCEPT ![r] = [user |-> u, active |-> TRUE]]
        PROVE  keys' \in [Ids -> Key \union {None}]
    <3>1. [user |-> u, active |-> TRUE] \in Key
      BY DEF Key
    <3> QED  BY <2>1, <2>2, <3>1
  <2>3. ASSUME NEW hit \in SUBSET Ids, \A k \in hit : keys[k] /= None,
               keys' = [k \in Ids |-> IF k \in hit THEN [keys[k] EXCEPT !.active = FALSE] ELSE keys[k]]
        PROVE  keys' \in [Ids -> Key \union {None}]
    <3>1. \A k \in hit : keys[k] \in Key
      BY <2>1, <2>3
    <3>2. \A k \in hit : [keys[k] EXCEPT !.active = FALSE] \in Key
      BY <3>1 DEF Key
    <3> QED  BY <2>1, <2>3, <3>2
  <2>4. ASSUME Revoke(r) PROVE keys' \in [Ids -> Key \union {None}]
    <3>1. PICK p \in {Prefix[k] : k \in Ids} :
            keys' = [k \in Ids |->
               IF k \in {x \in Ids : keys[x] /= None /\ keys[x].active /\ Prefix[x] = p}
               THEN [keys[k] EXCEPT !.active = FALSE] ELSE keys[k]]
      BY <2>4 DEF Revoke
    <3> QED  BY <2>3, <3>1
  <2> QED  BY <2>2, <2>4 DEF CreateKey
<1>4. cut' \subseteq Ids
  BY DEF CreateKey, Revoke, TypeInv, TypeOK, history
<1>5. \A x \in Requests : Carries(x)'
  BY <1>1, <1>2, Parts, CarriesKept DEF Becomes, Carries, memory
<1> QED  BY <1>1, <1>2, <1>3, <1>4, <1>5 DEF TypeInv, TypeOK, Becomes, memory, process

LEMMA TypeErase ==
  ASSUME TypeInv, NEW r \in Requests, EraseCheck(r) \/ Erase(r)
  PROVE  TypeInv'
<1>1. /\ req[r].stage \in {"idle", "erasing"}
      /\ UNCHANGED <<states, memory, process, overlap, chosen, raced>>
  BY DEF EraseCheck, Erase, Starts, history, tables
<1>2. \/ \E s \in {"ok", "no"} : Becomes(r, s, req[r].user, req[r].email, req[r].pw, req[r].ref)
      \/ \E u \in Ids : Becomes(r, "erasing", u, req[r].email, req[r].pw, req[r].ref)
  <2>1. CASE Go(r, "ok") \/ Go(r, "no")
    BY <2>1, Parts, Gone, StageNames
  <2>2. ASSUME NEW u \in Ids, req' = [req EXCEPT ![r].stage = "erasing", ![r].user = u]
        PROVE  Becomes(r, "erasing", u, req[r].email, req[r].pw, req[r].ref)
    BY <2>2, Parts, StagedUser, StageNames
  <2>3. \A k \in Ids : keys[k] /= None => keys[k].user \in Ids
    BY Parts DEF Key
  <2> QED  BY <2>1, <2>2, <2>3 DEF EraseCheck, Erase
<1>3. req[r].stage = "erasing" => req[r].user \in Ids
  BY Parts DEF Carries
<1>4. /\ users' \in [Ids -> Account \union {None}] /\ keys' \in [Ids -> Key \union {None}]
      /\ tokens' \in [Ids -> Token \union {None}] /\ links' \in [Identities -> Ids \union {None}]
  BY Parts DEF EraseCheck, Erase, tables
<1>5. cut' \subseteq Ids
  BY <1>3 DEF EraseCheck, Erase, TypeInv, TypeOK, history
<1>6. \A x \in Requests : Carries(x)'
  BY <1>1, <1>2, Parts, CarriesKept DEF Becomes, Carries, memory
<1> QED  BY <1>1, <1>2, <1>4, <1>5, <1>6 DEF TypeInv, TypeOK, Becomes, memory, process

LEMMA TypeServe ==
  ASSUME TypeInv, NEW r \in Requests, Serve(r)
  PROVE  TypeInv'
BY TypeRegister, TypeGenerateKey, TypeLoginCheck, TypeLoginRead, TypeLoginVerify, TypeUpgrade,
   TypeForgot, TypeIssueToken, TypeRedeem, TypeResetWrite, TypeOauth, TypeExchange, TypeLink, TypeKeys, TypeErase
   DEF Serve

LEMMA TypeSurroundings ==
  ASSUME TypeInv, Boot \/ BootKey \/ Passes \/ UNCHANGED vars
  PROVE  TypeInv'
<1>1. req' = req /\ upgrades' = upgrades
  BY DEF Boot, BootKey, Passes, FailureExpires, CooldownEnds, TokenExpires, StateExpires,
         tables, memory, process, history, vars
<1>2. \A x \in Requests : Carries(x)'
  BY <1>1 DEF TypeInv, Carries
<1>3. /\ users \in [Ids -> Account \union {None}] /\ keys \in [Ids -> Key \union {None}]
      /\ tokens \in [Ids -> Token \union {None}] /\ fails \in [Emails -> Nat] /\ Admin \in Ids
      /\ chosen \in [Ids -> Passwords \union {None}]
      /\ states \in [Requests -> {"none", "fresh", "stale"}] /\ throttled \subseteq Emails
  BY DEF TypeInv, TypeOK, Ids
<1>4. CASE Boot
  <2>1. users' \in [Ids -> Account \union {None}]
    BY <1>3, <1>4, NewAccount DEF Boot
  <2>2. chosen' \in [Ids -> Passwords \union {None}]
    BY <1>3, <1>4 DEF Boot
  <2> QED  BY <1>1, <1>2, <1>4, <2>1, <2>2 DEF Boot, TypeInv, TypeOK, memory
<1>5. CASE BootKey
  <2>1. [user |-> Admin, active |-> TRUE] \in Key
    BY <1>3 DEF Key
  <2>2. keys' \in [Ids -> Key \union {None}]
    BY <1>3, <1>5, <2>1 DEF BootKey
  <2> QED  BY <1>1, <1>2, <1>5, <2>2 DEF BootKey, TypeInv, TypeOK, memory, history
<1>6. ASSUME NEW e \in Emails, FailureExpires(e) PROVE TypeInv'
  <2>1. fails' \in [Emails -> Nat]
    BY <1>3, <1>6 DEF FailureExpires
  <2> QED  BY <1>1, <1>2, <1>6, <2>1 DEF FailureExpires, TypeInv, TypeOK, tables, process, history
<1>7. ASSUME NEW e \in Emails, CooldownEnds(e) PROVE TypeInv'
  BY <1>1, <1>2, <1>7 DEF CooldownEnds, TypeInv, TypeOK, tables, process, history
<1>8. ASSUME NEW t \in Ids, TokenExpires(t) PROVE TypeInv'
  <2>1. tokens[t] \in Token
    BY <1>3, <1>8 DEF TokenExpires
  <2>2. [tokens[t] EXCEPT !.expired = TRUE] \in Token
    BY <2>1 DEF Token
  <2>3. tokens' = [tokens EXCEPT ![t].expired = TRUE]
    BY <1>8 DEF TokenExpires
  <2>4. tokens' \in [Ids -> Token \union {None}]
    BY <1>3, <2>2, <2>3
  <2> QED  BY <1>1, <1>2, <1>8, <2>4 DEF TokenExpires, TypeInv, TypeOK, memory, process, history
<1>9. ASSUME NEW x \in Requests, StateExpires(x) PROVE TypeInv'
  <2>1. states' \in [Requests -> {"none", "fresh", "stale"}]
    BY <1>3, <1>9 DEF StateExpires
  <2> QED  BY <1>1, <1>2, <1>9, <2>1 DEF StateExpires, TypeInv, TypeOK, memory, process, history
<1>10. CASE UNCHANGED vars
  BY <1>1, <1>2, <1>10 DEF vars, tables, memory, process, history, TypeInv, TypeOK
<1> QED  BY <1>4, <1>5, <1>6, <1>7, <1>8, <1>9, <1>10 DEF Passes

\* What a restart leaves of a request that was in flight: it was refused.
LEMMA Restarted ==
  ASSUME TypeInv, Restart, NEW x \in Requests
  PROVE  /\ req' \in [Requests -> Request]
         /\ req'[x].user = req[x].user /\ req'[x].email = req[x].email
         /\ req'[x].pw = req[x].pw /\ req'[x].ref = req[x].ref
         /\ \/ req[x].stage \in {"idle", "ok", "no"} /\ req'[x].stage = req[x].stage
            \/ req[x].stage \notin {"idle", "ok", "no"} /\ req'[x].stage = "no"
<1>1. req \in [Requests -> Request]
  BY DEF TypeInv, TypeOK
<1>2. \A y \in Requests : req[y] \in Request /\ [req[y] EXCEPT !.stage = "no"] \in Request
  BY <1>1, StageNames DEF Request
<1>3. req' = [y \in Requests |-> IF y \in InFlight THEN [req[y] EXCEPT !.stage = "no"] ELSE req[y]]
  BY DEF Restart
<1>4. req' \in [Requests -> Request]
  BY <1>2, <1>3
<1>5. x \in InFlight <=> req[x].stage \notin {"idle", "ok", "no"}
  BY DEF InFlight, Ended
<1> QED  BY <1>2, <1>3, <1>4, <1>5 DEF Request

LEMMA TypeRestart ==
  ASSUME TypeInv, Restart
  PROVE  TypeInv'
<1>1. req' \in [Requests -> Request]
  <2>1. CASE Requests = {}
    BY <2>1 DEF Restart
  <2>2. CASE Requests /= {}
    BY <2>2, Restarted
  <2> QED  BY <2>1, <2>2
<1>2. /\ restarts' \in 0..MaxRestarts /\ fails' \in [Emails -> Nat]
      /\ tries' \in [Ids -> 0..MaxResetAttempts]
  BY BoundsAssumption DEF Restart, TypeInv, TypeOK
<1>3. ASSUME NEW x \in Requests PROVE Carries(x)'
  BY <1>3, Restarted DEF Restart, Carries, TypeInv
<1> QED  BY <1>1, <1>2, <1>3 DEF Restart, TypeInv, TypeOK, tables, history

LEMMA TypeStep ==
  ASSUME TypeInv, [Next]_vars
  PROVE  TypeInv'
BY TypeServe, TypeSurroundings, TypeRestart DEF Next

\* Every variable keeps its type, and a request has what its next step needs.
THEOREM TypeCorrect == Spec => []TypeInv
<1>1. ASSUME Init PROVE TypeInv
  <2>1. \A x \in Requests : req[x] = Idle /\ x \notin upgrades
    BY <1>1 DEF Init
  <2>2. \A x \in Requests : req[x].stage = "idle"
    BY <2>1 DEF Idle
  <2> QED  BY <1>1, <2>1, <2>2, TypeInit DEF TypeInv, Carries
<1>2. TypeInv /\ [Next]_vars => TypeInv'
  BY TypeStep
<1> QED  BY <1>1, <1>2, PTL DEF Spec

(***************************************************************************)
(* Accounts without a password.                                            *)
(***************************************************************************)
\* The rows of a data directory: old accounts, each with a key and a token of its own.
LEMMA InitRows ==
  ASSUME Init, NEW u \in Ids
  PROVE  /\ Exists(u) => u \in Old /\ users[u].pw \in Passwords /\ users[u].pw = chosen[u]
         /\ ~Exists(u) => chosen[u] = None
         /\ keys[u] /= None => keys[u].user = u /\ Exists(u)
         /\ tokens[u] /= None => u \in Old /\ tokens[u].user = u /\ Exists(u)
<1>0. PICK there \in BOOLEAN, e \in [Old -> Emails], p \in [Old -> Passwords] : OldData(there, e, p)
  BY DEF Init
<1>1. /\ users[u]  = IF there /\ u \in Old THEN [email |-> e[u], pw |-> p[u], legacy |-> TRUE] ELSE None
      /\ keys[u]   = IF there /\ u \in Old THEN [user |-> u, active |-> TRUE] ELSE None
      /\ tokens[u] = IF there /\ u \in Old THEN [user |-> u, used |-> FALSE, expired |-> FALSE] ELSE None
      /\ chosen[u] = IF there /\ u \in Old THEN p[u] ELSE None
  BY <1>0 DEF OldData
<1>2. CASE there /\ u \in Old
  <2>1. [email |-> e[u], pw |-> p[u], legacy |-> TRUE] \in Account
    BY <1>2 DEF Account
  <2>2. /\ users[u] = [email |-> e[u], pw |-> p[u], legacy |-> TRUE] /\ chosen[u] = p[u]
        /\ keys[u] = [user |-> u, active |-> TRUE]
        /\ tokens[u] = [user |-> u, used |-> FALSE, expired |-> FALSE]
    BY <1>1, <1>2, Zenon
  <2>3. Exists(u)
    BY <2>1, <2>2, NoneIsNoRow DEF Exists
  <2>4. users[u].pw = p[u] /\ keys[u].user = u /\ tokens[u].user = u
    BY <2>2
  <2> QED  BY <1>2, <2>2, <2>3, <2>4
<1>3. CASE ~(there /\ u \in Old)
  BY <1>1, <1>3 DEF Exists
<1> QED  BY <1>2, <1>3

LEMMA LinkedStep ==
  ASSUME TypeInv, PasswordlessLinked, [Next]_vars
  PROVE  PasswordlessLinked'
<1>0. \A r \in Requests : /\ Carries(r) /\ r \in Ids /\ req[r].user \in Ids \union {None}
  BY Parts
<1>a. /\ users \in [Ids -> Account \union {None}] /\ links \in [Identities -> Ids \union {None}]
      /\ None \notin Ids \union Passwords /\ Admin \in Ids
  BY RequestsAssumption DEF TypeInv, TypeOK, Ids
<1>1. CASE users' = users /\ links' = links
  BY <1>1 DEF PasswordlessLinked, Exists
\* An account gets a password, or a new one has one.
<1>2. ASSUME NEW u \in Ids, links' = links, users'[u].pw \in Passwords,
             \A v \in Ids \ {u} : users'[v] = users[v]
      PROVE  PasswordlessLinked'
  BY <1>a, <1>2 DEF PasswordlessLinked, Exists
<1>3. ASSUME NEW r \in Requests, Register(r) PROVE PasswordlessLinked'
  <2>1. \/ users' = users /\ links' = links
        \/ \E e \in Emails, p \in Passwords :
             /\ users' = [users EXCEPT ![r] = [email |-> e, pw |-> p, legacy |-> FALSE]]
             /\ links' = links
    BY <1>3 DEF Register
  <2> QED  BY <1>0, <1>a, <1>1, <1>2, <2>1
<1>4. ASSUME NEW u \in Ids, NEW p \in Passwords, links' = links,
             users' = IF Exists(u) THEN [users EXCEPT ![u].pw = p, ![u].legacy = FALSE] ELSE users
      PROVE  PasswordlessLinked'
  <2>1. CASE ~Exists(u)
    BY <1>1, <1>4, <2>1
  <2>2. CASE Exists(u)
    <3>1. users[u] \in Account
      BY <1>a, <2>2 DEF Exists
    <3>2. users' = [users EXCEPT ![u].pw = p, ![u].legacy = FALSE]
      BY <1>4, <2>2
    <3>3. users'[u].pw = p
      BY <1>a, <3>1, <3>2 DEF Account
    <3> QED  BY <1>a, <1>2, <1>4, <3>2, <3>3
  <2> QED  BY <2>1, <2>2
<1>5. ASSUME NEW r \in Requests, Upgrade(r) \/ ResetWrite(r) PROVE PasswordlessLinked'
  <2>1. req[r].user \in Ids /\ req[r].pw \in Passwords
    BY <1>0, <1>5 DEF Upgrade, ResetWrite, Carries
  <2>2. links' = links
    BY <1>5 DEF Upgrade, ResetWrite
  <2> QED  BY <1>4, <1>5, <2>1, <2>2 DEF Upgrade, ResetWrite
<1>6. ASSUME NEW r \in Requests, Link(r) PROVE PasswordlessLinked'
  <2>1. CASE users' = users /\ links' = links
    BY <1>1, <2>1
  <2>2. ASSUME ~Collides(r), users' = Inserted(r),
               links' = [links EXCEPT ![req[r].ref] = IF req[r].user = None THEN r ELSE req[r].user]
        PROVE  PasswordlessLinked'
    <3>1. req[r].ref \in Identities /\ links[req[r].ref] = None
      BY <1>0, <1>6, <2>2 DEF Link, Carries, Collides
    <3>2. \A i \in Identities : links[i] /= None => links'[i] = links[i]
      BY <1>a, <2>2, <3>1
    <3>3. CASE req[r].user = None
      <4>1. links'[req[r].ref] = r
        BY <1>a, <2>2, <3>1, <3>3
      <4>2. \A u \in Ids \ {r} : users'[u] = users[u]
        BY <1>0, <1>a, <2>2, <3>3 DEF Inserted
      <4> QED  BY <1>a, <3>1, <3>2, <4>1, <4>2 DEF PasswordlessLinked, Exists
    <3>4. CASE req[r].user /= None
      BY <1>a, <2>2, <3>2, <3>4 DEF PasswordlessLinked, Exists, Inserted
    <3> QED  BY <3>3, <3>4
  <2> QED  BY <1>6, <2>1, <2>2 DEF Link
<1>7. ASSUME NEW r \in Requests, Erase(r) PROVE PasswordlessLinked'
  <2>1. CASE users' = users /\ links' = links
    BY <1>1, <2>1
  <2>2. ASSUME users' = [users EXCEPT ![req[r].user] = None],
               links' = [i \in Identities |-> IF links[i] = req[r].user THEN None ELSE links[i]]
        PROVE  PasswordlessLinked'
    <3>1. \A u \in Ids : Exists(u)' => u /= req[r].user /\ users'[u] = users[u]
      BY <1>a, <2>2 DEF Exists
    <3>2. \A u \in Ids, i \in Identities : links[i] = u /\ u /= req[r].user => links'[i] = u
      BY <2>2
    <3> QED  BY <3>1, <3>2 DEF PasswordlessLinked, Exists
  <2> QED  BY <1>7, <2>1, <2>2 DEF Erase
<1>8. CASE Boot
  <2>1. links' = links
    BY <1>8 DEF Boot
  <2>2. \/ users' = users
        \/ \E e \in Emails, p \in Passwords :
             users' = [users EXCEPT ![Admin] = [email |-> e, pw |-> p, legacy |-> FALSE]]
    BY <1>8 DEF Boot
  <2> QED  BY <1>a, <1>1, <1>2, <2>1, <2>2
<1>9. ASSUME NEW r \in Requests,
             \/ GenerateKey(r) \/ LoginCheck(r) \/ LoginRead(r) \/ LoginVerify(r) \/ Forgot(r) \/ FindAccount(r)
             \/ IssueToken(r) \/ RedeemCheck(r) \/ RedeemRead(r) \/ OauthLogin(r)
             \/ CallbackRead(r) \/ CallbackSpend(r) \/ Exchange(r) \/ CreateKey(r)
             \/ Revoke(r) \/ EraseCheck(r)
      PROVE  users' = users /\ links' = links
  BY <1>9 DEF GenerateKey, LoginCheck, LoginRead, LoginVerify, Forgot, FindAccount, IssueToken, RedeemCheck,
     RedeemRead, OauthLogin, CallbackRead, CallbackSpend, Exchange, CreateKey, Revoke, EraseCheck, tables
<1>10. ASSUME BootKey \/ Restart \/ Passes \/ UNCHANGED vars PROVE users' = users /\ links' = links
  BY <1>10 DEF BootKey, Restart, Passes, FailureExpires, CooldownEnds, TokenExpires, StateExpires,
     tables, vars
<1> QED
  BY <1>1, <1>3, <1>5, <1>6, <1>7, <1>8, <1>9, <1>10 DEF Next, Serve

\* PasswordlessLinked: an account that OAuth made is never without its link, however
\* callbacks of one identity or one address meet, and whatever fails.
THEOREM PasswordlessAreLinked == Spec => []PasswordlessLinked
<1>1. Init => PasswordlessLinked
  BY InitRows, RequestsAssumption DEF PasswordlessLinked
<1>2. TypeInv /\ PasswordlessLinked /\ [Next]_vars => PasswordlessLinked'
  BY LinkedStep
<1> QED  BY <1>1, <1>2, TypeCorrect, PTL DEF Spec

(***************************************************************************)
(* What a step does to the stage, the password and the reference of its    *)
(* request: all that logins in flight and spent tokens depend on.          *)
(***************************************************************************)
Turn(r, b, p, f) == req'[r].stage = b /\ req'[r].pw = p /\ req'[r].ref = f
\* The request keeps what it has.
Goes(r, b) == Turn(r, b, req[r].pw, req[r].ref)

LEMMA GoesIf ==
  ASSUME TypeInv, NEW r \in Requests, NEW s \in Stages,
         \/ Go(r, s)
         \/ \E u \in Ids \union {None} : req' = [req EXCEPT ![r].stage = s, ![r].user = u]
         \/ \E e \in Emails : req' = [req EXCEPT ![r].stage = s, ![r].email = e]
  PROVE  Goes(r, s)
<1>1. ASSUME NEW u \in Ids \union {None}, req' = [req EXCEPT ![r].stage = s, ![r].user = u] PROVE Goes(r, s)
  BY <1>1, Parts, StagedUser DEF Becomes, Goes, Turn
<1>2. ASSUME NEW e \in Emails, req' = [req EXCEPT ![r].stage = s, ![r].email = e] PROVE Goes(r, s)
  BY <1>2, Parts, StagedEmail DEF Becomes, Goes, Turn
<1>3. ASSUME Go(r, s) PROVE Goes(r, s)
  BY <1>3, Parts, Gone DEF Becomes, Goes, Turn
<1> QED  BY <1>1, <1>2, <1>3

LEMMA TurnIf ==
  ASSUME NEW r, NEW s, NEW u, NEW e, NEW p, NEW f, Becomes(r, s, u, e, p, f)
  PROVE  Turn(r, s, p, f)
BY DEF Becomes, Turn

Moves(r) ==
  \/ /\ req[r].stage = "idle"
     /\ \/ \E b \in {"ok", "no", "keying", "finding", "erasing"} : Goes(r, b)
        \/ \E p \in Passwords : LoginCheck(r) /\ Turn(r, "reading", p, req[r].ref)
        \/ \E p \in Passwords, t \in Ids : tokens[t] /= None /\ Turn(r, "redeeming", p, t)
        \/ \E b \in {"returning", "dropping"}, x \in Requests : Turn(r, b, req[r].pw, x)
  \/ req[r].stage = "keying" /\ Goes(r, "ok")
  \/ req[r].stage = "reading" /\ LoginRead(r) /\ Goes(r, "checking")
  \/ req[r].stage = "checking" /\ (Goes(r, "keying") \/ Goes(r, "no"))
  \/ req[r].stage = "finding" /\ (Goes(r, "ok") \/ Goes(r, "issuing"))
  \/ req[r].stage = "issuing" /\ Goes(r, "ok")
  \/ req[r].stage = "redeeming" /\ (Goes(r, "no") \/ (RedeemRead(r) /\ Goes(r, "resetting")))
  \/ req[r].stage = "resetting" /\ ResetWrite(r) /\ Goes(r, "ok")
  \/ req[r].stage \in {"returning", "dropping"} /\ (Goes(r, "exchanging") \/ Goes(r, "no"))
  \/ /\ req[r].stage = "exchanging"
     /\ \/ Goes(r, "no") \/ Goes(r, "keying")
        \/ \E i \in Identities : Turn(r, "linking", req[r].pw, i)
  \/ req[r].stage = "linking" /\ (Goes(r, "no") \/ Goes(r, "keying"))
  \/ req[r].stage = "erasing" /\ (Goes(r, "ok") \/ Goes(r, "no"))

LEMMA Moving ==
  ASSUME TypeInv, NEW r \in Requests, Serve(r), ~Upgrade(r)
  PROVE  Moves(r)
<1>0. /\ \A i \in Identities : links[i] /= None => links[i] \in Ids
      /\ \A k \in Ids : keys[k] /= None => keys[k].user \in Ids
      /\ \A t \in Ids : tokens[t] /= None => tokens[t].user \in Ids
      /\ r \in Ids /\ req[r].user \in Ids \union {None}
  BY Parts DEF Key, Token
<1>1. CASE Register(r)
  <2>1. Go(r, "no") \/ \E u \in Ids : req' = [req EXCEPT ![r].stage = "keying", ![r].user = u]
    BY <1>0, <1>1 DEF Register
  <2>2. Goes(r, "keying") \/ Goes(r, "no")
    BY <2>1, GoesIf, StageNames
  <2> QED  BY <1>1, <2>2 DEF Moves, Register, Starts
<1>2. CASE GenerateKey(r)
  <2>1. req[r].stage = "keying" /\ Goes(r, "ok")
    BY <1>2, GoesIf, StageNames DEF GenerateKey
  <2> QED  BY <2>1 DEF Moves
<1>3. CASE LoginCheck(r)
  <2>1. req[r].stage = "idle"
    BY <1>3 DEF LoginCheck, Starts
  <2>2. ASSUME NEW e \in Emails, NEW p \in Passwords,
               req' = [req EXCEPT ![r].stage = "reading", ![r].email = e, ![r].pw = p]
        PROVE  Turn(r, "reading", p, req[r].ref)
    <3>1. Becomes(r, "reading", req[r].user, e, p, req[r].ref)
      BY <2>2, Parts, StagedLogin, StageNames
    <3> QED  BY <3>1, TurnIf
  <2>3. Goes(r, "no") \/ \E p \in Passwords : Turn(r, "reading", p, req[r].ref)
    BY <1>3, <2>2, GoesIf, StageNames DEF LoginCheck
  <2> QED  BY <1>3, <2>1, <2>3 DEF Moves
<1>4. CASE LoginVerify(r)
  <2>1. req[r].stage = "checking" /\ (Goes(r, "keying") \/ Goes(r, "no"))
    BY <1>4, GoesIf, StageNames DEF LoginVerify
  <2> QED  BY <2>1 DEF Moves
<1>a. CASE LoginRead(r)
  <2>1. \E u \in Ids \union {None} : req' = [req EXCEPT ![r].stage = "checking", ![r].user = u]
    BY <1>a, HolderOf DEF LoginRead
  <2>2. Goes(r, "checking")
    BY <2>1, GoesIf, StageNames
  <2> QED  BY <1>a, <2>2 DEF Moves, LoginRead
<1>5. CASE Forgot(r)
  <2>1. req[r].stage = "idle" /\ (Goes(r, "finding") \/ Goes(r, "no"))
    BY <1>5, GoesIf, StageNames DEF Forgot, Starts
  <2> QED  BY <2>1 DEF Moves
<1>6. CASE FindAccount(r)
  <2>1. Holder(req[r].email) \subseteq Ids
    BY DEF Holder
  <2>2. req[r].stage = "finding" /\ (Goes(r, "ok") \/ Goes(r, "issuing"))
    BY <1>6, <2>1, GoesIf, StageNames DEF FindAccount
  <2> QED  BY <2>2 DEF Moves
<1>7. CASE IssueToken(r)
  <2>1. req[r].stage = "issuing" /\ Goes(r, "ok")
    BY <1>7, GoesIf, StageNames DEF IssueToken
  <2> QED  BY <2>1 DEF Moves
<1>8. CASE RedeemCheck(r)
  <2>1. req[r].stage = "idle"
    BY <1>8 DEF RedeemCheck, Starts
  <2>2. ASSUME NEW t \in Ids, NEW p \in Passwords,
               req' = [req EXCEPT ![r].stage = "redeeming", ![r].ref = t, ![r].pw = p]
        PROVE  Turn(r, "redeeming", p, t)
    <3>1. Becomes(r, "redeeming", req[r].user, req[r].email, p, t)
      BY <2>2, Parts, StagedReset, StageNames
    <3> QED  BY <3>1, TurnIf
  <2>3. Goes(r, "no") \/ \E p \in Passwords, t \in Ids : tokens[t] /= None /\ Turn(r, "redeeming", p, t)
    BY <1>8, <2>2, GoesIf, StageNames DEF RedeemCheck
  <2> QED  BY <2>1, <2>3 DEF Moves
<1>9. CASE RedeemRead(r)
  <2>1. CASE Redeemable(req[r].ref)
    <3>1. tokens[req[r].ref].user \in Ids
      BY <1>0, <1>9, <2>1, Parts DEF RedeemRead, Redeemable, Carries
    <3>2. Goes(r, "resetting")
      BY <1>9, <2>1, <3>1, GoesIf, StageNames DEF RedeemRead
    <3> QED  BY <1>9, <3>2 DEF Moves, RedeemRead
  <2>2. CASE ~Redeemable(req[r].ref)
    <3>1. Go(r, "no")
      BY <1>9, <2>2 DEF RedeemRead
    <3>2. Goes(r, "no")
      BY <3>1, GoesIf, StageNames
    <3>3. req[r].stage = "redeeming"
      BY <1>9 DEF RedeemRead
    <3> QED  BY <3>2, <3>3 DEF Moves
  <2> QED  BY <2>1, <2>2
<1>10. CASE ResetWrite(r)
  <2>1. req[r].stage = "resetting" /\ Goes(r, "ok")
    BY <1>10, GoesIf, StageNames DEF ResetWrite
  <2> QED  BY <1>10, <2>1 DEF Moves
<1>11. CASE OauthLogin(r) \/ CreateKey(r) \/ Revoke(r)
  <2>1. req[r].stage = "idle" /\ (Goes(r, "ok") \/ Goes(r, "no"))
    BY <1>11, GoesIf, StageNames DEF OauthLogin, CreateKey, Revoke, Starts
  <2> QED  BY <2>1 DEF Moves
<1>12. CASE CallbackRead(r)
  <2>1. ASSUME NEW x \in Requests, NEW s \in {"returning", "dropping"},
               req' = [req EXCEPT ![r].ref = x, ![r].stage = s]
        PROVE  Turn(r, s, req[r].pw, x)
    <3>1. x \in Ids
      BY DEF Ids
    <3> QED  BY <2>1, <3>1, Parts, StagedRef, StageNames DEF Becomes, Turn
  <2>2. \/ Go(r, "no")
        \/ \E x \in Requests, s \in {"returning", "dropping"} :
             req' = [req EXCEPT ![r].ref = x, ![r].stage = s]
    BY <1>12 DEF CallbackRead
  <2>3. \/ Goes(r, "no")
        \/ \E b \in {"returning", "dropping"}, x \in Requests : Turn(r, b, req[r].pw, x)
    BY <2>1, <2>2, GoesIf, StageNames
  <2> QED  BY <1>12, <2>3 DEF Moves, CallbackRead, Starts
<1>13. CASE CallbackSpend(r)
  <2>1. Go(r, "exchanging") \/ Go(r, "no")
    BY <1>13 DEF CallbackSpend
  <2>2. Goes(r, "exchanging") \/ Goes(r, "no")
    BY <2>1, GoesIf, StageNames
  <2> QED  BY <1>13, <2>2 DEF Moves, CallbackSpend
<1>14. CASE Exchange(r)
  <2>1. ASSUME NEW i \in Identities, NEW e \in Emails \union {None}, NEW u \in Ids \union {None},
               req' = [req EXCEPT ![r].stage = "linking", ![r].user = u, ![r].email = e, ![r].ref = i]
        PROVE  Turn(r, "linking", req[r].pw, i)
    <3>1. Becomes(r, "linking", u, e, req[r].pw, i)
      BY <2>1, Parts, StagedLink, StageNames
    <3> QED  BY <3>1, TurnIf
  <2>2. \A e \in Emails : Holder(e) \subseteq Ids
    BY DEF Holder
  <2>3. \/ Go(r, "no")
        \/ \E u \in Ids : req' = [req EXCEPT ![r].stage = "keying", ![r].user = u]
        \/ \E i \in Identities, e \in Emails \union {None}, u \in Ids \union {None} :
             req' = [req EXCEPT ![r].stage = "linking", ![r].user = u, ![r].email = e, ![r].ref = i]
    BY <1>0, <1>14, <2>2 DEF Exchange
  <2>4. \/ Goes(r, "no") \/ Goes(r, "keying")
        \/ \E i \in Identities : Turn(r, "linking", req[r].pw, i)
    BY <2>1, <2>3, GoesIf, StageNames
  <2> QED  BY <1>14, <2>4 DEF Moves, Exchange
<1>15. CASE Link(r)
  <2>1. Go(r, "no") \/ \E u \in Ids : req' = [req EXCEPT ![r].stage = "keying", ![r].user = u]
    BY <1>0, <1>15 DEF Link
  <2>2. Goes(r, "no") \/ Goes(r, "keying")
    BY <2>1, GoesIf, StageNames
  <2> QED  BY <1>15, <2>2 DEF Moves, Link
<1>16. CASE EraseCheck(r)
  <2>1. req[r].stage = "idle" /\ (Goes(r, "no") \/ Goes(r, "erasing"))
    BY <1>0, <1>16, GoesIf, StageNames DEF EraseCheck, Starts
  <2> QED  BY <2>1 DEF Moves
<1>17. CASE Erase(r)
  <2>1. req[r].stage = "erasing" /\ (Goes(r, "ok") \/ Goes(r, "no"))
    BY <1>17, GoesIf, StageNames DEF Erase
  <2> QED  BY <2>1 DEF Moves
<1> QED
  BY <1>1, <1>2, <1>3, <1>4, <1>5, <1>6, <1>7, <1>8, <1>9, <1>10, <1>11, <1>12, <1>13, <1>14,
     <1>15, <1>16, <1>17, <1>a DEF Serve

(***************************************************************************)
(* Passwords. Four facts carry NewPasswordStands: an account whose hash is *)
(* old was there before bcrypt, and has the password its owner chose; a    *)
(* login that is to upgrade a hash has the password its owner set last,    *)
(* unless the account was reset since it read the row; a login noted at a  *)
(* reset is still to upgrade, or has done so; and the id of a request that *)
(* has made no account yet is free.                                        *)
(***************************************************************************)
\* A step of a request moves that request only.
LEMMA OnlyOwn ==
  ASSUME TypeInv, NEW r \in Requests, Serve(r), NEW x \in Requests \ {r}
  PROVE  req'[x] = req[x] /\ seen'[x] = seen[x] /\ (x \in upgrades' <=> x \in upgrades)
<1>0. req \in [Requests -> Request] /\ seen \in [Requests -> Account \union {None}]
  BY Parts
<1>1. \/ Register(r) \/ GenerateKey(r) \/ LoginCheck(r) \/ LoginRead(r) \/ LoginVerify(r) \/ Upgrade(r)
      \/ Forgot(r) \/ FindAccount(r) \/ IssueToken(r)
      => req'[x] = req[x]
  BY <1>0 DEF Register, GenerateKey, LoginCheck, LoginRead, LoginVerify, Upgrade, Forgot, FindAccount,
     IssueToken, Go
<1>2. \/ RedeemCheck(r) \/ RedeemRead(r) \/ ResetWrite(r)
      \/ OauthLogin(r) \/ CallbackRead(r) \/ CallbackSpend(r) \/ Exchange(r) \/ Link(r)
      => req'[x] = req[x]
  BY <1>0 DEF RedeemCheck, RedeemRead, ResetWrite, OauthLogin, CallbackRead, CallbackSpend, Exchange, Link, Go
<1>3. CreateKey(r) \/ Revoke(r) \/ EraseCheck(r) \/ Erase(r) => req'[x] = req[x]
  BY <1>0 DEF CreateKey, Revoke, EraseCheck, Erase, Go
<1>4. LoginRead(r) \/ LoginVerify(r) \/ Upgrade(r)
      => seen'[x] = seen[x] /\ (x \in upgrades' <=> x \in upgrades)
  BY <1>0 DEF LoginRead, LoginVerify, Upgrade, memory, process
<1>5. Serve(r) /\ ~LoginRead(r) /\ ~LoginVerify(r) /\ ~Upgrade(r) => seen' = seen /\ upgrades' = upgrades
  BY DEF Serve, Register, GenerateKey, LoginCheck, Forgot, FindAccount, IssueToken, RedeemCheck,
     RedeemRead, ResetWrite, OauthLogin, CallbackRead, CallbackSpend, Exchange, Link, CreateKey,
     Revoke, EraseCheck, Erase, memory, process
<1> QED  BY <1>1, <1>2, <1>3, <1>4, <1>5 DEF Serve

Settled == {"keying", "ok", "no"}

\* A login that was to upgrade when u was last reset, and did.
Restored(u) == \E r \in raced \ Pending(u) : req[r].user = u /\ req[r].pw = users[u].pw

PwOf(u) == Exists(u) => /\ users[u].pw = chosen[u] \/ (u \in Old /\ Restored(u))
                        /\ users[u].legacy => u \in Old /\ users[u].pw = chosen[u]
UpOf(x) == Upgrading(x) => /\ req[x].user \in Old
                           /\ x \in raced \/ chosen[req[x].user] = req[x].pw
RacedOf(x) == x \in raced => Upgrading(x) \/ req[x].stage \in Settled
FreeOf(x) == req[x].stage \notin Settled => users[x] = None /\ chosen[x] = None
PwInv == /\ \A u \in Ids : PwOf(u)
         /\ \A x \in Requests : UpOf(x) /\ RacedOf(x) /\ FreeOf(x)

\* A request that is the login it was, as far as passwords go ...
Alike(x) == /\ req'[x].user = req[x].user /\ req'[x].pw = req[x].pw
            /\ Upgrading(x)' <=> Upgrading(x)
            /\ req[x].stage \in Settled => req'[x].stage \in Settled
\* ... and one that has read no row and made no account.
Outside(x) == req[x].stage \notin Settled \union {"checking"}

LEMMA OutsideIsNot ==
  ASSUME TypeInv, PwInv, NEW x \in Requests, Outside(x)
  PROVE  ~Upgrading(x) /\ x \notin raced /\ x \notin upgrades
<1>1. x \notin upgrades
  BY Parts DEF Carries, Outside, Settled
<1>2. ~Upgrading(x)
  BY <1>1 DEF Outside, Upgrading, Verified
<1> QED  BY <1>1, <1>2 DEF PwInv, RacedOf, Outside

\* A request whose step has led to no row is none that will upgrade.
LEMMA NotChecking ==
  ASSUME NEW x, x \notin upgrades', req'[x].stage /= "checking"
  PROVE  ~Upgrading(x)'
BY DEF Upgrading, Verified

LEMMA OthersAlike ==
  ASSUME TypeInv, NEW r \in Requests, Serve(r)
  PROVE  \A x \in Requests \ {r} : Alike(x)
<1> SUFFICES ASSUME NEW x \in Requests \ {r} PROVE Alike(x)
  OBVIOUS
<1>1. req'[x] = req[x] /\ seen'[x] = seen[x] /\ (x \in upgrades' <=> x \in upgrades)
  BY OnlyOwn
<1> QED  BY <1>1 DEF Alike, Upgrading, Verified

\* What was restored stays so, while the row does and nobody resets it.
LEMMA RestoredKept ==
  ASSUME TypeInv, PwInv, NEW u, Restored(u), users'[u].pw = users[u].pw,
         \A x \in raced : req[x].user = u => x \in raced',
         \A x \in Requests : Alike(x) \/ Outside(x)
  PROVE  Restored(u)'
<1>1. PICK x \in raced \ Pending(u) : req[x].user = u /\ req[x].pw = users[u].pw
  BY DEF Restored
<1>2. x \in Requests
  BY DEF TypeInv, TypeOK
<1>3. Alike(x)
  BY <1>1, <1>2, OutsideIsNot
<1>4. x \notin Pending(u)'
  BY <1>1, <1>2, <1>3 DEF Alike, Pending
<1>5. x \in raced' /\ req'[x].user = u /\ req'[x].pw = users'[u].pw
  BY <1>1, <1>3 DEF Alike
<1> QED  BY <1>4, <1>5 DEF Restored

\* The rows and the owners' choices stay.
LEMMA PwKept ==
  ASSUME TypeInv, PwInv, UNCHANGED <<users, chosen, raced>>,
         \A x \in Requests : Alike(x) \/ (Outside(x) /\ UpOf(x)')
  PROVE  PwInv'
<1>1. ASSUME NEW u \in Ids PROVE PwOf(u)'
  <2>1. Restored(u) => Restored(u)'
    BY RestoredKept
  <2> QED  BY <2>1 DEF PwInv, PwOf, Exists
<1>2. ASSUME NEW x \in Requests PROVE UpOf(x)' /\ RacedOf(x)' /\ FreeOf(x)'
  <2>1. CASE Alike(x)
    BY <2>1 DEF PwInv, UpOf, RacedOf, FreeOf, Alike
  <2>2. CASE Outside(x) /\ UpOf(x)'
    BY <2>2, OutsideIsNot DEF PwInv, RacedOf, FreeOf, Outside
  <2> QED  BY <2>1, <2>2
<1> QED  BY <1>1, <1>2 DEF PwInv

LEMMA PwQuietStep ==
  ASSUME TypeInv, PwInv, NEW r \in Requests,
         \/ LoginCheck(r) \/ Forgot(r) \/ FindAccount(r) \/ IssueToken(r)
         \/ RedeemCheck(r) \/ RedeemRead(r) \/ OauthLogin(r) \/ CallbackRead(r) \/ CallbackSpend(r)
         \/ Exchange(r) \/ CreateKey(r) \/ Revoke(r) \/ EraseCheck(r)
  PROVE  PwInv'
<1>0. Serve(r) /\ ~Upgrade(r)
  <2>1. req[r].stage \notin Settled
    BY DEF LoginCheck, Forgot, FindAccount, IssueToken, RedeemCheck, RedeemRead, OauthLogin,
       CallbackRead, CallbackSpend, Exchange, CreateKey, Revoke, EraseCheck, Starts, Settled
  <2> QED  BY <2>1, Parts DEF Serve, Upgrade, Carries, Settled
<1>1. Outside(r)
  BY DEF LoginCheck, Forgot, FindAccount, IssueToken, RedeemCheck, RedeemRead, OauthLogin,
     CallbackRead, CallbackSpend, Exchange, CreateKey, Revoke, EraseCheck, Starts, Settled, Outside
<1>2. UNCHANGED <<users, chosen, raced, upgrades>>
  BY DEF LoginCheck, Forgot, FindAccount, IssueToken, RedeemCheck, RedeemRead, OauthLogin,
     CallbackRead, CallbackSpend, Exchange, CreateKey, Revoke, EraseCheck, tables, memory, history
<1>3. r \notin upgrades'
  BY <1>1, <1>2, OutsideIsNot
<1>4. req'[r].stage /= "checking"
  BY <1>0, <1>1, Moving DEF Moves, Goes, Turn, Outside, LoginRead, LoginCheck, Forgot, FindAccount,
     IssueToken, RedeemCheck, RedeemRead, OauthLogin, CallbackRead, CallbackSpend, Exchange,
     CreateKey, Revoke, EraseCheck, Starts
<1>5. UpOf(r)'
  BY <1>3, <1>4, NotChecking DEF UpOf
<1> QED  BY <1>0, <1>1, <1>2, <1>5, OthersAlike, PwKept

\* A new account, of r or of somebody who is no request, with the password chosen for it.
LEMMA PwNew ==
  ASSUME TypeInv, PwInv, NEW v \in Ids \ Old, NEW e \in Emails \union {None},
         NEW p \in Passwords \union {None}, raced' = raced,
         users' = [users EXCEPT ![v] = [email |-> e, pw |-> p, legacy |-> FALSE]],
         chosen' = [chosen EXCEPT ![v] = p],
         \A x \in Requests : Alike(x) \/ (Outside(x) /\ UpOf(x)'),
         \A x \in Requests : x = v => req'[x].stage \in Settled
  PROVE  PwInv'
<1>1. users'[v].pw = p /\ users'[v].legacy = FALSE /\ chosen'[v] = p
  BY Parts DEF TypeInv, TypeOK
<1>2. \A u \in Ids \ {v} : users'[u] = users[u] /\ chosen'[u] = chosen[u]
  BY DEF TypeInv, TypeOK
<1>3. ASSUME NEW u \in Ids PROVE PwOf(u)'
  <2>1. CASE u = v
    BY <1>1, <2>1 DEF PwOf
  <2>2. CASE u /= v
    <3>1. Restored(u) => Restored(u)'
      BY <1>2, <2>2, RestoredKept
    <3> QED  BY <1>2, <2>2, <3>1 DEF PwInv, PwOf, Exists
  <2> QED  BY <2>1, <2>2
<1>4. ASSUME NEW x \in Requests PROVE UpOf(x)' /\ RacedOf(x)' /\ FreeOf(x)'
  <2>1. x \in Ids
    BY DEF Ids
  <2>2. FreeOf(x)'
    <3>1. CASE x = v
      BY <3>1 DEF FreeOf
    <3>2. CASE x /= v
      BY <1>2, <2>1, <3>2 DEF PwInv, FreeOf, Alike, Outside
    <3> QED  BY <3>1, <3>2
  <2>3. CASE Alike(x)
    <3>1. UpOf(x)'
      <4> SUFFICES ASSUME Upgrading(x) PROVE UpOf(x)'
        BY <2>3 DEF Alike, UpOf
      <4>1. req[x].user \in Old /\ (x \in raced \/ chosen[req[x].user] = req[x].pw)
        BY DEF PwInv, UpOf
      <4>2. chosen'[req[x].user] = chosen[req[x].user]
        BY <1>2, <4>1 DEF Ids
      <4> QED  BY <2>3, <4>1, <4>2 DEF Alike, UpOf
    <3>2. RacedOf(x)'
      BY <2>3 DEF PwInv, RacedOf, Alike
    <3> QED  BY <2>2, <3>1, <3>2
  <2>4. CASE Outside(x) /\ UpOf(x)'
    BY <2>2, <2>4, OutsideIsNot DEF RacedOf
  <2> QED  BY <2>3, <2>4
<1> QED  BY <1>3, <1>4 DEF PwInv

LEMMA PwRegister ==
  ASSUME TypeInv, PwInv, NEW r \in Requests, Register(r)
  PROVE  PwInv'
<1>1. req[r].stage = "idle" /\ UNCHANGED <<upgrades, raced>> /\ Serve(r)
  BY DEF Register, Starts, memory, Serve
<1>2. Outside(r) /\ r \notin upgrades'
  BY <1>1, OutsideIsNot DEF Outside, Settled
<1>3. CASE Go(r, "no") /\ UNCHANGED <<users, chosen>>
  <2>1. req'[r].stage = "no"
    BY <1>3, Parts, Gone, StageNames DEF Becomes
  <2>2. UpOf(r)'
    BY <1>2, <2>1, NotChecking DEF UpOf
  <2> QED  BY <1>1, <1>2, <1>3, <2>2, OthersAlike, PwKept
<1>4. ASSUME NEW e \in Emails, NEW p \in Passwords,
             users' = [users EXCEPT ![r] = [email |-> e, pw |-> p, legacy |-> FALSE]],
             chosen' = [chosen EXCEPT ![r] = p],
             req' = [req EXCEPT ![r].stage = "keying", ![r].user = r]
      PROVE  PwInv'
  <2>1. req'[r].stage = "keying"
    BY <1>4, Parts, StagedUser, StageNames DEF Becomes
  <2>2. UpOf(r)'
    BY <1>2, <2>1, NotChecking DEF UpOf
  <2>3. r \in Ids \ Old
    BY RequestsAssumption DEF Ids
  <2>4. \A x \in Requests : Alike(x) \/ (Outside(x) /\ UpOf(x)')
    BY <1>1, <1>2, <2>2, OthersAlike
  <2>5. \A x \in Requests : x = r => req'[x].stage \in Settled
    BY <2>1 DEF Settled
  <2> QED  BY <1>1, <1>4, <2>3, <2>4, <2>5, PwNew
<1> QED  BY <1>3, <1>4 DEF Register

LEMMA PwGenerateKey ==
  ASSUME TypeInv, PwInv, NEW r \in Requests, GenerateKey(r)
  PROVE  PwInv'
<1>1. UNCHANGED <<users, chosen, raced, upgrades, seen>> /\ req[r].stage = "keying" /\ Serve(r)
  BY DEF GenerateKey, memory, process, history, Serve
<1>2. Becomes(r, "ok", req[r].user, req[r].email, req[r].pw, req[r].ref)
  BY Parts, Gone, StageNames DEF GenerateKey
<1>3. Alike(r)
  BY <1>1, <1>2 DEF Alike, Becomes, Upgrading, Verified, Settled
<1> QED  BY <1>1, <1>3, OthersAlike, PwKept

\* The row that a login reads: if it is an old one, its password is the owner's.
LEMMA PwLoginRead ==
  ASSUME TypeInv, PwInv, NEW r \in Requests, LoginRead(r)
  PROVE  PwInv'
<1>1. /\ req[r].stage = "reading" /\ UNCHANGED <<users, chosen, raced, upgrades>> /\ Serve(r)
  BY DEF LoginRead, tables, memory, history, Serve
<1>2. Outside(r) /\ r \notin upgrades'
  BY <1>1, OutsideIsNot DEF Outside, Settled
<1>3. PICK u \in IF Holder(req[r].email) /= {} THEN Holder(req[r].email) ELSE {None} :
        /\ req' = [req EXCEPT ![r].stage = "checking", ![r].user = u]
        /\ seen' = [seen EXCEPT ![r] = IF u = None THEN None ELSE users[u]]
  BY DEF LoginRead
<1>4. u \in Ids \union {None} /\ (u /= None => u \in Ids /\ Exists(u))
  BY HolderOf
<1>5. Becomes(r, "checking", u, req[r].email, req[r].pw, req[r].ref)
  BY <1>3, <1>4, Parts, StagedUser, StageNames
<1>6. UpOf(r)'
  <2> SUFFICES ASSUME Upgrading(r)'
               PROVE  u \in Old /\ chosen[u] = req[r].pw
    BY <1>1, <1>5 DEF UpOf, Becomes
  <2>1. u /= None /\ Opens(seen'[r], req[r].pw) /\ NeedsUpgrade(seen'[r])
    BY <1>2, <1>5 DEF Upgrading, Verified, Becomes
  <2>2. seen'[r] = users[u]
    BY <1>3, <2>1, Parts
  <2>3. users[u].pw = req[r].pw /\ users[u].legacy
    BY <2>1, <2>2 DEF Opens, NeedsUpgrade
  <2> QED  BY <1>4, <2>1, <2>3 DEF PwInv, PwOf
<1> QED  BY <1>1, <1>2, <1>6, OthersAlike, PwKept

\* A login that is to upgrade is still to do so when it was verified, and no other is.
LEMMA PwLoginVerify ==
  ASSUME TypeInv, PwInv, NEW r \in Requests, LoginVerify(r)
  PROVE  PwInv'
<1>1. req[r].stage = "checking" /\ UNCHANGED <<users, chosen, raced>> /\ Serve(r)
  BY DEF LoginVerify, tables, history, Serve
<1>2. r \notin upgrades
  BY <1>1, Parts DEF Carries
<1>3. CASE Verified(r)
  <2>1. Go(r, "keying") /\ upgrades' = IF NeedsUpgrade(seen[r]) THEN upgrades \union {r} ELSE upgrades
    BY <1>3 DEF LoginVerify
  <2>2. Becomes(r, "keying", req[r].user, req[r].email, req[r].pw, req[r].ref)
    BY <2>1, Parts, Gone, StageNames
  <2>3. Upgrading(r)' <=> Upgrading(r)
    BY <1>2, <1>3, <2>1, <2>2 DEF Upgrading, Verified, Becomes
  <2>4. Alike(r)
    BY <1>1, <2>2, <2>3 DEF Alike, Becomes, Settled
  <2> QED  BY <1>1, <2>4, OthersAlike, PwKept
<1>4. CASE ~Verified(r)
  <2>1. Go(r, "no") /\ upgrades' = upgrades
    BY <1>4 DEF LoginVerify
  <2>2. Becomes(r, "no", req[r].user, req[r].email, req[r].pw, req[r].ref)
    BY <2>1, Parts, Gone, StageNames
  <2>3. ~Upgrading(r) /\ ~Upgrading(r)'
    BY <1>2, <1>4, <2>1, <2>2 DEF Upgrading, Verified, Becomes
  <2>4. Alike(r)
    BY <1>1, <2>2, <2>3 DEF Alike, Becomes, Settled
  <2> QED  BY <1>1, <2>4, OthersAlike, PwKept
<1> QED  BY <1>3, <1>4

\* What the account holds after its password was written.
LEMMA Rehashed ==
  ASSUME TypeInv, NEW u \in Ids, NEW p \in Passwords,
         users' = IF Exists(u) THEN [users EXCEPT ![u].pw = p, ![u].legacy = FALSE] ELSE users
  PROVE  /\ \A v \in Ids \ {u} : users'[v] = users[v]
         /\ Exists(u) => users'[u].pw = p /\ users'[u].legacy = FALSE
         /\ ~Exists(u) => users' = users
         /\ \A v \in Ids : Exists(v)' <=> Exists(v)
<1>1. users \in [Ids -> Account \union {None}] /\ users' \in [Ids -> Account \union {None}]
  BY NewPassword DEF TypeInv, TypeOK
<1>2. ASSUME Exists(u)
      PROVE  /\ users'[u].pw = p /\ users'[u].legacy = FALSE /\ users'[u] /= None
             /\ \A v \in Ids \ {u} : users'[v] = users[v]
  <2>1. users[u] \in Account
    BY <1>1, <1>2 DEF Exists
  <2>2. users' = [users EXCEPT ![u] = [users[u] EXCEPT !.pw = p, !.legacy = FALSE]]
    BY <1>1, <1>2
  <2>3. [users[u] EXCEPT !.pw = p, !.legacy = FALSE] \in Account
    BY <2>1 DEF Account
  <2>4. users'[u] = [users[u] EXCEPT !.pw = p, !.legacy = FALSE]
    BY <1>1, <2>2
  <2>5. users'[u] /= None
    BY <2>3, <2>4, NoneIsNoRow
  <2> QED  BY <1>1, <2>1, <2>2, <2>4, <2>5 DEF Account
<1> QED  BY <1>1, <1>2 DEF Exists

LEMMA PwUpgrade ==
  ASSUME TypeInv, PwInv, NEW r \in Requests, Upgrade(r)
  PROVE  PwInv'
<1> DEFINE u == req[r].user
<1>1. /\ r \in upgrades /\ upgrades' = upgrades \ {r}
      /\ UNCHANGED <<req, seen, chosen, raced>> /\ Serve(r)
  BY DEF Upgrade, process, history, Serve
<1>2. /\ u \in Ids /\ req[r].pw \in Passwords /\ req[r].stage \in Settled
      /\ u \in Old /\ (r \in raced \/ chosen[u] = req[r].pw)
  BY <1>1, Parts DEF Carries, PwInv, UpOf, Upgrading, Settled
<1>3. /\ \A v \in Ids \ {u} : users'[v] = users[v]
      /\ Exists(u) => users'[u].pw = req[r].pw /\ users'[u].legacy = FALSE
      /\ ~Exists(u) => users' = users
      /\ \A v \in Ids : Exists(v)' <=> Exists(v)
  BY <1>2, Rehashed DEF Upgrade
<1>4. \A x \in Requests \ {r} : Alike(x)
  BY <1>1, OthersAlike
<1>5. ~Upgrading(r)'
  BY <1>1, <1>2 DEF Upgrading, Verified, Settled
<1>6. ASSUME r \in raced, Exists(u) PROVE Restored(u)'
  <2>1. r \notin Pending(u)'
    BY <1>5 DEF Pending
  <2> QED  BY <1>1, <1>3, <1>6, <2>1 DEF Restored
<1>7. ASSUME NEW v \in Ids PROVE PwOf(v)'
  <2>1. CASE v = u
    BY <1>1, <1>2, <1>3, <1>6, <2>1 DEF PwOf
  <2>2. CASE v /= u
    <3>1. ASSUME Restored(v) PROVE Restored(v)'
      <4>1. PICK x \in raced \ Pending(v) : req[x].user = v /\ req[x].pw = users[v].pw
        BY <3>1 DEF Restored
      <4>2. x \in Requests \ {r}
        BY <2>2, <4>1 DEF TypeInv, TypeOK
      <4>3. x \notin Pending(v)'
        BY <1>4, <4>1, <4>2 DEF Alike, Pending
      <4> QED  BY <1>1, <1>3, <2>2, <4>1, <4>3 DEF Restored
    <3> QED  BY <1>1, <1>3, <2>2, <3>1 DEF PwInv, PwOf
  <2> QED  BY <2>1, <2>2
<1>8. \A x \in Requests : UpOf(x)'
  BY <1>1, <1>4, <1>5 DEF PwInv, UpOf, Alike
<1>9. \A x \in Requests : RacedOf(x)'
  BY <1>1, <1>2, <1>4 DEF PwInv, RacedOf, Alike
<1>10. \A x \in Requests : FreeOf(x)'
  BY <1>1, <1>3 DEF PwInv, FreeOf, Exists, Ids
<1> QED  BY <1>7, <1>8, <1>9, <1>10 DEF PwInv

LEMMA PwResetWrite ==
  ASSUME TypeInv, PwInv, NEW r \in Requests, ResetWrite(r)
  PROVE  PwInv'
<1> DEFINE u == req[r].user
<1>1. req[r].stage = "resetting" /\ upgrades' = upgrades /\ raced' = RacedBy(u) /\ Serve(r)
  BY DEF ResetWrite, memory, Serve
<1>2. u \in Ids /\ req[r].pw \in Passwords
  BY <1>1, Parts DEF Carries
<1>a. Outside(r) /\ r \notin upgrades' /\ r \notin raced /\ ~Upgrading(r)
  BY <1>1, OutsideIsNot DEF Outside, Settled
<1>b. /\ \A x \in raced : req[x].user /= u => x \in raced'
      /\ \A x \in Requests : Upgrading(x) /\ req[x].user = u => x \in raced'
      /\ \A x \in raced' : x \in raced \/ (x \in Requests /\ Upgrading(x))
  BY <1>1 DEF RacedBy, Pending
<1>c. /\ \A v \in Ids \ {u} : chosen'[v] = chosen[v]
      /\ Exists(u) => chosen'[u] = req[r].pw
      /\ ~Exists(u) => chosen' = chosen
  <2>1. chosen' = IF Exists(u) THEN [chosen EXCEPT ![u] = req[r].pw] ELSE chosen
    BY DEF ResetWrite
  <2>2. chosen \in [Ids -> Passwords \union {None}]
    BY Parts
  <2> QED  BY <1>2, <2>1, <2>2
<1>d. users' = IF Exists(u) THEN [users EXCEPT ![u].pw = req[r].pw, ![u].legacy = FALSE] ELSE users
  BY DEF ResetWrite
<1>3. /\ \A v \in Ids \ {u} : users'[v] = users[v]
      /\ Exists(u) => users'[u].pw = req[r].pw /\ users'[u].legacy = FALSE
      /\ ~Exists(u) => users' = users
      /\ \A v \in Ids : Exists(v)' <=> Exists(v)
  BY <1>2, <1>d, Rehashed
<1>4. \A x \in Requests \ {r} : Alike(x)
  BY <1>1, OthersAlike
<1>5. Becomes(r, "ok", u, req[r].email, req[r].pw, req[r].ref)
  BY Parts, Gone, StageNames DEF ResetWrite
<1>6. ~Upgrading(r)'
  BY <1>a, <1>5, NotChecking DEF Becomes
<1>7. ASSUME NEW v \in Ids PROVE PwOf(v)'
  <2>1. CASE v = u
    BY <1>3, <1>c, <2>1 DEF PwOf
  <2>2. CASE v /= u
    <3>1. Restored(v) => Restored(v)'
      BY <1>3, <1>4, <1>a, <1>b, <2>2, RestoredKept
    <3> QED  BY <1>3, <1>c, <2>2, <3>1 DEF PwInv, PwOf
  <2> QED  BY <2>1, <2>2
<1>8. ASSUME NEW x \in Requests PROVE UpOf(x)'
  <2> SUFFICES ASSUME Upgrading(x)' PROVE UpOf(x)'
    BY DEF UpOf
  <2>1. x /= r /\ Alike(x) /\ Upgrading(x)
    BY <1>4, <1>6 DEF Alike
  <2>2. req[x].user \in Old /\ (x \in raced \/ chosen[req[x].user] = req[x].pw)
    BY <2>1 DEF PwInv, UpOf
  <2>3. CASE req[x].user = u
    BY <1>b, <2>1, <2>2, <2>3 DEF UpOf, Alike
  <2>4. CASE req[x].user /= u
    <3>1. chosen'[req[x].user] = chosen[req[x].user]
      BY <1>c, <2>2, <2>4 DEF Ids
    <3> QED  BY <1>b, <2>1, <2>2, <2>4, <3>1 DEF UpOf, Alike
  <2> QED  BY <2>3, <2>4
<1>9. ASSUME NEW x \in Requests PROVE RacedOf(x)'
  <2>1. CASE x = r
    BY <1>5, <2>1 DEF RacedOf, Becomes, Settled
  <2>2. CASE x /= r
    BY <1>4, <1>b, <2>2 DEF PwInv, RacedOf, Alike
  <2> QED  BY <2>1, <2>2
<1>10. \A x \in Requests : FreeOf(x)'
  <2> SUFFICES ASSUME NEW x \in Requests, x /= r, req[x].stage \notin Settled
               PROVE  users'[x] = None /\ chosen'[x] = None
    BY <1>1, <1>5, OnlyOwn DEF FreeOf, Becomes, Settled
  <2>1. x \in Ids /\ ~Exists(x) /\ users[x] = None /\ chosen[x] = None
    BY DEF PwInv, FreeOf, Exists, Ids
  <2> QED  BY <1>3, <1>c, <2>1
<1> QED  BY <1>7, <1>8, <1>9, <1>10 DEF PwInv

LEMMA PwLink ==
  ASSUME TypeInv, PwInv, NEW r \in Requests, Link(r)
  PROVE  PwInv'
<1>1. req[r].stage = "linking" /\ UNCHANGED <<chosen, raced, upgrades>> /\ Serve(r)
  BY DEF Link, memory, history, Serve
<1>2. Outside(r) /\ r \notin upgrades'
  BY <1>1, OutsideIsNot DEF Outside, Settled
<1>3. req'[r].stage \in {"keying", "no"}
  <2>1. Go(r, "no") \/ \E u \in Ids : req' = [req EXCEPT ![r].stage = "keying", ![r].user = u]
    BY Parts DEF Link
  <2> QED  BY <2>1, Parts, Gone, StagedUser, StageNames DEF Becomes
<1>4. UpOf(r)'
  BY <1>2, <1>3, NotChecking DEF UpOf
<1>5. \A x \in Requests : Alike(x) \/ (Outside(x) /\ UpOf(x)')
  BY <1>1, <1>2, <1>4, OthersAlike
<1>6. CASE users' = users
  BY <1>1, <1>5, <1>6, PwKept
<1>7. CASE users' = [users EXCEPT ![r] = [email |-> req[r].email, pw |-> None, legacy |-> FALSE]]
  <2>1. r \in Ids \ Old /\ req[r].email \in Emails \union {None}
    BY Parts, RequestsAssumption
  <2>2. chosen[r] = None
    BY <1>1 DEF PwInv, FreeOf, Settled
  <2>3. chosen' = [chosen EXCEPT ![r] = None]
    BY <1>1, <2>1, <2>2, Parts
  <2>4. \A x \in Requests : x = r => req'[x].stage \in Settled
    BY <1>3 DEF Settled
  <2> QED  BY <1>1, <1>5, <1>7, <2>1, <2>3, <2>4, PwNew
<1> QED  BY <1>6, <1>7 DEF Link, Inserted

LEMMA PwErase ==
  ASSUME TypeInv, PwInv, NEW r \in Requests, Erase(r)
  PROVE  PwInv'
<1>1. req[r].stage = "erasing" /\ UNCHANGED <<chosen, raced, upgrades>> /\ Serve(r)
  BY DEF Erase, memory, Serve
<1>2. Outside(r) /\ r \notin upgrades'
  BY <1>1, OutsideIsNot DEF Outside, Settled
<1>3. \A u \in Ids : users'[u] = users[u] \/ users'[u] = None
  BY Parts DEF Erase
<1>4. UpOf(r)'
  <2>1. req'[r].stage /= "checking"
    BY Parts, Gone, StageNames DEF Erase, Becomes
  <2> QED  BY <1>2, <2>1, NotChecking DEF UpOf
<1>5. \A x \in Requests : Alike(x) \/ (Outside(x) /\ UpOf(x)')
  BY <1>1, <1>2, <1>4, OthersAlike
<1>6. ASSUME NEW u \in Ids PROVE PwOf(u)'
  <2>1. CASE users'[u] = users[u]
    <3>1. Restored(u) => Restored(u)'
      BY <1>1, <1>5, <2>1, RestoredKept
    <3> QED  BY <1>1, <2>1, <3>1 DEF PwInv, PwOf, Exists
  <2>2. CASE users'[u] = None
    BY <2>2 DEF PwOf, Exists
  <2> QED  BY <1>3, <2>1, <2>2
<1>7. ASSUME NEW x \in Requests PROVE UpOf(x)' /\ RacedOf(x)' /\ FreeOf(x)'
  <2>1. CASE Alike(x)
    BY <1>1, <1>3, <2>1 DEF PwInv, UpOf, RacedOf, FreeOf, Alike, Ids
  <2>2. CASE Outside(x) /\ UpOf(x)'
    BY <1>1, <1>3, <2>2, OutsideIsNot DEF PwInv, RacedOf, FreeOf, Outside, Ids
  <2> QED  BY <1>5, <2>1, <2>2
<1> QED  BY <1>6, <1>7 DEF PwInv

LEMMA PwSurroundings ==
  ASSUME TypeInv, PwInv, Boot \/ BootKey \/ Restart \/ Passes \/ UNCHANGED vars
  PROVE  PwInv'
<1>1. CASE Boot
  <2>1. UNCHANGED <<req, seen, upgrades, raced>>
    BY <1>1 DEF Boot, memory
  <2>2. \A x \in Requests : Alike(x)
    BY <2>1 DEF Alike, Upgrading, Verified
  <2>3. CASE UNCHANGED <<users, chosen>>
    BY <2>1, <2>2, <2>3, PwKept
  <2>4. ASSUME NEW e \in Emails, NEW p \in Passwords,
               users' = [users EXCEPT ![Admin] = [email |-> e, pw |-> p, legacy |-> FALSE]],
               chosen' = [chosen EXCEPT ![Admin] = p]
        PROVE  PwInv'
    <3>1. Admin \in Ids \ Old /\ Admin \notin Requests
      BY RequestsAssumption DEF Ids
    <3> QED  BY <2>1, <2>2, <2>4, <3>1, PwNew
  <2> QED  BY <1>1, <2>3, <2>4 DEF Boot
<1>2. CASE Restart
  <2>1. upgrades' = {} /\ UNCHANGED <<users, chosen, raced>>
    BY <1>2 DEF Restart, tables, history
  <2>2. ASSUME NEW x \in Requests
        PROVE  /\ ~Upgrading(x)' /\ req'[x].user = req[x].user /\ req'[x].pw = req[x].pw
               /\ req[x].stage \in Settled \union {"checking"} => req'[x].stage \in Settled
               /\ req'[x].stage \notin Settled => req[x].stage \notin Settled
    BY <1>2, <2>1, Restarted DEF Settled, Upgrading, Verified
  <2>3. ASSUME NEW u \in Ids, Restored(u) PROVE Restored(u)'
    <3>1. PICK x \in raced \ Pending(u) : req[x].user = u /\ req[x].pw = users[u].pw
      BY <2>3 DEF Restored
    <3>2. x \in Requests
      BY DEF TypeInv, TypeOK
    <3>3. x \notin Pending(u)'
      BY <2>2, <3>2 DEF Pending
    <3> QED  BY <2>1, <2>2, <3>1, <3>2, <3>3 DEF Restored
  <2>4. \A u \in Ids : PwOf(u)'
    BY <2>1, <2>3 DEF PwInv, PwOf, Exists
  <2>5. ASSUME NEW x \in Requests PROVE UpOf(x)' /\ RacedOf(x)' /\ FreeOf(x)'
    <3>1. x \in raced => req[x].stage \in Settled \union {"checking"}
      BY Parts DEF PwInv, RacedOf, Upgrading, Verified, Carries, Settled
    <3> QED  BY <2>1, <2>2, <3>1 DEF PwInv, UpOf, RacedOf, FreeOf
  <2> QED  BY <2>4, <2>5 DEF PwInv
<1>3. CASE BootKey \/ Passes \/ UNCHANGED vars
  <2>1. UNCHANGED <<users, chosen, raced, req, seen, upgrades>>
    BY <1>3 DEF BootKey, Passes, FailureExpires, CooldownEnds, TokenExpires, StateExpires,
       vars, tables, memory, process, history
  <2>2. \A x \in Requests : Alike(x)
    BY <2>1 DEF Alike, Upgrading, Verified
  <2> QED  BY <2>1, <2>2, PwKept
<1> QED  BY <1>1, <1>2, <1>3

LEMMA PwStep ==
  ASSUME TypeInv, PwInv, [Next]_vars
  PROVE  PwInv'
BY PwQuietStep, PwRegister, PwGenerateKey, PwLoginRead, PwLoginVerify, PwUpgrade, PwResetWrite, PwLink,
   PwErase, PwSurroundings DEF Next, Serve

\* NewPasswordStands: only a login that had read an old row when the password was
\* reset can bring its own back, however logins, resets and deletions meet.
THEOREM PasswordsStand == Spec => []NewPasswordStands
<1>1. Init => PwInv
  <2> SUFFICES ASSUME Init PROVE PwInv
    OBVIOUS
  <2>1. \A x \in Requests : /\ x \notin upgrades /\ x \notin Old /\ x \in Ids
                            /\ req[x].stage = "idle" /\ x \notin raced
    BY RequestsAssumption DEF Init, Ids, Idle
  <2>2. \A u \in Ids : PwOf(u)
    BY InitRows DEF PwOf
  <2>3. \A x \in Requests : UpOf(x) /\ RacedOf(x) /\ FreeOf(x)
    BY <2>1, InitRows DEF UpOf, RacedOf, FreeOf, Exists, Upgrading, Verified
  <2> QED  BY <2>2, <2>3 DEF PwInv
<1>2. TypeInv /\ PwInv /\ [Next]_vars => PwInv'
  BY PwStep
<1>3. PwInv => NewPasswordStands
  BY DEF PwInv, PwOf, Restored, NewPasswordStands
<1> QED  BY <1>1, <1>2, <1>3, TypeCorrect, PTL DEF Spec

(***************************************************************************)
(* Orphans. What keeps them rare is that a request never writes for an     *)
(* account it has not read: each row, and each request about to write one, *)
(* has an account that is here, or was cut while somebody had read it.     *)
(***************************************************************************)
Here(u) == Exists(u) \/ u \in cut
Writing == {"keying", "issuing", "linking"}

KeyOwned(k)      == keys[k] /= None => Here(keys[k].user)
TokenOwned(t)    == tokens[t] /= None => Here(tokens[t].user)
LinkOwned(i)     == links[i] /= None => Here(links[i])
Writes(x)        == req[x].stage \in Writing \/ Verified(x)
WriterOwned(x)   == Writes(x) /\ req[x].user /= None => Here(req[x].user)
BootOwned        == phase = "bootkey" => Here(Admin)
OwnedInv == /\ \A k \in Ids : KeyOwned(k) /\ TokenOwned(k)
            /\ \A i \in Identities : LinkOwned(i)
            /\ \A x \in Requests : WriterOwned(x)
            /\ BootOwned

\* No account goes but by Erase.
LEMMA AccountsStay ==
  ASSUME TypeInv, [Next]_vars, \A x \in Requests : ~Erase(x), NEW u \in Ids, Here(u)
  PROVE  Here(u)'
<1>0. /\ users \in [Ids -> Account \union {None}] /\ Admin \in Ids
      /\ \A x \in Requests : x \in Ids /\ req[x].email \in Emails \union {None}
  BY Parts DEF TypeInv, TypeOK, Ids
<1>1. CASE users' = users /\ cut \subseteq cut'
  BY <1>1 DEF Here, Exists
<1>2. ASSUME cut' = cut, NEW v \in Ids, NEW row \in Account, users' = [users EXCEPT ![v] = row]
      PROVE  Here(u)'
  BY <1>0, <1>2, NoneIsNoRow DEF Here, Exists
<1>3. ASSUME NEW v \in Ids, NEW e \in Emails \union {None}, NEW p \in Passwords \union {None}
      PROVE  [email |-> e, pw |-> p, legacy |-> FALSE] \in Account
  BY DEF Account
<1>4. ASSUME NEW x \in Requests, Register(x) PROVE Here(u)'
  <2>1. cut' = cut
    BY <1>4 DEF Register
  <2>2. \/ users' = users
        \/ \E e \in Emails, p \in Passwords :
             users' = [users EXCEPT ![x] = [email |-> e, pw |-> p, legacy |-> FALSE]]
    BY <1>4 DEF Register
  <2> QED  BY <1>0, <1>1, <1>2, <1>3, <2>1, <2>2
<1>5. ASSUME NEW x \in Requests, Upgrade(x) \/ ResetWrite(x) PROVE Here(u)'
  <2>1. req[x].user \in Ids /\ req[x].pw \in Passwords /\ cut' = cut
    BY <1>5, Parts DEF Upgrade, ResetWrite, Carries, history
  <2>2. \A v \in Ids : Exists(v)' <=> Exists(v)
    <3>1. users' = IF Exists(req[x].user)
                     THEN [users EXCEPT ![req[x].user].pw = req[x].pw, ![req[x].user].legacy = FALSE]
                     ELSE users
      BY <1>5 DEF Upgrade, ResetWrite
    <3> QED  BY <2>1, <3>1, Rehashed
  <2> QED  BY <2>1, <2>2 DEF Here
<1>6. ASSUME NEW x \in Requests, Link(x) PROVE Here(u)'
  <2>1. cut' = cut
    BY <1>6 DEF Link, history
  <2>2. \/ users' = users
        \/ users' = [users EXCEPT ![x] = [email |-> req[x].email, pw |-> None, legacy |-> FALSE]]
    BY <1>6 DEF Link, Inserted
  <2> QED  BY <1>0, <1>1, <1>2, <1>3, <2>1, <2>2
<1>7. CASE Boot
  <2>1. cut' = cut
    BY <1>7 DEF Boot
  <2>2. \/ users' = users
        \/ \E e \in Emails, p \in Passwords :
             users' = [users EXCEPT ![Admin] = [email |-> e, pw |-> p, legacy |-> FALSE]]
    BY <1>7 DEF Boot
  <2> QED  BY <1>0, <1>1, <1>2, <1>3, <2>1, <2>2
<1>8. ASSUME NEW r \in Requests,
             \/ GenerateKey(r) \/ LoginCheck(r) \/ LoginRead(r) \/ LoginVerify(r) \/ Forgot(r) \/ FindAccount(r)
             \/ IssueToken(r) \/ RedeemCheck(r) \/ RedeemRead(r) \/ OauthLogin(r)
             \/ CallbackRead(r) \/ CallbackSpend(r) \/ Exchange(r) \/ CreateKey(r)
             \/ Revoke(r) \/ EraseCheck(r)
      PROVE  Here(u)'
  <2>1. users' = users
    BY <1>8 DEF GenerateKey, LoginCheck, LoginRead, LoginVerify, Forgot, FindAccount, IssueToken, RedeemCheck,
     RedeemRead, OauthLogin, CallbackRead, CallbackSpend, Exchange, CreateKey, Revoke, EraseCheck, tables
  <2>2. cut \subseteq cut'
    BY <1>8 DEF GenerateKey, LoginCheck, LoginRead, LoginVerify, Forgot, FindAccount, IssueToken, RedeemCheck,
     RedeemRead, OauthLogin, CallbackRead, CallbackSpend, Exchange, CreateKey, Revoke, EraseCheck, history
  <2> QED  BY <1>1, <2>1, <2>2
<1>9. CASE BootKey \/ Restart \/ Passes \/ UNCHANGED vars
  <2>1. users' = users /\ cut' = cut
    BY <1>9 DEF BootKey, Restart, Passes, FailureExpires, CooldownEnds, TokenExpires, StateExpires,
       tables, history, vars
  <2> QED  BY <1>1, <2>1
<1> QED
  BY <1>4, <1>5, <1>6, <1>7, <1>8, <1>9 DEF Next, Serve

\* Row k, if there is one, was there before for the same account.
Keeps(f, g, k) == g[k] /= None => f[k] /= None /\ g[k].user = f[k].user

\* A request that is where it was, with the row it has read.
Still(x) == req'[x] = req[x] /\ seen'[x] = seen[x]

\* Rows, and requests, that are as before or belong to somebody who is here.
LEMMA OwnedKept ==
  ASSUME TypeInv, OwnedInv, \A u \in Ids : Here(u) => Here(u)',
         \A k \in Ids : Keeps(keys, keys', k) \/ KeyOwned(k)',
         \A k \in Ids : Keeps(tokens, tokens', k) \/ TokenOwned(k)',
         \A i \in Identities : links'[i] = links[i] \/ LinkOwned(i)',
         \A x \in Requests : Still(x) \/ WriterOwned(x)',
         phase' = phase \/ BootOwned'
  PROVE  OwnedInv'
<1>1. /\ \A k \in Ids : keys[k] /= None => keys[k].user \in Ids
      /\ \A k \in Ids : tokens[k] /= None => tokens[k].user \in Ids
  BY DEF TypeInv, TypeOK, Key, Token
<1>2. /\ \A i \in Identities : links[i] /= None => links[i] \in Ids
      /\ \A x \in Requests : req[x].user \in Ids \union {None}
      /\ Admin \in Ids
  BY Parts DEF TypeInv, TypeOK, Ids
<1>3. \A k \in Ids : KeyOwned(k)'
  BY <1>1 DEF OwnedInv, KeyOwned, Keeps
<1>4. \A k \in Ids : TokenOwned(k)'
  BY <1>1 DEF OwnedInv, TokenOwned, Keeps
<1>5. \A i \in Identities : LinkOwned(i)'
  BY <1>2 DEF OwnedInv, LinkOwned
<1>6. \A x \in Requests : WriterOwned(x)'
  BY <1>2 DEF OwnedInv, WriterOwned, Writes, Verified, Still
<1>7. BootOwned'
  BY <1>2 DEF OwnedInv, BootOwned
<1> QED  BY <1>3, <1>4, <1>5, <1>6, <1>7 DEF OwnedInv

\* The steps of a request that write no row and read no account.
LEMMA OwnedQuiet ==
  ASSUME TypeInv, OwnedInv, NEW r \in Requests, [Next]_vars,
         \/ LoginCheck(r) \/ Forgot(r) \/ RedeemCheck(r) \/ RedeemRead(r) \/ OauthLogin(r)
         \/ CallbackRead(r) \/ CallbackSpend(r) \/ EraseCheck(r) \/ Upgrade(r)
  PROVE  OwnedInv'
<1>1. \A u \in Ids : Here(u) => Here(u)'
  <2>1. UNCHANGED cut
    BY DEF LoginCheck, Forgot, RedeemCheck, RedeemRead, OauthLogin, CallbackRead, CallbackSpend,
       EraseCheck, Upgrade, history
  <2>2. CASE Upgrade(r)
    <3>1. req[r].user \in Ids /\ req[r].pw \in Passwords
      BY <2>2, Parts DEF Upgrade, Carries
    <3>2. \A v \in Ids : Exists(v)' <=> Exists(v)
      BY <2>2, <3>1, Rehashed DEF Upgrade
    <3> QED  BY <2>1, <3>2 DEF Here
  <2>3. CASE ~Upgrade(r)
    <3>1. users' = users
      BY <2>3 DEF LoginCheck, Forgot, RedeemCheck, RedeemRead, OauthLogin, CallbackRead, CallbackSpend,
         EraseCheck, tables
    <3> QED  BY <2>1, <3>1 DEF Here, Exists
  <2> QED  BY <2>2, <2>3
<1>2. UNCHANGED <<keys, tokens, links, phase, seen>>
  BY DEF LoginCheck, Forgot, RedeemCheck, RedeemRead, OauthLogin, CallbackRead, CallbackSpend,
     EraseCheck, Upgrade, tables, process
<1>3. \A x \in Requests \ {r} : Still(x)
  BY OnlyOwn DEF Serve, Still
<1>4. req'[r] = req[r] \/ req'[r].stage \notin Writing \union {"checking"}
  <2>0. req \in [Requests -> Request] /\ req[r] \in Request
    BY Parts
  <2>1. CASE \E s \in {"ok", "no", "exchanging"} : Go(r, s)
    BY <2>0, <2>1 DEF Go, Writing, Request
  <2>2. CASE req' = req
    BY <2>2
  <2>3. ASSUME NEW s \in {"reading", "finding", "redeeming", "resetting", "returning", "dropping", "erasing"},
               req'[r].stage = s
        PROVE  req'[r].stage \notin Writing \union {"checking"}
    BY <2>3 DEF Writing
  <2>4. CASE LoginCheck(r) \/ Forgot(r)
    <3>1. Go(r, "no") \/ req'[r].stage \in {"reading", "finding"}
      BY <2>0, <2>4 DEF LoginCheck, Forgot, Request
    <3> QED  BY <2>1, <2>3, <3>1
  <2>5. CASE RedeemCheck(r) \/ RedeemRead(r) \/ EraseCheck(r)
    <3>1. RedeemCheck(r) => Go(r, "no") \/ req'[r].stage = "redeeming"
      <4>1. ASSUME NEW t \in Ids, NEW p \in Passwords,
                   req' = [req EXCEPT ![r].stage = "redeeming", ![r].ref = t, ![r].pw = p]
            PROVE  req'[r].stage = "redeeming"
        BY <4>1, Parts, StagedReset, StageNames DEF Becomes
      <4> QED  BY <4>1 DEF RedeemCheck
    <3>2. RedeemRead(r) => Go(r, "no") \/ req'[r].stage = "resetting"
      BY <2>0 DEF RedeemRead, Request
    <3>3. EraseCheck(r) => Go(r, "no") \/ req'[r].stage = "erasing"
      BY <2>0 DEF EraseCheck, Request
    <3> QED  BY <2>1, <2>3, <2>5, <3>1, <3>2, <3>3
  <2>6. CASE OauthLogin(r) \/ CallbackRead(r) \/ CallbackSpend(r)
    <3>1. \/ \E s \in {"ok", "no", "exchanging"} : Go(r, s)
          \/ req'[r].stage \in {"returning", "dropping"}
      BY <2>0, <2>6 DEF OauthLogin, CallbackRead, CallbackSpend, Request
    <3> QED  BY <2>1, <2>3, <3>1
  <2> QED  BY <2>2, <2>4, <2>5, <2>6 DEF Upgrade
<1>5. \A x \in Requests : Still(x) \/ WriterOwned(x)'
  BY <1>2, <1>3, <1>4 DEF WriterOwned, Writes, Verified, Still
<1> QED  BY <1>1, <1>2, <1>5, OwnedKept DEF Keeps

\* A registration, and the steps that read an account that is there.
LEMMA OwnedReads ==
  ASSUME TypeInv, OwnedInv, NEW r \in Requests, \A u \in Ids : Here(u) => Here(u)',
         Register(r) \/ LoginRead(r) \/ LoginVerify(r) \/ FindAccount(r) \/ Exchange(r)
  PROVE  OwnedInv'
<1>1. UNCHANGED <<keys, tokens, links, phase>>
  BY DEF Register, LoginRead, LoginVerify, FindAccount, Exchange, tables, process
<1>2. \A x \in Requests \ {r} : Still(x)
  BY OnlyOwn DEF Serve, Still
<1>3. CASE Go(r, "no") \/ Go(r, "ok")
  <2>1. req'[r].stage \notin Writing \union {"checking"}
    BY <1>3, Parts, Gone, StageNames DEF Becomes, Writing
  <2> QED  BY <1>1, <1>2, <2>1, OwnedKept DEF WriterOwned, Writes, Verified, Keeps
<1>4. ASSUME NEW u \in Ids \union {None}, req'[r].user = u, u /= None => Here(u)' PROVE OwnedInv'
  BY <1>1, <1>2, <1>4, OwnedKept DEF WriterOwned, Keeps
<1>5. CASE Register(r)
  <2>1. ASSUME NEW e \in Emails, NEW p \in Passwords,
               users' = [users EXCEPT ![r] = [email |-> e, pw |-> p, legacy |-> FALSE]],
               req' = [req EXCEPT ![r].stage = "keying", ![r].user = r]
        PROVE  OwnedInv'
    <3>1. [email |-> e, pw |-> p, legacy |-> FALSE] \in Account
      BY DEF Account
    <3>2. Here(r)'
      BY <2>1, <3>1, Parts, NoneIsNoRow DEF Here, Exists
    <3>3. req'[r].user = r /\ r \in Ids
      BY <2>1, Parts
    <3> QED  BY <1>4, <3>2, <3>3
  <2> QED  BY <1>3, <1>5, <2>1 DEF Register
<1>6. CASE LoginRead(r)
  <2>1. PICK u \in IF Holder(req[r].email) /= {} THEN Holder(req[r].email) ELSE {None} :
          req' = [req EXCEPT ![r].stage = "checking", ![r].user = u]
    BY <1>6 DEF LoginRead
  <2>2. u \in Ids \union {None} /\ (u /= None => Here(u)')
    BY HolderOf DEF Here
  <2>3. req'[r].user = u
    BY <2>1, Parts
  <2> QED  BY <1>4, <2>2, <2>3
<1>a. CASE LoginVerify(r)
  <2>1. CASE Go(r, "no")
    BY <1>3, <2>1
  <2>2. CASE Verified(r) /\ Go(r, "keying")
    <3>1. PICK u \in Ids : u = req[r].user
      BY <2>2, Parts DEF Verified
    <3>2. Here(u)'
      BY <2>2, <3>1 DEF OwnedInv, WriterOwned, Writes, Verified
    <3>3. req'[r].user = u
      BY <2>2, <3>1, Parts, Gone, StageNames DEF Becomes
    <3> QED  BY <1>4, <3>2, <3>3
  <2> QED  BY <1>a, <2>1, <2>2 DEF LoginVerify
<1>7. CASE FindAccount(r)
  <2>1. ASSUME NEW u \in Holder(req[r].email),
               req' = [req EXCEPT ![r].stage = "issuing", ![r].user = u]
        PROVE  OwnedInv'
    <3>1. u \in Ids /\ Here(u)
      BY <2>1 DEF Holder, Here
    <3>2. req'[r].user = u
      BY <2>1, Parts
    <3> QED  BY <1>4, <3>1, <3>2
  <2> QED  BY <1>3, <1>7, <2>1 DEF FindAccount
<1>8. CASE Exchange(r)
  <2>1. ASSUME NEW i \in Identities, links[i] /= None,
               req' = [req EXCEPT ![r].stage = "keying", ![r].user = links[i]]
        PROVE  OwnedInv'
    <3>1. links[i] \in Ids /\ Here(links[i])
      BY <2>1, Parts DEF OwnedInv, LinkOwned
    <3>2. req'[r].user = links[i]
      BY <2>1, Parts
    <3> QED  BY <1>4, <3>1, <3>2
  <2>2. ASSUME NEW i \in Identities, NEW e \in Emails \union {None},
               NEW u \in IF e /= None /\ Holder(e) /= {} THEN Holder(e) ELSE {None},
               req' = [req EXCEPT ![r].stage = "linking", ![r].user = u, ![r].email = e, ![r].ref = i]
        PROVE  OwnedInv'
    <3>1. u \in Ids \union {None} /\ (u /= None => Here(u))
      BY <2>2 DEF Holder, Here
    <3>2. req'[r].user = u
      BY <2>2, Parts
    <3> QED  BY <1>4, <3>1, <3>2
  <2> QED  BY <1>3, <1>8, <2>1, <2>2 DEF Exchange
<1> QED  BY <1>5, <1>6, <1>7, <1>8, <1>a

\* The steps that write a row of an account they have read.
LEMMA OwnedWrites ==
  ASSUME TypeInv, OwnedInv, NEW r \in Requests, \A u \in Ids : Here(u) => Here(u)',
         GenerateKey(r) \/ IssueToken(r) \/ ResetWrite(r) \/ Link(r) \/ CreateKey(r) \/ Revoke(r)
  PROVE  OwnedInv'
<1>0. /\ phase' = phase
      /\ r \in Ids /\ keys \in [Ids -> Key \union {None}] /\ tokens \in [Ids -> Token \union {None}]
      /\ \A k \in Ids : tokens[k] /= None => tokens[k].user \in Ids
      /\ \A k \in Ids : keys[k] /= None => keys[k].user \in Ids
  BY Parts DEF GenerateKey, IssueToken, ResetWrite, Link, CreateKey, Revoke, process, Key, Token
<1>1. \A x \in Requests \ {r} : Still(x)
  BY OnlyOwn DEF Serve, Still
<1>2. ASSUME Go(r, "no") \/ Go(r, "ok") PROVE \A x \in Requests : Still(x) \/ WriterOwned(x)'
  <2>1. req'[r].stage \notin Writing \union {"checking"}
    BY <1>2, Parts, Gone, StageNames DEF Becomes, Writing
  <2> QED  BY <1>1, <2>1 DEF WriterOwned, Writes, Verified
<1>3. ASSUME req[r].stage \in Writing, NEW u \in Ids, req[r].user = u PROVE Here(u)'
  BY <1>3, RequestsAssumption DEF OwnedInv, WriterOwned, Writes
<1>4. CASE GenerateKey(r)
  <2>1. req[r].stage = "keying" /\ req[r].user \in Ids /\ req[r].user /= None
    BY <1>4, Parts, RequestsAssumption DEF GenerateKey, Carries
  <2>2. keys'[r].user = req[r].user /\ \A k \in Ids \ {r} : keys'[k] = keys[k]
    BY <1>0, <1>4 DEF GenerateKey
  <2>3. KeyOwned(r)'
    <3>1. PICK u \in Ids : u = req[r].user
      BY <2>1
    <3>2. Here(u)'
      BY <1>3, <2>1, <3>1 DEF Writing
    <3> QED  BY <2>2, <3>1, <3>2 DEF KeyOwned
  <2>4. Go(r, "ok") /\ UNCHANGED <<tokens, links>>
    BY <1>4 DEF GenerateKey
  <2> QED  BY <1>0, <1>2, <2>2, <2>3, <2>4, OwnedKept DEF Keeps
<1>5. CASE IssueToken(r)
  <2>1. req[r].stage = "issuing" /\ req[r].user \in Ids /\ req[r].user /= None
    BY <1>5, Parts, RequestsAssumption DEF IssueToken, Carries
  <2>2. tokens'[r] = [user |-> req[r].user, used |-> FALSE, expired |-> FALSE]
    BY <1>0, <1>5 DEF IssueToken
  <2>3. TokenOwned(r)'
    <3>1. PICK u \in Ids : u = req[r].user
      BY <2>1
    <3>2. Here(u)'
      BY <1>3, <2>1, <3>1 DEF Writing
    <3> QED  BY <2>2, <3>1, <3>2 DEF TokenOwned
  <2>4. ASSUME NEW t \in Ids \ {r} PROVE Keeps(tokens, tokens', t)
    <3>1. tokens'[t] = IF t \in TokensOf(req[r].user) THEN [tokens[t] EXCEPT !.used = TRUE] ELSE tokens[t]
      BY <1>5 DEF IssueToken
    <3>2. tokens[t] /= None => tokens[t] \in Token
      BY <1>0
    <3> QED  BY <3>1, <3>2 DEF Keeps, TokensOf, Token
  <2>5. Go(r, "ok") /\ UNCHANGED <<keys, links>>
    BY <1>5 DEF IssueToken
  <2> QED  BY <1>0, <1>2, <2>3, <2>4, <2>5, OwnedKept DEF Keeps
<1>6. CASE ResetWrite(r)
  <2>1. ASSUME NEW t \in Ids PROVE Keeps(tokens, tokens', t)
    <3>1. req[r].ref \in Ids
      BY <1>6, Parts DEF ResetWrite, Carries
    <3>2. tokens'[t] = tokens[t] \/ (tokens[t] /= None /\ tokens'[t] = [tokens[t] EXCEPT !.used = TRUE])
      BY <1>0, <1>6, <3>1 DEF ResetWrite
    <3>3. tokens[t] /= None => tokens[t] \in Token
      BY <1>0
    <3> QED  BY <3>2, <3>3 DEF Keeps, Token
  <2>2. Go(r, "ok") /\ UNCHANGED <<keys, links>>
    BY <1>6 DEF ResetWrite
  <2> QED  BY <1>0, <1>2, <2>1, <2>2, OwnedKept DEF Keeps
<1>7. CASE Link(r)
  <2>1. UNCHANGED <<keys, tokens>>
    BY <1>7 DEF Link
  <2>2. CASE Go(r, "no") /\ UNCHANGED links
    BY <1>0, <1>2, <2>1, <2>2, OwnedKept DEF Keeps
  <2>3. ASSUME NEW u \in Ids, Here(u)', links' = [links EXCEPT ![req[r].ref] = u],
               req' = [req EXCEPT ![r].stage = "keying", ![r].user = u]
        PROVE  OwnedInv'
    <3>1. \A i \in Identities : links'[i] = links[i] \/ LinkOwned(i)'
      BY <2>3, Parts DEF LinkOwned
    <3>2. req'[r].user = u
      BY <2>3, Parts
    <3>3. \A x \in Requests : Still(x) \/ WriterOwned(x)'
      BY <1>1, <2>3, <3>2 DEF WriterOwned
    <3> QED  BY <1>0, <2>1, <3>1, <3>3, OwnedKept DEF Keeps
  <2>4. CASE req[r].user = None /\ users' = Inserted(r)
    <3>1. users' = [users EXCEPT ![r] = [email |-> req[r].email, pw |-> None, legacy |-> FALSE]]
      BY <2>4 DEF Inserted
    <3>2. [email |-> req[r].email, pw |-> None, legacy |-> FALSE] \in Account
      BY Parts DEF Account
    <3>3. Here(r)'
      BY <3>1, <3>2, Parts, NoneIsNoRow DEF Here, Exists
    <3> QED  BY <1>0, <1>7, <2>2, <2>3, <2>4, <3>3 DEF Link
  <2>5. CASE req[r].user /= None
    <3>1. PICK u \in Ids : u = req[r].user
      BY <2>5, Parts
    <3>2. Here(u)'
      BY <1>3, <1>7, <3>1 DEF Link, Writing
    <3> QED  BY <1>7, <2>2, <2>3, <2>5, <3>1, <3>2 DEF Link
  <2> QED  BY <1>7, <2>2, <2>4, <2>5 DEF Link
<1>8. CASE CreateKey(r)
  <2>1. PICK u \in Ids : /\ keys' = [keys EXCEPT ![r] = [user |-> u, active |-> TRUE]]
                         /\ cut' = IF Exists(u) THEN cut ELSE cut \union {u}
    BY <1>8 DEF CreateKey
  <2>2. Here(u)'
    BY <1>8, <2>1 DEF CreateKey, Here, Exists
  <2>3. keys'[r].user = u /\ \A k \in Ids \ {r} : keys'[k] = keys[k]
    BY <1>0, <2>1
  <2>4. Go(r, "ok") /\ UNCHANGED <<tokens, links>>
    BY <1>8 DEF CreateKey
  <2>5. KeyOwned(r)'
    BY <2>2, <2>3 DEF KeyOwned
  <2> QED  BY <1>0, <1>2, <2>3, <2>4, <2>5, OwnedKept DEF Keeps
<1>9. CASE Revoke(r)
  <2>1. ASSUME NEW k \in Ids PROVE Keeps(keys, keys', k)
    <3>1. keys'[k] = keys[k] \/ (keys[k] /= None /\ keys'[k] = [keys[k] EXCEPT !.active = FALSE])
      BY <1>9 DEF Revoke
    <3>2. keys[k] /= None => keys[k] \in Key
      BY <1>0
    <3> QED  BY <3>1, <3>2 DEF Keeps, Key
  <2>2. (Go(r, "no") \/ Go(r, "ok")) /\ UNCHANGED <<tokens, links>>
    BY <1>9 DEF Revoke
  <2> QED  BY <1>0, <1>2, <2>1, <2>2, OwnedKept DEF Keeps
<1> QED  BY <1>4, <1>5, <1>6, <1>7, <1>8, <1>9

\* The deletion of an account takes its rows with it, and notes who had read it.
LEMMA OwnedErase ==
  ASSUME TypeInv, OwnedInv, NEW r \in Requests, Erase(r)
  PROVE  OwnedInv'
<1> DEFINE u == req[r].user
<1>0. /\ phase = "up" /\ phase' = phase /\ seen' = seen /\ req[r].stage = "erasing"
      /\ users \in [Ids -> Account \union {None}]
      /\ \A k \in Ids : keys[k] /= None => keys[k].user \in Ids
      /\ \A k \in Ids : tokens[k] /= None => tokens[k].user \in Ids
      /\ \A i \in Identities : links[i] /= None => links[i] \in Ids
      /\ \A x \in Requests : req[x].user \in Ids \union {None}
  BY Parts DEF Erase, process, TypeInv, TypeOK, Key, Token
<1>1. \A x \in Requests \ {r} : req'[x] = req[x]
  BY OnlyOwn DEF Serve
<1>2. req'[r].stage \notin Writing \union {"checking"}
  <2>1. Go(r, "ok") \/ Go(r, "no")
    BY DEF Erase
  <2> QED  BY <2>1, Parts, Gone, StageNames DEF Becomes, Writing
<1>3. CASE UNCHANGED <<users, keys, tokens, links, cut>>
  BY <1>0, <1>1, <1>2, <1>3 DEF OwnedInv, KeyOwned, TokenOwned, LinkOwned, WriterOwned, Writes, Verified, BootOwned, Here, Exists
<1>4. ASSUME users' = [users EXCEPT ![u] = None],
             keys' = [k \in Ids |-> IF keys[k] /= None /\ keys[k].user = u THEN None ELSE keys[k]],
             tokens' = [t \in Ids |-> IF t \in TokensOf(u) THEN None ELSE tokens[t]],
             links' = [i \in Identities |-> IF links[i] = u THEN None ELSE links[i]],
             cut' = IF Writers(u) = {} THEN cut ELSE cut \union {u}
      PROVE  OwnedInv'
  <2>1. \A v \in Ids : v /= u /\ Here(v) => Here(v)'
    BY <1>0, <1>4 DEF Here, Exists
  <2>2. \A k \in Ids : KeyOwned(k)'
    BY <1>0, <1>4, <2>1 DEF OwnedInv, KeyOwned
  <2>3. \A t \in Ids : TokenOwned(t)'
    BY <1>0, <1>4, <2>1 DEF OwnedInv, TokenOwned, TokensOf
  <2>4. \A i \in Identities : LinkOwned(i)'
    BY <1>0, <1>4, <2>1 DEF OwnedInv, LinkOwned
  <2>5. ASSUME NEW x \in Requests PROVE WriterOwned(x)'
    <3>1. CASE x = r
      BY <1>2, <3>1 DEF WriterOwned, Writes, Verified
    <3>2. CASE x /= r /\ req[x].user = u /\ Writes(x)
      <4>1. x \in Writers(u)
        BY <3>2 DEF Writers, Writes, Writing
      <4>2. u \in cut'
        BY <1>4, <4>1
      <4> QED  BY <1>1, <3>2, <4>2 DEF WriterOwned, Here
    <3>3. CASE x /= r /\ ~(req[x].user = u /\ Writes(x))
      BY <1>0, <1>1, <2>1, <3>3 DEF OwnedInv, WriterOwned, Writes, Verified
    <3> QED  BY <3>1, <3>2, <3>3
  <2>6. BootOwned'
    BY <1>0 DEF BootOwned
  <2> QED  BY <2>2, <2>3, <2>4, <2>5, <2>6 DEF OwnedInv
<1> QED  BY <1>3, <1>4 DEF Erase

LEMMA OwnedSurroundings ==
  ASSUME TypeInv, OwnedInv, Boot \/ BootKey \/ Restart \/ Passes \/ UNCHANGED vars,
         \A u \in Ids : Here(u) => Here(u)'
  PROVE  OwnedInv'
<1>0. /\ Admin \in Ids /\ keys \in [Ids -> Key \union {None}] /\ tokens \in [Ids -> Token \union {None}]
      /\ users \in [Ids -> Account \union {None}]
  BY DEF TypeInv, TypeOK, Ids
<1>1. CASE Boot
  <2>1. UNCHANGED <<keys, tokens, links, req, seen>>
    BY <1>1 DEF Boot
  <2>2. phase' /= "bootkey" \/ Here(Admin)'
    <3>1. ASSUME NEW e \in Emails, NEW p \in Passwords,
                 users' = [users EXCEPT ![Admin] = [email |-> e, pw |-> p, legacy |-> FALSE]]
          PROVE  Here(Admin)'
      <4>1. [email |-> e, pw |-> p, legacy |-> FALSE] \in Account
        BY DEF Account
      <4> QED  BY <1>0, <3>1, <4>1, NoneIsNoRow DEF Here, Exists
    <3> QED  BY <1>1, <3>1 DEF Boot
  <2> QED  BY <2>1, <2>2, OwnedKept DEF BootOwned, Keeps, Still
<1>2. CASE BootKey
  <2>1. keys'[Admin].user = Admin /\ \A k \in Ids \ {Admin} : keys'[k] = keys[k]
    BY <1>0, <1>2 DEF BootKey
  <2>2. Here(Admin)'
    BY <1>0, <1>2 DEF BootKey, OwnedInv, BootOwned
  <2>3. KeyOwned(Admin)'
    BY <2>1, <2>2 DEF KeyOwned
  <2>4. UNCHANGED <<tokens, links, req, seen>> /\ BootOwned'
    BY <1>2 DEF BootKey, BootOwned
  <2> QED  BY <2>1, <2>3, <2>4, OwnedKept DEF Keeps, Still
<1>3. CASE Restart
  <2>1. UNCHANGED <<keys, tokens, links>> /\ BootOwned'
    BY <1>3 DEF Restart, tables, BootOwned
  <2>2. \A x \in Requests : req'[x].user = req[x].user /\ (req'[x].stage = req[x].stage \/ req'[x].stage = "no")
    BY <1>3, Restarted
  <2>3. \A x \in Requests : WriterOwned(x)'
    <3> SUFFICES ASSUME NEW x \in Requests, NEW u \in Ids, Writes(x)',
                        req'[x].user = u, u /= None
                 PROVE  Here(u)'
      BY <2>2, Parts DEF WriterOwned
    <3>0. req'[x].stage /= "checking"
      BY <1>3, Restarted
    <3>1. req[x].stage \in Writing /\ req[x].user = u
      BY <2>2, <3>0 DEF Writing, Writes, Verified
    <3> QED  BY <3>1 DEF OwnedInv, WriterOwned, Writes
  <2> QED  BY <2>1, <2>3, OwnedKept DEF Keeps, Still
<1>4. ASSUME NEW t \in Ids, TokenExpires(t) PROVE OwnedInv'
  <2>1. tokens[t] \in Token
    BY <1>0, <1>4 DEF TokenExpires
  <2>2. tokens' = [tokens EXCEPT ![t].expired = TRUE] /\ UNCHANGED <<keys, links, req, seen, phase>>
    BY <1>4 DEF TokenExpires, process
  <2>3. ASSUME NEW k \in Ids PROVE Keeps(tokens, tokens', k)
    <3>1. tokens'[k] = IF k = t THEN [tokens[t] EXCEPT !.expired = TRUE] ELSE tokens[k]
      BY <1>0, <2>2
    <3>2. [tokens[t] EXCEPT !.expired = TRUE].user = tokens[t].user /\ tokens[t] /= None
      BY <1>4, <2>1 DEF Token, TokenExpires
    <3> QED  BY <3>1, <3>2 DEF Keeps
  <2> QED  BY <2>2, <2>3, OwnedKept DEF Keeps, Still
<1>5. CASE \/ \E e \in Emails : FailureExpires(e) \/ CooldownEnds(e)
           \/ \E x \in Requests : StateExpires(x)
           \/ UNCHANGED vars
  <2>1. UNCHANGED <<keys, tokens, links, req, seen, phase>>
    BY <1>5 DEF FailureExpires, CooldownEnds, StateExpires, vars, tables, process
  <2> QED  BY <2>1, OwnedKept DEF Keeps, Still
<1> QED  BY <1>1, <1>2, <1>3, <1>4, <1>5 DEF Passes

LEMMA OwnedStep ==
  ASSUME TypeInv, OwnedInv, [Next]_vars
  PROVE  OwnedInv'
<1>1. CASE \E r \in Requests : Erase(r)
  BY <1>1, OwnedErase
<1>2. CASE \A r \in Requests : ~Erase(r)
  <2>1. \A u \in Ids : Here(u) => Here(u)'
    BY <1>2, AccountsStay
  <2>2. ASSUME NEW r \in Requests, Serve(r) PROVE OwnedInv'
    BY <1>2, <2>1, <2>2, OwnedQuiet, OwnedReads, OwnedWrites DEF Serve
  <2> QED  BY <2>1, <2>2, OwnedSurroundings DEF Next
<1> QED  BY <1>1, <1>2

\* OrphansOnlyIfOverlapping: a key, a token or a link outlives its account only if
\* a request had read the account before it went, or was asked to make a key for it.
THEOREM OrphansOverlap == Spec => []OrphansOnlyIfOverlapping
<1>1. Init => OwnedInv
  <2> SUFFICES ASSUME Init PROVE OwnedInv
    OBVIOUS
  <2>1. \A x \in Requests : req[x].stage = "idle"
    BY DEF Init, Idle
  <2>2. \A k \in Ids : KeyOwned(k) /\ TokenOwned(k)
    BY InitRows DEF KeyOwned, TokenOwned, Here
  <2>3. \A i \in Identities : LinkOwned(i)
    BY DEF Init, LinkOwned
  <2>4. (\A x \in Requests : WriterOwned(x)) /\ BootOwned
    BY <2>1 DEF Init, WriterOwned, Writes, Verified, Writing, BootOwned
  <2> QED  BY <2>2, <2>3, <2>4 DEF OwnedInv
<1>2. TypeInv /\ OwnedInv /\ [Next]_vars => OwnedInv'
  BY OwnedStep
<1>3. TypeInv /\ OwnedInv => OrphansOnlyIfOverlapping
  <2> SUFFICES ASSUME OwnedInv, NEW u \in Ids, ~Exists(u), u \notin cut
               PROVE  /\ \A k \in Ids : ~(keys[k] /= None /\ keys[k].user = u)
                      /\ TokensOf(u) = {}
                      /\ \A i \in Identities : links[i] /= u
    BY DEF OrphansOnlyIfOverlapping
  <2>1. u /= None /\ ~Here(u)
    BY RequestsAssumption DEF Here
  <2> QED  BY <2>1 DEF OwnedInv, KeyOwned, TokenOwned, LinkOwned, TokensOf
<1> QED  BY <1>1, <1>2, <1>3, TypeCorrect, PTL DEF Spec

(***************************************************************************)
(* The lockout. Failures and logins in flight together never exceed the    *)
(* limit by as much as the logins that were once in flight.                *)
(***************************************************************************)
Trying    == {"reading", "checking"}
Inside(e) == Cardinality(Reading(e))
LockInv == \A e \in Emails : /\ Inside(e) <= overlap[e]
                             /\ fails[e] + Inside(e) <= MaxLoginAttempts - 1 + overlap[e]

LEMMA Counts ==
  ASSUME TypeInv, NEW e \in Emails
  PROVE  /\ IsFiniteSet(Reading(e)) /\ Inside(e) \in Nat /\ fails[e] \in Nat /\ overlap[e] \in Nat
         /\ MaxLoginAttempts \in Nat
BY RequestsAssumption, BoundsAssumption, FS_Subset, FS_CardinalityType DEF Reading, Inside, TypeInv, TypeOK

\* Nobody new is in flight, and no failure was added.
LEMMA LockKept ==
  ASSUME TypeInv, TypeInv', LockInv, overlap' = overlap,
         \A e \in Emails : fails'[e] <= fails[e],
         \A x \in Requests : req'[x].stage \in Trying =>
           req[x].stage \in Trying /\ req'[x].email = req[x].email
  PROVE  LockInv'
<1> SUFFICES ASSUME NEW e \in Emails
             PROVE  /\ Inside(e)' <= overlap'[e]
                    /\ fails'[e] + Inside(e)' <= MaxLoginAttempts - 1 + overlap'[e]
  BY DEF LockInv
<1>1. Reading(e)' \subseteq Reading(e)
  BY DEF Reading, Trying
<1>2. Inside(e)' <= Inside(e)
  BY <1>1, Counts, FS_Subset DEF Inside
<1>3. Inside(e)' \in Nat /\ fails'[e] \in Nat
  BY RequestsAssumption, FS_Subset, FS_CardinalityType DEF Reading, Inside, TypeInv, TypeOK
<1> QED  BY <1>2, <1>3, Counts DEF LockInv

LEMMA LockLoginCheck ==
  ASSUME TypeInv, TypeInv', LockInv, NEW r \in Requests, LoginCheck(r)
  PROVE  LockInv'
<1>1. fails' = fails /\ req[r].stage = "idle"
  BY DEF LoginCheck, Starts, memory
<1>2. \A x \in Requests \ {r} : req'[x] = req[x]
  BY OnlyOwn DEF Serve
<1>3. CASE Go(r, "no") /\ UNCHANGED overlap
  <2>1. req'[r].stage = "no"
    BY <1>3, Parts, Gone, StageNames DEF Becomes
  <2>2. \A e \in Emails : fails'[e] <= fails[e]
    BY <1>1, Counts
  <2> QED  BY <1>2, <1>3, <2>1, <2>2, LockKept DEF Trying
<1>4. ASSUME NEW e \in Emails, NEW p \in Passwords, ~(fails[e] >= MaxLoginAttempts),
             req' = [req EXCEPT ![r].stage = "reading", ![r].email = e, ![r].pw = p],
             overlap' = [overlap EXCEPT ![e] = LET n == Cardinality(Reading(e)) + 1 IN
                                               IF n > @ THEN n ELSE @]
      PROVE  LockInv'
  <2>1. Becomes(r, "reading", req[r].user, e, p, req[r].ref)
    BY <1>4, Parts, StagedLogin, StageNames
  <2>2. Reading(e)' = Reading(e) \union {r} /\ r \notin Reading(e)
    BY <1>1, <1>2, <2>1 DEF Reading, Becomes
  <2>3. Inside(e)' = Inside(e) + 1
    BY <2>2, Counts, FS_AddElement DEF Inside
  <2>4. overlap'[e] \in Nat /\ overlap'[e] >= Inside(e) + 1
    <3>1. overlap \in [Emails -> Nat]
      BY DEF TypeInv, TypeOK
    <3>2. overlap'[e] = IF Inside(e) + 1 > overlap[e] THEN Inside(e) + 1 ELSE overlap[e]
      BY <1>4, <3>1 DEF Inside
    <3> QED  BY <3>2, Counts
  <2>5. ASSUME NEW d \in Emails, d /= e
        PROVE  Inside(d)' = Inside(d) /\ overlap'[d] = overlap[d]
    <3>1. Reading(d)' = Reading(d)
      BY <1>1, <1>2, <2>1, <2>5 DEF Reading, Becomes
    <3>2. overlap'[d] = overlap[d]
      BY <1>4, <2>5 DEF TypeInv, TypeOK
    <3> QED  BY <3>1, <3>2 DEF Inside
  <2>6. fails[e] <= MaxLoginAttempts - 1
    BY <1>4, Counts
  <2>7. /\ Inside(e)' <= overlap'[e]
        /\ fails'[e] + Inside(e)' <= MaxLoginAttempts - 1 + overlap'[e]
    BY <1>1, <2>3, <2>4, <2>6, Counts
  <2>8. \A d \in Emails : d /= e => /\ Inside(d)' <= overlap'[d]
                                    /\ fails'[d] + Inside(d)' <= MaxLoginAttempts - 1 + overlap'[d]
    BY <1>1, <2>5 DEF LockInv
  <2> QED  BY <2>7, <2>8 DEF LockInv
<1> QED  BY <1>3, <1>4 DEF LoginCheck

LEMMA LockLoginVerify ==
  ASSUME TypeInv, TypeInv', LockInv, NEW r \in Requests, LoginVerify(r)
  PROVE  LockInv'
<1>1. overlap' = overlap /\ req[r].stage = "checking" /\ fails \in [Emails -> Nat]
  BY DEF LoginVerify, history, TypeInv, TypeOK
<1>2. \A x \in Requests \ {r} : req'[x] = req[x]
  BY OnlyOwn DEF Serve
<1>3. req'[r].stage \notin Trying
  <2>1. Moves(r) \/ Upgrade(r)
    BY Moving DEF Serve
  <2>2. ~Upgrade(r)
    BY <1>1, Parts DEF Upgrade, Carries
  <2> QED  BY <1>1, <2>1, <2>2 DEF Moves, Goes, Turn, Trying
<1>4. CASE req[r].email \notin Emails
  <2>1. fails' = fails
    BY <1>1, <1>4 DEF LoginVerify
  <2>2. \A d \in Emails : fails'[d] <= fails[d]
    BY <2>1, Counts
  <2> QED  BY <1>1, <1>2, <1>3, <2>2, LockKept
<1>5. ASSUME NEW e \in Emails, req[r].email = e PROVE LockInv'
  <2>1. Reading(e)' = Reading(e) \ {r} /\ r \in Reading(e)
    BY <1>1, <1>2, <1>3, <1>5 DEF Reading, Trying
  <2>2. Inside(e)' = Inside(e) - 1
    BY <1>5, <2>1, Counts, FS_RemoveElement DEF Inside
  <2>3. fails'[e] = fails[e] + 1 \/ fails'[e] = 0
    BY <1>1, <1>5 DEF LoginVerify
  <2>4. \A d \in Emails \ {e} : fails'[d] = fails[d]
    BY <1>1, <1>5 DEF LoginVerify
  <2>5. ASSUME NEW d \in Emails, d /= e PROVE Inside(d)' = Inside(d)
    <3>1. Reading(d)' = Reading(d)
      BY <1>1, <1>2, <1>3, <1>5, <2>5 DEF Reading, Trying
    <3> QED  BY <3>1 DEF Inside
  <2>6. /\ Inside(e)' <= overlap'[e]
        /\ fails'[e] + Inside(e)' <= MaxLoginAttempts - 1 + overlap'[e]
    <3>1. MaxLoginAttempts >= 1
      BY BoundsAssumption
    <3> QED  BY <1>1, <1>5, <2>2, <2>3, <3>1, Counts DEF LockInv
  <2>7. \A d \in Emails : d /= e => /\ Inside(d)' <= overlap'[d]
                                    /\ fails'[d] + Inside(d)' <= MaxLoginAttempts - 1 + overlap'[d]
    BY <1>1, <2>4, <2>5 DEF LockInv
  <2> QED  BY <1>5, <2>6, <2>7 DEF LockInv
<1> QED  BY <1>4, <1>5

LEMMA LockStep ==
  ASSUME TypeInv, TypeInv', LockInv, [Next]_vars
  PROVE  LockInv'
<1>1. ASSUME NEW r \in Requests, Serve(r), ~LoginCheck(r), ~LoginVerify(r) PROVE LockInv'
  <2>1. overlap' = overlap /\ fails' = fails
    BY <1>1 DEF Serve, Register, GenerateKey, LoginRead, Upgrade, Forgot, FindAccount, IssueToken, RedeemCheck,
       RedeemRead, ResetWrite, OauthLogin, CallbackRead, CallbackSpend, Exchange, Link, CreateKey,
       Revoke, EraseCheck, Erase, memory, history
  <2>2. \A x \in Requests \ {r} : req'[x] = req[x]
    BY <1>1, OnlyOwn
  <2>3. \/ req'[r] = req[r] \/ req'[r].stage \notin Trying
        \/ req[r].stage \in Trying /\ req'[r].email = req[r].email
    <3>1. CASE Upgrade(r)
      BY <3>1 DEF Upgrade
    <3>2. CASE LoginRead(r)
      <4>1. PICK u \in Ids \union {None} : req' = [req EXCEPT ![r].stage = "checking", ![r].user = u]
        BY <3>2, HolderOf DEF LoginRead
      <4>2. req'[r].email = req[r].email
        BY <4>1, Parts, StagedUser, StageNames DEF Becomes
      <4> QED  BY <3>2, <4>2 DEF LoginRead, Trying
    <3>3. CASE ~Upgrade(r) /\ ~LoginRead(r)
      <4>1. Moves(r)
        BY <1>1, <3>3, Moving
      <4> QED  BY <1>1, <3>3, <4>1 DEF Moves, Goes, Turn, Trying
    <3> QED  BY <3>1, <3>2, <3>3
  <2>4. \A e \in Emails : fails'[e] <= fails[e]
    BY <2>1, Counts
  <2>5. \A x \in Requests : req'[x].stage \in Trying =>
          req[x].stage \in Trying /\ req'[x].email = req[x].email
    BY <2>2, <2>3
  <2> QED  BY <2>1, <2>4, <2>5, LockKept
<1>2. CASE Restart
  <2>1. overlap' = overlap /\ \A e \in Emails : fails'[e] = 0
    BY <1>2 DEF Restart, history
  <2>2. \A x \in Requests : req'[x].stage \notin Trying
    BY <1>2, Restarted DEF Trying
  <2>3. \A e \in Emails : fails'[e] <= fails[e]
    BY <2>1, Counts
  <2> QED  BY <2>1, <2>2, <2>3, LockKept
<1>3. CASE Boot \/ BootKey \/ Passes \/ UNCHANGED vars
  <2>1. overlap' = overlap /\ req' = req
    BY <1>3 DEF Boot, BootKey, Passes, FailureExpires, CooldownEnds, TokenExpires, StateExpires,
       vars, tables, memory, history
  <2>2. ASSUME NEW e \in Emails PROVE fails'[e] <= fails[e]
    <3>1. CASE \E d \in Emails : FailureExpires(d)
      BY <3>1, Counts DEF FailureExpires, TypeInv, TypeOK
    <3>2. CASE fails' = fails
      BY <3>2, Counts
    <3> QED  BY <1>3, <3>1, <3>2 DEF Boot, BootKey, Passes, CooldownEnds, TokenExpires, StateExpires,
       vars, memory
  <2> QED  BY <2>1, <2>2, LockKept
<1> QED  BY <1>1, <1>2, <1>3, LockLoginCheck, LockLoginVerify DEF Next

\* LockoutBounded: the lockout is late by at most the logins of an address that are
\* in flight together, for every limit and every number of requests.
THEOREM LockoutHolds == Spec => []LockoutBounded
<1>1. Init => LockInv
  <2> SUFFICES ASSUME Init, NEW e \in Emails PROVE Reading(e) = {} /\ fails[e] = 0 /\ overlap[e] = 0
    BY FS_EmptySet, BoundsAssumption DEF LockInv, Inside
  <2> QED  BY DEF Init, Idle, Reading
<1>2. TypeInv /\ TypeInv' /\ LockInv /\ [Next]_vars => LockInv'
  BY LockStep
<1>3. TypeInv /\ LockInv => LockoutBounded
  BY Counts DEF LockInv, LockoutBounded
<1> QED  BY <1>1, <1>2, <1>3, TypeCorrect, PTL DEF Spec

(***************************************************************************)
(* Reset tokens. A token is named after a request that has ended, so that  *)
(* no new token takes the place of a spent one; a request that ended with  *)
(* a token and a password has spent it; and of the tokens of an account at *)
(* most one is open.                                                       *)
(***************************************************************************)
EndedIn(t) == t \in Requests => req[t].stage \in Ended

NoPw(x)    == req[x].stage \in {"idle", "finding", "issuing", "returning", "dropping",
                                "exchanging", "linking", "erasing"} => req[x].pw = None
NoRef(x)   == req[x].stage \in {"idle", "reading", "checking"} => req[x].ref = None
OneOf(x)   == req[x].stage = "keying" => req[x].pw = None \/ req[x].ref = None
Refers(x)  == req[x].stage \in {"redeeming", "resetting"} => EndedIn(req[x].ref)
Spent(x)   == req[x].stage = "ok" /\ req[x].pw /= None /\ req[x].ref /= None =>
                /\ req[x].ref \in Ids /\ EndedIn(req[x].ref)
                /\ tokens[req[x].ref] /= None => tokens[req[x].ref].used
ReqSpent(x) == NoPw(x) /\ NoRef(x) /\ OneOf(x) /\ Refers(x) /\ Spent(x)
Named(t)    == tokens[t] /= None => EndedIn(t)
Open(t)     == tokens[t] /= None /\ ~tokens[t].used
OneOpen     == \A s, t \in Ids : Open(s) /\ Open(t) /\ tokens[s].user = tokens[t].user => s = t
SpentInv    == (\A x \in Requests : ReqSpent(x)) /\ (\A t \in Ids : Named(t)) /\ OneOpen

\* A row that is not just being issued is the row it was, older.
Ages(t) == tokens'[t] /= None => /\ tokens[t] /= None /\ tokens'[t].user = tokens[t].user
                                 /\ tokens[t].used => tokens'[t].used

LEMMA Aging ==
  ASSUME TypeInv, [Next]_vars, NEW t \in Ids, t \in Requests => ~IssueToken(t)
  PROVE  Ages(t)
<1>0. tokens \in [Ids -> Token \union {None}] /\ (tokens[t] /= None => tokens[t] \in Token)
  BY DEF TypeInv, TypeOK
<1>1. CASE tokens' = tokens
  BY <1>1 DEF Ages
<1>2. CASE tokens'[t] = None \/ tokens'[t] = tokens[t]
  BY <1>2 DEF Ages
<1>3. CASE tokens[t] /= None /\ tokens'[t] = [tokens[t] EXCEPT !.used = TRUE]
  BY <1>0, <1>3 DEF Ages, Token
<1>4. CASE tokens[t] /= None /\ tokens'[t] = [tokens[t] EXCEPT !.expired = TRUE]
  BY <1>0, <1>4 DEF Ages, Token
<1>5. ASSUME NEW r \in Requests, IssueToken(r) PROVE Ages(t)
  <2>1. t /= r
    BY <1>5
  <2>2. tokens'[t] = IF t \in TokensOf(req[r].user) THEN [tokens[t] EXCEPT !.used = TRUE] ELSE tokens[t]
    BY <1>5, <2>1 DEF IssueToken
  <2>3. t \in TokensOf(req[r].user) => tokens[t] /= None
    BY DEF TokensOf
  <2> QED  BY <1>2, <1>3, <2>2, <2>3
<1>6. ASSUME NEW r \in Requests, ResetWrite(r) PROVE Ages(t)
  <2>1. req[r].ref \in Ids
    BY <1>6, Parts DEF ResetWrite, Carries
  <2>2. tokens' = IF tokens[req[r].ref] /= None THEN [tokens EXCEPT ![req[r].ref].used = TRUE] ELSE tokens
    BY <1>6 DEF ResetWrite
  <2>3. tokens'[t] = tokens[t] \/ (tokens[t] /= None /\ tokens'[t] = [tokens[t] EXCEPT !.used = TRUE])
    BY <1>0, <2>1, <2>2
  <2> QED  BY <1>2, <1>3, <2>3
<1>7. ASSUME NEW r \in Requests, Erase(r) PROVE Ages(t)
  <2>1. tokens'[t] = None \/ tokens'[t] = tokens[t]
    BY <1>7 DEF Erase
  <2> QED  BY <1>2, <2>1
<1>8. ASSUME NEW s \in Ids, TokenExpires(s) PROVE Ages(t)
  <2>1. tokens'[t] = tokens[t] \/ (tokens[t] /= None /\ tokens'[t] = [tokens[t] EXCEPT !.expired = TRUE])
    BY <1>0, <1>8 DEF TokenExpires
  <2> QED  BY <1>2, <1>4, <2>1
<1>9. ASSUME NEW r \in Requests,
             \/ Register(r) \/ GenerateKey(r) \/ LoginCheck(r) \/ LoginRead(r) \/ LoginVerify(r) \/ Upgrade(r)
             \/ Forgot(r) \/ FindAccount(r) \/ RedeemCheck(r) \/ RedeemRead(r) \/ OauthLogin(r)
             \/ CallbackRead(r) \/ CallbackSpend(r) \/ Exchange(r) \/ Link(r) \/ CreateKey(r)
             \/ Revoke(r) \/ EraseCheck(r)
      PROVE  tokens' = tokens
  BY <1>9 DEF Register, GenerateKey, LoginCheck, LoginRead, LoginVerify, Upgrade, Forgot, FindAccount, RedeemCheck,
     RedeemRead, OauthLogin, CallbackRead, CallbackSpend, Exchange, Link, CreateKey, Revoke, EraseCheck, tables
<1>10. ASSUME \/ Boot \/ BootKey \/ Restart \/ UNCHANGED vars
              \/ \E e \in Emails : FailureExpires(e) \/ CooldownEnds(e)
              \/ \E s \in Requests : StateExpires(s)
       PROVE  tokens' = tokens
  BY <1>10 DEF Boot, BootKey, Restart, FailureExpires, CooldownEnds, StateExpires, tables, vars
<1> QED
  BY <1>1, <1>5, <1>6, <1>7, <1>8, <1>9, <1>10 DEF Next, Passes, Serve

\* What has ended stays so.
LEMMA EndedStays ==
  ASSUME TypeInv, [Next]_vars, NEW x \in Requests, req[x].stage \in Ended
  PROVE  req'[x].stage = req[x].stage /\ req'[x].pw = req[x].pw /\ req'[x].ref = req[x].ref
<1>1. ASSUME NEW r \in Requests, Serve(r), r /= x PROVE req'[x] = req[x]
  BY <1>1, OnlyOwn
<1>2. ASSUME Serve(x) PROVE req'[x] = req[x]
  <2>1. CASE Upgrade(x)
    BY <2>1 DEF Upgrade
  <2>2. CASE ~Upgrade(x)
    BY <1>2, <2>2, Moving DEF Moves, Ended
  <2> QED  BY <2>1, <2>2
<1>3. CASE Restart
  BY <1>3, Restarted DEF Ended
<1>4. CASE Boot \/ BootKey \/ Passes \/ UNCHANGED vars
  BY <1>4 DEF Boot, BootKey, Passes, FailureExpires, CooldownEnds, TokenExpires, StateExpires, vars
<1> QED  BY <1>1, <1>2, <1>3, <1>4 DEF Next

LEMMA EndedInStays ==
  ASSUME TypeInv, [Next]_vars, NEW t, EndedIn(t)
  PROVE  EndedIn(t)'
BY EndedStays DEF EndedIn

\* A request that keeps its stage, or is dropped, keeps its part.
LEMMA ReqSpentKept ==
  ASSUME TypeInv, SpentInv, [Next]_vars, NEW x \in Requests,
         /\ req'[x].pw = req[x].pw /\ req'[x].ref = req[x].ref
         /\ req'[x].stage = req[x].stage \/ req'[x].stage = "no"
  PROVE  ReqSpent(x)'
<1>1. NoPw(x)' /\ NoRef(x)' /\ OneOf(x)'
  BY DEF SpentInv, ReqSpent, NoPw, NoRef, OneOf
<1>2. ASSUME NEW f, f = req[x].ref, EndedIn(f) PROVE EndedIn(f)'
  BY <1>2, EndedInStays
<1>3. Refers(x)'
  <2> SUFFICES ASSUME NEW f, req[x].ref = f, req'[x].ref = f, req[x].stage \in {"redeeming", "resetting"}
               PROVE  EndedIn(f)'
    BY DEF Refers
  <2>1. EndedIn(f)
    BY DEF SpentInv, ReqSpent, Refers
  <2> QED  BY <1>2, <2>1
<1>4. Spent(x)'
  <2> SUFFICES ASSUME NEW f, req[x].ref = f, req'[x].ref = f, req[x].stage = "ok",
                      req[x].pw /= None, f /= None
               PROVE  f \in Ids /\ EndedIn(f)' /\ (tokens'[f] /= None => tokens'[f].used)
    BY DEF Spent
  <2>1. f \in Ids /\ EndedIn(f) /\ (tokens[f] /= None => tokens[f].used)
    BY DEF SpentInv, ReqSpent, Spent
  <2>2. f \in Requests => ~IssueToken(f)
    BY <2>1 DEF EndedIn, Ended, IssueToken
  <2>3. Ages(f)
    BY <2>1, <2>2, Aging
  <2> QED  BY <1>2, <2>1, <2>3 DEF Ages
<1> QED  BY <1>1, <1>3, <1>4 DEF ReqSpent

\* The step of r itself.
LEMMA ReqSpentMoves ==
  ASSUME TypeInv, SpentInv, [Next]_vars, NEW r \in Requests, Serve(r), ~Upgrade(r)
  PROVE  ReqSpent(r)'
<1>0. Moves(r) /\ NoPw(r) /\ NoRef(r) /\ OneOf(r) /\ Refers(r)
  BY Moving DEF SpentInv, ReqSpent
<1>1. NoPw(r)' /\ NoRef(r)' /\ OneOf(r)'
  BY <1>0 DEF Moves, Goes, Turn, NoPw, NoRef, OneOf
<1>2. Refers(r)'
  <2> SUFFICES ASSUME NEW f, req'[r].ref = f, req'[r].stage \in {"redeeming", "resetting"}
               PROVE  EndedIn(f)'
    BY DEF Refers
  <2>1. \/ req[r].stage = "idle" /\ f \in Ids /\ tokens[f] /= None
        \/ req[r].stage = "redeeming" /\ req[r].ref = f
    BY <1>0 DEF Moves, Goes, Turn
  <2>2. EndedIn(f)
    BY <1>0, <2>1 DEF SpentInv, Named, Refers
  <2> QED  BY <2>2, EndedInStays
<1>3. Spent(r)'
  <2> SUFFICES ASSUME NEW f, req'[r].ref = f, f /= None, req'[r].stage = "ok", req'[r].pw /= None
               PROVE  f \in Ids /\ EndedIn(f)' /\ (tokens'[f] /= None => tokens'[f].used)
    BY DEF Spent
  <2>1. req[r].stage = "resetting" /\ ResetWrite(r) /\ req[r].ref = f
    BY <1>0 DEF Moves, Goes, Turn, NoPw, NoRef, OneOf
  <2>2. f \in Ids /\ EndedIn(f)'
    BY <1>0, <2>1, Parts, EndedInStays DEF Carries, Refers
  <2>3. tokens'[f] /= None => tokens'[f].used
    <3>1. tokens \in [Ids -> Token \union {None}] /\ (tokens[f] /= None => tokens[f] \in Token)
      BY <2>2, Parts
    <3>2. tokens' = IF tokens[f] /= None THEN [tokens EXCEPT ![f].used = TRUE] ELSE tokens
      BY <2>1 DEF ResetWrite
    <3>3. tokens[f] /= None => tokens'[f] = [tokens[f] EXCEPT !.used = TRUE]
      BY <2>2, <3>1, <3>2
    <3> QED  BY <3>1, <3>2, <3>3 DEF Token
  <2> QED  BY <2>2, <2>3
<1> QED  BY <1>1, <1>2, <1>3 DEF ReqSpent

LEMMA SpentStep ==
  ASSUME TypeInv, SpentInv, [Next]_vars
  PROVE  SpentInv'
<1>1. ASSUME NEW x \in Requests PROVE ReqSpent(x)'
  <2>1. CASE Serve(x) /\ ~Upgrade(x)
    BY <2>1, ReqSpentMoves
  <2>2. ASSUME NEW r \in Requests, Serve(r), r /= x PROVE req'[x] = req[x]
    BY <2>2, OnlyOwn
  <2>3. CASE Upgrade(x)
    BY <2>3, ReqSpentKept DEF Upgrade
  <2>4. CASE Restart
    BY <2>4, Restarted, ReqSpentKept
  <2>5. CASE Boot \/ BootKey \/ Passes \/ UNCHANGED vars
    <3>1. req' = req
      BY <2>5 DEF Boot, BootKey, Passes, FailureExpires, CooldownEnds, TokenExpires, StateExpires, vars
    <3> QED  BY <3>1, ReqSpentKept
  <2> QED  BY <2>1, <2>2, <2>3, <2>4, <2>5, ReqSpentKept DEF Next
<1>2. ASSUME NEW t \in Ids PROVE Named(t)'
  <2>1. ASSUME t \in Requests, IssueToken(t) PROVE EndedIn(t)'
    <3>1. req'[t].stage = "ok"
      BY <2>1, Parts, Gone, StageNames DEF IssueToken, Becomes
    <3> QED  BY <3>1 DEF EndedIn, Ended
  <2>2. CASE t \in Requests => ~IssueToken(t)
    <3>1. tokens'[t] /= None => EndedIn(t)
      BY <2>2, Aging DEF Ages, SpentInv, Named
    <3> QED  BY <3>1, EndedInStays DEF Named
  <2> QED  BY <2>1, <2>2 DEF Named
<1>3. OneOpen'
  <2>1. ASSUME NEW t \in Ids, Ages(t), Open(t)' PROVE Open(t) /\ tokens'[t].user = tokens[t].user
    BY <2>1 DEF Ages, Open
  <2>2. CASE \A r \in Requests : ~IssueToken(r)
    <3>1. \A t \in Ids : Ages(t)
      BY <2>2, Aging
    <3> QED  BY <2>1, <3>1 DEF OneOpen, SpentInv
  <2>3. ASSUME NEW r \in Requests, IssueToken(r) PROVE OneOpen'
    <3>1. tokens \in [Ids -> Token \union {None}] /\ r \in Ids
      BY Parts
    <3>2. tokens'[r] = [user |-> req[r].user, used |-> FALSE, expired |-> FALSE]
      BY <2>3, <3>1 DEF IssueToken
    <3>3. ASSUME NEW t \in Ids, t /= r, Open(t)' PROVE tokens'[t].user /= req[r].user
      <4>1. tokens'[t] = IF t \in TokensOf(req[r].user) THEN [tokens[t] EXCEPT !.used = TRUE] ELSE tokens[t]
        BY <2>3, <3>3 DEF IssueToken
      <4>2. CASE t \in TokensOf(req[r].user)
        <5>1. tokens[t] \in Token
          BY <3>1, <4>2 DEF TokensOf
        <5>2. tokens'[t].used
          BY <4>1, <4>2, <5>1 DEF Token
        <5> QED  BY <3>3, <5>2 DEF Open
      <4>3. CASE t \notin TokensOf(req[r].user)
        BY <3>3, <4>1, <4>3 DEF Open, TokensOf
      <4> QED  BY <4>2, <4>3
    <3>4. ASSUME NEW t \in Ids, t /= r PROVE Ages(t)
      <4>1. t \in Requests => ~IssueToken(t)
        <5> SUFFICES ASSUME t \in Requests, IssueToken(t) PROVE FALSE
          OBVIOUS
        <5>1. req'[t] = req[t] /\ req[t].stage = "issuing"
          BY <2>3, <3>4, OnlyOwn DEF Serve, IssueToken
        <5>2. req'[t].stage = "ok"
          BY Parts, Gone, StageNames DEF IssueToken, Becomes
        <5> QED  BY <5>1, <5>2
      <4> QED  BY <4>1, Aging
    <3>5. ASSUME NEW s \in Ids, NEW t \in Ids, Open(s)', Open(t)', tokens'[s].user = tokens'[t].user
          PROVE  s = t
      <4>1. CASE s = r \/ t = r
        BY <3>2, <3>3, <3>5, <4>1
      <4>2. CASE s /= r /\ t /= r
        BY <2>1, <3>4, <3>5, <4>2 DEF OneOpen, SpentInv
      <4> QED  BY <4>1, <4>2
    <3> QED  BY <3>5 DEF OneOpen
  <2> QED  BY <2>2, <2>3
<1> QED  BY <1>1, <1>2, <1>3 DEF SpentInv

\* TokenNotReused: only requests that overlap can use one reset token twice, and an
\* older token opens nothing once a newer one was issued.
THEOREM TokensNotReused == Spec => TokenNotReused
<1>1. Init => SpentInv
  <2> SUFFICES ASSUME Init PROVE SpentInv
    OBVIOUS
  <2>1. \A x \in Requests : req[x].stage = "idle" /\ req[x].pw = None /\ req[x].ref = None
    BY DEF Init, Idle
  <2>2. \A x \in Requests : ReqSpent(x)
    BY <2>1 DEF ReqSpent, NoPw, NoRef, OneOf, Refers, Spent
  <2>3. \A t \in Ids : Named(t)
    BY InitRows, RequestsAssumption DEF Named, EndedIn
  <2>4. OneOpen
    BY InitRows DEF OneOpen, Open
  <2> QED  BY <2>2, <2>3, <2>4 DEF SpentInv
<1>2. TypeInv /\ SpentInv /\ [Next]_vars => SpentInv'
  BY SpentStep
<1>3. TypeInv /\ SpentInv /\ [Next]_vars =>
        [\A r \in Requests :
           req[r].stage = "redeeming" /\ req'[r].stage = "resetting" =>
             /\ \A x \in Requests : ~(/\ req[x].stage = "ok" /\ req[x].pw /= None
                                      /\ req[x].ref = req[r].ref)
             /\ \A t \in TokensOf(req'[r].user) \ {req[r].ref} : tokens[t].used]_vars
  <2> SUFFICES ASSUME TypeInv, SpentInv, Next, NEW r \in Requests,
                      req[r].stage = "redeeming", req'[r].stage = "resetting"
               PROVE  /\ \A x \in Requests : ~(/\ req[x].stage = "ok" /\ req[x].pw /= None
                                               /\ req[x].ref = req[r].ref)
                      /\ \A t \in TokensOf(req'[r].user) \ {req[r].ref} : tokens[t].used
    BY DEF vars
  <2>1. Serve(r) /\ ~Upgrade(r)
    <3>1. req'[r] /= req[r]
      OBVIOUS
    <3>2. ~Restart /\ ~Boot /\ ~BootKey /\ ~Passes /\ ~Upgrade(r)
      BY <3>1, Restarted DEF Boot, BootKey, Passes, FailureExpires, CooldownEnds, TokenExpires,
         StateExpires, Upgrade
    <3>3. \A x \in Requests : x /= r => ~Serve(x)
      BY <3>1, OnlyOwn
    <3> QED  BY <3>2, <3>3 DEF Next
  <2>2. RedeemRead(r)
    BY <2>1, Moving DEF Moves, Goes, Turn
  <2>3. /\ req[r].ref \in Ids /\ tokens[req[r].ref] /= None /\ ~tokens[req[r].ref].used
        /\ req'[r].user = tokens[req[r].ref].user
    <3>1. req[r].ref \in Ids
      BY Parts DEF Carries
    <3>2. Redeemable(req[r].ref)
      <4> SUFFICES ASSUME Go(r, "no") PROVE FALSE
        BY <2>2 DEF RedeemRead
      <4> QED  BY Parts, Gone, StageNames DEF Becomes
    <3>3. tokens[req[r].ref].user \in Ids
      BY <3>1, <3>2, Parts DEF Redeemable, Token
    <3>4. req' = [req EXCEPT ![r].stage = "resetting", ![r].user = tokens[req[r].ref].user]
      BY <2>2, <3>2 DEF RedeemRead
    <3>5. req'[r].user = tokens[req[r].ref].user
      BY <3>3, <3>4, Parts, StagedUser, StageNames DEF Becomes
    <3> QED  BY <3>1, <3>2, <3>5 DEF Redeemable
  <2>4. \A x \in Requests : ~(/\ req[x].stage = "ok" /\ req[x].pw /= None /\ req[x].ref = req[r].ref)
    BY <2>3, RequestsAssumption DEF SpentInv, ReqSpent, Spent
  <2>5. \A t \in TokensOf(req'[r].user) \ {req[r].ref} : tokens[t].used
    BY <2>3 DEF SpentInv, OneOpen, Open, TokensOf
  <2> QED  BY <2>4, <2>5
<1> QED  BY <1>1, <1>2, <1>3, TypeCorrect, PTL DEF Spec, TokenNotReused
===============================================================================
