-------------------------- MODULE ChatEngineProofs --------------------------
(***************************************************************************)
(* Invariance proofs for ChatEngine, for every set of handlers, every      *)
(* limit and every calendar.                                               *)
(***************************************************************************)
EXTENDS ChatEngine, Answering, Induction

\* A handler past ReceiveChat with a named user knows whose quota it asks for,
\* and one that links knows where to.
LocalsKnown ==
    \A h \in Handlers :
        /\ stage[h] \in {"select", "insert", "update", "commit", "close"}
              => account[h] \in Accounts
        /\ stage[h] \in {"lookup", "link"} => target[h] \in Projects

\* What every other invariant needs of the types.
TypeInv == TypeOK /\ LocalsKnown

\* Types and locals survive every step.
LEMMA TypeStep ==
    ASSUME TypeInv, [Next]_vars
    PROVE  TypeInv'
<1> USE DEF TypeInv, TypeOK, LocalsKnown, Stages, Goto, Finish, linkVars, quotaVars
<1>1. ASSUME NEW h \in Handlers, NEW u \in Users \cup {None},
             NEW p \in Projects \cup {None}, ReceiveChat(h, u, p)
      PROVE  TypeInv'
  BY <1>1 DEF ReceiveChat, Accounts
<1>2. ASSUME NEW h \in Handlers, SelectQuota(h) PROVE TypeInv'
  BY <1>2 DEF SelectQuota
<1>3. ASSUME NEW h \in Handlers, InsertRow(h) PROVE TypeInv'
  BY <1>3 DEF InsertRow
<1>4. ASSUME NEW h \in Handlers, UpdateQuota(h) PROVE TypeInv'
  BY <1>4 DEF UpdateQuota
<1>5. ASSUME NEW h \in Handlers, CommitQuota(h) PROVE TypeInv'
  BY <1>5 DEF CommitQuota
<1>6. ASSUME NEW h \in Handlers, UpgradeMode(h) PROVE TypeInv'
  BY <1>6 DEF UpgradeMode
<1>7. ASSUME NEW h \in Handlers, LockTimeout(h) PROVE TypeInv'
  BY <1>7 DEF LockTimeout
<1>8. ASSUME NEW h \in Handlers, Answer(h) PROVE TypeInv'
  BY <1>8 DEF Answer
<1>9. ASSUME NEW h \in Handlers, LookupProject(h) PROVE TypeInv'
  BY <1>9 DEF LookupProject
<1>10. ASSUME NEW h \in Handlers, LinkConversation(h) PROVE TypeInv'
  BY <1>10 DEF LinkConversation
<1>11. ASSUME NEW h \in Handlers, AutoLinkFails(h) PROVE TypeInv'
  BY <1>11 DEF AutoLinkFails
<1>12. CASE Midnight
  BY <1>12, LastDayNat DEF Midnight, Days
<1>13. ASSUME NEW p \in Projects, DeleteProject(p) PROVE TypeInv'
  BY <1>13 DEF DeleteProject
<1>14. CASE Restart
  BY <1>14 DEF Restart
<1>15. CASE UNCHANGED vars
  BY <1>15 DEF vars
<1> QED
  BY <1>1, <1>2, <1>3, <1>4, <1>5, <1>6, <1>7, <1>8, <1>9, <1>10, <1>11, <1>12,
     <1>13, <1>14, <1>15 DEF Next, Proceed
-----------------------------------------------------------------------------
(***************************************************************************)
(* Premium credits                                                         *)
(***************************************************************************)

\* An account without a row was never charged.
NoRowNoCharge == \A a \in Accounts : a \notin rows => used[a] = 0

\* Credits counted and credits still to be counted stay below the overshoot
\* bound together: a request joins Charging only while used is below Limit.
CreditBound ==
    \A a \in Accounts :
        used[a] + Cardinality(Charging(a)) <= Limit + Cardinality(Handlers) - 1

\* The strengthening under which both quota invariants are inductive.
QuotaInv == NoRowNoCharge /\ CreditBound /\ NeverUncharged

\* Subsets of the handlers are finite, and counting them is monotone.
LEMMA HandlerSets ==
    ASSUME NEW S, NEW T, S \subseteq T, T \subseteq Handlers
    PROVE  /\ IsFiniteSet(S) /\ IsFiniteSet(T)
           /\ Cardinality(S) \in Nat /\ Cardinality(T) \in Nat
           /\ Cardinality(S) <= Cardinality(T)
BY HandlersFinite, FS_Subset, FS_CardinalityType

\* Taking an element out lowers the count by one; putting one in raises it by
\* one at most.
LEMMA HandlerCount ==
    ASSUME NEW S, S \subseteq Handlers, NEW h \in Handlers, NEW T
    PROVE  /\ h \in S /\ T \subseteq S \ {h} => Cardinality(T) <= Cardinality(S) - 1
           /\ T \subseteq S \cup {h} => Cardinality(T) <= Cardinality(S) + 1
<1>1. IsFiniteSet(S) /\ Cardinality(S) \in Nat
  BY HandlerSets
<1>2. ASSUME h \in S, T \subseteq S \ {h}
      PROVE  Cardinality(T) <= Cardinality(S) - 1
  <2>1. Cardinality(S \ {h}) = Cardinality(S) - 1
    BY <1>1, <1>2, FS_RemoveElement
  <2>2. Cardinality(T) <= Cardinality(S \ {h})
    <3>1. S \ {h} \subseteq Handlers
      OBVIOUS
    <3> QED
      BY <1>2, <3>1, HandlerSets
  <2> QED
    BY <2>1, <2>2
<1>3. ASSUME T \subseteq S \cup {h}
      PROVE  Cardinality(T) <= Cardinality(S) + 1
  <2>1. S \cup {h} \subseteq Handlers
    OBVIOUS
  <2>2. Cardinality(T) <= Cardinality(S \cup {h})
    BY <1>3, <2>1, HandlerSets
  <2>3. /\ Cardinality(S \cup {h}) = Cardinality(S) \/ Cardinality(S \cup {h}) = Cardinality(S) + 1
        /\ Cardinality(T) \in Nat
    BY <1>1, <1>3, <2>1, FS_AddElement, HandlerSets
  <2> QED
    BY <1>1, <2>2, <2>3
<1> QED
  BY <1>2, <1>3

\* How one step can move an account's credits: a request finds a credit and
\* joins Charging; one is charged; one is upgraded; or nothing counts up.
Joins(a) ==
    /\ used[a] < Limit
    /\ used' = used /\ grants' = grants
    /\ Charged(a)' \subseteq Charged(a)

Charges(a) ==
    \E h \in Charging(a) :
        /\ used' = [used EXCEPT ![a] = @ + 1] /\ grants' = grants
        /\ Charging(a)' \subseteq Charging(a) \ {h}
        /\ Charged(a)' \subseteq Charged(a) \cup {h}

Upgrades(a) ==
    \E h \in Charged(a) :
        /\ grants' = [grants EXCEPT ![a] = @ + 1] /\ used' = used
        /\ Charging(a)' \subseteq Charging(a)
        /\ Charged(a)' \subseteq Charged(a) \ {h}

Settles(a) ==
    /\ used'[a] = used[a] /\ grants'[a] = grants[a]
    /\ Charging(a)' \subseteq Charging(a)
    /\ Charged(a)' \subseteq Charged(a)

\* Every step does one of the four to every account.
LEMMA QuotaEffect ==
    ASSUME TypeInv, NoRowNoCharge, [Next]_vars, NEW a \in Accounts
    PROVE  Joins(a) \/ Charges(a) \/ Upgrades(a) \/ Settles(a)
<1> USE DEF TypeInv, TypeOK, LocalsKnown, Stages, Goto, Finish, linkVars, quotaVars,
            Charging, Charged
<1>1. ASSUME NEW h \in Handlers, NEW u \in Users \cup {None},
             NEW p \in Projects \cup {None}, ReceiveChat(h, u, p)
      PROVE  Settles(a)
  BY <1>1 DEF ReceiveChat, Settles
<1>2. ASSUME NEW h \in Handlers, SelectQuota(h) PROVE Joins(a) \/ Settles(a)
  <2>1. CASE account[h] = a /\ (a \notin rows \/ used[a] < Limit)
    BY <1>2, <2>1, LimitPositive DEF SelectQuota, Joins, NoRowNoCharge
  <2>2. CASE ~(account[h] = a /\ (a \notin rows \/ used[a] < Limit))
    BY <1>2, <2>2 DEF SelectQuota, QuotaLeft, Settles
  <2> QED
    BY <2>1, <2>2
<1>3. ASSUME NEW h \in Handlers, InsertRow(h) PROVE Settles(a)
  BY <1>3 DEF InsertRow, Settles
<1>4. ASSUME NEW h \in Handlers, UpdateQuota(h) PROVE Settles(a)
  BY <1>4 DEF UpdateQuota, Settles
<1>5. ASSUME NEW h \in Handlers, CommitQuota(h) PROVE Charges(a) \/ Settles(a)
  <2>1. CASE account[h] = a
    <3>1. h \in Charging(a)
      BY <1>5, <2>1 DEF CommitQuota
    <3> QED
      BY <1>5, <2>1, <3>1 DEF CommitQuota, Charges
  <2>2. CASE account[h] # a
    BY <1>5, <2>2 DEF CommitQuota, Settles
  <2> QED
    BY <2>1, <2>2
<1>6. ASSUME NEW h \in Handlers, UpgradeMode(h) PROVE Upgrades(a) \/ Settles(a)
  <2>1. CASE account[h] = a
    <3>1. h \in Charged(a)
      BY <1>6, <2>1 DEF UpgradeMode
    <3> QED
      BY <1>6, <2>1, <3>1 DEF UpgradeMode, Upgrades
  <2>2. CASE account[h] # a
    BY <1>6, <2>2 DEF UpgradeMode, Settles
  <2> QED
    BY <2>1, <2>2
<1>7. ASSUME NEW h \in Handlers, LockTimeout(h) PROVE Settles(a)
  BY <1>7 DEF LockTimeout, Settles
<1>8. ASSUME NEW h \in Handlers, Answer(h) PROVE Settles(a)
  BY <1>8 DEF Answer, Settles
<1>9. ASSUME NEW h \in Handlers, LookupProject(h) PROVE Settles(a)
  BY <1>9 DEF LookupProject, Settles
<1>10. ASSUME NEW h \in Handlers, LinkConversation(h) PROVE Settles(a)
  BY <1>10 DEF LinkConversation, Settles
<1>11. ASSUME NEW h \in Handlers, AutoLinkFails(h) PROVE Settles(a)
  BY <1>11 DEF AutoLinkFails, Settles
<1>12. ASSUME Midnight \/ Restart \/ UNCHANGED vars \/ \E p \in Projects : DeleteProject(p)
       PROVE  Settles(a)
  BY <1>12 DEF Midnight, Restart, vars, DeleteProject, Settles
<1> QED
  BY <1>1, <1>2, <1>3, <1>4, <1>5, <1>6, <1>7, <1>8, <1>9, <1>10, <1>11, <1>12
     DEF Next, Proceed

\* The quota invariants survive every step.
LEMMA QuotaStep ==
    ASSUME TypeInv, QuotaInv, [Next]_vars
    PROVE  QuotaInv'
<1> USE DEF QuotaInv
<1>1. NoRowNoCharge'
  BY DEF NoRowNoCharge, TypeInv, TypeOK, LocalsKnown, Next, vars, Proceed, ReceiveChat,
         SelectQuota, InsertRow, UpdateQuota, CommitQuota, UpgradeMode, LockTimeout,
         Answer, LookupProject, LinkConversation, AutoLinkFails, Midnight,
         DeleteProject, Restart, quotaVars
<1>2. ASSUME NEW a \in Accounts
      PROVE  /\ used'[a] + Cardinality(Charging(a)') <= Limit + Cardinality(Handlers) - 1
             /\ grants'[a] + Cardinality(Charged(a)') <= used'[a]
  <2> DEFINE N == Cardinality(Handlers)
  <2>1. /\ used[a] \in Nat /\ grants[a] \in Nat /\ Limit \in Nat /\ N \in Nat
        /\ used[a] + Cardinality(Charging(a)) <= Limit + N - 1
        /\ grants[a] + Cardinality(Charged(a)) <= used[a]
    BY LimitPositive, HandlerSets DEF TypeInv, TypeOK, CreditBound, NeverUncharged
  <2>2. /\ Charging(a) \subseteq Handlers /\ Charging(a)' \subseteq Handlers
        /\ Charged(a) \subseteq Handlers /\ Charged(a)' \subseteq Handlers
    BY DEF Charging, Charged
  <2>3. /\ IsFiniteSet(Charging(a)) /\ IsFiniteSet(Charged(a))
        /\ Cardinality(Charging(a)) \in Nat /\ Cardinality(Charging(a)') \in 0..N
        /\ Cardinality(Charged(a)) \in Nat /\ Cardinality(Charged(a)') \in Nat
    BY <2>2, HandlerSets
  <2>4. CASE Joins(a)
    <3>1. Cardinality(Charged(a)') <= Cardinality(Charged(a))
      BY <2>2, <2>4, HandlerSets DEF Joins
    <3> QED
      BY <2>1, <2>3, <2>4, <3>1 DEF Joins
  <2>5. CASE Charges(a)
    <3>1. PICK h \in Charging(a) :
             /\ used'[a] = used[a] + 1 /\ grants'[a] = grants[a]
             /\ Charging(a)' \subseteq Charging(a) \ {h}
             /\ Charged(a)' \subseteq Charged(a) \cup {h}
      BY <2>5 DEF Charges, TypeInv, TypeOK
    <3>2. /\ Cardinality(Charging(a)') <= Cardinality(Charging(a)) - 1
          /\ Cardinality(Charged(a)') <= Cardinality(Charged(a)) + 1
      BY <2>2, <3>1, HandlerCount
    <3> QED
      BY <2>1, <2>3, <3>1, <3>2
  <2>6. CASE Upgrades(a)
    <3>1. PICK h \in Charged(a) :
             /\ grants'[a] = grants[a] + 1 /\ used'[a] = used[a]
             /\ Charging(a)' \subseteq Charging(a)
             /\ Charged(a)' \subseteq Charged(a) \ {h}
      BY <2>6 DEF Upgrades, TypeInv, TypeOK
    <3>2. Cardinality(Charging(a)') <= Cardinality(Charging(a))
      BY <2>2, <3>1, HandlerSets
    <3>3. Cardinality(Charged(a)') <= Cardinality(Charged(a)) - 1
      BY <2>2, <3>1, HandlerCount
    <3> QED
      BY <2>1, <2>3, <3>1, <3>2, <3>3
  <2>7. CASE Settles(a)
    <3>1. /\ Cardinality(Charging(a)') <= Cardinality(Charging(a))
          /\ Cardinality(Charged(a)') <= Cardinality(Charged(a))
      BY <2>2, <2>7, HandlerSets DEF Settles
    <3> QED
      BY <2>1, <2>3, <2>7, <3>1 DEF Settles
  <2> QED
    BY <2>4, <2>5, <2>6, <2>7, QuotaEffect
<1> QED
  BY <1>1, <1>2 DEF CreditBound, NeverUncharged
-----------------------------------------------------------------------------
(***************************************************************************)
(* The engine's shared project id                                          *)
(***************************************************************************)

Busy(h) == stage[h] # "idle"

\* Undisturbed requests follow one another, the engine holds the project of the
\* one in flight and none between two, and what it links is its own.
SerialInv ==
    ~disturbed =>
        /\ \A g, h \in Handlers : Busy(g) /\ Busy(h) => g = h
        /\ \A h \in Handlers : Busy(h) => engineProject = named[h]
        /\ \A h \in Handlers : stage[h] \in {"lookup", "link"} => target[h] = named[h]
        /\ (\A h \in Handlers : ~Busy(h)) => engineProject = None
        /\ \A l \in links : l[1] = l[2]

\* It survives every step.
LEMMA SerialStep ==
    ASSUME TypeInv, SerialInv, [Next]_vars
    PROVE  SerialInv'
<1> USE DEF TypeInv, TypeOK, LocalsKnown, Stages, Goto, Finish, linkVars, quotaVars,
            SerialInv, Busy
<1>1. ASSUME NEW h \in Handlers, NEW u \in Users \cup {None},
             NEW p \in Projects \cup {None}, ReceiveChat(h, u, p)
      PROVE  SerialInv'
  BY <1>1 DEF ReceiveChat
<1>2. ASSUME NEW h \in Handlers,
             \/ SelectQuota(h) \/ UpdateQuota(h) \/ CommitQuota(h) \/ UpgradeMode(h)
      PROVE  SerialInv'
  BY <1>2 DEF SelectQuota, UpdateQuota, CommitQuota, UpgradeMode
<1>3. ASSUME NEW h \in Handlers, InsertRow(h) PROVE SerialInv'
  BY <1>3 DEF InsertRow
<1>4. ASSUME NEW h \in Handlers, LockTimeout(h) \/ AutoLinkFails(h) PROVE SerialInv'
  BY <1>4 DEF LockTimeout, AutoLinkFails
<1>5. ASSUME NEW h \in Handlers, Answer(h) PROVE SerialInv'
  BY <1>5 DEF Answer
<1>6. ASSUME NEW h \in Handlers, LookupProject(h) PROVE SerialInv'
  BY <1>6 DEF LookupProject
<1>7. ASSUME NEW h \in Handlers, LinkConversation(h) PROVE SerialInv'
  BY <1>7 DEF LinkConversation
<1>8. ASSUME Midnight \/ Restart \/ UNCHANGED vars PROVE SerialInv'
  BY <1>8 DEF Midnight, Restart, vars
<1>9. ASSUME NEW p \in Projects, DeleteProject(p) PROVE SerialInv'
  BY <1>9 DEF DeleteProject
<1> QED
  BY <1>1, <1>2, <1>3, <1>4, <1>5, <1>6, <1>7, <1>8, <1>9 DEF Next, Proceed

-----------------------------------------------------------------------------
IInv == TypeInv /\ QuotaInv /\ SerialInv

\* The three parts hold initially and each step keeps them.
LEMMA Inductive == Spec => []IInv
<1>1. Init => IInv
  <2> SUFFICES ASSUME Init PROVE IInv
    OBVIOUS
  <2>1. TypeInv
    <3>1. day \in Days /\ links \subseteq Projects \X (Projects \cup {None})
      BY LastDayNat DEF Init, Days
    <3>2. LocalsKnown
      BY DEF Init, LocalsKnown
    <3> QED
      BY <3>1, <3>2 DEF Init, TypeInv, TypeOK, Stages
  <2>4. SerialInv
    BY DEF Init, SerialInv, Busy
  <2>5. NoRowNoCharge
    BY DEF Init, NoRowNoCharge
  <2>2. ASSUME NEW a \in Accounts
        PROVE  Charging(a) = {} /\ Charged(a) = {} /\ used[a] = 0 /\ grants[a] = 0
    BY DEF Init, Charging, Charged
  <2>3. Cardinality({}) = 0 /\ Cardinality(Handlers) \in Nat \ {0}
    BY HandlersFinite, FS_EmptySet, FS_CardinalityType
  <2>6. ASSUME NEW a \in Accounts
        PROVE  /\ used[a] + Cardinality(Charging(a)) <= Limit + Cardinality(Handlers) - 1
               /\ grants[a] + Cardinality(Charged(a)) <= used[a]
    BY <2>2, <2>3, LimitPositive
  <2> QED
    BY <2>1, <2>4, <2>5, <2>6 DEF IInv, QuotaInv, CreditBound, NeverUncharged
<1>2. IInv /\ [Next]_vars => IInv'
  BY TypeStep, QuotaStep, SerialStep DEF IInv
<1> QED
  BY <1>1, <1>2, PTL DEF Spec

\* Every variable of a chat request keeps its type.
THEOREM TypeCorrect == Spec => []TypeOK
<1>1. IInv => TypeOK
  BY DEF IInv, TypeInv
<1> QED
  BY <1>1, Inductive, PTL

\* A day's cap is overrun by at most one credit for each request held beside the
\* first, whatever the limit and however many requests the loop holds.
THEOREM OvershootIsBounded == Spec => []OvershootBounded
<1>1. IInv => OvershootBounded
  <2> SUFFICES ASSUME IInv, NEW a \in Accounts
               PROVE  used[a] <= Limit + Cardinality(Handlers) - 1
    BY DEF OvershootBounded
  <2>1. Cardinality(Charging(a)) \in Nat /\ Cardinality(Handlers) \in Nat
    BY HandlerSets DEF Charging
  <2>2. used[a] \in Nat /\ used[a] + Cardinality(Charging(a)) <= Limit + Cardinality(Handlers) - 1
    BY DEF IInv, TypeInv, TypeOK, QuotaInv, CreditBound
  <2> QED
    BY <2>1, <2>2, LimitPositive
<1> QED
  BY <1>1, Inductive, PTL

\* No request answers with self_rag on a credit that was not committed.
THEOREM NoUnchargedUpgrade == Spec => []NeverUncharged
<1>1. IInv => NeverUncharged
  BY DEF IInv, QuotaInv
<1> QED
  BY <1>1, Inductive, PTL

\* Requests that do not overlap and do not fail link to their own projects.
THEOREM SerialLinks == Spec => []SerialLinksAreOwn
<1>1. IInv => SerialLinksAreOwn
  BY DEF IInv, SerialInv, SerialLinksAreOwn
<1> QED
  BY <1>1, Inductive, PTL
-----------------------------------------------------------------------------
(***************************************************************************)
(* The result cache of M3 (Retrieval), under the questions of Answering.   *)
(* Nothing is assumed of the corpus, the orders or the limits: whatever is *)
(* found, only the bookkeeping of cache and order decides.                 *)
(***************************************************************************)

CallFields == DOMAIN NoCall

CallsAreRecords == DOMAIN call = Calls /\ \A r \in Calls : DOMAIN call[r] = CallFields

\* What the order lists is what the cache holds, each key once.
OneEach ==
    /\ order \in Seq(DOMAIN cache)
    /\ DOMAIN cache = ToSet(order)
    /\ \A i, j \in DOMAIN order : order[i] = order[j] => i = j

NoKeyError == \A r \in Calls : call[r].error # "KeyError"

\* A key that is being computed is not in the cache, and no other call computes
\* it: this is why the key is new to the order when it is stored.
ComputedAlone ==
    \A r \in Calls : call[r].at \in Working =>
        /\ call[r].key \notin DOMAIN cache
        /\ \A s \in Calls \ {r} : call[s].at \in Working => call[s].key # call[r].key

CacheInv ==
    /\ CallsAreRecords
    /\ raced \/ (OneEach /\ NoKeyError /\ (deploy.cache => ComputedAlone))

\* A sequence is one over any set its elements are in.
LEMMA SeqOver ==
    ASSUME NEW S, NEW T, NEW s \in Seq(S), \A i \in 1 .. Len(s) : s[i] \in T
    PROVE  s \in Seq(T)
<1>1. Len(s) \in Nat /\ s = [i \in 1 .. Len(s) |-> s[i]]
  OBVIOUS
<1>2. s \in [1 .. Len(s) -> T]
  BY <1>1, Zenon
<1> QED
  BY <1>1, <1>2

\* A key that is new to the order can be stored: whatever is evicted was there.
LEMMA StoreKeepsOrder ==
    ASSUME OneEach, NEW key, key \notin DOMAIN cache, NEW result
    PROVE  /\ ~Store(key, result).lost
           /\ Store(key, result).order \in Seq(DOMAIN Store(key, result).cache)
           /\ DOMAIN Store(key, result).cache = ToSet(Store(key, result).order)
           /\ \A i, j \in DOMAIN Store(key, result).order :
                 Store(key, result).order[i] = Store(key, result).order[j] => i = j
           /\ DOMAIN Store(key, result).cache \subseteq DOMAIN cache \cup {key}
<1> DEFINE grown == Append(order, key)
           held  == [k \in DOMAIN cache \cup {key} |-> IF k = key THEN result ELSE cache[k]]
<1>1. /\ order \in Seq(DOMAIN cache \cup {key}) /\ Len(order) \in Nat
      /\ DOMAIN order = 1 .. Len(order)
  BY DEF OneEach
<1>2. /\ grown \in Seq(DOMAIN cache \cup {key}) /\ Len(grown) = Len(order) + 1
      /\ \A i \in 1 .. Len(order) : grown[i] = order[i]
      /\ grown[Len(order) + 1] = key
  BY <1>1
<1>3. ToSet(grown) = DOMAIN cache \cup {key} /\ DOMAIN held = DOMAIN cache \cup {key}
  BY <1>1, <1>2 DEF OneEach, ToSet
<1>4. ASSUME NEW i \in 1 .. Len(grown), NEW j \in 1 .. Len(grown), grown[i] = grown[j]
      PROVE  i = j
  <2>1. \A n \in 1 .. Len(order) : order[n] # key
    BY <1>1 DEF OneEach, ToSet
  <2> QED
    BY <1>1, <1>2, <1>4, <2>1 DEF OneEach
<1>5. CASE ~(Len(grown) > CacheMax)
  <2>1. /\ Store(key, result).order = grown
        /\ Store(key, result).cache = held
        /\ Store(key, result).lost = FALSE
    BY <1>5 DEF Store
  <2> HIDE DEF grown, held
  <2> QED
    BY <1>2, <1>3, <1>4, <2>1
<1>6. CASE Len(grown) > CacheMax
  <2>1. /\ Store(key, result).order = Tail(grown)
        /\ DOMAIN Store(key, result).cache = (DOMAIN cache \cup {key}) \ {Head(grown)}
        /\ Store(key, result).lost = (Head(grown) \notin DOMAIN cache \cup {key})
    BY <1>6 DEF Store
  <2> HIDE DEF grown, held
  <2>2. /\ Head(grown) = grown[1] /\ Len(Tail(grown)) = Len(grown) - 1
        /\ DOMAIN Tail(grown) = 1 .. Len(grown) - 1
        /\ \A i \in 1 .. Len(grown) - 1 : Tail(grown)[i] = grown[i + 1]
    BY <1>1, <1>2
  <2>3. ToSet(Tail(grown)) = (DOMAIN cache \cup {key}) \ {Head(grown)}
    <3>1. ASSUME NEW x \in (DOMAIN cache \cup {key}) \ {Head(grown)}
          PROVE  x \in ToSet(Tail(grown))
      <4>1. PICK i \in 1 .. Len(grown) : grown[i] = x
        BY <1>1, <1>2, <1>3 DEF ToSet
      <4>2. i - 1 \in 1 .. Len(grown) - 1 /\ (i - 1) + 1 = i
        BY <1>1, <1>2, <2>2, <4>1
      <4> QED
        BY <2>2, <4>1, <4>2 DEF ToSet
    <3>2. ASSUME NEW x \in ToSet(Tail(grown))
          PROVE  x \in (DOMAIN cache \cup {key}) \ {Head(grown)}
      <4>1. PICK i \in 1 .. Len(grown) - 1 : Tail(grown)[i] = x
        BY <2>2 DEF ToSet
      <4>2. i + 1 \in 1 .. Len(grown) /\ 1 \in 1 .. Len(grown) /\ i + 1 # 1
        BY <1>1, <1>2
      <4>3. x = grown[i + 1] /\ grown[i + 1] # grown[1]
        BY <1>4, <2>2, <4>1, <4>2
      <4>4. x \in ToSet(grown)
        BY <1>1, <1>2, <4>2, <4>3 DEF ToSet
      <4> QED
        BY <1>3, <2>2, <4>3, <4>4
    <3> QED
      BY <3>1, <3>2
  <2>4. Tail(grown) \in Seq((DOMAIN cache \cup {key}) \ {Head(grown)})
    <3>1. \A i \in 1 .. Len(grown) - 1 : Tail(grown)[i] \in (DOMAIN cache \cup {key}) \ {Head(grown)}
      BY <2>2, <2>3 DEF ToSet
    <3>2. Tail(grown) \in Seq(DOMAIN cache \cup {key})
      BY <1>2
    <3>3. Len(Tail(grown)) = Len(grown) - 1
      BY <2>2
    <3> QED
      BY <3>1, <3>2, <3>3, SeqOver
  <2>5. Head(grown) \in DOMAIN cache \cup {key}
    BY <1>1, <1>2, <2>2
  <2>6. ASSUME NEW i \in 1 .. Len(grown) - 1, NEW j \in 1 .. Len(grown) - 1,
               Tail(grown)[i] = Tail(grown)[j]
        PROVE  i = j
    <3>1. i + 1 \in 1 .. Len(grown) /\ j + 1 \in 1 .. Len(grown)
      BY <1>1, <1>2
    <3>2. i + 1 = j + 1
      BY <1>4, <2>2, <2>6, <3>1
    <3> QED
      BY <3>2
  <2> QED
    BY <2>1, <2>2, <2>3, <2>4, <2>5, <2>6
<1> QED
  BY <1>5, <1>6

\* call[r] is given a new record and no other call is touched.
OnlyCall(r) ==
    /\ DOMAIN call' = Calls /\ DOMAIN call'[r] = CallFields
    /\ \A s \in Calls \ {r} : call'[s] = call[s]

\* A step of r that neither enters nor leaves a key's computation for another key
\* keeps the invariant, as does one that only notes a race.
LEMMA QuietStep ==
    ASSUME CacheInv, NEW r \in Calls, OnlyCall(r), UNCHANGED <<deploy, cache, order, raced>>,
           call'[r].error # "KeyError",
           call'[r].at \in Working => call[r].at \in Working /\ call'[r].key = call[r].key
    PROVE  CacheInv'
<1>1. CallsAreRecords'
  BY DEF CacheInv, CallsAreRecords, OnlyCall
<1>2. CASE raced
  BY <1>1, <1>2 DEF CacheInv
<1>3. CASE ~raced
  <2>1. OneEach'
    BY <1>3 DEF CacheInv, OneEach
  <2>2. NoKeyError'
    BY <1>3 DEF CacheInv, NoKeyError, OnlyCall
  <2>3. ASSUME deploy.cache PROVE ComputedAlone'
    <3>1. ComputedAlone
      BY <1>3, <2>3 DEF CacheInv
    <3>2. \A s \in Calls : call'[s].at \in Working => call[s].at \in Working /\ call'[s].key = call[s].key
      BY DEF OnlyCall
    <3> QED
      BY <3>1, <3>2 DEF ComputedAlone
  <2> QED
    BY <1>1, <2>1, <2>2, <2>3 DEF CacheInv
<1> QED
  BY <1>2, <1>3

\* The same, said of a step that leaves key and error alone.
LEMMA SameError ==
    ASSUME CacheInv, NEW r \in Calls, OnlyCall(r), UNCHANGED <<deploy, cache, order, raced>>,
           call[r].at \in Working, call'[r].key = call[r].key, call'[r].error = call[r].error
    PROVE  CacheInv'
<1>1. CASE raced
  BY <1>1 DEF CacheInv, CallsAreRecords, OnlyCall
<1>2. CASE ~raced
  BY <1>2, QuietStep DEF CacheInv, NoKeyError
<1> QED
  BY <1>1, <1>2

\* A level that is started keeps the call's key and is a search.
LEMMA SearchKeeps ==
    ASSUME NEW c, DOMAIN c = CallFields, NEW level
    PROVE  /\ DOMAIN SearchAt(c, level) = CallFields
           /\ SearchAt(c, level).at = "search"
           /\ SearchAt(c, level).key = c.key /\ SearchAt(c, level).error = c.error
BY DEF SearchAt, CallFields, NoCall

\* The end of a call: its result goes into the cache as StoreKeepsOrder has it.
LEMMA AssembleStep ==
    ASSUME CacheInv, NEW r \in Calls, NEW chunks, call[r].at \in Working,
           Assemble(r, chunks), UNCHANGED <<deploy, raced>>
    PROVE  CacheInv'
<1>1. PICK kept \in {Upto(Deduplicated(chunks), TopK(r))} :
        LET result == [chunks |-> kept, top |-> IF kept = << >> THEN 0 ELSE Grade(r, Head(kept)),
                       scored |-> Scores(r)]
            stored == Store(call[r].key, result)
            done   == [NoCall EXCEPT !.at = "ok", !.result = result,
                                     !.saw = call[r].saw \/ chunks # << >>]
        IN  IF deploy.cache
            THEN /\ cache' = stored.cache
                 /\ order' = stored.order
                 /\ call' = [call EXCEPT ![r] =
                      IF stored.lost
                      THEN [done EXCEPT !.at = "failed", !.error = "KeyError", !.result = Nothing]
                      ELSE done]
            ELSE /\ call' = [call EXCEPT ![r] = done]
                 /\ UNCHANGED <<cache, order>>
  BY DEF Assemble
<1> DEFINE result == [chunks |-> kept, top |-> IF kept = << >> THEN 0 ELSE Grade(r, Head(kept)),
                      scored |-> Scores(r)]
           stored == Store(call[r].key, result)
           done   == [NoCall EXCEPT !.at = "ok", !.result = result,
                                    !.saw = call[r].saw \/ chunks # << >>]
           given  == IF deploy.cache /\ stored.lost
                     THEN [done EXCEPT !.at = "failed", !.error = "KeyError", !.result = Nothing]
                     ELSE done
<1>2. call' = [call EXCEPT ![r] = given]
  BY <1>1
<1>3. /\ DOMAIN given = CallFields /\ given.at \notin Working
      /\ ~(deploy.cache /\ stored.lost) => given.error = Nil
  BY DEF NoCall, CallFields, Working
<1>4. OnlyCall(r) /\ call'[r] = given
  <2> HIDE DEF given
  <2> QED
    BY <1>2, <1>3 DEF CacheInv, CallsAreRecords, OnlyCall
<1>5. CASE ~deploy.cache
  <2>1. UNCHANGED <<cache, order>>
    BY <1>1, <1>5
  <2>2. call'[r].error # "KeyError"
    BY <1>3, <1>4, <1>5, NilIsNoError
  <2> QED
    BY <1>3, <1>4, <2>1, <2>2, QuietStep
<1>6. CASE deploy.cache
  <2>1. cache' = stored.cache /\ order' = stored.order
    BY <1>1, <1>6
  <2>2. CallsAreRecords'
    BY <1>4 DEF CacheInv, CallsAreRecords, OnlyCall
  <2>3. CASE raced
    BY <2>2, <2>3 DEF CacheInv
  <2>4. CASE ~raced
    <3>1. OneEach /\ NoKeyError /\ ComputedAlone
      BY <1>6, <2>4 DEF CacheInv
    <3>2. call[r].key \notin DOMAIN cache
      BY <3>1 DEF ComputedAlone
    <3> DEFINE key == call[r].key
    <3>3. /\ ~stored.lost
          /\ stored.order \in Seq(DOMAIN stored.cache)
          /\ DOMAIN stored.cache = ToSet(stored.order)
          /\ \A i, j \in DOMAIN stored.order : stored.order[i] = stored.order[j] => i = j
          /\ DOMAIN stored.cache \subseteq DOMAIN cache \cup {call[r].key}
      <4> HIDE DEF result
      <4> QED
        BY <3>1, <3>2, StoreKeepsOrder
    <3> HIDE DEF stored, given
    <3>4. OneEach'
      <4>1. \A f : f = order' => DOMAIN f = DOMAIN order' /\ ToSet(f) = ToSet(order')
        OBVIOUS
      <4> QED
        BY <2>1, <3>3 DEF OneEach, ToSet
    <3>5. NoKeyError'
      BY <1>3, <1>4, <3>1, <3>3, NilIsNoError DEF NoKeyError, OnlyCall
    <3>6. ComputedAlone'
      <4>1. \A s \in Calls : call'[s].at \in Working =>
              s # r /\ call'[s] = call[s] /\ call[s].key # call[r].key
        BY <1>3, <1>4, <3>1 DEF OnlyCall, ComputedAlone
      <4>2. DOMAIN cache' \subseteq DOMAIN cache \cup {call[r].key}
        BY <2>1, <3>3
      <4> QED
        BY <3>1, <4>1, <4>2 DEF ComputedAlone
    <3> QED
      BY <2>2, <3>4, <3>5, <3>6 DEF CacheInv
  <2> QED
    BY <2>3, <2>4
<1> QED
  BY <1>5, <1>6

\* A level that ends: the result is assembled, or the next level is searched for
\* the same key.
LEMMA LevelStep ==
    ASSUME CacheInv, NEW r \in Calls, NEW found, call[r].at \in Working,
           LevelDone(r, found), UNCHANGED <<deploy, raced>>
    PROVE  CacheInv'
<1> DEFINE best == KeepBest(call[r].best, found)
           onward == SearchAt([call[r] EXCEPT !.best = best,
                                              !.saw = call[r].saw \/ found # << >>],
                              call[r].level + 1)
<1>1. CASE Assemble(r, best)
  BY <1>1, AssembleStep
<1>2. CASE call' = [call EXCEPT ![r] = onward] /\ UNCHANGED <<cache, order>>
  <2>1. /\ DOMAIN call = Calls /\ DOMAIN call[r] = CallFields
        /\ CallFields = {"at", "key", "hyde", "level", "dense", "sparse", "fused", "best",
                         "result", "error", "saw"}
    BY DEF CacheInv, CallsAreRecords, CallFields, NoCall
  <2>2. /\ DOMAIN onward = CallFields /\ onward.at = "search"
        /\ onward.key = call[r].key /\ onward.error = call[r].error
    BY <2>1 DEF SearchAt
  <2> HIDE DEF onward
  <2>3. OnlyCall(r) /\ call'[r] = onward
    BY <1>2, <2>1, <2>2 DEF OnlyCall
  <2> QED
    BY <1>2, <2>2, <2>3, SameError
<1> QED
  BY <1>1, <1>2 DEF LevelDone

\* Every step of a call keeps the invariant.
LEMMA CallKeepsCache ==
    ASSUME CacheInv, NEW r \in Calls, CallStep(r)
    PROVE  CacheInv'
<1>0. /\ DOMAIN call = Calls /\ \A s \in Calls : DOMAIN call[s] = CallFields
      /\ CallFields = {"at", "key", "hyde", "level", "dense", "sparse", "fused", "best",
                       "result", "error", "saw"}
      /\ DOMAIN NoCall = CallFields /\ NoCall.error = Nil
  BY DEF CacheInv, CallsAreRecords, CallFields, NoCall
<1>1. CASE Hit(r)
  <2> DEFINE given == [NoCall EXCEPT !.at = "ok", !.result = cache[call[r].key],
                                     !.saw = cache[call[r].key].chunks # << >>]
  <2>1. /\ DOMAIN given = CallFields /\ given.at = "ok" /\ given.error = Nil
        /\ call' = [call EXCEPT ![r] = given]
    <3>1. call' = [call EXCEPT ![r] = given]
      BY <1>1, Zenon DEF Hit
    <3>2. DOMAIN given = CallFields /\ given.at = "ok" /\ given.error = Nil
      BY <1>0
    <3> QED
      BY <3>1, <3>2
  <2> HIDE DEF given
  <2>2. OnlyCall(r) /\ call'[r] = given
    BY <1>0, <2>1 DEF OnlyCall
  <2> QED
    BY <1>1, <2>1, <2>2, NilIsNoError, QuietStep DEF Hit, Working
<1>2. CASE Miss(r)
  <2> DEFINE given == IF deploy.hyde THEN [call[r] EXCEPT !.at = "hyde"] ELSE SearchAt(call[r], 1)
  <2>1. /\ DOMAIN given = CallFields /\ given.key = call[r].key
        /\ given.error = call[r].error /\ given.at \in Working
        /\ call' = [call EXCEPT ![r] = given]
    <3>1. call' = [call EXCEPT ![r] = given]
      BY <1>2, Zenon DEF Miss
    <3>2. /\ DOMAIN given = CallFields /\ given.key = call[r].key
          /\ given.error = call[r].error /\ given.at \in Working
      BY <1>0, SearchKeeps DEF Working
    <3> QED
      BY <3>1, <3>2
  <2> HIDE DEF given
  <2>2. OnlyCall(r) /\ call'[r] = given
    BY <1>0, <2>1 DEF OnlyCall
  <2>3. CallsAreRecords'
    BY <1>0, <2>2 DEF CallsAreRecords, OnlyCall
  <2>4. CASE raced'
    BY <2>3, <2>4 DEF CacheInv
  <2>5. CASE ~raced'
    <3>1. /\ ~raced
          /\ \A s \in Calls \ {r} : call[s].at \in Working => call[s].key # call[r].key
      BY <1>2, <2>5 DEF Miss
    <3>2. OneEach /\ NoKeyError /\ (deploy.cache => ComputedAlone)
      BY <3>1 DEF CacheInv
    <3>3. OneEach' /\ NoKeyError'
      BY <1>2, <2>1, <2>2, <3>2 DEF Miss, OneEach, NoKeyError, OnlyCall
    <3>4. ASSUME deploy.cache PROVE ComputedAlone'
      <4>1. call[r].key \notin DOMAIN cache /\ ComputedAlone
        BY <1>2, <3>2, <3>4 DEF Miss
      <4>2. \A s \in Calls \ {r} : call'[s] = call[s]
        BY <2>2 DEF OnlyCall
      <4>3. call'[r].key = call[r].key /\ DOMAIN cache' = DOMAIN cache
        BY <1>2, <2>1, <2>2 DEF Miss
      <4> QED
        BY <3>1, <4>1, <4>2, <4>3 DEF ComputedAlone
    <3> QED
      BY <1>2, <2>3, <3>3, <3>4 DEF CacheInv, Miss
  <2> QED
    BY <2>4, <2>5
<1>3. ASSUME HydeAnswers(r) \/ DenseAnswers(r) \/ SparseAnswers(r)
      PROVE  CacheInv'
  <2>1. /\ DOMAIN call' = Calls /\ DOMAIN call'[r] = CallFields
        /\ \A s \in Calls \ {r} : call'[s] = call[s]
        /\ call'[r].key = call[r].key /\ call'[r].error = call[r].error
        /\ call[r].at \in Working
    <3>1. CASE HydeAnswers(r)
      <4>1. PICK said \in BOOLEAN :
              call' = [call EXCEPT ![r] = SearchAt([call[r] EXCEPT !.hyde = said], 1)]
        BY <3>1, Zenon DEF HydeAnswers
      <4> DEFINE heard == [call[r] EXCEPT !.hyde = said]
                 given == SearchAt(heard, 1)
      <4>2. /\ DOMAIN heard = CallFields /\ heard.key = call[r].key
            /\ heard.error = call[r].error
        BY <1>0
      <4> HIDE DEF heard
      <4>3. DOMAIN given = CallFields /\ given.key = call[r].key /\ given.error = call[r].error
        BY <4>2, SearchKeeps
      <4>4. call' = [call EXCEPT ![r] = given]
        BY <4>1 DEF heard
      <4> HIDE DEF given
      <4> QED
        BY <1>0, <3>1, <4>3, <4>4 DEF HydeAnswers, Working
    <3>2. CASE DenseAnswers(r)
      BY <1>0, <3>2 DEF DenseAnswers, Working
    <3>3. CASE SparseAnswers(r)
      BY <1>0, <3>3 DEF SparseAnswers, Working
    <3> QED
      BY <1>3, <3>1, <3>2, <3>3
  <2>2. OnlyCall(r) /\ UNCHANGED <<deploy, cache, order, raced>>
    BY <1>3, <2>1 DEF OnlyCall, HydeAnswers, DenseAnswers, SparseAnswers
  <2> QED
    BY <2>1, <2>2, SameError
<1>4. CASE Raises(r)
  <2>1. PICK given : /\ DOMAIN given = CallFields /\ given.at = "failed"
                     /\ given.error = "backend" /\ call' = [call EXCEPT ![r] = given]
    BY <1>0, <1>4 DEF Raises
  <2>2. OnlyCall(r) /\ call'[r] = given
    BY <1>0, <2>1 DEF OnlyCall
  <2> QED
    BY <1>4, <2>1, <2>2, QuietStep DEF Raises, Working
<1>5. CASE Fuse(r)
  <2>1. PICK fused : \/ /\ call' = [call EXCEPT ![r].at = "rerank", ![r].fused = fused]
                        /\ UNCHANGED <<cache, order>>
                     \/ LevelDone(r, fused)
    BY <1>5, Zenon DEF Fuse
  <2>2. call[r].at \in Working /\ UNCHANGED <<deploy, raced>>
    BY <1>5 DEF Fuse, Working
  <2>3. CASE LevelDone(r, fused)
    BY <2>2, <2>3, LevelStep
  <2>4. CASE /\ call' = [call EXCEPT ![r].at = "rerank", ![r].fused = fused]
             /\ UNCHANGED <<cache, order>>
    <3>1. /\ DOMAIN call' = Calls /\ DOMAIN call'[r] = CallFields
          /\ \A s \in Calls \ {r} : call'[s] = call[s]
          /\ call'[r].key = call[r].key /\ call'[r].error = call[r].error
      BY <1>0, <2>4
    <3> QED
      BY <2>2, <2>4, <3>1, SameError DEF OnlyCall
  <2> QED
    BY <2>1, <2>3, <2>4
<1>6. CASE Rerank(r)
  <2>1. PICK ranked : LevelDone(r, ranked)
    BY <1>6 DEF Rerank
  <2>2. call[r].at \in Working /\ UNCHANGED <<deploy, raced>>
    BY <1>6 DEF Rerank, Working
  <2> QED
    BY <2>1, <2>2, LevelStep
<1> QED
  BY <1>1, <1>2, <1>3, <1>4, <1>5, <1>6 DEF CallStep
-----------------------------------------------------------------------------
\* Calls start idle, the cache empty.
LEMMA CacheStart == InitM3 => CacheInv
<1> SUFFICES ASSUME InitM3 PROVE CacheInv
  OBVIOUS
<1>1. \A r \in Calls : call[r] = NoCall
  BY DEF InitM3
<1>2. CallsAreRecords
  BY <1>1 DEF InitM3, CallsAreRecords, CallFields
<1>3. NoCall.error = Nil /\ NoCall.at \notin Working
  BY DEF NoCall, Working
<1>4. NoKeyError /\ ComputedAlone
  BY <1>1, <1>3, NilIsNoError DEF NoKeyError, ComputedAlone
<1>5. OneEach
  BY DEF InitM3, OneEach, ToSet
<1> QED
  BY <1>2, <1>4, <1>5 DEF CacheInv

\* A question's new call is not computing anything yet.
LEMMA RetrieveStep ==
    ASSUME CacheInv, NEW r \in Calls, NEW a, NEW q, Retrieve(r, a, q),
           UNCHANGED <<deploy, cache, order, raced>>
    PROVE  CacheInv'
<1> DEFINE key == <<q, IF a.mode = "simple" THEN SimpleTopK ELSE ParallelTopK>>
           given == IF deploy.m3 THEN Called(key) ELSE [NoCall EXCEPT !.at = "ok"]
<1>1. /\ DOMAIN given = CallFields /\ given.at \notin Working
      /\ given.error = Nil /\ call' = [call EXCEPT ![r] = given]
  <2>1. call' = [call EXCEPT ![r] = given]
    BY Zenon DEF Retrieve
  <2> HIDE DEF key
  <2>2. DOMAIN given = CallFields /\ given.at \notin Working /\ given.error = Nil
    BY DEF Called, NoCall, CallFields, Working
  <2> QED
    BY <2>1, <2>2
<1> HIDE DEF given
<1>2. OnlyCall(r) /\ call'[r] = given
  BY <1>1 DEF CacheInv, CallsAreRecords, OnlyCall
<1> QED
  BY <1>1, <1>2, NilIsNoError, QuietStep

\* Nor is a caller whose answer was taken.
LEMMA TakenStep ==
    ASSUME CacheInv, NEW r \in Calls, call' = [call EXCEPT ![r] = NoCall],
           UNCHANGED <<deploy, cache, order, raced>>
    PROVE  CacheInv'
<1>1. OnlyCall(r) /\ call'[r] = NoCall
  BY DEF CacheInv, CallsAreRecords, CallFields, OnlyCall
<1>2. NoCall.at \notin Working /\ NoCall.error = Nil
  BY DEF NoCall, Working
<1> QED
  BY <1>1, <1>2, NilIsNoError, QuietStep

LEMMA CacheStep ==
    ASSUME CacheInv, [AnsweringNext]_answeringVars
    PROVE  CacheInv'
<1>1. ASSUME UNCHANGED <<deploy, cache, order, call, raced>>
      PROVE  CacheInv'
  BY <1>1 DEF CacheInv, CallsAreRecords, OneEach, NoKeyError, ComputedAlone
<1>2. ASSUME NEW r \in Calls, Ask(r)
      PROVE  CacheInv'
  <2>1. PICK a : Retrieve(r, a, a.query)
    BY <1>2 DEF Ask
  <2> QED
    BY <1>2, <2>1, RetrieveStep DEF Ask
<1>3. ASSUME NEW r \in Calls, CallStep(r)
      PROVE  CacheInv'
  BY <1>3, CallKeepsCache
<1>4. ASSUME NEW r \in Calls, Collect(r)
      PROVE  CacheInv'
  <2>1. UNCHANGED <<deploy, cache, order, raced>>
    BY <1>4 DEF Collect
  <2>2. CASE EndIteration(r)
    <3>1. \/ \E a, q : Retrieve(r, a, q)
          \/ call' = [call EXCEPT ![r] = NoCall]
      BY <2>2, Zenon DEF EndIteration
    <3> QED
      BY <2>1, <3>1, RetrieveStep, TakenStep
  <2>3. CASE call' = [call EXCEPT ![r] = NoCall]
    BY <2>1, <2>3, TakenStep
  <2> QED
    BY <1>4, <2>2, <2>3 DEF Collect
<1>5. ASSUME NEW r \in Calls, GraphAnswers(r) \/ LlmAnswers(r) \/ LlmFails(r)
      PROVE  CacheInv'
  BY <1>1, <1>5 DEF GraphAnswers, LlmAnswers, LlmFails, Ends, m3vars
<1>6. CASE Reindex
  BY <1>1, <1>6 DEF Reindex
<1>7. CASE UNCHANGED answeringVars
  BY <1>1, <1>7 DEF answeringVars, m3vars
<1> QED
  BY <1>2, <1>3, <1>4, <1>5, <1>6, <1>7 DEF AnsweringNext, QuestionStep

\* Until two requests compute the same key at once, no request is failed by the
\* cache, which holds the keys of its order, each once: for every corpus, every
\* ranking and every limit.
THEOREM CacheUnlessRaced == AnsweringSpec => []LostOnlyIfRaced
<1>1. AnsweringInit => CacheInv
  BY CacheStart DEF AnsweringInit
<1>2. CacheInv /\ [AnsweringNext]_answeringVars => CacheInv'
  BY CacheStep
<1>3. CacheInv => LostOnlyIfRaced
  BY DEF CacheInv, OneEach, NoKeyError, LostOnlyIfRaced
<1> QED
  BY <1>1, <1>2, <1>3, PTL DEF AnsweringSpec
-----------------------------------------------------------------------------
(***************************************************************************)
(* What the pure stages of a retrieval return: sequences of chunks, none   *)
(* of them empty for want of anything but chunks.                          *)
(***************************************************************************)

LEMMA UptoTyped ==
    ASSUME NEW S, NEW s \in Seq(S), NEW k \in Nat
    PROVE  /\ Upto(s, k) \in Seq(S)
           /\ s # << >> /\ k # 0 => Upto(s, k) # << >>
<1>1. Len(s) \in Nat /\ (s # << >> => Len(s) # 0)
  OBVIOUS
<1>2. PICK n \in 0 .. Len(s) : n = IF k < Len(s) THEN k ELSE Len(s)
  BY <1>1
<1>3. Upto(s, k) = SubSeq(s, 1, n)
  BY <1>2 DEF Upto
<1>4. SubSeq(s, 1, n) \in Seq(S) /\ Len(SubSeq(s, 1, n)) = n
  BY <1>1
<1> QED
  BY <1>1, <1>2, <1>3, <1>4

\* The members of S that are ahead of c in the relation R.
AheadOf(S, R, c) == {d \in S : <<d, c>> \in R}

\* In a finite strict order each member is behind a number of others of its own:
\* SortedBy finds one for each place.
LEMMA EachPlaceTaken ==
    ASSUME NEW S, IsFiniteSet(S), NEW R,
           \A c \in S : <<c, c>> \notin R,
           \A c, d \in S : c # d => <<c, d>> \in R \/ <<d, c>> \in R,
           \A b, c, d \in S : <<b, c>> \in R /\ <<c, d>> \in R => <<b, d>> \in R,
           NEW n \in 0 .. Cardinality(S) - 1
    PROVE  \E c \in S : Cardinality(AheadOf(S, R, c)) = n
<1> DEFINE Below(c) == {d \in S : <<d, c>> \in R}
           T == 0 .. Cardinality(S) - 1
           f == [c \in S |-> Cardinality(Below(c))]
<1>1. Cardinality(S) \in Nat
  BY FS_CardinalityType
<1>2. ASSUME NEW c \in S
      PROVE  /\ IsFiniteSet(Below(c)) /\ Cardinality(Below(c)) \in Nat
             /\ Cardinality(Below(c)) < Cardinality(S)
  <2>1. Below(c) \in SUBSET S /\ Below(c) # S
    OBVIOUS
  <2> HIDE DEF Below
  <2>2. IsFiniteSet(Below(c)) /\ Cardinality(Below(c)) <= Cardinality(S)
        /\ Cardinality(Below(c)) # Cardinality(S)
    BY <2>1, FS_Subset, Zenon
  <2>3. Cardinality(Below(c)) \in Nat
    BY <2>2, FS_CardinalityType
  <2> QED
    BY <1>1, <2>2, <2>3
<1>3. ASSUME NEW c \in S, NEW d \in S, <<c, d>> \in R
      PROVE  Cardinality(Below(c)) < Cardinality(Below(d))
  <2>1. Below(c) \in SUBSET Below(d) /\ c \in Below(d) /\ c \notin Below(c)
    BY <1>3
  <2> HIDE DEF Below
  <2>2. Cardinality(Below(c)) <= Cardinality(Below(d))
        /\ Cardinality(Below(c)) # Cardinality(Below(d))
    BY <1>2, <2>1, FS_Subset, Zenon
  <2> QED
    BY <1>2, <2>2
<1>4. f \in Injection(S, T)
  <2>1. f \in [S -> T]
    <3> HIDE DEF Below
    <3>1. \A c \in S : Cardinality(Below(c)) \in T
      BY <1>1, <1>2
    <3> QED
      BY <3>1
  <2>2. ASSUME NEW c \in S, NEW d \in S, f[c] = f[d] PROVE c = d
    <3>1. Cardinality(Below(c)) = Cardinality(Below(d))
      BY <2>2
    <3> HIDE DEF Below, f
    <3>2. \A a, b \in Nat : a < b => a # b
      OBVIOUS
    <3> QED
      BY <1>2, <1>3, <3>1, <3>2
  <2> QED
    BY <2>1, <2>2 DEF Injection, IsInjective
<1>5. IsFiniteSet(T) /\ Cardinality(T) = Cardinality(S)
  BY <1>1, FS_Interval
<1>6. f \in Surjection(S, T)
  BY <1>4, <1>5, FS_Injection
<1>7. PICK c \in S : f[c] = n
  BY <1>6 DEF Surjection
<1> QED
  BY <1>7 DEF AheadOf

\* What is in a list has a place there.
LEMMA PlaceIn ==
    ASSUME NEW S, NEW list \in Seq(S), NEW c \in ToSet(list)
    PROVE  Place(list, c) \in Nat /\ list[Place(list, c)] = c
<1>1. \E i \in DOMAIN list : list[i] = c
  BY DEF ToSet
<1>2. Place(list, c) \in DOMAIN list /\ list[Place(list, c)] = c
  BY <1>1 DEF Place
<1> QED
  BY <1>2

LEMMA FirstIn ==
    ASSUME NEW S, NEW list \in Seq(S), NEW c \in ToSet(list)
    PROVE  FirstSeen(list, c) \in Nat /\ list[FirstSeen(list, c)] = c
<1> DEFINE T == {i \in DOMAIN list : list[i] = c}
<1>1. T \subseteq Nat /\ T # {} /\ DOMAIN list = 1 .. Len(list) /\ Len(list) \in Nat
  BY DEF ToSet
<1>2. PICK i \in T : \A j \in T : i <= j
  <2> HIDE DEF T
  <2> QED
    BY <1>1, LeastNumber
<1>3. i \in DOMAIN list /\ list[i] = c /\ \A j \in 1 .. i - 1 : list[j] # c
  BY <1>1, <1>2
<1>4. FirstSeen(list, c) \in DOMAIN list /\ list[FirstSeen(list, c)] = c
  BY <1>3 DEF FirstSeen
<1> QED
  BY <1>1, <1>4

\* The set of a list is finite.
LEMMA ToSetFinite ==
    ASSUME NEW S, IsFiniteSet(S), NEW list \in Seq(S)
    PROVE  ToSet(list) \subseteq S /\ IsFiniteSet(ToSet(list))
<1>1. ToSet(list) \subseteq S
  BY DEF ToSet
<1> QED
  BY <1>1, FS_Subset

\* A set that is put in order is a sequence of its members.
LEMMA OrderedTyped ==
    ASSUME NEW S, IsFiniteSet(S), S \subseteq Chunks, NEW s \in [1 .. Cardinality(S) -> S]
    PROVE  s \in Seq(Chunks)
<1>1. Cardinality(S) \in Nat
  BY FS_CardinalityType
<1>2. s \in [1 .. Cardinality(S) -> Chunks]
  OBVIOUS
<1> QED
  BY <1>1, <1>2

LEMMA FoundTyped ==
    ASSUME NEW rank \in Seq(Chunks), NEW f, NEW k \in Nat
    PROVE  Found(rank, f, k) \in Seq(Chunks)
<1> DEFINE hits == {c \in ToSet(rank) : c \in index /\ Passes(c, f)}
           R == {p \in hits \X hits : Place(rank, p[1]) < Place(rank, p[2])}
           at(i) == CHOOSE c \in hits :
                      Cardinality({d \in hits : Place(rank, d) < Place(rank, c)}) = i - 1
           s == [i \in 1 .. Cardinality(hits) |-> at(i)]
<1>1. Found(rank, f, k) = Upto(s, k)
  BY DEF Found, SortedBy
<1>2. hits \subseteq ToSet(rank) /\ hits \subseteq Chunks /\ IsFiniteSet(hits)
  <2>1. ToSet(rank) \subseteq Chunks /\ IsFiniteSet(ToSet(rank))
    BY ToSetFinite, RankingAssumption
  <2>2. hits \subseteq ToSet(rank)
    OBVIOUS
  <2> HIDE DEF hits
  <2> QED
    BY <2>1, <2>2, FS_Subset
<1> HIDE DEF hits
<1>3. \A c \in hits : Place(rank, c) \in Nat /\ rank[Place(rank, c)] = c
  BY <1>2, PlaceIn
<1>4. \A c, d \in hits : c # d => Place(rank, c) # Place(rank, d)
  BY <1>3
<1>5. ASSUME NEW i \in 1 .. Cardinality(hits) PROVE at(i) \in hits
  <2>1. i - 1 \in 0 .. Cardinality(hits) - 1
    BY <1>2, FS_CardinalityType
  <2>2. /\ \A c \in hits : <<c, c>> \notin R
        /\ \A c, d \in hits : c # d => <<c, d>> \in R \/ <<d, c>> \in R
        /\ \A b, c, d \in hits : <<b, c>> \in R /\ <<c, d>> \in R => <<b, d>> \in R
    BY <1>3, <1>4
  <2>3. PICK c \in hits : Cardinality(AheadOf(hits, R, c)) = i - 1
    <3> HIDE DEF R
    <3> QED
      BY <1>2, <2>1, <2>2, EachPlaceTaken
  <2>4. AheadOf(hits, R, c) = {d \in hits : Place(rank, d) < Place(rank, c)}
    BY DEF AheadOf
  <2>5. Cardinality({d \in hits : Place(rank, d) < Place(rank, c)}) = i - 1
    BY <2>3, <2>4
  <2> QED
    BY <2>5
<1>6. s \in Seq(Chunks)
  <2> HIDE DEF at
  <2>1. s \in [1 .. Cardinality(hits) -> hits]
    BY <1>5
  <2> HIDE DEF s
  <2> QED
    BY <1>2, <2>1, OrderedTyped
<1> HIDE DEF s
<1> QED
  BY <1>1, <1>6, UptoTyped

LEMMA ScoreTyped ==
    ASSUME NEW list \in Seq(Chunks), NEW c
    PROVE  Contribution(list, c) \in Int
<1>1. CASE c \in ToSet(list)
  <2>1. Place(list, c) \in Nat /\ list[Place(list, c)] = c
    BY <1>1, PlaceIn
  <2>2. Place(list, c) # 0
    BY <1>1 DEF Place, ToSet
  <2>3. FusionK + Place(list, c) \in Nat \ {0}
    BY <2>1, <2>2, RankingAssumption
  <2>4. \A n \in Nat \ {0} : 1000000 \div n \in Int
    OBVIOUS
  <2> QED
    BY <1>1, <2>3, <2>4 DEF Contribution
<1>2. CASE c \notin ToSet(list)
  BY <1>2 DEF Contribution
<1> QED
  BY <1>1, <1>2

LEMMA FusionTyped ==
    ASSUME NEW dense \in Seq(Chunks), NEW sparse \in Seq(Chunks)
    PROVE  RrfFusion(dense, sparse) \in Seq(Chunks)
<1> DEFINE seen == dense \o sparse
           S == ToSet(seen)
           score(c) == Contribution(dense, c) + Contribution(sparse, c)
           ahead(c, d) == \/ score(c) > score(d)
                          \/ score(c) = score(d) /\ FirstSeen(seen, c) < FirstSeen(seen, d)
           R == {p \in S \X S : ahead(p[1], p[2])}
           at(i) == CHOOSE c \in S : Cardinality({d \in S : ahead(d, c)}) = i - 1
           s == [i \in 1 .. Cardinality(S) |-> at(i)]
<1>1. RrfFusion(dense, sparse) = Upto(s, RerankInputK)
  BY DEF RrfFusion, SortedBy
<1>2. seen \in Seq(Chunks)
  OBVIOUS
<1>3. S \subseteq Chunks /\ IsFiniteSet(S)
  BY <1>2, ToSetFinite, RankingAssumption
<1>4. \A c \in S : FirstSeen(seen, c) \in Nat /\ seen[FirstSeen(seen, c)] = c
  BY <1>2, FirstIn
<1>5. \A c \in S : score(c) \in Int
  BY ScoreTyped
<1> HIDE DEF seen, S, score
<1>6. \A c, d \in S : c # d => FirstSeen(seen, c) # FirstSeen(seen, d)
  BY <1>4
<1>7. ASSUME NEW i \in 1 .. Cardinality(S) PROVE at(i) \in S
  <2>1. i - 1 \in 0 .. Cardinality(S) - 1
    BY <1>3, FS_CardinalityType
  <2>2. /\ \A c \in S : ~ahead(c, c)
        /\ \A c, d \in S : c # d => ahead(c, d) \/ ahead(d, c)
        /\ \A b, c, d \in S : ahead(b, c) /\ ahead(c, d) => ahead(b, d)
    BY <1>4, <1>5, <1>6
  <2> HIDE DEF ahead
  <2>3. /\ \A c \in S : <<c, c>> \notin R
        /\ \A c, d \in S : c # d => <<c, d>> \in R \/ <<d, c>> \in R
        /\ \A b, c, d \in S : <<b, c>> \in R /\ <<c, d>> \in R => <<b, d>> \in R
    BY <2>2
  <2>4. PICK c \in S : Cardinality(AheadOf(S, R, c)) = i - 1
    <3> HIDE DEF R
    <3> QED
      BY <1>3, <2>1, <2>3, EachPlaceTaken
  <2>5. AheadOf(S, R, c) = {d \in S : ahead(d, c)}
    BY DEF AheadOf
  <2>6. Cardinality({d \in S : ahead(d, c)}) = i - 1
    BY <2>4, <2>5
  <2> QED
    BY <2>6
<1>8. s \in Seq(Chunks)
  <2> HIDE DEF at
  <2>1. s \in [1 .. Cardinality(S) -> S]
    BY <1>7
  <2> HIDE DEF s
  <2> QED
    BY <1>3, <2>1, OrderedTyped
<1> HIDE DEF s
<1> QED
  BY <1>1, <1>8, UptoTyped, RankingAssumption

LEMMA RerankedTyped ==
    ASSUME NEW text, \A c \in Chunks : Relevance[text][c] \in Nat, NEW fused \in Seq(Chunks)
    PROVE  Reranked(text, fused) \in Seq(Chunks)
<1> DEFINE S == ToSet(fused)
           ahead(c, d) ==
             \/ Relevance[text][c] > Relevance[text][d]
             \/ Relevance[text][c] = Relevance[text][d] /\ Place(fused, c) < Place(fused, d)
           R == {p \in S \X S : ahead(p[1], p[2])}
           at(i) == CHOOSE c \in S : Cardinality({d \in S : ahead(d, c)}) = i - 1
           s == [i \in 1 .. Cardinality(S) |-> at(i)]
<1>1. Reranked(text, fused) = Upto(s, RerankTopK)
  BY DEF Reranked, SortedBy
<1>2. S \subseteq Chunks /\ IsFiniteSet(S)
  BY ToSetFinite, RankingAssumption
<1>3. \A c \in S : Place(fused, c) \in Nat /\ fused[Place(fused, c)] = c
  BY PlaceIn
<1>4. \A c \in S : Relevance[text][c] \in Nat
  BY <1>2
<1> HIDE DEF S
<1>5. \A c, d \in S : c # d => Place(fused, c) # Place(fused, d)
  BY <1>3
<1>6. ASSUME NEW i \in 1 .. Cardinality(S) PROVE at(i) \in S
  <2>1. i - 1 \in 0 .. Cardinality(S) - 1
    BY <1>2, FS_CardinalityType
  <2>2. /\ \A c \in S : ~ahead(c, c)
        /\ \A c, d \in S : c # d => ahead(c, d) \/ ahead(d, c)
        /\ \A b, c, d \in S : ahead(b, c) /\ ahead(c, d) => ahead(b, d)
    BY <1>3, <1>4, <1>5
  <2> HIDE DEF ahead
  <2>3. /\ \A c \in S : <<c, c>> \notin R
        /\ \A c, d \in S : c # d => <<c, d>> \in R \/ <<d, c>> \in R
        /\ \A b, c, d \in S : <<b, c>> \in R /\ <<c, d>> \in R => <<b, d>> \in R
    BY <2>2
  <2>4. PICK c \in S : Cardinality(AheadOf(S, R, c)) = i - 1
    <3> HIDE DEF R
    <3> QED
      BY <1>2, <2>1, <2>3, EachPlaceTaken
  <2>5. AheadOf(S, R, c) = {d \in S : ahead(d, c)}
    BY DEF AheadOf
  <2>6. Cardinality({d \in S : ahead(d, c)}) = i - 1
    BY <2>4, <2>5
  <2> QED
    BY <2>6
<1>7. s \in Seq(Chunks)
  <2> HIDE DEF at
  <2>1. s \in [1 .. Cardinality(S) -> S]
    BY <1>6
  <2> HIDE DEF s
  <2> QED
    BY <1>2, <2>1, OrderedTyped
<1> HIDE DEF s
<1> QED
  BY <1>1, <1>7, UptoTyped, RankingAssumption

\* What is kept of a list's first members.
IsKept(g, chunks, n) ==
    g = [i \in 0 .. n |->
           IF i = 0 THEN << >>
           ELSE IF g[i - 1] # << >> /\ NearDuplicate(Last(g[i - 1]), chunks[i])
                THEN g[i - 1]
                ELSE Append(g[i - 1], chunks[i])]

LEMMA KeptExists ==
    ASSUME NEW chunks
    PROVE  \A n \in Nat : \E g : IsKept(g, chunks, n)
<1> DEFINE T == {n \in Nat : \E g : IsKept(g, chunks, n)}
           Next1(g, i) == IF g # << >> /\ NearDuplicate(Last(g), chunks[i]) THEN g
                          ELSE Append(g, chunks[i])
<1>1. 0 \in T
  <2>1. IsKept([i \in 0 .. 0 |-> << >>], chunks, 0)
    BY DEF IsKept
  <2> QED
    BY <2>1
<1>2. ASSUME NEW n \in T PROVE n + 1 \in T
  <2>1. PICK g : IsKept(g, chunks, n)
    OBVIOUS
  <2> DEFINE k == [i \in 0 .. n + 1 |-> IF i = n + 1 THEN Next1(g[n], n + 1) ELSE g[i]]
  <2>2. ASSUME NEW i \in 0 .. n + 1
        PROVE  k[i] = IF i = 0 THEN << >> ELSE Next1(k[i - 1], i)
    <3> HIDE DEF Next1
    <3>1. CASE i = n + 1
      <4>1. k[i] = Next1(g[n], i) /\ k[i - 1] = g[n] /\ i # 0
        BY <3>1
      <4> QED
        BY <4>1
    <3>2. CASE i # n + 1
      <4>1. i \in 0 .. n /\ k[i] = g[i] /\ (i # 0 => k[i - 1] = g[i - 1])
        BY <3>2
      <4>2. g[i] = IF i = 0 THEN << >> ELSE Next1(g[i - 1], i)
        BY <2>1, <4>1 DEF IsKept, Next1
      <4> HIDE DEF k
      <4> QED
        BY <4>1, <4>2
    <3> QED
      BY <3>1, <3>2
  <2>3. IsKept(k, chunks, n + 1)
    <3>1. k = [i \in 0 .. n + 1 |-> k[i]]
      OBVIOUS
    <3> HIDE DEF k
    <3>2. k = [i \in 0 .. n + 1 |-> IF i = 0 THEN << >> ELSE Next1(k[i - 1], i)]
      BY <2>2, <3>1
    <3> QED
      BY <3>2 DEF IsKept
  <2> QED
    BY <2>3
<1> QED
  <2> HIDE DEF T
  <2>1. Nat \subseteq T
    BY <1>1, <1>2, SetInduction
  <2> QED
    BY <2>1 DEF T

\* Near duplicates are taken out of a list, but never all of it.
LEMMA DeduplicatedTyped ==
    ASSUME NEW chunks \in Seq(Chunks)
    PROVE  /\ Deduplicated(chunks) \in Seq(Chunks)
           /\ chunks # << >> => Deduplicated(chunks) # << >>
<1> DEFINE m == Len(chunks)
           g == CHOOSE f : IsKept(f, chunks, m)
           T == {n \in Nat : n <= m => g[n] \in Seq(Chunks) /\ (n # 0 => g[n] # << >>)}
<1>1. m \in Nat /\ (chunks # << >> => m # 0) /\ \A i \in 1 .. m : chunks[i] \in Chunks
  OBVIOUS
<1>2. IsKept(g, chunks, m)
  <2> HIDE DEF m
  <2> QED
    BY <1>1, KeptExists
<1>3. Deduplicated(chunks) = g[m]
  BY DEF Deduplicated, IsKept
<1> HIDE DEF g, m
<1>4. 0 \in T
  BY <1>1, <1>2 DEF IsKept
<1>5. ASSUME NEW n \in Nat, n \in T PROVE n + 1 \in T
  <2>1. CASE n + 1 > m
    BY <1>1, <2>1
  <2>2. CASE n + 1 <= m
    <3>1. /\ n + 1 \in 0 .. m /\ n + 1 # 0 /\ (n + 1) - 1 = n /\ chunks[n + 1] \in Chunks
          /\ g[n] \in Seq(Chunks) /\ (n # 0 => g[n] # << >>)
      BY <1>1, <1>5, <2>2
    <3>2. g[n + 1] = IF g[n] # << >> /\ NearDuplicate(Last(g[n]), chunks[n + 1]) THEN g[n]
                     ELSE Append(g[n], chunks[n + 1])
      BY <1>2, <3>1 DEF IsKept
    <3>3. \A q \in Seq(Chunks), c \in Chunks : Append(q, c) \in Seq(Chunks) /\ Append(q, c) # << >>
      OBVIOUS
    <3>4. g[n + 1] \in Seq(Chunks) /\ g[n + 1] # << >>
      BY <3>1, <3>2, <3>3, Zenon
    <3> QED
      BY <3>1, <3>4
  <2> QED
    BY <1>1, <2>1, <2>2
<1>6. m \in T
  <2> HIDE DEF T
  <2> QED
    BY <1>1, <1>4, <1>5, SetInduction
<1> QED
  BY <1>1, <1>3, <1>6
-----------------------------------------------------------------------------
(***************************************************************************)
(* What a question is answered from (Answering), on top of those stages.   *)
(***************************************************************************)

\* What a retrieval returns: chunks, and a score that is not nought when there are
\* any, of what scores them.
Results == [chunks : Seq(Chunks), top : Nat, scored : BOOLEAN]

GoodResult(x) ==
  /\ x \in Results
  /\ x.scored /\ x.chunks # << >> => x.top > 0

CallRecords ==
  [at : {"idle", "called", "ok", "failed"} \cup Working,
   key : (Queries \X (Nat \ {0})) \cup {Nil}, hyde : BOOLEAN, level : Nat,
   dense : Seq(Chunks) \cup {Pending}, sparse : Seq(Chunks) \cup {Pending},
   fused : Seq(Chunks), best : Seq(Chunks), result : Results,
   error : {Nil, "backend", "KeyError"}, saw : BOOLEAN]

\* What a level has found is not lost by the levels after it, nor by the end.
CallGood(c) ==
  /\ c \in CallRecords
  /\ GoodResult(c.result)
  /\ c.at \in {"called"} \cup Working =>
       c.key \in Queries \X (Nat \ {0}) /\ (c.saw => c.best # << >>)
  /\ c.at = "ok" /\ c.saw => c.result.chunks # << >>

SearchInv ==
  /\ deploy \in Deployments
  /\ call \in [Calls -> CallRecords]
  /\ \A r \in Calls : CallGood(call[r])
  /\ \A k \in DOMAIN cache : GoodResult(cache[k])

\* What a pipeline goes on with: without a warning, its search was completed and
\* has not lost what it found.
GoodContext(x) ==
  /\ x \in Contexts
  /\ x.scored /\ x.chunks # << >> => x.top > 0
  /\ ~x.warned => ~x.failed /\ (x.saw => x.chunks # << >>)

OpenQuestions ==
  [at : {"idle", "retrieve", "generate"}, ask : (UNION {d.asks : d \in Deployments}) \cup {Nil},
   now : Queries \cup {Nil}, round : Nat, graph : {"ok", "failed", Pending},
   ctx : Contexts \cup {Nil}, fate : {NoFate}, found : BOOLEAN]

\* The end of a question: what FoundIsUsed says of it.
GoodEnd(q) ==
  /\ q.graph # Pending
  /\ q.fate.kind = "no context" => ~q.found
  /\ q.fate.kind = "answer" /\ q.fate.shown = << >> /\ ~q.fate.warned =>
       ~q.fate.failed /\ (q.fate.saw => q.fate.cut)

QuestionGood(q) ==
  \/ /\ q \in OpenQuestions
     /\ q.at = "retrieve" =>
          /\ q.ask \in deploy.asks /\ q.now \in Queries
          /\ IF q.ctx = Nil THEN ~q.found ELSE GoodContext(q.ctx)
     /\ q.at = "generate" => GoodContext(q.ctx)
  \/ q.at = "done" /\ GoodEnd(q)

AnswerInv ==
  /\ SearchInv
  /\ DOMAIN question = Calls
  /\ \A r \in Calls : QuestionGood(question[r])

\* A step gives one call a new state; the others are as they were.
LEMMA SearchKept ==
    ASSUME SearchInv, NEW r \in Calls, NEW given, CallGood(given),
           call' = [call EXCEPT ![r] = given], UNCHANGED deploy,
           \A k \in DOMAIN cache' : GoodResult(cache'[k])
    PROVE  SearchInv'
<1>1. call' \in [Calls -> CallRecords] /\ \A s \in Calls : call'[s] = IF s = r THEN given ELSE call[s]
  BY DEF SearchInv, CallGood
<1>2. \A s \in Calls : CallGood(call'[s])
  BY <1>1 DEF SearchInv
<1> QED
  BY <1>1, <1>2, Zenon DEF SearchInv, CallGood, GoodResult, Results, CallRecords

LEMMA IdleGood == CallGood(NoCall)
<1>1. << >> \in Seq(Chunks)
  OBVIOUS
<1> QED
  BY <1>1 DEF CallGood, CallRecords, GoodResult, Results, NoCall, Nothing, Working

\* A level's search goes on with what the levels before have found.
LEMMA SearchGood ==
    ASSUME NEW c \in CallRecords, GoodResult(c.result), NEW level \in Nat,
           c.key \in Queries \X (Nat \ {0}), c.saw => c.best # << >>
    PROVE  CallGood(SearchAt(c, level))
<1>1. << >> \in Seq(Chunks)
  OBVIOUS
<1> DEFINE dense == IF PathOf(c.key[1]) # "exact" /\ (Asked[c.key[1]].prose \/ c.hyde)
                    THEN Pending ELSE << >>
           sparse == IF Asked[c.key[1]].keyed THEN Pending ELSE << >>
<1>2. SearchAt(c, level) = [c EXCEPT !.at = "search", !.level = level, !.fused = << >>,
                                     !.dense = dense, !.sparse = sparse]
  BY DEF SearchAt
<1>3. dense \in Seq(Chunks) \cup {Pending} /\ sparse \in Seq(Chunks) \cup {Pending}
  BY <1>1
<1> HIDE DEF dense, sparse
<1>4. /\ SearchAt(c, level).at = "search" /\ SearchAt(c, level).key = c.key
      /\ SearchAt(c, level).saw = c.saw /\ SearchAt(c, level).best = c.best
      /\ SearchAt(c, level).result = c.result
  <2>1. \A d \in CallRecords : \A x, y :
          LET e == [d EXCEPT !.at = "search", !.level = level, !.fused = << >>,
                             !.dense = x, !.sparse = y]
          IN  /\ e.at = "search" /\ e.key = d.key /\ e.saw = d.saw /\ e.best = d.best
              /\ e.result = d.result
    BY DEF CallRecords
  <2>2. PICK d : d = c
    OBVIOUS
  <2>3. SearchAt(c, level) = [d EXCEPT !.at = "search", !.level = level, !.fused = << >>,
                                       !.dense = dense, !.sparse = sparse]
    BY <1>2, <2>2
  <2>4. /\ SearchAt(c, level).at = "search" /\ SearchAt(c, level).key = d.key
        /\ SearchAt(c, level).saw = d.saw /\ SearchAt(c, level).best = d.best
        /\ SearchAt(c, level).result = d.result
    BY <2>1, <2>2, <2>3, SMT
  <2> QED
    BY <2>2, <2>4
<1>5. SearchAt(c, level) \in CallRecords
  BY <1>1, <1>2, <1>3 DEF CallRecords, Working
<1> QED
  BY <1>4, <1>5 DEF CallGood

\* A chunk's score is not nought, whichever stage scored it.
LEMMA GradeIsPositive ==
    ASSUME NEW r \in Calls, CallGood(call[r]), call[r].at \in Working, NEW c \in Chunks
    PROVE  Grade(r, c) \in Nat /\ (Scores(r) => Grade(r, c) > 0)
<1>1. QueryOf(r) \in Queries /\ SemanticQuery(call[r]) \in {QueryOf(r), Hypothesis[QueryOf(r)]}
  BY DEF CallGood, QueryOf, SemanticQuery
<1>2. Relevance[SemanticQuery(call[r])][c] \in Nat \ {0}
  BY <1>1, RankingAssumption
<1>3. PathOf(QueryOf(r)) \in {"exact", "keyword", "full"}
  BY DEF PathOf
<1> QED
  BY <1>2, <1>3, RankingAssumption DEF Grade, Scores

\* The first few of a list that is not empty, when at least one is asked for.
LEMMA UptoKeeps ==
    ASSUME NEW S, NEW s \in Seq(S), NEW k \in Nat \ {0}, s # << >>
    PROVE  Upto(s, k) # << >>
<1>1. Len(s) \in Nat \ {0}
  OBVIOUS
<1>2. PICK n \in 1 .. Len(s) : n = IF k < Len(s) THEN k ELSE Len(s)
  BY <1>1
<1>3. Len(SubSeq(s, 1, n)) = n
  BY <1>1
<1> QED
  BY <1>2, <1>3 DEF Upto

\* What is assembled is good: neither the duplicates' removal nor top_k empties it.
LEMMA AssembleGood ==
    ASSUME SearchInv, NEW r \in Calls, NEW chunks \in Seq(Chunks), call[r].at \in Working,
           call[r].saw => chunks # << >>, Assemble(r, chunks), UNCHANGED deploy
    PROVE  SearchInv'
<1> DEFINE kept == Upto(Deduplicated(chunks), TopK(r))
           result == [chunks |-> kept, top |-> IF kept = << >> THEN 0 ELSE Grade(r, Head(kept)),
                      scored |-> Scores(r)]
           stored == Store(call[r].key, result)
           done   == [NoCall EXCEPT !.at = "ok", !.result = result,
                                    !.saw = call[r].saw \/ chunks # << >>]
           lost   == [done EXCEPT !.at = "failed", !.error = "KeyError", !.result = Nothing]
<1>1. \/ /\ call' = [call EXCEPT ![r] = done] \/ call' = [call EXCEPT ![r] = lost]
         /\ cache' = stored.cache
      \/ call' = [call EXCEPT ![r] = done] /\ cache' = cache
  BY DEF Assemble
<1>2. CallGood(call[r]) /\ TopK(r) \in Nat \ {0}
  BY DEF SearchInv, CallGood, TopK
<1>3. kept \in Seq(Chunks) /\ (chunks # << >> => kept # << >>)
  BY <1>2, DeduplicatedTyped, UptoTyped, UptoKeeps
<1> HIDE DEF kept
<1>4. GoodResult(result)
  <2>1. kept # << >> => Head(kept) \in Chunks
    BY <1>3
  <2>2. kept # << >> =>
          Grade(r, Head(kept)) \in Nat /\ (Scores(r) => Grade(r, Head(kept)) > 0)
    BY <1>2, <2>1, GradeIsPositive
  <2>3. Scores(r) \in BOOLEAN
    BY DEF Scores
  <2> QED
    BY <1>3, <2>2, <2>3 DEF GoodResult, Results
<1>5. result.chunks = kept
  OBVIOUS
<1> HIDE DEF result
<1>6. PICK saw \in BOOLEAN : saw = (call[r].saw \/ chunks # << >>)
  OBVIOUS
<1>7. CallGood(done) /\ CallGood(lost)
  <2>1. saw => result.chunks # << >>
    BY <1>3, <1>5, <1>6
  <2>2. << >> \in Seq(Chunks)
    OBVIOUS
  <2>3. done = [NoCall EXCEPT !.at = "ok", !.result = result, !.saw = saw]
    BY <1>6
  <2>4. CallGood(done)
    BY <1>4, <2>1, <2>2, <2>3 DEF CallGood, CallRecords, GoodResult, Results, NoCall, Working
  <2>5. CallGood(lost)
    BY <2>2, <2>3 DEF CallGood, CallRecords, GoodResult, Results, NoCall, Nothing, Working
  <2> QED
    BY <2>4, <2>5
<1>8. \A k \in DOMAIN stored.cache : GoodResult(stored.cache[k])
  <2>1. \A k \in DOMAIN stored.cache :
          \/ stored.cache[k] = result
          \/ k \in DOMAIN cache /\ stored.cache[k] = cache[k]
    BY DEF Store
  <2> HIDE DEF stored
  <2> QED
    BY <1>4, <2>1 DEF SearchInv
<1> HIDE DEF stored, done, lost
<1>9. \A k \in DOMAIN cache' : GoodResult(cache'[k])
  BY <1>1, <1>8 DEF SearchInv
<1> QED
  BY <1>1, <1>7, <1>9, SearchKept

LEMMA LevelGood ==
    ASSUME SearchInv, NEW r \in Calls, NEW found \in Seq(Chunks), call[r].at \in Working,
           LevelDone(r, found), UNCHANGED deploy
    PROVE  SearchInv'
<1> DEFINE best == KeepBest(call[r].best, found)
           saw == call[r].saw \/ found # << >>
           now == [call[r] EXCEPT !.best = best, !.saw = saw]
<1>1. CallGood(call[r]) /\ call[r] \in CallRecords
  BY DEF SearchInv
<1>2. best \in Seq(Chunks) /\ saw \in BOOLEAN /\ (saw => best # << >>)
  BY <1>1 DEF KeepBest, CallGood, CallRecords
<1>3. CASE Assemble(r, best)
  <2> HIDE DEF best
  <2> QED
    BY <1>2, <1>3, AssembleGood
<1>4. CASE call' = [call EXCEPT ![r] = SearchAt(now, call[r].level + 1)] /\ UNCHANGED <<cache, order>>
  <2>1. now \in CallRecords /\ now.result = call[r].result /\ now.key = call[r].key
        /\ now.saw = saw /\ now.best = best
    <3> HIDE DEF best, saw
    <3> QED
      BY <1>1, <1>2 DEF CallRecords
  <2>2. call[r].level + 1 \in Nat
    BY <1>1 DEF CallRecords
  <2> HIDE DEF now, best, saw
  <2>3. CallGood(SearchAt(now, call[r].level + 1))
    BY <1>1, <1>2, <2>1, <2>2, SearchGood DEF CallGood
  <2> QED
    BY <1>4, <2>3, SearchKept DEF SearchInv
<1> QED
  BY <1>3, <1>4, Zenon DEF LevelDone

\* Every step of a call keeps what it has found.
LEMMA CallStaysGood ==
    ASSUME SearchInv, NEW r \in Calls, CallStep(r)
    PROVE  SearchInv'
<1>1. CallGood(call[r]) /\ call[r] \in CallRecords
  BY DEF SearchInv
<1>2. << >> \in Seq(Chunks)
  OBVIOUS
<1>3. CASE Hit(r)
  <2>1. PICK x : x = cache[call[r].key]
    OBVIOUS
  <2>2. GoodResult(x)
    BY <1>3, <2>1 DEF Hit, SearchInv
  <2>3. PICK saw \in BOOLEAN : saw = (x.chunks # << >>)
    OBVIOUS
  <2> DEFINE given == [NoCall EXCEPT !.at = "ok", !.result = x, !.saw = saw]
  <2>4. call' = [call EXCEPT ![r] = given]
    BY <1>3, <2>1, <2>3 DEF Hit
  <2>5. CallGood(given)
    BY <1>2, <2>2, <2>3 DEF CallGood, CallRecords, GoodResult, Results, NoCall, Working
  <2> HIDE DEF given
  <2> QED
    BY <1>3, <2>4, <2>5, SearchKept DEF Hit, SearchInv
<1>4. CASE Miss(r)
  <2> DEFINE given == IF deploy.hyde THEN [call[r] EXCEPT !.at = "hyde"] ELSE SearchAt(call[r], 1)
  <2>1. call' = [call EXCEPT ![r] = given]
    BY <1>4, Zenon DEF Miss
  <2>2. call[r].at = "called"
    BY <1>4 DEF Miss
  <2>3. CallGood(SearchAt(call[r], 1))
    BY <1>1, <2>2, SearchGood DEF CallGood
  <2>4. CallGood([call[r] EXCEPT !.at = "hyde"])
    BY <1>1, <2>2 DEF CallGood, CallRecords, GoodResult, Results, Working
  <2>5. CallGood(given)
    BY <2>3, <2>4, Zenon
  <2> HIDE DEF given
  <2> QED
    BY <1>4, <2>1, <2>5, SearchKept DEF Miss, SearchInv
<1>5. CASE HydeAnswers(r)
  <2>1. PICK said \in BOOLEAN :
          call' = [call EXCEPT ![r] = SearchAt([call[r] EXCEPT !.hyde = said], 1)]
    BY <1>5, Zenon DEF HydeAnswers
  <2> DEFINE heard == [call[r] EXCEPT !.hyde = said]
  <2>2. call[r].at \in Working
    BY <1>5 DEF HydeAnswers, Working
  <2>3. /\ heard \in CallRecords /\ heard.result = call[r].result /\ heard.key = call[r].key
        /\ heard.saw = call[r].saw /\ heard.best = call[r].best
    BY <1>1 DEF CallRecords
  <2>4. call' = [call EXCEPT ![r] = SearchAt(heard, 1)]
    BY <2>1
  <2> HIDE DEF heard
  <2>5. CallGood(SearchAt(heard, 1))
    BY <1>1, <2>2, <2>3, SearchGood DEF CallGood
  <2> QED
    BY <1>5, <2>4, <2>5, SearchKept DEF HydeAnswers, SearchInv
<1>6. ASSUME DenseAnswers(r) \/ SparseAnswers(r)
      PROVE  SearchInv'
  <2>1. call[r].at = "search"
    BY <1>6 DEF DenseAnswers, SparseAnswers
  <2>2. QueryOf(r) \in Queries /\ SemanticQuery(call[r]) \in {QueryOf(r), Hypothesis[QueryOf(r)]}
    BY <1>1, <2>1 DEF CallGood, QueryOf, SemanticQuery, Working
  <2>3. ByMeaning[SemanticQuery(call[r])] \in Seq(Chunks) /\ ByWords[QueryOf(r)] \in Seq(Chunks)
    BY <2>2, RankingAssumption
  <2>4. PICK list \in Seq(Chunks) : \/ call' = [call EXCEPT ![r].dense = list]
                                    \/ call' = [call EXCEPT ![r].sparse = list]
    BY <1>6, <2>3, FoundTyped, RankingAssumption DEF DenseAnswers, SparseAnswers
  <2>5. CallGood([call[r] EXCEPT !.dense = list]) /\ CallGood([call[r] EXCEPT !.sparse = list])
    BY <1>1 DEF CallGood, CallRecords, GoodResult, Results
  <2> QED
    BY <1>6, <2>4, <2>5, SearchKept DEF DenseAnswers, SparseAnswers, SearchInv
<1>7. CASE Raises(r)
  <2> DEFINE given == [NoCall EXCEPT !.at = "failed", !.error = "backend"]
  <2>1. call' = [call EXCEPT ![r] = given]
    BY <1>7 DEF Raises
  <2>2. CallGood(given)
    BY <1>2 DEF CallGood, CallRecords, GoodResult, Results, NoCall, Nothing, Working
  <2> HIDE DEF given
  <2> QED
    BY <1>7, <2>1, <2>2, SearchKept DEF Raises, SearchInv
<1>8. CASE Fuse(r)
  <2>1. /\ call[r].at = "search" /\ call[r].dense # Pending /\ call[r].sparse # Pending
        /\ UNCHANGED deploy
    BY <1>8 DEF Fuse
  <2>2. call[r].dense \in Seq(Chunks) /\ call[r].sparse \in Seq(Chunks)
    BY <1>1, <2>1 DEF CallRecords
  <2>3. RrfFusion(call[r].dense, call[r].sparse) \in Seq(Chunks)
    BY <2>2, FusionTyped
  <2>4. PICK fused \in Seq(Chunks) :
          \/ /\ call' = [call EXCEPT ![r].at = "rerank", ![r].fused = fused]
             /\ UNCHANGED <<cache, order>>
          \/ LevelDone(r, fused)
    BY <1>8, <2>2, <2>3 DEF Fuse
  <2>5. CASE LevelDone(r, fused)
    BY <2>1, <2>5, LevelGood DEF Working
  <2>6. CASE /\ call' = [call EXCEPT ![r].at = "rerank", ![r].fused = fused]
             /\ UNCHANGED <<cache, order>>
    <3> DEFINE given == [call[r] EXCEPT !.at = "rerank", !.fused = fused]
    <3>1. call' = [call EXCEPT ![r] = given]
      BY <2>6 DEF SearchInv
    <3>2. CallGood(given)
      BY <1>1, <2>1 DEF CallGood, CallRecords, GoodResult, Results, Working
    <3> HIDE DEF given
    <3> QED
      BY <2>1, <2>6, <3>1, <3>2, SearchKept DEF SearchInv
  <2> QED
    BY <2>4, <2>5, <2>6
<1>9. CASE Rerank(r)
  <2>1. call[r].at = "rerank" /\ UNCHANGED deploy
    BY <1>9 DEF Rerank
  <2>2. QueryOf(r) \in Queries /\ SemanticQuery(call[r]) \in {QueryOf(r), Hypothesis[QueryOf(r)]}
    BY <1>1, <2>1 DEF CallGood, QueryOf, SemanticQuery, Working
  <2>3. \A c \in Chunks : Relevance[SemanticQuery(call[r])][c] \in Nat
    BY <2>2, RankingAssumption
  <2>4. call[r].fused \in Seq(Chunks)
    BY <1>1 DEF CallRecords
  <2>5. Reranked(SemanticQuery(call[r]), call[r].fused) \in Seq(Chunks)
    BY <2>3, <2>4, RerankedTyped
  <2>6. LevelDone(r, Reranked(SemanticQuery(call[r]), call[r].fused))
    BY <1>9 DEF Rerank
  <2> QED
    BY <2>1, <2>5, <2>6, LevelGood DEF Working
<1> QED
  BY <1>3, <1>4, <1>5, <1>6, <1>7, <1>8, <1>9 DEF CallStep

\* A question's retrieval asks for one of the queries.
LEMMA RetrieveGood ==
    ASSUME SearchInv, NEW r \in Calls, NEW a, NEW q \in Queries, Retrieve(r, a, q),
           UNCHANGED <<deploy, cache>>
    PROVE  SearchInv'
<1>1. << >> \in Seq(Chunks)
  OBVIOUS
<1>2. PICK k \in Nat \ {0} : k = IF a.mode = "simple" THEN SimpleTopK ELSE ParallelTopK
  BY AskingAssumption
<1>3. CallGood(Called(<<q, k>>))
  BY <1>1 DEF Called, CallGood, CallRecords, GoodResult, Results, NoCall, Nothing, Working
<1>4. CallGood([NoCall EXCEPT !.at = "ok"])
  BY <1>1 DEF CallGood, CallRecords, GoodResult, Results, NoCall, Nothing, Working
<1>5. \/ call' = [call EXCEPT ![r] = Called(<<q, k>>)]
      \/ call' = [call EXCEPT ![r] = [NoCall EXCEPT !.at = "ok"]]
  BY <1>2 DEF Retrieve
<1> QED
  BY <1>3, <1>4, <1>5, SearchKept DEF SearchInv

\* A step gives one question a new state, and leaves what deploy is.
LEMMA QuestionKept ==
    ASSUME AnswerInv, SearchInv', NEW r \in Calls, NEW given, QuestionGood(given),
           question' = [question EXCEPT ![r] = given], UNCHANGED deploy
    PROVE  AnswerInv'
<1>1. DOMAIN question' = Calls /\ \A s \in Calls : question'[s] = IF s = r THEN given ELSE question[s]
  BY DEF AnswerInv
<1>2. \A s \in Calls : QuestionGood(question'[s])
  BY <1>1 DEF AnswerInv
<1>3. \A q : QuestionGood(q)' <=> QuestionGood(q)
  BY DEF QuestionGood
<1> QED
  BY <1>1, <1>2, <1>3, Zenon DEF AnswerInv

\* A retrieval that is in: its context is good.
LEMMA ContextGood ==
    ASSUME AnswerInv, NEW r \in Calls, call[r].at \in {"ok", "failed"}
    PROVE  GoodContext(Context(r))
<1>1. CallGood(call[r])
  BY DEF AnswerInv, SearchInv
<1>2. PICK warned \in BOOLEAN : warned = (call[r].at = "failed" \/ question[r].graph = "failed")
  OBVIOUS
<1>3. PICK failed \in BOOLEAN : failed = (call[r].at = "failed")
  OBVIOUS
<1>4. Context(r) = [chunks |-> call[r].result.chunks, top |-> call[r].result.top,
                    scored |-> call[r].result.scored, failed |-> failed, saw |-> call[r].saw, warned |-> warned]
  BY <1>2, <1>3 DEF Context
<1>5. ~warned => ~failed /\ call[r].at = "ok"
  BY <1>2, <1>3
<1> QED
  BY <1>1, <1>4, <1>5 DEF CallGood, CallRecords, GoodResult, Results, GoodContext, Contexts

\* The end of an iteration: the best context is a good one, and there is one as
\* soon as anything was found.
LEMMA IterationGood ==
    ASSUME AnswerInv, NEW r \in Calls, question[r].at = "retrieve", EndIteration(r),
           call[r].at \in {"ok", "failed"}, UNCHANGED <<deploy, cache>>
    PROVE  AnswerInv'
<1>1. PICK q : q = question[r]
  OBVIOUS
<1>2. q \in OpenQuestions /\ q.ask \in deploy.asks /\ q.now \in Queries
      /\ IF q.ctx = Nil THEN ~q.found ELSE GoodContext(q.ctx)
  BY <1>1 DEF AnswerInv, QuestionGood, OpenQuestions
<1>3. PICK ctx : ctx = Context(r)
  OBVIOUS
<1>4. PICK best : best = Better(ctx, q.ctx)
  OBVIOUS
<1>5. PICK next : next = IF ctx.top >= Threshold THEN q.now ELSE Expanded(q.now, q.round)
  OBVIOUS
<1>6. PICK found \in BOOLEAN : found = (q.found \/ (ctx.scored /\ ctx.chunks # << >>))
  OBVIOUS
<1> DEFINE on == [q EXCEPT !.ctx = best, !.now = next, !.round = q.round + 1, !.found = found]
           again == [on EXCEPT !.graph = GraphTask(q.ask)]
           none == [NoQuestion EXCEPT !.at = "done", !.fate.kind = "no context", !.found = found]
           ready == [on EXCEPT !.at = "generate"]
<1>7. GoodContext(ctx)
  BY <1>3, ContextGood
<1>8. IF best = Nil THEN ~found ELSE GoodContext(best)
  <2>1. CASE q.ctx = Nil
    <3>1. best = IF ctx.top > 0 THEN ctx ELSE Nil
      BY <1>4, <2>1 DEF Better
    <3>2. ctx # Nil /\ (ctx.scored /\ ctx.chunks # << >> => ctx.top > 0)
      BY <1>7, NilIsNoContext DEF GoodContext
    <3> QED
      BY <1>2, <1>6, <1>7, <2>1, <3>1, <3>2
  <2>2. CASE q.ctx # Nil
    <3>1. best \in {ctx, q.ctx}
      BY <1>4 DEF Better
    <3>2. GoodContext(q.ctx) /\ q.ctx # Nil /\ ctx # Nil
      BY <1>2, <1>7, <2>2, NilIsNoContext DEF GoodContext
    <3> QED
      BY <1>7, <3>1, <3>2
  <2> QED
    BY <2>1, <2>2
<1>9. next \in Queries
  BY <1>2, <1>5, AskingAssumption DEF Expanded
<1>10. best \in Contexts \cup {Nil}
  BY <1>8 DEF GoodContext
<1>11. /\ on \in OpenQuestions /\ on.at = "retrieve" /\ on.ask = q.ask /\ on.now = next
       /\ on.ctx = best /\ on.found = found
  <2>1. q.at = "retrieve" /\ q.round + 1 \in Nat
    BY <1>1, <1>2 DEF OpenQuestions
  <2>2. PICK round \in Nat : round = q.round + 1
    BY <2>1
  <2>3. on = [q EXCEPT !.ctx = best, !.now = next, !.round = round, !.found = found]
    BY <2>2
  <2> QED
    BY <1>2, <1>9, <1>10, <2>1, <2>3 DEF OpenQuestions
<1>12. \/ /\ question' = [question EXCEPT ![r] = again]
          /\ Retrieve(r, q.ask, next)
       \/ /\ \/ question' = [question EXCEPT ![r] = none] /\ best = Nil
             \/ question' = [question EXCEPT ![r] = ready] /\ best # Nil
          /\ call' = [call EXCEPT ![r] = NoCall]
  <2>1. on = [question[r] EXCEPT !.ctx = best, !.now = next, !.round = @ + 1,
                                 !.found = @ \/ (ctx.scored /\ ctx.chunks # << >>)]
    BY <1>1, <1>6
  <2> HIDE DEF on
  <2>2. CASE ~(ctx.top >= Threshold) /\ on.round < MaxIterations
    BY <1>1, <1>3, <1>4, <1>5, <1>11, <2>1, <2>2, Zenon DEF EndIteration
  <2>3. CASE ~(~(ctx.top >= Threshold) /\ on.round < MaxIterations)
    BY <1>1, <1>3, <1>4, <1>5, <1>11, <2>1, <2>3, Zenon DEF EndIteration
  <2> QED
    BY <2>2, <2>3
<1> HIDE DEF on
<1>13. CASE question' = [question EXCEPT ![r] = again] /\ Retrieve(r, q.ask, next)
  <2>1. SearchInv'
    BY <1>9, <1>13, RetrieveGood DEF AnswerInv
  <2>2. GraphTask(q.ask) \in {"ok", "failed", Pending}
    BY DEF GraphTask
  <2>3. QuestionGood(again)
    BY <1>2, <1>8, <1>9, <1>11, <2>2 DEF QuestionGood, OpenQuestions
  <2> HIDE DEF again
  <2> QED
    BY <1>13, <2>1, <2>3, QuestionKept
<1>14. ASSUME call' = [call EXCEPT ![r] = NoCall]
       PROVE  SearchInv'
  BY <1>14, IdleGood, SearchKept DEF AnswerInv, SearchInv
<1>15. CASE /\ question' = [question EXCEPT ![r] = none] /\ best = Nil
            /\ call' = [call EXCEPT ![r] = NoCall]
  <2>1. none.at = "done" /\ none.graph = "ok" /\ none.fate.kind = "no context" /\ none.found = found
    BY DEF NoQuestion, NoFate
  <2> HIDE DEF none
  <2>2. QuestionGood(none)
    BY <1>8, <1>15, <2>1, PendingIsNoAnswer DEF QuestionGood, GoodEnd
  <2> QED
    BY <1>14, <1>15, <2>2, QuestionKept
<1>16. CASE /\ question' = [question EXCEPT ![r] = ready] /\ best # Nil
            /\ call' = [call EXCEPT ![r] = NoCall]
  <2>1. QuestionGood(ready)
    BY <1>8, <1>11, <1>16 DEF QuestionGood, OpenQuestions
  <2> HIDE DEF ready
  <2> QED
    BY <1>14, <1>16, <2>1, QuestionKept
<1> QED
  BY <1>12, <1>13, <1>15, <1>16

\* What is answered without a chunk was answered from a context without one, or
\* the budget cut it.
LEMMA EndGood ==
    ASSUME AnswerInv, NEW r \in Calls, question[r].at = "generate",
           NEW kind \in {"answer", "apology"}, NEW cited, Ends(r, kind, cited)
    PROVE  AnswerInv'
<1>1. PICK ctx : ctx = question[r].ctx
  OBVIOUS
<1>2. GoodContext(ctx)
  BY <1>1 DEF AnswerInv, QuestionGood, OpenQuestions
<1>3. PICK cut \in BOOLEAN : cut = (Prompt(r) # ctx.chunks)
  OBVIOUS
<1>9. PICK broken \in BOOLEAN :
        broken = (question[r].ask.streamed /\ BuildCitations(ctx.chunks) # {})
  OBVIOUS
<1> DEFINE fate == [kind |-> kind, shown |-> Prompt(r), cited |-> cited, whole |-> ~broken,
                    warned |-> ctx.warned, cut |-> cut, failed |-> ctx.failed, saw |-> ctx.saw]
           given == [NoQuestion EXCEPT !.at = "done", !.fate = fate]
<1>4. question' = [question EXCEPT ![r] = given]
  BY <1>1, <1>3, <1>9 DEF Ends
<1>5. /\ fate.kind = kind /\ fate.shown = Prompt(r) /\ fate.warned = ctx.warned
      /\ fate.cut = cut /\ fate.failed = ctx.failed /\ fate.saw = ctx.saw
  OBVIOUS
<1> HIDE DEF fate
<1>6. given.at = "done" /\ given.graph = "ok" /\ given.fate = fate
  BY DEF NoQuestion
<1> HIDE DEF given
<1>7. QuestionGood(given)
  BY <1>2, <1>3, <1>5, <1>6, PendingIsNoAnswer DEF QuestionGood, GoodEnd, GoodContext
<1>8. SearchInv' /\ UNCHANGED deploy
  BY DEF Ends, m3vars, AnswerInv, SearchInv
<1> QED
  BY <1>4, <1>7, <1>8, QuestionKept

LEMMA AnswerStart == AnsweringInit => AnswerInv
<1> SUFFICES ASSUME AnsweringInit PROVE AnswerInv
  OBVIOUS
<1>1. SearchInv
  <2>1. call = [r \in Calls |-> NoCall] /\ deploy \in Deployments /\ cache = << >>
    BY DEF AnsweringInit, InitM3
  <2> QED
    BY <2>1, IdleGood DEF SearchInv, CallGood
<1>2. NoQuestion \in OpenQuestions /\ NoQuestion.at = "idle"
  BY DEF NoQuestion, OpenQuestions
<1>3. QuestionGood(NoQuestion)
  BY <1>2 DEF QuestionGood
<1> QED
  BY <1>1, <1>3, Zenon DEF AnsweringInit, AnswerInv

LEMMA AnswerStep ==
    ASSUME AnswerInv, [AnsweringNext]_answeringVars
    PROVE  AnswerInv'
<1>1. ASSUME SearchInv', UNCHANGED <<deploy, question>>
      PROVE  AnswerInv'
  BY <1>1 DEF AnswerInv, QuestionGood
<1>2. ASSUME UNCHANGED <<deploy, call, cache>>
      PROVE  SearchInv'
  BY <1>2 DEF AnswerInv, SearchInv
<1>3. ASSUME NEW r \in Calls, Ask(r)
      PROVE  AnswerInv'
  <2>1. PICK a \in deploy.asks :
          /\ question' = [question EXCEPT ![r] =
               [NoQuestion EXCEPT !.at = "retrieve", !.ask = a, !.now = a.query,
                                  !.graph = GraphTask(a)]]
          /\ Retrieve(r, a, a.query)
    BY <1>3 DEF Ask
  <2>2. deploy \in Deployments /\ a.query \in Queries
    BY AskingAssumption DEF AnswerInv, SearchInv
  <2>3. GraphTask(a) \in {"ok", "failed", Pending}
    BY DEF GraphTask
  <2>4. a \in UNION {d.asks : d \in Deployments}
    BY <2>2
  <2> DEFINE given == [NoQuestion EXCEPT !.at = "retrieve", !.ask = a, !.now = a.query,
                                         !.graph = GraphTask(a)]
  <2>5. QuestionGood(given)
    <3>1. given \in OpenQuestions
      BY <2>2, <2>3, <2>4 DEF NoQuestion, OpenQuestions
    <3>2. /\ given.at = "retrieve" /\ given.ask = a /\ given.now = a.query
          /\ given.ctx = Nil /\ given.found = FALSE
      BY DEF NoQuestion
    <3> HIDE DEF given
    <3> QED
      BY <2>2, <3>1, <3>2 DEF QuestionGood
  <2>6. SearchInv'
    BY <1>3, <2>1, <2>2, RetrieveGood DEF Ask, AnswerInv
  <2>7. question' = [question EXCEPT ![r] = given]
    BY <2>1
  <2> HIDE DEF given
  <2> QED
    BY <1>3, <2>5, <2>6, <2>7, QuestionKept DEF Ask
<1>4. ASSUME NEW r \in Calls, CallStep(r), UNCHANGED question
      PROVE  AnswerInv'
  <2>1. SearchInv'
    BY <1>4, CallStaysGood DEF AnswerInv
  <2>2. UNCHANGED deploy
    BY <1>4 DEF CallStep, Hit, Miss, HydeAnswers, DenseAnswers, SparseAnswers, Raises, Fuse, Rerank
  <2> QED
    BY <1>1, <1>4, <2>1, <2>2
<1>5. ASSUME NEW r \in Calls, GraphAnswers(r)
      PROVE  AnswerInv'
  <2>1. PICK g \in {"ok", "failed"} : question' = [question EXCEPT ![r].graph = g]
    BY <1>5 DEF GraphAnswers
  <2>2. PICK q : q = question[r]
    OBVIOUS
  <2>3. QuestionGood(q) /\ q.graph = Pending
    BY <1>5, <2>2 DEF AnswerInv, GraphAnswers
  <2>4. QuestionGood([q EXCEPT !.graph = g])
    BY <2>3 DEF QuestionGood, OpenQuestions, GoodEnd
  <2>5. question' = [question EXCEPT ![r] = [q EXCEPT !.graph = g]]
    BY <2>1, <2>2
  <2> QED
    BY <1>2, <1>5, <2>4, <2>5, QuestionKept DEF GraphAnswers, m3vars
<1>6. ASSUME NEW r \in Calls, Collect(r)
      PROVE  AnswerInv'
  <2>1. question[r].at = "retrieve" /\ call[r].at \in {"ok", "failed"} /\ UNCHANGED <<deploy, cache>>
    BY <1>6 DEF Collect
  <2>2. CASE EndIteration(r)
    BY <2>1, <2>2, IterationGood
  <2>3. CASE /\ question' = [question EXCEPT ![r].at = "generate", ![r].ctx = Context(r)]
             /\ call' = [call EXCEPT ![r] = NoCall]
    <3>1. GoodContext(Context(r))
      BY <2>1, ContextGood
    <3>2. PICK q : q = question[r]
      OBVIOUS
    <3>3. q \in OpenQuestions
      BY <2>1, <3>2 DEF AnswerInv, QuestionGood
    <3>4. PICK ctx : ctx = Context(r)
      OBVIOUS
    <3> DEFINE given == [q EXCEPT !.at = "generate", !.ctx = ctx]
    <3>5. question' = [question EXCEPT ![r] = given]
      BY <2>3, <3>2, <3>4 DEF AnswerInv
    <3>6. given \in OpenQuestions /\ given.at = "generate" /\ given.ctx = ctx
      BY <3>1, <3>3, <3>4 DEF OpenQuestions, GoodContext
    <3> HIDE DEF given
    <3>7. QuestionGood(given)
      BY <3>1, <3>4, <3>6 DEF QuestionGood
    <3>8. SearchInv'
      BY <2>1, <2>3, IdleGood, SearchKept DEF AnswerInv, SearchInv
    <3> QED
      BY <2>1, <3>5, <3>7, <3>8, QuestionKept
  <2> QED
    BY <1>6, <2>2, <2>3 DEF Collect
<1>7. ASSUME NEW r \in Calls, LlmAnswers(r) \/ LlmFails(r)
      PROVE  AnswerInv'
  <2>1. question[r].at = "generate"
    BY <1>7 DEF LlmAnswers, LlmFails
  <2>2. PICK kind \in {"answer", "apology"} : \E cited : Ends(r, kind, cited)
    BY <1>7, Zenon DEF LlmAnswers, LlmFails
  <2> QED
    BY <2>1, <2>2, EndGood
<1>8. ASSUME Reindex, UNCHANGED question
      PROVE  AnswerInv'
  BY <1>1, <1>2, <1>8 DEF Reindex
<1>9. CASE UNCHANGED answeringVars
  BY <1>1, <1>2, <1>9 DEF answeringVars, m3vars
<1> QED
  BY <1>3, <1>4, <1>5, <1>6, <1>7, <1>8, <1>9 DEF AnsweringNext, QuestionStep

\* What was found is used, for every corpus, ranking, cache and limit: no
\* question ends for want of a context that a retrieval gave it, and none is
\* answered without a chunk and without a warning unless its search was completed
\* and found nothing, or the budget cut the first chunk.
THEOREM FoundIsAnswered == AnsweringSpec => []FoundIsUsed
<1>1. AnsweringInit => AnswerInv
  BY AnswerStart
<1>2. AnswerInv /\ [AnsweringNext]_answeringVars => AnswerInv'
  BY AnswerStep
<1>3. AnswerInv => FoundIsUsed
  BY DEF AnswerInv, QuestionGood, OpenQuestions, GoodEnd, FoundIsUsed
<1> QED
  BY <1>1, <1>2, <1>3, PTL DEF AnsweringSpec
=============================================================================
