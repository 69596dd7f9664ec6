------------------------- MODULE KnowledgeGraphProofs -------------------------
(***************************************************************************)
(* Theorems about KnowledgeGraph. Every step does one of three things to   *)
(* the graph: it inserts what an extraction of a document came to, takes a *)
(* document out, or at most drops edges (Moves). The invariants are about  *)
(* the graph and the history of its claims only, and are shown for these   *)
(* three.                                                                  *)
(***************************************************************************)
EXTENDS KnowledgeGraph, Induction

(***************************************************************************)
(* Types. An extraction that is under way knows its document, and a batch  *)
(* that was asked about is one of its text's.                              *)
(***************************************************************************)
GraphType ==
  /\ nodes \in [Ids -> Node \union {None}]
  /\ edges \subseteq Edges
  /\ claims \in [Docs -> SUBSET Ids]
  /\ stolen \subseteq Ids /\ merged \subseteq Ids /\ shared \subseteq Ids

TaskType ==
  /\ llm \in BOOLEAN
  /\ task \in [Tasks -> [stage : Stages, doc : Docs \union {None}, text : Texts \union {None}]]
  /\ batch \in [Tasks -> [Batches -> {"waiting", "calling", "back"}]]
  /\ answer \in [Tasks -> [Batches -> [ents : SUBSET Entity, rels : SUBSET Edges]]]

BoundType == deletes \in 0..MaxDeletes /\ crashes \in 0..MaxCrashes

UnderWay == {"queued", "asking"}
DocKnown ==
  \A t \in Tasks : task[t].stage \in UnderWay => task[t].doc \in Docs /\ task[t].text \in Texts
BatchKnown ==
  \A t \in Tasks, b \in Batches :
    batch[t][b] = "calling" => task[t].stage = "asking" /\ b \in DOMAIN task[t].text.batches

WorkInv == TaskType /\ DocKnown /\ BatchKnown

(***************************************************************************)
(* What an extraction comes to is of the right types.                      *)
(***************************************************************************)
Tagged(d) == [key : Keys, id : Ids, src : {d, None}]
IdsOf(E)  == {e.id : e \in E}

LEMMA ByRuleKeys ==
  ASSUME NEW x \in Texts
  PROVE  ByRule(x) \subseteq Keys
BY EditionsAssumption DEF Texts, ByRule, Affirmed, Raw

LEMMA BatchKeys ==
  ASSUME NEW x \in Texts, NEW b \in DOMAIN x.batches
  PROVE  x.batches[b] \subseteq Keys
BY EditionsAssumption DEF Texts

LEMMA RuleRelsEdges ==
  ASSUME NEW x \in Texts
  PROVE  RuleRels(x) \subseteq Edges
<1>1. ByRule(x) \X ByRule(x) \X {"rule"} \subseteq Edges
  BY ByRuleKeys DEF Edges, Ids
<1> QED BY <1>1 DEF RuleRels

LEMMA AnswersTyped ==
  ASSUME NEW K, K \subseteq Keys, NEW a \in Answers(K)
  PROVE  a \in [ents : SUBSET Entity, rels : SUBSET Edges]
<1>1. CASE a = Nothing
  BY <1>1 DEF Nothing
<1>2. CASE a /= Nothing
  <2>1. PICK f \in Named(K) : a \in {[ents |-> EntsOf(f), rels |-> R] : R \in RelsOf(f)}
    BY <1>2 DEF Answers
  <2>2. PICK R \in RelsOf(f) : a = [ents |-> EntsOf(f), rels |-> R]
    BY <2>1
  <2>3. DOMAIN f = K /\ \A k \in K : f[k] \in Ids
    BY DEF Named
  <2>4. EntsOf(f) \subseteq Entity
    BY <2>3 DEF Entity, EntsOf
  <2>5. R \subseteq Edges
    <3>1. CASE R = {}
      BY <3>1
    <3>2. CASE R /= {}
      <4>1. PICK p \in Pairs(K), y \in Said : R = {<<f[p[1]], f[p[2]], y>>}
        BY <3>2, <2>3 DEF RelsOf
      <4>2. p[1] \in K /\ p[2] \in K
        BY DEF Pairs
      <4> QED BY <4>1, <4>2, <2>3 DEF Edges
    <3> QED BY <3>1, <3>2
  <2> QED BY <2>2, <2>4, <2>5
<1> QED BY <1>1, <1>2

LEMMA GatheredKnown ==
  ASSUME WorkInv, NEW t \in Tasks, Gathered(t)
  PROVE  task[t].doc \in Docs /\ task[t].text \in Texts
BY DEF WorkInv, DocKnown, UnderWay, Gathered

LEMMA AnswerParts ==
  ASSUME TaskType, NEW t \in Tasks, NEW b \in Batches
  PROVE  answer[t][b].ents \subseteq Entity /\ answer[t][b].rels \subseteq Edges
<1>1. answer[t][b] \in [ents : SUBSET Entity, rels : SUBSET Edges]
  BY DEF TaskType
<1> QED BY <1>1

LEMMA MergedTagged ==
  ASSUME WorkInv, NEW t \in Tasks, Gathered(t)
  PROVE  Merged(t) \subseteq Tagged(task[t].doc) /\ MergedRels(t) \subseteq Edges
<1> DEFINE d == task[t].doc
           L == FirstOf(t)
           Last(k) == {x \in L : x.ent.key = k /\ \A y \in L : y.ent.key = k => y.batch <= x.batch}
           A == {[key |-> k, id |-> k, src |-> d] : k \in {l \in ByRule(task[t].text) : Last(l) = {}}}
           B == {[key |-> x.ent.key, id |-> x.ent.id, src |-> None] : x \in UNION {Last(k) : k \in Keys}}
<1>1. task[t].text \in Texts /\ TaskType
  BY GatheredKnown DEF WorkInv
<1>2. A \subseteq Tagged(d)
  BY <1>1, ByRuleKeys DEF Tagged, Ids
<1>3. \A x \in L : x.ent \in Entity
  BY DEF FirstOf
<1>4. UNION {Last(k) : k \in Keys} \subseteq L
  OBVIOUS
<1>5. \A x \in L : x.ent.key \in Keys /\ x.ent.id \in Ids
  BY <1>3 DEF Entity
<1>6. B \subseteq Tagged(d)
  <2> SUFFICES ASSUME NEW x \in L
               PROVE  [key |-> x.ent.key, id |-> x.ent.id, src |-> None] \in Tagged(d)
    BY <1>4
  <2> QED BY <1>5 DEF Tagged
<1>7. Merged(t) = A \union B
  BY DEF Merged
<1>8. \A b \in Batches : answer[t][b].rels \subseteq Edges
  BY <1>1, AnswerParts
<1>9. MergedRels(t) \subseteq Edges
  BY <1>1, <1>8, RuleRelsEdges DEF MergedRels
<1> HIDE DEF A, B, d
<1>10. Merged(t) \subseteq Tagged(d)
  BY <1>2, <1>6, <1>7
<1> QED BY <1>9, <1>10 DEF d

(***************************************************************************)
(* What a step does to the graph.                                          *)
(***************************************************************************)
Inserts(d, E, R) == InsertEntities(E, d) /\ InsertRelations(R) /\ Claim(d, E, R)
Deletes(d) == DeleteEdges(d) /\ (DeleteNodes(d) \/ RemoveOnly(d)) /\ Unclaim(d)
Quiet == edges' \subseteq edges /\ UNCHANGED <<nodes, claims, stolen, merged, shared>>

Moved == \/ Quiet
         \/ \E d \in Docs : \E E \in SUBSET Tagged(d), R \in SUBSET Edges : Inserts(d, E, R)
         \/ \E d \in Docs : Deletes(d)

LEMMA PersistMoves ==
  ASSUME WorkInv, NEW t \in Tasks, Persist(t)
  PROVE  Moved
<1>1. Gathered(t) /\ Inserts(task[t].doc, Merged(t), MergedRels(t))
  BY DEF Persist, Inserts
<1>2. task[t].doc \in Docs
  BY <1>1, GatheredKnown
<1>3. Merged(t) \in SUBSET Tagged(task[t].doc) /\ MergedRels(t) \in SUBSET Edges
  BY <1>1, MergedTagged
<1> QED BY <1>1, <1>2, <1>3 DEF Moved

LEMMA CrashMoves ==
  ASSUME WorkInv, Crash
  PROVE  Moved
<1>1. CASE UNCHANGED <<store, deletes, claims, stolen, merged, shared>>
  BY <1>1 DEF Moved, Quiet, store
<1>2. CASE \E t \in {u \in Tasks : Gathered(u)} : \E E \in SUBSET Merged(t) :
             /\ InsertEntities(E, task[t].doc)
             /\ \E R \in SUBSET (IF E = Merged(t) THEN MergedRels(t) ELSE {}) :
                  InsertRelations(R) /\ Claim(task[t].doc, E, R)
             /\ UNCHANGED deletes
  <2>1. PICK t \in Tasks : Gathered(t) /\ \E E \in SUBSET Merged(t) :
             /\ InsertEntities(E, task[t].doc)
             /\ \E R \in SUBSET (IF E = Merged(t) THEN MergedRels(t) ELSE {}) :
                  InsertRelations(R) /\ Claim(task[t].doc, E, R)
    BY <1>2
  <2>2. PICK E \in SUBSET Merged(t) :
             /\ InsertEntities(E, task[t].doc)
             /\ \E R \in SUBSET (IF E = Merged(t) THEN MergedRels(t) ELSE {}) :
                  InsertRelations(R) /\ Claim(task[t].doc, E, R)
    BY <2>1
  <2>3. PICK R \in SUBSET (IF E = Merged(t) THEN MergedRels(t) ELSE {}) :
             InsertRelations(R) /\ Claim(task[t].doc, E, R)
    BY <2>2
  <2>4. task[t].doc \in Docs
    BY <2>1, GatheredKnown
  <2>5. Merged(t) \in SUBSET Tagged(task[t].doc) /\ MergedRels(t) \in SUBSET Edges
    BY <2>1, MergedTagged
  <2>6. E \in SUBSET Tagged(task[t].doc) /\ R \in SUBSET Edges
    BY <2>5
  <2>7. Inserts(task[t].doc, E, R)
    BY <2>2, <2>3 DEF Inserts
  <2> QED BY <2>4, <2>6, <2>7 DEF Moved
<1>3. CASE \E d \in Docs :
             /\ deletes < MaxDeletes /\ deletes' = deletes + 1
             /\ \/ /\ edges' = {e \in edges : e[1] \notin NodesOf(d)}
                   /\ UNCHANGED <<nodes, claims, stolen, merged, shared>>
                \/ DeleteEdges(d) /\ UNCHANGED <<nodes, claims, stolen, merged, shared>>
                \/ DeleteEdges(d) /\ RemoveOnly(d) /\ Unclaim(d)
  <2>1. PICK d \in Docs :
             \/ /\ edges' = {e \in edges : e[1] \notin NodesOf(d)}
                /\ UNCHANGED <<nodes, claims, stolen, merged, shared>>
             \/ DeleteEdges(d) /\ UNCHANGED <<nodes, claims, stolen, merged, shared>>
             \/ DeleteEdges(d) /\ RemoveOnly(d) /\ Unclaim(d)
    BY <1>3
  <2>2. CASE edges' \subseteq edges /\ UNCHANGED <<nodes, claims, stolen, merged, shared>>
    BY <2>2 DEF Moved, Quiet
  <2>3. CASE DeleteEdges(d) /\ RemoveOnly(d) /\ Unclaim(d)
    BY <2>3 DEF Moved, Deletes
  <2> QED BY <2>1, <2>2, <2>3 DEF DeleteEdges
<1> QED BY <1>1, <1>2, <1>3, Zenon DEF Crash

LEMMA Moves ==
  ASSUME WorkInv, [Next]_vars
  PROVE  Moved
<1>1. ASSUME NEW t \in Tasks, Trigger(t) \/ Ask(t)
      PROVE  Moved
  BY <1>1 DEF Trigger, Ask, Moved, Quiet, store
<1>2. ASSUME NEW t \in Tasks, NEW b \in Batches, CallLlm(t, b) \/ LlmAnswers(t, b)
      PROVE  Moved
  BY <1>2 DEF CallLlm, LlmAnswers, Moved, Quiet, store
<1>3. ASSUME NEW d \in Docs, Delete(d)
      PROVE  Moved
  BY <1>3 DEF Delete, Deletes, Moved
<1>4. CASE UNCHANGED vars
  BY <1>4 DEF Moved, Quiet, vars, store
<1> QED BY <1>1, <1>2, <1>3, <1>4, PersistMoves, CrashMoves DEF Next

(***************************************************************************)
(* What an insertion and a deletion do to the node of one id.              *)
(***************************************************************************)
LEMMA NodeFields ==
  ASSUME GraphType, NEW i \in Ids, nodes[i] /= None
  PROVE  /\ nodes[i] \in Node
         /\ nodes[i].refs \in Nat /\ nodes[i].refs >= 1
         /\ nodes[i].society \in Societies
         /\ nodes[i].src \in Docs \union {None}
<1>1. nodes[i] \in Node
  BY DEF GraphType
<1> QED BY <1>1 DEF Node

LEMMA InsertedNode ==
  ASSUME GraphType, NEW d \in Docs, NEW E \in SUBSET Tagged(d), InsertEntities(E, d),
         NEW i \in Ids
  PROVE  /\ i \notin IdsOf(E) => nodes'[i] = nodes[i]
         /\ i \in IdsOf(E) => \E e \in E : /\ e.id = i
                                           /\ nodes'[i] \in Node
                                           /\ nodes'[i].src = e.src
         /\ i \in IdsOf(E) /\ nodes[i] = None =>
              nodes'[i].refs = 1 /\ nodes'[i].society = Society[d]
         /\ i \in IdsOf(E) /\ nodes[i] /= None =>
              nodes'[i].refs = nodes[i].refs + 1 /\ nodes'[i].society = nodes[i].society
<1>1. CASE i \notin IdsOf(E)
  BY <1>1 DEF InsertEntities, IdsOf
<1>2. CASE i \in IdsOf(E)
  <2> DEFINE e == CHOOSE x \in E : x.id = i
  <2>1. e \in E /\ e.id = i
    BY <1>2 DEF IdsOf
  <2>2. nodes'[i] = IF nodes[i] = None
                    THEN [key |-> e.key, src |-> e.src, refs |-> 1, society |-> Society[d]]
                    ELSE [nodes[i] EXCEPT !.src = e.src, !.refs = @ + 1]
    BY <1>2 DEF InsertEntities, IdsOf
  <2> HIDE DEF e
  <2>3. e.key \in Keys /\ e.src \in Docs \union {None}
    BY <2>1 DEF Tagged
  <2>4. Society[d] \in Societies
    BY DEF Societies
  <2>5. CASE nodes[i] = None
    <3>1. nodes'[i] = [key |-> e.key, src |-> e.src, refs |-> 1, society |-> Society[d]]
      BY <2>2, <2>5
    <3>2. nodes'[i] \in Node
      BY <3>1, <2>3, <2>4 DEF Node
    <3>3. nodes'[i].src = e.src /\ nodes'[i].refs = 1 /\ nodes'[i].society = Society[d]
      BY <3>1
    <3> QED BY <3>2, <3>3, <2>1, <2>5, <1>2
  <2>6. CASE nodes[i] /= None
    <3>1. nodes[i] \in Node
      BY <2>6 DEF GraphType
    <3>2. nodes'[i] = [nodes[i] EXCEPT !.src = e.src, !.refs = @ + 1]
      BY <2>2, <2>6
    <3>3. nodes'[i] \in Node /\ nodes'[i].src = e.src
      <4>1. nodes[i].refs + 1 \in Nat \ {0}
        BY <3>1 DEF Node
      <4>2. nodes'[i] = [nodes[i] EXCEPT !.src = e.src, !.refs = nodes[i].refs + 1]
        BY <3>2
      <4> QED BY <3>1, <4>1, <4>2, <2>3 DEF Node
    <3>4. nodes'[i].refs = nodes[i].refs + 1 /\ nodes'[i].society = nodes[i].society
      BY <3>1, <3>2 DEF Node
    <3> QED BY <3>3, <3>4, <2>1, <2>6, <1>2
  <2> QED BY <2>5, <2>6
<1> QED BY <1>1, <1>2

LEMMA DeletedNode ==
  ASSUME GraphType, NEW d \in Docs, DeleteNodes(d) \/ RemoveOnly(d), NEW i \in Ids
  PROVE  /\ i \notin NodesOf(d) => nodes'[i] = nodes[i]
         /\ i \in NodesOf(d) /\ nodes[i].refs = 1 => nodes'[i] = None
         /\ i \in NodesOf(d) /\ nodes[i].refs /= 1 =>
              /\ nodes'[i] \in Node
              /\ nodes'[i].refs + 1 >= nodes[i].refs
              /\ nodes'[i].society = nodes[i].society
              /\ nodes'[i].src = nodes[i].src
<1>1. CASE i \notin NodesOf(d) \/ nodes[i].refs = 1
  BY <1>1 DEF DeleteNodes, RemoveOnly
<1>2. CASE i \in NodesOf(d) /\ nodes[i].refs /= 1
  <2>1. nodes[i] \in Node
    BY <1>2 DEF NodesOf, There, GraphType
  <2>2. nodes'[i] = nodes[i] \/ nodes'[i] = [nodes[i] EXCEPT !.refs = @ - 1]
    BY <1>2 DEF DeleteNodes, RemoveOnly
  <2>3. nodes[i].refs \in Nat /\ nodes[i].refs >= 1
    BY <2>1 DEF Node
  <2>4. CASE nodes'[i] = nodes[i]
    BY <2>1, <2>3, <2>4, <1>2
  <2>5. CASE nodes'[i] = [nodes[i] EXCEPT !.refs = @ - 1]
    <3>1. nodes[i].refs - 1 \in Nat \ {0}
      BY <2>3, <1>2
    <3>2. nodes'[i] \in Node
      BY <2>1, <2>5, <3>1 DEF Node
    <3>3. /\ nodes'[i].refs = nodes[i].refs - 1
          /\ nodes'[i].society = nodes[i].society
          /\ nodes'[i].src = nodes[i].src
      BY <2>1, <2>5 DEF Node
    <3> QED BY <3>2, <3>3, <2>3, <1>2
  <2> QED BY <2>2, <2>4, <2>5
<1> QED BY <1>1, <1>2

(***************************************************************************)
(* The invariants of the graph, each kept by a step that is Moved.         *)
(***************************************************************************)
LEMMA GraphTypeKept ==
  ASSUME GraphType, Moved
  PROVE  GraphType'
<1>1. CASE Quiet
  BY <1>1 DEF Quiet, GraphType
<1>2. ASSUME NEW d \in Docs, NEW E \in SUBSET Tagged(d), NEW R \in SUBSET Edges, Inserts(d, E, R)
      PROVE  GraphType'
  <2>1. nodes' \in [Ids -> Node \union {None}]
    <3>1. \A i \in Ids : nodes'[i] \in Node \union {None}
      BY <1>2, InsertedNode DEF Inserts, GraphType
    <3>2. nodes' = [i \in Ids |-> nodes'[i]]
      BY <1>2 DEF Inserts, InsertEntities
    <3> QED BY <3>1, <3>2
  <2>2. edges' \subseteq Edges
    BY <1>2 DEF Inserts, InsertRelations, GraphType
  <2>3. IdsOf(E) \subseteq Ids
    BY DEF IdsOf, Tagged
  <2>4. claims' = [claims EXCEPT ![d] = @ \union IdsOf(E)]
    BY <1>2 DEF Inserts, Claim, IdsOf
  <2>5. claims' \in [Docs -> SUBSET Ids]
    BY <2>3, <2>4 DEF GraphType
  <2>6. merged' \subseteq Ids
    <3>1. {e.id : e \in {x \in E : x.src = None \/ nodes[x.id] /= None}} \subseteq Ids
      BY DEF Tagged
    <3> QED BY <1>2, <3>1 DEF Inserts, Claim, GraphType
  <2>7. shared' \subseteq Ids
    BY <1>2 DEF Inserts, Claim, There, GraphType
  <2>8. stolen' \subseteq Ids
    BY <1>2 DEF Inserts, Claim, GraphType
  <2> QED BY <2>1, <2>2, <2>5, <2>6, <2>7, <2>8 DEF GraphType
<1>3. ASSUME NEW d \in Docs, Deletes(d)
      PROVE  GraphType'
  <2>1. nodes' \in [Ids -> Node \union {None}]
    <3>1. \A i \in Ids : nodes'[i] \in Node \union {None}
      BY <1>3, DeletedNode DEF Deletes, GraphType
    <3>2. nodes' = [i \in Ids |-> nodes'[i]]
      BY <1>3 DEF Deletes, DeleteNodes, RemoveOnly
    <3> QED BY <3>1, <3>2
  <2>2. edges' \subseteq Edges
    BY <1>3 DEF Deletes, DeleteEdges, GraphType
  <2>3. claims' \in [Docs -> SUBSET Ids]
    BY <1>3 DEF Deletes, Unclaim, GraphType
  <2>4. stolen' \subseteq Ids /\ merged' \subseteq Ids /\ shared' \subseteq Ids
    BY <1>3 DEF Deletes, Unclaim, NodesOf, There, GraphType
  <2> QED BY <2>1, <2>2, <2>3, <2>4 DEF GraphType
<1> QED BY <1>1, <1>2, <1>3 DEF Moved

LEMMA EndpointsKept ==
  ASSUME GraphType, EndpointsExist, Moved
  PROVE  EndpointsExist'
<1>1. CASE Quiet
  BY <1>1 DEF Quiet, EndpointsExist, There
<1>2. ASSUME NEW d \in Docs, NEW E \in SUBSET Tagged(d), NEW R \in SUBSET Edges, Inserts(d, E, R)
      PROVE  EndpointsExist'
  <2>1. ASSUME NEW i \in There
        PROVE  i \in There'
    <3>1. i \in Ids /\ nodes[i] /= None
      BY DEF There
    <3>2. nodes'[i] = nodes[i] \/ nodes'[i] \in Node
      BY <1>2, <3>1, InsertedNode DEF Inserts
    <3> QED BY <3>1, <3>2, NodeAssumption DEF There
  <2>2. ASSUME NEW e \in edges'
        PROVE  e[1] \in There' /\ e[2] \in There'
    <3>1. CASE e \in edges
      BY <3>1, <2>1 DEF EndpointsExist
    <3>2. CASE e \notin edges
      <4>1. e \in R /\ nodes'[e[1]] /= None /\ nodes'[e[2]] /= None
        BY <1>2, <3>2, <2>2 DEF Inserts, InsertRelations
      <4>2. e[1] \in Ids /\ e[2] \in Ids
        BY <4>1 DEF Edges
      <4> QED BY <4>1, <4>2 DEF There
    <3> QED BY <3>1, <3>2
  <2> QED BY <2>2 DEF EndpointsExist
<1>3. ASSUME NEW d \in Docs, Deletes(d)
      PROVE  EndpointsExist'
  <2>1. ASSUME NEW e \in edges'
        PROVE  e[1] \in There' /\ e[2] \in There'
    <3>1. e \in edges /\ e[1] \notin NodesOf(d) /\ e[2] \notin NodesOf(d)
      BY <1>3, <2>1 DEF Deletes, DeleteEdges, Touching
    <3>2. e[1] \in There /\ e[2] \in There
      BY <3>1 DEF EndpointsExist
    <3>3. \A i \in Ids : i \notin NodesOf(d) => nodes'[i] = nodes[i]
      BY <1>3, DeletedNode DEF Deletes
    <3> QED BY <3>1, <3>2, <3>3 DEF There
  <2> QED BY <2>1 DEF EndpointsExist
<1> QED BY <1>1, <1>2, <1>3 DEF Moved

\* LeftoversWereMerged is not inductive: a deletion leaves a node behind that was
\* counted more than once, so a node that was never merged must be counted once.
OnceInv == \A i \in There \ merged : /\ nodes[i].refs = 1
                                     /\ nodes[i].src \in Docs
                                     /\ i \in claims[nodes[i].src]

LEMMA OnceKept ==
  ASSUME GraphType, OnceInv, Moved
  PROVE  OnceInv'
<1>1. CASE Quiet
  BY <1>1 DEF Quiet, OnceInv, There
<1>2. ASSUME NEW d \in Docs, NEW E \in SUBSET Tagged(d), NEW R \in SUBSET Edges, Inserts(d, E, R)
      PROVE  OnceInv'
  <2>1. claims' = [claims EXCEPT ![d] = @ \union IdsOf(E)]
    BY <1>2 DEF Inserts, Claim, IdsOf
  <2>2. \A c \in Docs : claims[c] \subseteq claims'[c]
    BY <2>1 DEF GraphType
  <2>3. IdsOf(E) \subseteq claims'[d]
    BY <2>1 DEF GraphType
  <2>4. merged' = merged \union {e.id : e \in {x \in E : x.src = None \/ nodes[x.id] /= None}}
    BY <1>2 DEF Inserts, Claim
  <2>5. ASSUME NEW i \in There', i \notin merged'
        PROVE  nodes'[i].refs = 1 /\ nodes'[i].src \in Docs /\ i \in claims'[nodes'[i].src]
    <3>1. i \in Ids /\ nodes'[i] /= None /\ i \notin merged
      BY <2>4, <2>5 DEF There
    <3>2. CASE i \notin IdsOf(E)
      <4>1. nodes'[i] = nodes[i]
        BY <1>2, <3>1, <3>2, InsertedNode DEF Inserts
      <4>2. i \in There \ merged
        BY <3>1, <4>1 DEF There
      <4> QED BY <4>1, <4>2, <2>2 DEF OnceInv
    <3>3. CASE i \in IdsOf(E)
      <4>1. \A e \in E : e.id = i => e.src /= None /\ nodes[i] = None
        BY <2>4, <2>5
      <4>2. PICK e \in E : e.id = i /\ nodes'[i].src = e.src
        BY <1>2, <3>1, <3>3, InsertedNode DEF Inserts
      <4>3. e.src \in {d, None}
        BY DEF Tagged
      <4>4. nodes'[i].src = d /\ nodes[i] = None
        BY <4>1, <4>2, <4>3
      <4>5. nodes'[i].refs = 1
        BY <1>2, <3>1, <3>3, <4>4, InsertedNode DEF Inserts
      <4> QED BY <4>4, <4>5, <3>3, <2>3
    <3> QED BY <3>2, <3>3
  <2> QED BY <2>5 DEF OnceInv
<1>3. ASSUME NEW d \in Docs, Deletes(d)
      PROVE  OnceInv'
  <2>1. claims' = [claims EXCEPT ![d] = {}] /\ merged' = merged
    BY <1>3 DEF Deletes, Unclaim
  <2>2. ASSUME NEW i \in There', i \notin merged'
        PROVE  nodes'[i].refs = 1 /\ nodes'[i].src \in Docs /\ i \in claims'[nodes'[i].src]
    <3>1. i \in Ids /\ nodes'[i] /= None /\ i \notin merged
      BY <2>1, <2>2 DEF There
    <3>2. CASE i \notin NodesOf(d)
      <4>1. nodes'[i] = nodes[i]
        BY <1>3, <3>1, <3>2, DeletedNode DEF Deletes
      <4>2. i \in There \ merged /\ nodes[i].src /= d
        BY <3>1, <3>2, <4>1 DEF There, NodesOf
      <4>3. nodes[i].src \in Docs /\ i \in claims[nodes[i].src] /\ nodes[i].refs = 1
        BY <4>2 DEF OnceInv
      <4>4. claims'[nodes[i].src] = claims[nodes[i].src]
        BY <4>2, <4>3, <2>1 DEF GraphType
      <4> QED BY <4>1, <4>3, <4>4
    <3>3. CASE i \in NodesOf(d)
      <4>1. nodes[i].refs = 1
        BY <3>1, <3>3 DEF OnceInv, NodesOf
      <4>2. nodes'[i] = None
        BY <1>3, <3>1, <3>3, <4>1, DeletedNode DEF Deletes
      <4> QED BY <3>1, <4>2
    <3> QED BY <3>2, <3>3
  <2> QED BY <2>2 DEF OnceInv
<1> QED BY <1>1, <1>2, <1>3 DEF Moved

\* SharedNodesSurvive is not inductive either: what keeps a node is its count, which
\* is no less than the number of documents that claim it.
Claimers(i) == {d \in Docs : i \in claims[d]}
Counted(i)  == IF nodes[i] = None THEN Claimers(i) = {}
                                  ELSE Cardinality(Claimers(i)) <= nodes[i].refs
CountInv == \A i \in Ids \ stolen : Counted(i)

LEMMA ClaimersFinite ==
  \A i : IsFiniteSet(Claimers(i)) /\ Cardinality(Claimers(i)) \in Nat
<1> SUFFICES ASSUME NEW i
             PROVE  IsFiniteSet(Claimers(i)) /\ Cardinality(Claimers(i)) \in Nat
  OBVIOUS
<1>1. Claimers(i) \subseteq Docs
  BY DEF Claimers
<1> QED BY <1>1, BoundsAssumption, FS_Subset, FS_CardinalityType

LEMMA CountKept ==
  ASSUME GraphType, CountInv, Moved
  PROVE  CountInv'
<1>1. CASE Quiet
  BY <1>1 DEF Quiet, CountInv, Counted, Claimers
<1>2. ASSUME NEW d \in Docs, NEW E \in SUBSET Tagged(d), NEW R \in SUBSET Edges, Inserts(d, E, R)
      PROVE  CountInv'
  <2>1. claims' = [claims EXCEPT ![d] = @ \union IdsOf(E)] /\ stolen' = stolen
    BY <1>2 DEF Inserts, Claim, IdsOf
  <2>2. ASSUME NEW i \in Ids, i \notin stolen'
        PROVE  Counted(i)'
    <3>1. Counted(i)
      BY <2>1, <2>2 DEF CountInv
    <3>2. CASE i \notin IdsOf(E)
      <4>1. nodes'[i] = nodes[i]
        BY <1>2, <3>2, InsertedNode DEF Inserts
      <4>2. Claimers(i)' = Claimers(i)
        BY <2>1, <3>2 DEF Claimers, GraphType
      <4> QED BY <3>1, <4>1, <4>2 DEF Counted
    <3>3. CASE i \in IdsOf(E)
      <4>1. Claimers(i)' = Claimers(i) \union {d}
        BY <2>1, <3>3 DEF Claimers, GraphType
      <4>2. nodes'[i] /= None
        BY <1>2, <3>3, InsertedNode, NodeAssumption DEF Inserts
      <4>3. Cardinality(Claimers(i)') <= Cardinality(Claimers(i)) + 1
        <5>1. Cardinality(Claimers(i)) \in Nat /\ IsFiniteSet(Claimers(i))
          BY ClaimersFinite
        <5>2. Cardinality(Claimers(i) \union {d}) =
                IF d \in Claimers(i) THEN Cardinality(Claimers(i)) ELSE Cardinality(Claimers(i)) + 1
          BY <5>1, FS_AddElement
        <5> QED BY <4>1, <5>1, <5>2
      <4>4. CASE nodes[i] = None
        <5>1. nodes'[i].refs = 1
          BY <1>2, <3>3, <4>4, InsertedNode DEF Inserts
        <5>2. Cardinality(Claimers(i)) = 0
          BY <3>1, <4>4, FS_EmptySet DEF Counted
        <5>3. Cardinality(Claimers(i)') <= 1
          BY <4>3, <5>2
        <5> QED BY <4>2, <5>1, <5>3 DEF Counted
      <4>5. CASE nodes[i] /= None
        <5>1. nodes'[i].refs = nodes[i].refs + 1
          BY <1>2, <3>3, <4>5, InsertedNode DEF Inserts
        <5>2. Cardinality(Claimers(i)) <= nodes[i].refs
          BY <3>1, <4>5 DEF Counted
        <5>3. nodes[i].refs \in Nat
          BY <4>5, NodeFields
        <5>4. Cardinality(Claimers(i)') \in Nat /\ Cardinality(Claimers(i)) \in Nat
          BY <4>1, ClaimersFinite, FS_AddElement, FS_CardinalityType
        <5>5. Cardinality(Claimers(i)') <= nodes'[i].refs
          BY <4>3, <5>1, <5>2, <5>3, <5>4
        <5> QED BY <4>2, <5>5 DEF Counted
      <4> QED BY <4>4, <4>5
    <3> QED BY <3>2, <3>3
  <2> QED BY <2>2 DEF CountInv
<1>3. ASSUME NEW d \in Docs, Deletes(d)
      PROVE  CountInv'
  <2>1. claims' = [claims EXCEPT ![d] = {}] /\ stolen' = stolen \union (NodesOf(d) \ claims[d])
    BY <1>3 DEF Deletes, Unclaim
  <2>2. ASSUME NEW i \in Ids, i \notin stolen'
        PROVE  Counted(i)'
    <3>1. Counted(i)
      BY <2>1, <2>2 DEF CountInv
    <3>2. Claimers(i)' = Claimers(i) \ {d}
      BY <2>1 DEF Claimers, GraphType
    <3>3. Cardinality(Claimers(i)) \in Nat /\ IsFiniteSet(Claimers(i))
      BY ClaimersFinite
    <3>4. CASE i \notin NodesOf(d)
      <4>1. nodes'[i] = nodes[i]
        BY <1>3, <3>4, DeletedNode DEF Deletes
      <4>2. CASE nodes[i] = None
        BY <3>1, <3>2, <4>1, <4>2 DEF Counted
      <4>3. CASE nodes[i] /= None
        <5>1. Cardinality(Claimers(i)') <= Cardinality(Claimers(i)) /\ Cardinality(Claimers(i)') \in Nat
          BY <3>2, <3>3, FS_Subset, FS_CardinalityType
        <5>2. Cardinality(Claimers(i)) <= nodes[i].refs /\ nodes[i].refs \in Nat
          BY <3>1, <4>3, NodeFields DEF Counted
        <5>3. Cardinality(Claimers(i)') <= nodes'[i].refs
          BY <5>1, <5>2, <3>3, <4>1
        <5> QED BY <5>3, <4>1, <4>3 DEF Counted
      <4> QED BY <4>2, <4>3
    <3>5. CASE i \in NodesOf(d)
      <4>1. d \in Claimers(i)
        BY <2>1, <2>2, <3>5 DEF Claimers
      <4>2. Cardinality(Claimers(i)') = Cardinality(Claimers(i)) - 1
        BY <3>2, <3>3, <4>1, FS_RemoveElement
      <4>3. nodes[i] /= None
        BY <3>5 DEF NodesOf, There
      <4>4. Cardinality(Claimers(i)) <= nodes[i].refs /\ nodes[i].refs \in Nat
        BY <3>1, <4>3, NodeFields DEF Counted
      <4>5. IsFiniteSet(Claimers(i)')
        BY <3>2, <3>3, FS_Subset
      <4>6. CASE nodes[i].refs = 1
        <5>1. nodes'[i] = None
          BY <1>3, <3>5, <4>6, DeletedNode DEF Deletes
        <5>2. Cardinality(Claimers(i)') <= 0 /\ Cardinality(Claimers(i)') \in Nat
          BY <3>3, <4>2, <4>4, <4>5, <4>6, FS_CardinalityType
        <5>3. Claimers(i)' = {}
          BY <4>5, <5>2, FS_EmptySet
        <5> QED BY <5>1, <5>3 DEF Counted
      <4>7. CASE nodes[i].refs /= 1
        <5>1. nodes'[i] \in Node /\ nodes'[i].refs + 1 >= nodes[i].refs
          BY <1>3, <3>5, <4>7, DeletedNode DEF Deletes
        <5>2. nodes'[i].refs \in Nat
          BY <5>1 DEF Node
        <5>3. Cardinality(Claimers(i)') <= nodes'[i].refs
          BY <3>3, <4>2, <4>4, <5>1, <5>2
        <5>4. nodes'[i] /= None
          BY <5>1, NodeAssumption
        <5> QED BY <5>3, <5>4 DEF Counted
      <4> QED BY <4>6, <4>7
    <3> QED BY <3>4, <3>5
  <2> QED BY <2>2 DEF CountInv
<1> QED BY <1>1, <1>2, <1>3 DEF Moved

\* An edge is between nodes of one society, or one of its ends was named by a document
\* of another.
CrossInv == \A e \in edges : \/ nodes[e[1]].society = nodes[e[2]].society
                             \/ e[1] \in shared \/ e[2] \in shared

LEMMA CrossKept ==
  ASSUME GraphType, EndpointsExist, CrossInv, Moved
  PROVE  CrossInv'
<1>1. CASE Quiet
  BY <1>1 DEF Quiet, CrossInv
<1>2. ASSUME NEW d \in Docs, NEW E \in SUBSET Tagged(d), NEW R \in SUBSET Edges, Inserts(d, E, R)
      PROVE  CrossInv'
  <2>1. shared' = shared \union
          {i \in (IdsOf(E) \union Ends(R)) \intersect There : nodes[i].society /= Society[d]}
    BY <1>2 DEF Inserts, Claim, IdsOf
  <2>2. ASSUME NEW i \in Ids, nodes[i] /= None
        PROVE  nodes'[i].society = nodes[i].society
    BY <1>2, <2>2, InsertedNode DEF Inserts
  <2>3. ASSUME NEW i \in Ids, i \in Ends(R), nodes'[i] /= None
        PROVE  nodes'[i].society = Society[d] \/ i \in shared'
    <3>1. CASE nodes[i] = None
      BY <1>2, <2>3, <3>1, InsertedNode DEF Inserts
    <3>2. CASE nodes[i] /= None
      BY <2>1, <2>2, <2>3, <3>2 DEF There
    <3> QED BY <3>1, <3>2
  <2>4. ASSUME NEW e \in edges'
        PROVE  \/ nodes'[e[1]].society = nodes'[e[2]].society
               \/ e[1] \in shared' \/ e[2] \in shared'
    <3>1. CASE e \in edges
      <4>1. e[1] \in There /\ e[2] \in There
        BY <3>1 DEF EndpointsExist
      <4>2. nodes'[e[1]].society = nodes[e[1]].society /\ nodes'[e[2]].society = nodes[e[2]].society
        BY <4>1, <2>2 DEF There
      <4> QED BY <3>1, <4>2, <2>1 DEF CrossInv
    <3>2. CASE e \notin edges
      <4>1. e \in R /\ nodes'[e[1]] /= None /\ nodes'[e[2]] /= None
        BY <1>2, <3>2, <2>4 DEF Inserts, InsertRelations
      <4>2. e[1] \in Ids /\ e[2] \in Ids
        BY <4>1 DEF Edges
      <4>3. e[1] \in Ends(R) /\ e[2] \in Ends(R)
        BY <4>1 DEF Ends
      <4> QED BY <4>1, <4>2, <4>3, <2>3
    <3> QED BY <3>1, <3>2
  <2> QED BY <2>4 DEF CrossInv
<1>3. ASSUME NEW d \in Docs, Deletes(d)
      PROVE  CrossInv'
  <2>1. ASSUME NEW e \in edges'
        PROVE  \/ nodes'[e[1]].society = nodes'[e[2]].society
               \/ e[1] \in shared' \/ e[2] \in shared'
    <3>1. e \in edges /\ e[1] \notin NodesOf(d) /\ e[2] \notin NodesOf(d)
      BY <1>3, <2>1 DEF Deletes, DeleteEdges, Touching
    <3>2. e[1] \in Ids /\ e[2] \in Ids
      BY <3>1 DEF EndpointsExist, There
    <3>3. nodes'[e[1]] = nodes[e[1]] /\ nodes'[e[2]] = nodes[e[2]]
      BY <1>3, <3>1, <3>2, DeletedNode DEF Deletes
    <3>4. shared' = shared
      BY <1>3 DEF Deletes, Unclaim
    <3> QED BY <3>1, <3>3, <3>4 DEF CrossInv
  <2> QED BY <2>1 DEF CrossInv
<1> QED BY <1>1, <1>2, <1>3 DEF Moved

(***************************************************************************)
(* What the tasks know.                                                    *)
(***************************************************************************)
LEMMA TaskTyped ==
  ASSUME TaskType, NEW t \in Tasks
  PROVE  /\ task[t].stage \in Stages
         /\ task[t].doc \in Docs \union {None}
         /\ task[t].text \in Texts \union {None}
BY DEF TaskType

\* A task that is done or was never started knows of nothing, and has no batch out.
Idles(t) == /\ task'[t].stage \notin UnderWay
            /\ \A b \in Batches : batch'[t][b] = "waiting"

LEMMA WorkKept ==
  ASSUME WorkInv, [Next]_vars
  PROVE  WorkInv'
<1>1. ASSUME NEW t \in Tasks, Trigger(t)
      PROVE  WorkInv'
  <2>1. PICK d \in Docs : \E x \in Editions[d] :
               task' = [task EXCEPT ![t] = [stage |-> "queued", doc |-> d, text |-> x]]
    BY <1>1 DEF Trigger
  <2>2. PICK x \in Editions[d] :
               task' = [task EXCEPT ![t] = [stage |-> "queued", doc |-> d, text |-> x]]
    BY <2>1
  <2>3. UNCHANGED <<llm, batch, answer>> /\ task[t].stage = "idle"
    BY <1>1 DEF Trigger
  <2>4. x \in Texts
    BY DEF Texts
  <2>5. TaskType'
    BY <2>2, <2>3, <2>4 DEF WorkInv, TaskType, Stages
  <2>6. task'[t] = [stage |-> "queued", doc |-> d, text |-> x] /\ \A u \in Tasks \ {t} : task'[u] = task[u]
    BY <2>2 DEF WorkInv, TaskType
  <2>7. DocKnown'
    BY <2>4, <2>6 DEF WorkInv, DocKnown
  <2>8. \A b \in Batches : batch[t][b] /= "calling"
    BY <2>3 DEF WorkInv, BatchKnown
  <2>9. BatchKnown'
    BY <2>3, <2>6, <2>8 DEF WorkInv, BatchKnown
  <2> QED BY <2>5, <2>7, <2>9 DEF WorkInv
<1>2. ASSUME NEW t \in Tasks, Ask(t)
      PROVE  WorkInv'
  <2>1. /\ task' = [task EXCEPT ![t].stage = "asking"] /\ task[t].stage = "queued"
        /\ UNCHANGED <<llm, batch, answer>>
    BY <1>2 DEF Ask
  <2>2. TaskType'
    BY <2>1 DEF WorkInv, TaskType, Stages
  <2>3. /\ task'[t].stage = "asking" /\ task'[t].doc = task[t].doc /\ task'[t].text = task[t].text
        /\ \A u \in Tasks \ {t} : task'[u] = task[u]
    BY <2>1 DEF WorkInv, TaskType
  <2>4. DocKnown'
    BY <2>1, <2>3 DEF WorkInv, DocKnown, UnderWay
  <2>5. BatchKnown'
    BY <2>1, <2>3 DEF WorkInv, BatchKnown
  <2> QED BY <2>2, <2>4, <2>5 DEF WorkInv
<1>3. ASSUME NEW t \in Tasks, NEW b \in Batches, CallLlm(t, b)
      PROVE  WorkInv'
  <2>1. /\ batch' = [batch EXCEPT ![t][b] = "calling"]
        /\ task[t].stage = "asking" /\ b \in DOMAIN task[t].text.batches
        /\ UNCHANGED <<llm, task, answer>>
    BY <1>3 DEF CallLlm
  <2>2. TaskType'
    BY <2>1 DEF WorkInv, TaskType
  <2>3. DocKnown'
    BY <2>1 DEF WorkInv, DocKnown
  <2>4. \A u \in Tasks, c \in Batches : batch'[u][c] = "calling" =>
          batch[u][c] = "calling" \/ (u = t /\ c = b)
    BY <2>1 DEF WorkInv, TaskType
  <2>5. BatchKnown'
    BY <2>1, <2>4 DEF WorkInv, BatchKnown
  <2> QED BY <2>2, <2>3, <2>5 DEF WorkInv
<1>4. ASSUME NEW t \in Tasks, NEW b \in Batches, LlmAnswers(t, b)
      PROVE  WorkInv'
  <2>1. /\ batch[t][b] = "calling" /\ batch' = [batch EXCEPT ![t][b] = "back"]
        /\ UNCHANGED <<llm, task>>
    BY <1>4 DEF LlmAnswers
  <2>2. PICK a \in Answers(task[t].text.batches[b]) : answer' = [answer EXCEPT ![t][b] = a]
    BY <1>4 DEF LlmAnswers
  <2>3. task[t].stage = "asking" /\ b \in DOMAIN task[t].text.batches
    BY <2>1 DEF WorkInv, BatchKnown
  <2>4. task[t].text \in Texts
    BY <2>3 DEF WorkInv, DocKnown, UnderWay
  <2>5. task[t].text.batches[b] \subseteq Keys
    BY <2>3, <2>4, BatchKeys
  <2>6. a \in [ents : SUBSET Entity, rels : SUBSET Edges]
    BY <2>5, AnswersTyped
  <2>7. answer' \in [Tasks -> [Batches -> [ents : SUBSET Entity, rels : SUBSET Edges]]]
    BY <2>2, <2>6 DEF WorkInv, TaskType
  <2>8. batch' \in [Tasks -> [Batches -> {"waiting", "calling", "back"}]]
    BY <2>1 DEF WorkInv, TaskType
  <2>9. TaskType'
    BY <2>1, <2>7, <2>8 DEF WorkInv, TaskType
  <2>10. DocKnown'
    BY <2>1 DEF WorkInv, DocKnown
  <2>11. \A u \in Tasks, c \in Batches : batch'[u][c] = "calling" => batch[u][c] = "calling"
    BY <2>1 DEF WorkInv, TaskType
  <2>12. BatchKnown'
    BY <2>1, <2>11 DEF WorkInv, BatchKnown
  <2> QED BY <2>9, <2>10, <2>12 DEF WorkInv
<1>5. Unset("done") \in [stage : Stages, doc : Docs \union {None}, text : Texts \union {None}]
  BY DEF Unset, Stages
<1>6. Unheard \in [Batches -> [ents : SUBSET Entity, rels : SUBSET Edges]]
  BY DEF Unheard, Nothing
<1>7. Unasked \in [Batches -> {"waiting", "calling", "back"}]
  BY DEF Unasked
<1>8. ASSUME NEW t \in Tasks, Persist(t)
      PROVE  WorkInv'
  <2>1. /\ task' = [task EXCEPT ![t] = Unset("done")] /\ batch' = [batch EXCEPT ![t] = Unasked]
        /\ answer' = [answer EXCEPT ![t] = Unheard] /\ UNCHANGED llm
    BY <1>8 DEF Persist
  <2>2. TaskType'
    BY <2>1, <1>5, <1>6, <1>7 DEF WorkInv, TaskType
  <2>3. Idles(t)
    BY <2>1 DEF Idles, Unset, Unasked, UnderWay, WorkInv, TaskType
  <2>4. \A u \in Tasks \ {t} : task'[u] = task[u] /\ batch'[u] = batch[u]
    BY <2>1 DEF WorkInv, TaskType
  <2>5. DocKnown'
    BY <2>3, <2>4 DEF WorkInv, DocKnown, Idles
  <2>6. BatchKnown'
    BY <2>3, <2>4 DEF WorkInv, BatchKnown, Idles
  <2> QED BY <2>2, <2>5, <2>6 DEF WorkInv
<1>9. ASSUME Crash
      PROVE  WorkInv'
  <2>1. /\ task' = [t \in Tasks |-> IF task[t].stage = "idle" THEN task[t] ELSE Unset("done")]
        /\ batch' = [t \in Tasks |-> Unasked] /\ answer' = [t \in Tasks |-> Unheard]
        /\ UNCHANGED llm
    BY <1>9 DEF Crash
  <2>2. TaskType'
    BY <2>1, <1>5, <1>6, <1>7 DEF WorkInv, TaskType
  <2>3. \A t \in Tasks : Idles(t)
    BY <2>1 DEF Idles, Unset, Unasked, UnderWay
  <2>4. DocKnown' /\ BatchKnown'
    BY <2>3 DEF DocKnown, BatchKnown, Idles
  <2> QED BY <2>2, <2>4 DEF WorkInv
<1>10. ASSUME NEW d \in Docs, Delete(d)
       PROVE  WorkInv'
  BY <1>10 DEF Delete, work, WorkInv, TaskType, DocKnown, BatchKnown
<1>11. CASE UNCHANGED vars
  BY <1>11 DEF vars, work, WorkInv, TaskType, DocKnown, BatchKnown
<1> QED BY <1>1, <1>2, <1>3, <1>4, <1>8, <1>9, <1>10, <1>11 DEF Next

LEMMA BoundKept ==
  ASSUME BoundType, [Next]_vars
  PROVE  BoundType'
<1>1. UNCHANGED <<deletes, crashes>> \/ (\E d \in Docs : Delete(d)) \/ Crash
  BY DEF Next, Trigger, Ask, CallLlm, LlmAnswers, Persist, vars
<1>2. CASE UNCHANGED <<deletes, crashes>>
  BY <1>2 DEF BoundType
<1>3. ASSUME NEW d \in Docs, Delete(d)
      PROVE  BoundType'
  BY <1>3, BoundsAssumption DEF Delete, BoundType
<1>4. CASE Crash
  <2>1. crashes < MaxCrashes /\ crashes' = crashes + 1
    BY <1>4 DEF Crash
  <2>2. deletes' = deletes \/ (deletes < MaxDeletes /\ deletes' = deletes + 1)
    BY <1>4 DEF Crash
  <2> QED BY <2>1, <2>2, BoundsAssumption DEF BoundType
<1> QED BY <1>1, <1>2, <1>3, <1>4

(***************************************************************************)
(* The theorems.                                                           *)
(***************************************************************************)
GraphInv == GraphType /\ EndpointsExist /\ OnceInv /\ CountInv /\ CrossInv
AllInv   == WorkInv /\ BoundType /\ GraphInv

LEMMA InitInv == Init => AllInv
<1> SUFFICES ASSUME Init PROVE AllInv
  OBVIOUS
<1>1. TaskType
  <2>1. Unset("idle") \in [stage : Stages, doc : Docs \union {None}, text : Texts \union {None}]
    BY DEF Unset, Stages
  <2>2. Unheard \in [Batches -> [ents : SUBSET Entity, rels : SUBSET Edges]]
    BY DEF Unheard, Nothing
  <2>3. Unasked \in [Batches -> {"waiting", "calling", "back"}]
    BY DEF Unasked
  <2> QED BY <2>1, <2>2, <2>3 DEF Init, TaskType
<1>2. DocKnown /\ BatchKnown
  BY DEF Init, DocKnown, BatchKnown, Unset, Unasked, UnderWay
<1>3. BoundType
  BY BoundsAssumption DEF Init, BoundType
<1>4. GraphType
  BY DEF Init, GraphType
<1>5. There = {} /\ \A i \in Ids : nodes[i] = None
  BY DEF Init, There
<1>6. EndpointsExist /\ OnceInv /\ CrossInv
  BY <1>5 DEF Init, EndpointsExist, OnceInv, CrossInv
<1>7. CountInv
  BY <1>5 DEF Init, CountInv, Counted, Claimers
<1> QED BY <1>1, <1>2, <1>3, <1>4, <1>6, <1>7 DEF AllInv, WorkInv, GraphInv

LEMMA StepInv == AllInv /\ [Next]_vars => AllInv'
<1> SUFFICES ASSUME AllInv, [Next]_vars PROVE AllInv'
  OBVIOUS
<1>1. Moved
  BY Moves DEF AllInv
<1>2. WorkInv' /\ BoundType'
  BY WorkKept, BoundKept DEF AllInv
<1>3. GraphType' /\ EndpointsExist' /\ OnceInv' /\ CountInv' /\ CrossInv'
  BY <1>1, GraphTypeKept, EndpointsKept, OnceKept, CountKept, CrossKept DEF AllInv, GraphInv
<1> QED BY <1>2, <1>3 DEF AllInv, GraphInv

LEMMA Invariance == Spec => []AllInv
BY InitInv, StepInv, PTL DEF Spec

\* The variables keep their types: an LLM's answer, whatever it says, names only
\* entities of the batch, and an insertion counts no node below one.
THEOREM TypeCorrect == Spec => []TypeOK
<1>1. AllInv => TypeOK
  BY DEF AllInv, GraphInv, WorkInv, GraphType, TaskType, BoundType, TypeOK
<1> QED BY <1>1, Invariance, PTL

\* No edge of the graph is without one of its ends, whatever the extractions insert,
\* which documents are deleted, and wherever the process ended within either.
THEOREM NoDanglingEdge == Spec => []EndpointsExist
<1>1. AllInv => EndpointsExist
  BY DEF AllInv, GraphInv
<1> QED BY <1>1, Invariance, PTL

\* A node stays as long as a document claims it, unless a deletion took it on behalf
\* of a document that did not: its count is no less than the number of its claimers.
THEOREM ClaimedNodesStay == Spec => []SharedNodesSurvive
<1>1. AllInv => SharedNodesSurvive
  <2> SUFFICES ASSUME AllInv, NEW d \in Docs, NEW i \in claims[d], i \notin stolen
               PROVE  i \in There
    BY DEF SharedNodesSurvive
  <2>1. i \in Ids
    BY DEF AllInv, GraphInv, GraphType
  <2>2. Counted(i) /\ d \in Claimers(i)
    BY <2>1 DEF AllInv, GraphInv, CountInv, Claimers
  <2> QED BY <2>1, <2>2 DEF Counted, There
<1> QED BY <1>1, Invariance, PTL

\* A node that only one insertion made, from the rules, is gone once its document is
\* deleted: what deletions leave behind was merged or never named a document.
THEOREM OnlyMergedStay == Spec => []LeftoversWereMerged
<1>1. AllInv => LeftoversWereMerged
  <2> SUFFICES ASSUME AllInv, NEW i \in There \ merged
               PROVE  nodes[i].src /= None /\ i \in claims[nodes[i].src]
    BY DEF LeftoversWereMerged
  <2> QED BY KeysAssumption DEF AllInv, GraphInv, OnceInv
<1> QED BY <1>1, Invariance, PTL

\* A lookup from one society's clause to another society's goes over a node that
\* documents of both named: no other edge joins nodes of two societies.
THEOREM SocietiesMeetAtShared == Spec => []CrossedWhereShared
<1>1. AllInv => CrossedWhereShared
  <2> SUFFICES ASSUME AllInv, NEW topic \in Topics, NEW from \in Societies, NEW to \in Societies,
                      NEW tier \in Tiers, NEW e \in EngineCrossReference(topic, from, to, tier)
               PROVE  from = to \/ e[1] \in shared \/ e[2] \in shared
    BY DEF CrossedWhereShared
  <2>1. e \in GraphLookup(topic, from, to)
    BY DEF EngineCrossReference, CrossReference, LlmCrossReference
  <2>2. e \in edges /\ nodes[e[1]].society = from /\ nodes[e[2]].society = to
    BY <2>1 DEF GraphLookup, Similar, OfSociety
  <2> QED BY <2>2 DEF AllInv, GraphInv, CrossInv
<1> QED BY <1>1, Invariance, PTL

(***************************************************************************)
(* Search. A search stops early when it meets the cap, or when there is    *)
(* nothing new to go on from; then everything reachable was seen.          *)
(***************************************************************************)
\* A search before its first hop, and the searches of n hops one after the other: as
\* a recursive function of n hops is one, there is one for every n.
Start(S) == [seen |-> S, frontier |-> S, rels |-> {}, full |-> FALSE]
IsSearch(g, S, n, cap) ==
   g = [h \in 0 .. n |-> IF h = 0 THEN Start(S) ELSE Hop(g[h - 1], cap)]

LEMMA SearchExists ==
  ASSUME NEW S, NEW cap PROVE \A n \in Nat : \E g : IsSearch(g, S, n, cap)
<1> DEFINE T == {n \in Nat : \E g : IsSearch(g, S, n, cap)}
<1>1. 0 \in T
  <2>1. IsSearch([h \in 0 .. 0 |-> Start(S)], S, 0, cap)
    BY DEF IsSearch
  <2> QED
    BY <2>1
<1>2. ASSUME NEW n \in T PROVE n + 1 \in T
  <2>1. PICK g : IsSearch(g, S, n, cap)
    OBVIOUS
  <2> DEFINE k == [h \in 0 .. n + 1 |-> IF h = n + 1 THEN Hop(g[n], cap) ELSE g[h]]
  <2>2. ASSUME NEW h \in 0 .. n + 1
        PROVE  k[h] = IF h = 0 THEN Start(S) ELSE Hop(k[h - 1], cap)
    <3>1. CASE h = n + 1
      <4>1. k[h] = Hop(g[n], cap) /\ k[h - 1] = g[n] /\ h # 0
        BY <3>1
      <4> QED
        BY <4>1
    <3>2. CASE h # n + 1
      <4>1. h \in 0 .. n /\ k[h] = g[h] /\ (h # 0 => k[h - 1] = g[h - 1])
        BY <3>2
      <4> QED
        BY <2>1, <4>1 DEF IsSearch
    <3> QED
      BY <3>1, <3>2
  <2>3. IsSearch(k, S, n + 1, cap)
    <3>1. k = [h \in 0 .. n + 1 |-> k[h]]
      OBVIOUS
    <3> HIDE DEF k
    <3> QED
      BY <2>2, <3>1 DEF IsSearch
  <2> QED
    BY <2>3
<1> QED
  <2> HIDE DEF T
  <2>1. Nat \subseteq T
    BY <1>1, <1>2, SetInduction
  <2> QED
    BY <2>1 DEF T

\* What Bfs answers is the last of them.
LEMMA BfsSearches ==
  ASSUME NEW S, NEW cap, NEW n \in Nat
  PROVE \E g : IsSearch(g, S, n, cap) /\ Bfs(S, n, cap) = g[n]
<1> DEFINE a == CHOOSE g : IsSearch(g, S, n, cap)
<1>1. IsSearch(a, S, n, cap)
  BY SearchExists
<1>2. Bfs(S, n, cap) = a[n]
  BY DEF Bfs, IsSearch, Start
<1> QED
  BY <1>1, <1>2

\* Reached, spelled out.
LEMMA ReachedBy ==
  ASSUME NEW S, NEW n, NEW x
  PROVE  x \in Reached(S, n) <=>
           \E m \in 0 .. n : \E p \in [0 .. m -> There] :
              /\ p[0] \in S
              /\ \A h \in 1 .. m : <<p[h - 1], p[h]>> \in {<<e[1], e[2]>> : e \in edges}
              /\ x = p[m]
BY DEF Reached

\* No edge leads nowhere else.
LEMMA ReachedStart ==
  ASSUME NEW S, S \subseteq There
  PROVE  Reached(S, 0) = S
<1>1. ASSUME NEW n \in Nat, NEW x \in S PROVE x \in Reached(S, n)
  <2> DEFINE p == [i \in 0 .. 0 |-> x]
  <2>1. p \in [0 .. 0 -> There] /\ p[0] = x /\ 1 .. 0 = {} /\ 0 \in 0 .. n
    OBVIOUS
  <2> HIDE DEF p
  <2> QED
    BY <2>1, ReachedBy
<1>2. ASSUME NEW n \in Nat, NEW x \in Reached(S, n)
      PROVE  \E m \in 0 .. n : \E p : p[0] \in S /\ x = p[m]
  BY <1>2, ReachedBy
<1>3. ASSUME NEW x \in Reached(S, 0) PROVE x \in S
  <2>1. PICK m \in 0 .. 0 : \E p : p[0] \in S /\ x = p[m]
    BY <1>2, <1>3
  <2>2. m = 0
    OBVIOUS
  <2> QED
    BY <2>1, <2>2
<1> QED
  BY <1>1, <1>3

\* What one edge leads to from X; one edge more reaches that.
Successors(X) == {e[2] : e \in {f \in edges : f[1] \in X}}

LEMMA ReachedNext ==
  ASSUME NEW S, S \subseteq There, EndpointsExist, NEW n \in Nat
  PROVE  Reached(S, n + 1) = Reached(S, n) \union Successors(Reached(S, n))
<1> DEFINE pairs == {<<e[1], e[2]>> : e \in edges}
<1>1. ASSUME NEW x \in Reached(S, n) PROVE x \in Reached(S, n + 1)
  <2>1. PICK m \in 0 .. n : \E p \in [0 .. m -> There] :
              /\ p[0] \in S
              /\ \A h \in 1 .. m : <<p[h - 1], p[h]>> \in pairs
              /\ x = p[m]
    BY <1>1, ReachedBy
  <2>2. m \in 0 .. n + 1
    OBVIOUS
  <2> QED
    BY <2>1, <2>2, ReachedBy
<1>2. ASSUME NEW e \in edges, e[1] \in Reached(S, n) PROVE e[2] \in Reached(S, n + 1)
  <2>0. PICK m \in 0 .. n : \E p \in [0 .. m -> There] :
              /\ p[0] \in S
              /\ \A h \in 1 .. m : <<p[h - 1], p[h]>> \in pairs
              /\ e[1] = p[m]
    BY <1>2, ReachedBy
  <2>1. PICK p \in [0 .. m -> There] :
              /\ p[0] \in S
              /\ \A h \in 1 .. m : <<p[h - 1], p[h]>> \in pairs
              /\ e[1] = p[m]
    BY <2>0
  <2> DEFINE q == [i \in 0 .. m + 1 |-> IF i = m + 1 THEN e[2] ELSE p[i]]
  <2>2. q \in [0 .. m + 1 -> There]
    <3>1. e[2] \in There
      BY DEF EndpointsExist
    <3>2. \A i \in 0 .. m + 1 : i # m + 1 => i \in 0 .. m
      OBVIOUS
    <3> QED
      BY <3>1, <3>2
  <2>3. q[0] = p[0] /\ q[m + 1] = e[2] /\ m + 1 \in 0 .. n + 1
    OBVIOUS
  <2>4. ASSUME NEW h \in 1 .. m + 1 PROVE <<q[h - 1], q[h]>> \in pairs
    <3>1. CASE h = m + 1
      <4>1. q[h] = e[2] /\ q[h - 1] = p[m]
        BY <3>1
      <4> HIDE DEF q
      <4> QED
        BY <2>1, <4>1
    <3>2. CASE h # m + 1
      <4>1. h \in 1 .. m /\ q[h] = p[h] /\ q[h - 1] = p[h - 1]
        BY <3>2
      <4> HIDE DEF q
      <4> QED
        BY <2>1, <4>1
    <3> QED
      BY <3>1, <3>2
  <2> HIDE DEF q
  <2> QED
    BY <2>1, <2>2, <2>3, <2>4, ReachedBy
<1>3. ASSUME NEW x \in Reached(S, n + 1), x \notin Reached(S, n)
      PROVE  x \in Successors(Reached(S, n))
  <2>0. PICK m \in 0 .. n + 1 : \E p \in [0 .. m -> There] :
              /\ p[0] \in S
              /\ \A h \in 1 .. m : <<p[h - 1], p[h]>> \in pairs
              /\ x = p[m]
    BY <1>3, ReachedBy
  <2>1. PICK p \in [0 .. m -> There] :
              /\ p[0] \in S
              /\ \A h \in 1 .. m : <<p[h - 1], p[h]>> \in pairs
              /\ x = p[m]
    BY <2>0
  <2>2. m = n + 1
    <3>1. CASE m \in 0 .. n
      BY <1>3, <2>1, <3>1, ReachedBy
    <3> QED
      BY <3>1
  <2> DEFINE q == [i \in 0 .. n |-> p[i]]
  <2>3. /\ q \in [0 .. n -> There] /\ q[0] = p[0] /\ q[n] = p[n]
        /\ \A h \in 1 .. n : q[h - 1] = p[h - 1] /\ q[h] = p[h] /\ h \in 1 .. m
        /\ n \in 0 .. n
    BY <2>2
  <2> HIDE DEF q
  <2>4. p[n] \in Reached(S, n)
    <3>1. \A h \in 1 .. n : <<q[h - 1], q[h]>> \in pairs
      BY <2>1, <2>3
    <3>2. q[0] \in S /\ p[n] = q[n]
      BY <2>1, <2>3
    <3> QED
      BY <2>3, <3>1, <3>2, ReachedBy
  <2>5. PICK e \in edges : <<p[n], p[n + 1]>> = <<e[1], e[2]>>
    <3>1. n + 1 \in 1 .. m /\ (n + 1) - 1 = n
      BY <2>2
    <3>2. <<p[n], p[n + 1]>> \in pairs
      BY <2>1, <3>1
    <3> QED
      BY <3>2
  <2> QED
    BY <2>1, <2>2, <2>4, <2>5 DEF Successors
<1> QED
  BY <1>1, <1>2, <1>3 DEF Successors

\* n hops into a search: nothing is seen that n edges do not reach, and, before the cap
\* is met, nothing they reach is missed; what is behind the frontier leads nowhere new.
Searching(a, S, n, cap) ==
  /\ a.seen \subseteq Reached(S, n) /\ a.seen \subseteq There /\ a.frontier \subseteq a.seen
  /\ ~a.full => /\ a.seen = Reached(S, n)
                /\ \A e \in edges : e[1] \in a.seen \ a.frontier => e[2] \in a.seen
  /\ a.full => Cardinality(a.seen) >= cap
  /\ \A e \in a.rels : {e[1], e[2]} \subseteq a.seen

\* One hop more.
LEMMA HopSearches ==
  ASSUME NEW S, S \subseteq There, EndpointsExist, NEW n \in Nat, NEW cap, NEW a, Searching(a, S, n, cap)
  PROVE  Searching(Hop(a, cap), S, n + 1, cap)
<1> DEFINE out == {e \in edges : e[1] \in a.frontier}
           new == {e[2] : e \in out} \ a.seen
<1>0. /\ Reached(S, n + 1) = Reached(S, n) \union Successors(Reached(S, n))
      /\ \A e \in edges : e[1] \in There /\ e[2] \in There
  BY ReachedNext DEF EndpointsExist
<1>1. CASE a.frontier = {} \/ a.full
  <2>1. Hop(a, cap) = a
    BY <1>1, Zenon DEF Hop
  <2>2. ~a.full => a.seen = Reached(S, n + 1)
    BY <1>0, <1>1 DEF Searching, Successors
  <2> QED
    BY <1>0, <2>1, <2>2 DEF Searching
<1>2. CASE a.frontier # {} /\ ~a.full
  <2>1. /\ Hop(a, cap).seen = a.seen \union new /\ Hop(a, cap).frontier = new
        /\ Hop(a, cap).rels = a.rels \union out
        /\ Hop(a, cap).full = (Cardinality(a.seen \union new) >= cap)
    BY <1>2 DEF Hop
  <2>2. a.seen \union new = Reached(S, n + 1)
    BY <1>0, <1>2 DEF Searching, Successors
  <2>3. a.seen \union new \subseteq There
    BY <1>0 DEF Searching
  <2>4. \A e \in edges : e[1] \in (a.seen \union new) \ new => e[2] \in a.seen \union new
    BY <1>2 DEF Searching
  <2>5. \A e \in a.rels \union out : {e[1], e[2]} \subseteq a.seen \union new
    BY DEF Searching
  <2>6. new \subseteq a.seen \union new
    OBVIOUS
  <2> HIDE DEF out, new
  <2> QED
    BY <2>1, <2>2, <2>3, <2>4, <2>5, <2>6 DEF Searching
<1> QED
  BY <1>1, <1>2

\* Hence any number of them.
LEMMA BfsIsSearching ==
  ASSUME NEW S, S \subseteq There, EndpointsExist, NEW cap, NEW n \in Nat
  PROVE  Searching(Bfs(S, n, cap), S, n, cap)
<1>1. PICK g : IsSearch(g, S, n, cap) /\ Bfs(S, n, cap) = g[n]
  BY BfsSearches
<1> DEFINE T == {h \in Nat : h <= n => Searching(g[h], S, h, cap)}
<1>2. 0 \in T
  <2>1. g[0] = Start(S)
    BY <1>1 DEF IsSearch
  <2>2. Searching(Start(S), S, 0, cap)
    BY ReachedStart DEF Searching, Start
  <2> QED
    BY <2>1, <2>2
<1>3. ASSUME NEW h \in Nat, h \in T PROVE h + 1 \in T
  <2> SUFFICES ASSUME h + 1 <= n
               PROVE  Searching(g[h + 1], S, h + 1, cap)
    OBVIOUS
  <2>1. Searching(g[h], S, h, cap)
    BY <1>3
  <2>2. g[h + 1] = Hop(g[h], cap)
    <3>1. h + 1 \in 0 .. n /\ h + 1 # 0 /\ (h + 1) - 1 = h
      OBVIOUS
    <3> QED
      BY <1>1, <3>1 DEF IsSearch
  <2> QED
    BY <2>1, <2>2, HopSearches
<1> HIDE DEF T
<1>4. n \in T
  BY <1>2, <1>3, SetInduction
<1> QED
  BY <1>1, <1>4 DEF T

\* A search answers what its depth reaches from a match, all of it below the cap, and
\* no relation without its ends: for every graph, every depth and every cap.
THEOREM SearchAnswersReach == Spec => []AnswerIsReach
<1>1. AllInv => AnswerIsReach
  <2> SUFFICES ASSUME AllInv, NEW topic \in Topics, NEW tier \in Tiers, NEW depth \in Depths,
                      NEW S \in Seeds(topic, tier.cap)
               PROVE  LET a     == GraphSearch(S, depth, tier)
                          reach == Reached(S, DepthOf(depth, tier))
                      IN /\ a.seen \subseteq reach
                         /\ Cardinality(a.seen) < tier.cap => a.seen = reach
                         /\ a.seen \subseteq There
                         /\ \A e \in a.rels : {e[1], e[2]} \subseteq a.seen
    BY DEF AnswerIsReach
  <2> DEFINE n == DepthOf(depth, tier)
             a == Bfs(S, n, tier.cap)
  <2>1. n \in Nat /\ tier.cap \in Nat
    BY SearchAssumption DEF DepthOf
  <2>2. S \subseteq There
    BY DEF Seeds, Matches
  <2>3. Searching(a, S, n, tier.cap)
    <3> HIDE DEF n
    <3> QED
      BY <2>1, <2>2, BfsIsSearching DEF AllInv, GraphInv
  <2>4. GraphSearch(S, depth, tier) = a
    BY DEF GraphSearch
  <2> HIDE DEF a, n
  <2>5. Cardinality(a.seen) \in Nat
    <3>1. a.seen \subseteq Ids
      BY <2>3 DEF Searching, There
    <3> QED
      BY <3>1, SearchAssumption, FS_Subset, FS_CardinalityType
  <2>6. Cardinality(a.seen) < tier.cap => ~a.full
    BY <2>1, <2>3, <2>5 DEF Searching
  <2> QED
    BY <2>3, <2>4, <2>6 DEF Searching, n
<1> QED BY <1>1, Invariance, PTL
=============================================================================
