---------------------------- MODULE KnowledgeGraph ----------------------------
(***************************************************************************)
(* The knowledge graph (m4_kg): extraction of entities and relations from  *)
(* a parsed document by rules and by an LLM, their merge, the Kuzu store   *)
(* that counts how often an entity was inserted, deletion of a document,   *)
(* the breadth-first search of the graph, and the lookup of a clause that  *)
(* another society has for one of this society's.                          *)
(*                                                                         *)
(* Extractions are background tasks of one process. They wait only for the *)
(* LLM: the statements of an insertion or a deletion run without a break,  *)
(* but Kuzu commits each by itself, and the process can end between two.   *)
(*                                                                         *)
(* An entity goes by its key, its name and type. The rules hash the key    *)
(* for its id, so the id is the key here; the LLM gives an entity the id   *)
(* that the prompt shows it, "e1" and so on, or none, and then the key is  *)
(* hashed. The text of entities, their properties, the society's prefix of *)
(* their names and how often an edge is there are left out.                *)
(***************************************************************************)
EXTENDS Naturals, FiniteSets

CONSTANTS Tasks,         \* extractions, each started once
          Docs,          \* document ids
          Keys,          \* entities, by name and type
          Labels,        \* ids that an LLM makes up
          Kind,          \* of each key: "clause", "parameter", "ship" or "thing"
          Before,        \* the pairs of clauses in the order of their names
          Editions,      \* the texts of each document: [says, excepts, batches]
          Topics,        \* topics of a search: the keys whose name has it
          Depths,        \* depths that a search asks for, or None
          Tiers,         \* tiers: [depth, cap, cross]
          Society,       \* of each document, from the metadata of its first chunk
          Said,          \* types of the relations of an LLM's answers
          MaxConcurrent, \* max_concurrent (2)
          MaxDeletes,    \* bound: deletions
          MaxCrashes,    \* bound: ends of the process
          None

Ids == Keys \union Labels

ASSUME KeysAssumption == /\ Keys \cap Labels = {} /\ None \notin Docs \union Ids
                         /\ Kind \in [Keys -> {"clause", "parameter", "ship", "thing"}]
                         /\ Before \subseteq Keys \X Keys /\ DOMAIN Society = Docs
ASSUME EditionsAssumption ==
  \A d \in Docs : \A x \in Editions[d] :
    /\ \A m \in x.says : m.key \in Keys
    /\ \A b \in DOMAIN x.batches : x.batches[b] \subseteq Keys
ASSUME BoundsAssumption == IsFiniteSet(Docs) /\ MaxConcurrent \in Nat \ {0} /\ MaxDeletes \in Nat /\ MaxCrashes \in Nat
ASSUME SearchAssumption ==
  /\ IsFiniteSet(Ids)
  /\ Depths \subseteq Nat \union {None} /\ \A tier \in Tiers : {tier.depth, tier.cap} \subseteq Nat

VARIABLES
  nodes,    \* Entity: [key, src, refs, society] of each id, or None
  edges,    \* Rel: triples of two ids and a type
  llm,      \* whether an LLM is configured
  task,     \* [stage, doc, text] of each extraction
  batch,    \* of each extraction and batch: "waiting", "calling" or "back"
  answer,   \* of each extraction and batch: [ents, rels]
  deletes,  \* deletions so far
  crashes,  \* ends of the process so far
  claims,   \* history: the ids each document inserted since its last deletion
  stolen,   \* history: ids taken away or counted down for a document without a claim
  merged,   \* history: ids that were inserted when they were there, or without a document
  shared    \* history: ids that were named when they were there under another society

store == <<nodes, edges>>
work  == <<llm, task, batch, answer>>
vars  == <<store, work, deletes, crashes, claims, stolen, merged, shared>>

Texts   == UNION {Editions[d] : d \in Docs}
Batches == UNION {DOMAIN x.batches : x \in Texts}

Societies == {Society[d] : d \in Docs}
Edges     == Ids \X Ids \X (Said \union {"rule"})

Node   == [key : Keys, src : Docs \union {None}, refs : Nat \ {0}, society : Societies]
Entity == [key : Keys, id : Ids]
ASSUME NodeAssumption == None \notin Node
Stages == {"idle", "queued", "asking", "done"}

TypeOK ==
  /\ nodes \in [Ids -> Node \union {None}]
  /\ edges \subseteq Edges
  /\ llm \in BOOLEAN
  /\ task \in [Tasks -> [stage : Stages, doc : Docs \union {None}, text : Texts \union {None}]]
  /\ batch \in [Tasks -> [Batches -> {"waiting", "calling", "back"}]]
  /\ answer \in [Tasks -> [Batches -> [ents : SUBSET Entity, rels : SUBSET Edges]]]
  /\ deletes \in 0..MaxDeletes /\ crashes \in 0..MaxCrashes
  /\ claims \in [Docs -> SUBSET Ids]
  /\ stolen \subseteq Ids /\ merged \subseteq Ids /\ shared \subseteq Ids

Nothing  == [ents |-> {}, rels |-> {}]
There    == {i \in Ids : nodes[i] /= None}
Unasked  == [b \in Batches |-> "waiting"]
Unheard  == [b \in Batches |-> Nothing]
Unset(stage) == [stage |-> stage, doc |-> None, text |-> None]

Init == /\ nodes = [i \in Ids |-> None] /\ edges = {}
        /\ llm \in BOOLEAN
        /\ task = [t \in Tasks |-> Unset("idle")]
        /\ batch = [t \in Tasks |-> Unasked] /\ answer = [t \in Tasks |-> Unheard]
        /\ deletes = 0 /\ crashes = 0
        /\ claims = [d \in Docs |-> {}] /\ stolen = {}
        /\ merged = {} /\ shared = {}

(***************************************************************************)
(* Extraction.                                                             *)
(***************************************************************************)

\* What the rules match in a text is an entity's key, and where. Of clauses, one
\* that is within another is left out, like "Ch.3" in "Pt.4 Ch.3"; of a type of
\* ship, all but the first.
Within(m, o)  == o.from <= m.from /\ m.to <= o.to
Overlap(m, o) == m.from < o.to /\ o.from < m.to
Raw(x) ==
  {m \in x.says :
     /\ Kind[m.key] = "clause" =>
          ~\E o \in x.says \ {m} : Kind[o.key] = "clause" /\ Within(m, o)
     /\ Kind[m.key] = "ship" => \A o \in x.says : o.key = m.key => m.from <= o.from}

\* Then goes what overlaps an exception ("except ...", to the next period).
Affirmed(x) == {m \in Raw(x) : ~\E e \in x.excepts : Overlap(m, e)}
ByRule(x)   == {m.key : m \in Affirmed(x)}

\* Clauses of a document refer to each other in the order of their names, and its
\* parameters constrain what else is in it.
RuleRels(x) ==
  {e \in ByRule(x) \X ByRule(x) \X {"rule"} :
     \/ Kind[e[1]] = "clause" /\ Kind[e[2]] = "clause" /\ <<e[1], e[2]>> \in Before
     \/ Kind[e[1]] = "parameter" /\ Kind[e[2]] \in {"ship", "thing"}}

\* What a batch may come to: nothing, after an error or an answer that is no JSON;
\* or its entities, each with an id of the LLM's or with the one of its key, and a
\* relation of two of them or none.
Named(K) == {f \in [K -> Ids] : /\ \A k \in K : f[k] \in Labels \union {k}
                               /\ \A k, l \in K : f[k] = f[l] => k = l}
Pairs(K)  == {p \in K \X K : p[1] /= p[2]}
EntsOf(f) == {[key |-> k, id |-> f[k]] : k \in DOMAIN f}
RelsOf(f) == {{}} \union {{<<f[p[1]], f[p[2]], y>>} : p \in Pairs(DOMAIN f), y \in Said}
Answers(K) ==
  {Nothing} \union UNION {{[ents |-> EntsOf(f), rels |-> R] : R \in RelsOf(f)} : f \in Named(K)}

\* _merge_batch_results(): of entities with one id, the first batch's.
FirstOf(t) ==
  {x \in [batch : Batches, ent : Entity] :
     /\ x.ent \in answer[t][x.batch].ents
     /\ \A b \in Batches : b < x.batch => \A e \in answer[t][b].ents : e.id /= x.ent.id}

\* merge_entities(): of entities with one key, the LLM's, and the later of them.
\* The rules' carry the document, and the LLM's are never stamped with it.
Merged(t) ==
  LET d == task[t].doc
      L == FirstOf(t)
      Last(k) == {x \in L : x.ent.key = k /\ \A y \in L : y.ent.key = k => y.batch <= x.batch}
  IN {[key |-> k, id |-> k, src |-> d] : k \in {l \in ByRule(task[t].text) : Last(l) = {}}}
     \union {[key |-> x.ent.key, id |-> x.ent.id, src |-> None] :
               x \in UNION {Last(k) : k \in Keys}}

MergedRels(t) == RuleRels(task[t].text) \union UNION {answer[t][b].rels : b \in Batches}

(***************************************************************************)
(* The store. MERGE makes the node of an id or counts it up and names the  *)
(* document that came last, not its society; a relation is made when both  *)
(* its ends are there, whoever inserted them.                              *)
(***************************************************************************)
\* (mutation) A new node is counted from none.
InsertEntitiesUncounted(E, d) ==
  nodes' = [i \in Ids |->
              IF ~\E e \in E : e.id = i THEN nodes[i]
              ELSE LET e == CHOOSE x \in E : x.id = i IN
                   IF nodes[i] = None THEN [key |-> e.key, src |-> e.src, refs |-> 0, society |-> Society[d]]
                   ELSE [nodes[i] EXCEPT !.src = e.src, !.refs = @ + 1]]

InsertEntities(E, d) ==
  nodes' = [i \in Ids |->
              IF ~\E e \in E : e.id = i THEN nodes[i]
              ELSE LET e == CHOOSE x \in E : x.id = i IN
                   IF nodes[i] = None THEN [key |-> e.key, src |-> e.src, refs |-> 1, society |-> Society[d]]
                   ELSE [nodes[i] EXCEPT !.src = e.src, !.refs = @ + 1]]

InsertRelations(R) ==
  edges' = edges \union {e \in R : nodes'[e[1]] /= None /\ nodes'[e[2]] /= None}

Ends(R) == {e[1] : e \in R} \union {e[2] : e \in R}

Claim(d, E, R) ==
  /\ claims' = [claims EXCEPT ![d] = @ \union {e.id : e \in E}]
  /\ merged' = merged \union {e.id : e \in {x \in E : x.src = None \/ nodes[x.id] /= None}}
  /\ shared' = shared \union
       {i \in ({e.id : e \in E} \union Ends(R)) \intersect There : nodes[i].society /= Society[d]}
  /\ UNCHANGED stolen

\* delete_by_doc_id(): the edges at the nodes that name the document, on either
\* side; then the nodes that were counted once; then the others are counted down.
NodesOf(d) == {i \in There : nodes[i].src = d}
\* (mutation) Only the edges out of the nodes.
OutOf(I) == {e \in edges : e[1] \in I}

Touching(I) == {e \in edges : e[1] \in I \/ e[2] \in I}

DeleteEdges(d) == edges' = edges \ Touching(NodesOf(d))

\* (mutation) Counted down first, and then what is counted once removed.
DeleteNodesLate(d) ==
  nodes' = [i \in Ids |-> IF i \notin NodesOf(d) THEN nodes[i]
                          ELSE IF nodes[i].refs <= 2 THEN None
                          ELSE [nodes[i] EXCEPT !.refs = @ - 1]]

DeleteNodes(d) ==
  nodes' = [i \in Ids |-> IF i \notin NodesOf(d) THEN nodes[i]
                          ELSE IF nodes[i].refs = 1 THEN None
                          ELSE [nodes[i] EXCEPT !.refs = @ - 1]]
RemoveOnly(d) ==
  nodes' = [i \in Ids |-> IF i \in NodesOf(d) /\ nodes[i].refs = 1 THEN None ELSE nodes[i]]
Unclaim(d) ==
  /\ claims' = [claims EXCEPT ![d] = {}]
  /\ stolen' = stolen \union (NodesOf(d) \ claims[d])
  /\ UNCHANGED <<merged, shared>>

(***************************************************************************)
(* Actions. on_parse_complete() starts the extraction and does not wait    *)
(* for it.                                                                 *)
(***************************************************************************)
Trigger(t) ==
  /\ task[t].stage = "idle"
  /\ \E d \in Docs : \E x \in Editions[d] :
       task' = [task EXCEPT ![t] = [stage |-> "queued", doc |-> d, text |-> x]]
  /\ UNCHANGED <<store, llm, batch, answer, deletes, crashes, claims, stolen, merged, shared>>

Ask(t) ==
  /\ task[t].stage = "queued" /\ llm
  /\ task' = [task EXCEPT ![t].stage = "asking"]
  /\ UNCHANGED <<store, llm, batch, answer, deletes, crashes, claims, stolen, merged, shared>>

\* The semaphore is the extractor's, and every extraction has its own.
CallLlm(t, b) ==
  /\ task[t].stage = "asking" /\ b \in DOMAIN task[t].text.batches /\ batch[t][b] = "waiting"
  /\ Cardinality({c \in Batches : batch[t][c] = "calling"}) < MaxConcurrent
  /\ batch' = [batch EXCEPT ![t][b] = "calling"]
  /\ UNCHANGED <<store, llm, task, answer, deletes, crashes, claims, stolen, merged, shared>>

LlmAnswers(t, b) ==
  /\ batch[t][b] = "calling"
  /\ batch' = [batch EXCEPT ![t][b] = "back"]
  /\ \E a \in Answers(task[t].text.batches[b]) : answer' = [answer EXCEPT ![t][b] = a]
  /\ UNCHANGED <<store, llm, task, deletes, crashes, claims, stolen, merged, shared>>

\* All batches are back, or there is no LLM to ask.
Gathered(t) ==
  \/ task[t].stage = "queued" /\ ~llm
  \/ task[t].stage = "asking" /\ \A b \in DOMAIN task[t].text.batches : batch[t][b] = "back"

Persist(t) ==
  /\ Gathered(t)
  /\ InsertEntities(Merged(t), task[t].doc) /\ InsertRelations(MergedRels(t))
  /\ Claim(task[t].doc, Merged(t), MergedRels(t))
  /\ task' = [task EXCEPT ![t] = Unset("done")]
  /\ batch' = [batch EXCEPT ![t] = Unasked] /\ answer' = [answer EXCEPT ![t] = Unheard]
  /\ UNCHANGED <<llm, deletes, crashes>>

Delete(d) ==
  /\ deletes < MaxDeletes /\ deletes' = deletes + 1
  /\ DeleteEdges(d) /\ DeleteNodes(d)
  /\ Unclaim(d)
  /\ UNCHANGED <<work, crashes>>

\* The process ends and the tasks with it: some of the entities of an insertion are
\* there, or all and some of the relations; or a deletion has got to the edges out of
\* its nodes, to all their edges, or to the nodes that were counted once.
Crash ==
  /\ crashes < MaxCrashes /\ crashes' = crashes + 1
  /\ \/ UNCHANGED <<store, deletes, claims, stolen, merged, shared>>
     \/ \E t \in {u \in Tasks : Gathered(u)} : \E E \in SUBSET Merged(t) :
          /\ InsertEntities(E, task[t].doc)
          /\ \E R \in SUBSET (IF E = Merged(t) THEN MergedRels(t) ELSE {}) :
               InsertRelations(R) /\ Claim(task[t].doc, E, R)
          /\ UNCHANGED deletes
     \/ \E d \in Docs :
          /\ deletes < MaxDeletes /\ deletes' = deletes + 1
          /\ \/ /\ edges' = {e \in edges : e[1] \notin NodesOf(d)}
                /\ UNCHANGED <<nodes, claims, stolen, merged, shared>>
             \/ DeleteEdges(d) /\ UNCHANGED <<nodes, claims, stolen, merged, shared>>
             \/ DeleteEdges(d) /\ RemoveOnly(d) /\ Unclaim(d)
  /\ task' = [t \in Tasks |-> IF task[t].stage = "idle" THEN task[t] ELSE Unset("done")]
  /\ batch' = [t \in Tasks |-> Unasked] /\ answer' = [t \in Tasks |-> Unheard]
  /\ UNCHANGED llm

Next == \/ \E t \in Tasks : \/ Trigger(t) \/ Ask(t) \/ Persist(t)
                            \/ \E b \in Batches : CallLlm(t, b) \/ LlmAnswers(t, b)
        \/ \E d \in Docs : Delete(d)
        \/ Crash
Spec == Init /\ [][Next]_vars

(***************************************************************************)
(* Search. The seeds are nodes whose name has the topic, as many as the    *)
(* tier's cap at most; each hop adds the edges out of the newest nodes and *)
(* the nodes they lead to, and the last hop is the one that reaches the    *)
(* cap. No write comes between the hops.                                   *)
(***************************************************************************)
Matches(topic) == {i \in There : nodes[i].key \in topic}
Seeds(topic, cap) == {S \in SUBSET Matches(topic) :
                        \/ Cardinality(S) = cap
                        \/ Cardinality(S) < cap /\ S = Matches(topic)}

\* (mutation) Edges are followed in both directions.
HopBothWays(a, cap) ==
  LET out == {e \in edges : e[1] \in a.frontier \/ e[2] \in a.frontier}
      new == ({e[2] : e \in out} \union {e[1] : e \in out}) \ a.seen
  IN IF a.frontier = {} \/ a.full THEN a
     ELSE [seen |-> a.seen \union new, frontier |-> new, rels |-> a.rels \union out,
           full |-> Cardinality(a.seen \union new) >= cap]

Hop(a, cap) ==
  LET out == {e \in edges : e[1] \in a.frontier}
      new == {e[2] : e \in out} \ a.seen
  IN IF a.frontier = {} \/ a.full THEN a
     ELSE [seen |-> a.seen \union new, frontier |-> new, rels |-> a.rels \union out,
           full |-> Cardinality(a.seen \union new) >= cap]

Bfs(S, depth, cap) ==
  LET after[h \in 0..depth] ==
        IF h = 0 THEN [seen |-> S, frontier |-> S, rels |-> {}, full |-> FALSE]
        ELSE Hop(after[h - 1], cap)
  IN after[depth]

\* graph_search(): a depth that the caller names goes before the tier's, also when
\* it is larger; the cap is the tier's.
DepthOf(depth, tier) == IF depth = None THEN tier.depth ELSE depth
GraphSearch(S, depth, tier) == Bfs(S, DepthOf(depth, tier), tier.cap)

(***************************************************************************)
(* cross_reference(): from the nodes of the one society whose name has the *)
(* clause, over a relation of similarity to a node of the other. An LLM's  *)
(* relations are the only ones of that type, all with confidence 0.9; the  *)
(* LLM that is to be asked when there is none is a stub that says nothing. *)
(***************************************************************************)
OfSociety(s) == {i \in There : nodes[i].society = s}

Similar(topic, from) ==
  {e \in edges : e[3] = "similar_to" /\ e[1] \in OfSociety(from) \intersect Matches(topic)}

\* (mutation) The target's society is not looked at.
GraphLookupAnywhere(topic, from, to) == Similar(topic, from)

GraphLookup(topic, from, to) == {e \in Similar(topic, from) : e[2] \in OfSociety(to)}

LlmCrossReference == {}
CrossReference(topic, from, to) ==
  LET found == GraphLookup(topic, from, to)
  IN IF found /= {} THEN found ELSE LlmCrossReference

\* The engine's method, which a tier may not have.
EngineCrossReference(topic, from, to, tier) ==
  IF tier.cross THEN CrossReference(topic, from, to) ELSE {}

(***************************************************************************)
(* Properties.                                                             *)
(***************************************************************************)

\* A node that a document put into the graph, and that it did not ask to delete
\* since, is there: a deletion of another document counts it down and does not
\* remove it. Only a document that is deleted again, or was inserted anew without
\* the entity, can take it, because the node still names it as its source.
SharedNodesSurvive ==
  \A d \in Docs : \A i \in claims[d] : i \in There \union stolen

\* Both ends of every edge are there, also when the process ended half-way through
\* an insertion or a deletion.
EndpointsExist == \A e \in edges : e[1] \in There /\ e[2] \in There

\* A node that was inserted once, from the rules, goes with its document: it is
\* there only while the document claims it. What stays behind for good was merged
\* with a node of another insertion, or came from the LLM and names no document.
LeftoversWereMerged ==
  \A i \in There \ merged : nodes[i].src /= None /\ i \in claims[nodes[i].src]

\* Reached from S over at most n edges between nodes that are there.
Reached(S, n) ==
  LET pairs    == {<<e[1], e[2]>> : e \in edges}
      paths(m) == {p \in [0..m -> There] : /\ p[0] \in S
                                         /\ \A h \in 1..m : <<p[h - 1], p[h]>> \in pairs}
  IN UNION {{p[m] : p \in paths(m)} : m \in 0..n}

\* An answer holds only what is within the search's depth of a match, all of that
\* unless it reached the cap, and no relation without its two ends.
AnswerIsReach ==
  \A topic \in Topics, tier \in Tiers, depth \in Depths : \A S \in Seeds(topic, tier.cap) :
    LET a     == GraphSearch(S, depth, tier)
        reach == Reached(S, DepthOf(depth, tier)) IN
    /\ a.seen \subseteq reach
    /\ Cardinality(a.seen) < tier.cap => a.seen = reach
    /\ a.seen \subseteq There
    /\ \A e \in a.rels : {e[1], e[2]} \subseteq a.seen

\* A clause of one society is answered with a clause of another only over a node
\* that documents of two societies named, as an entity or as the end of a relation:
\* an LLM relates the entities of one document, a node keeps the society that made
\* it, and no relation outlives a node it is at. (The merge may drop the id that a
\* batch gave an entity; that batch's relations then end at whatever has the id.)
CrossedWhereShared ==
  \A topic \in Topics, from, to \in Societies, tier \in Tiers :
    \A e \in EngineCrossReference(topic, from, to, tier) :
      from = to \/ e[1] \in shared \/ e[2] \in shared
=============================================================================
