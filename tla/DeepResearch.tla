---------------------------- MODULE DeepResearch ----------------------------
(***************************************************************************)
(* Deep Research: POST /api/v1/agent/research (routes/research.py) streams *)
(* execute_research (m5_qa/research/progress.py), which plans with a       *)
(* QueryDecomposer, runs the regulations and the web agent side by side on *)
(* the same sub-questions, analyses what they found, writes a report and   *)
(* keeps its evidence for follow-up questions.                             *)
(*                                                                         *)
(* Every step runs from one await or yield to the next.  What the searches *)
(* and the LLM return is left out, except for the shape of a plan: how     *)
(* many sub-questions, which agents they are for, and whether they carry a *)
(* search_query at all.  The LLM client is left out too: execute_research  *)
(* sets it on the one planner all studies share, and the planner reads it  *)
(* back before its first await that suspends, so no study sees another's.  *)
(***************************************************************************)
EXTENDS Integers, Sequences, FiniteSets

CONSTANTS
    Studies,            \* the studies clients open, one request each
    LLMPlans,           \* plans an LLM or a user can hand in
    RulePlans,          \* plans the society rules can make
    MaxSubQuestions,    \* MAX_SUB_QUESTIONS
    None                \* no search yet

\* A sub-question: the strategies it names, and whether it has a search_query.
SubQuestions == [strategy : SUBSET {"regulations", "web", "cases"}, query : BOOLEAN]

ASSUME StudiesFinite == IsFiniteSet(Studies)
ASSUME NoneIsNoQuery == None \notin {"planned", "extended"}
ASSUME PlansType == LLMPlans \subseteq Seq(SubQuestions)
ASSUME MaxNat == MaxSubQuestions \in Nat \ {0}
ASSUME RulePlansType ==
    RulePlans \subseteq {p \in Seq(SubQuestions) : Len(p) \in 1..MaxSubQuestions}

VARIABLES
    stage,          \* where execute_research is
    cases,          \* include_cases
    plan,           \* the sub-questions
    chosen,         \* they came with the request
    given,          \* history: the plan the LLM or the rules gave
    reg,            \* the regulations agent
    at,             \* the sub-question it searches for
    web,            \* the web agent
    suffixed,       \* the web agent has extended the search queries
    firstQuery,     \* history: the first query the regulations agent read
    store,          \* _research_store
    outcome         \* how the study ended, as its client sees it

localVars == <<cases, chosen, given>>
planVars == <<localVars, plan>>
agentVars == <<reg, at, web, suffixed, firstQuery>>
vars == <<stage, planVars, agentVars, store, outcome>>

Stages == {"new", "planning", "llm", "enrich", "planned", "search", "analyze",
           "report", "chunks", "ended"}
Agent == {"none", "waiting", "searching", "finished"}
Queries == {"planned", "extended"}

TypeOK ==
    /\ stage \in [Studies -> Stages]
    /\ cases \in [Studies -> BOOLEAN]
    /\ plan \in [Studies -> Seq(SubQuestions)]
    /\ chosen \in [Studies -> BOOLEAN]
    /\ given \in [Studies -> Seq(SubQuestions)]
    /\ reg \in [Studies -> Agent]
    /\ at \in [Studies -> Nat]
    /\ web \in [Studies -> Agent]
    /\ suffixed \in [Studies -> BOOLEAN]
    /\ firstQuery \in [Studies -> Queries \cup {None}]
    /\ store \subseteq Studies
    /\ outcome \in [Studies -> {"new", "running", "reported", "failed", "left"}]

Init ==
    /\ stage = [s \in Studies |-> "new"]
    /\ cases = [s \in Studies |-> FALSE]
    /\ plan = [s \in Studies |-> <<>>]
    /\ chosen = [s \in Studies |-> FALSE]
    /\ given = [s \in Studies |-> <<>>]
    /\ reg = [s \in Studies |-> "none"]
    /\ at = [s \in Studies |-> 0]
    /\ web = [s \in Studies |-> "none"]
    /\ suffixed = [s \in Studies |-> FALSE]
    /\ firstQuery = [s \in Studies |-> None]
    /\ store = {}
    /\ outcome = [s \in Studies |-> "new"]

-----------------------------------------------------------------------------
Goto(s, where) == stage' = [stage EXCEPT ![s] = where]

\* The study ends, and its generator's locals with it.
End(s, how) ==
    /\ Goto(s, "ended")
    /\ outcome' = [outcome EXCEPT ![s] = how]
    /\ cases' = [cases EXCEPT ![s] = FALSE]
    /\ chosen' = [chosen EXCEPT ![s] = FALSE]
    /\ given' = [given EXCEPT ![s] = <<>>]

\* Neither agent runs (any more), and nobody holds the plan.
Drop(s) ==
    /\ plan' = [plan EXCEPT ![s] = <<>>]
    /\ reg' = [reg EXCEPT ![s] = "none"]
    /\ at' = [at EXCEPT ![s] = 0]
    /\ web' = [web EXCEPT ![s] = "none"]
    /\ suffixed' = [suffixed EXCEPT ![s] = FALSE]
    /\ firstQuery' = [firstQuery EXCEPT ![s] = None]

(***************************************************************************)
(* The request: the route streams the first event.                         *)
(***************************************************************************)
StartResearch(s, c) ==
    /\ stage[s] = "new"
    /\ Goto(s, "planning")
    /\ cases' = [cases EXCEPT ![s] = c]
    /\ outcome' = [outcome EXCEPT ![s] = "running"]
    /\ UNCHANGED <<plan, chosen, given, agentVars, store>>

(***************************************************************************)
(* Phase 1: planning.                                                      *)
(***************************************************************************)

\* The archived projects' sub-question, past the planner's cap.
CaseStudy == [strategy |-> {"web", "cases"}, query |-> TRUE]
WithCases(p, c) == IF c THEN Append(p, CaseStudy) ELSE p

CrossReference == [strategy |-> {"regulations"}, query |-> TRUE]

\* (mutation) the knowledge graph's sub-question goes first.
EnrichedFirst(p, found) == IF found THEN <<CrossReference>> \o p ELSE p

\* The knowledge graph's sub-question, when it still fits.
Enriched(p, found) ==
    IF found /\ Len(p) + 1 <= MaxSubQuestions THEN Append(p, CrossReference) ELSE p

Capped(p) == SubSeq(p, 1, IF Len(p) < MaxSubQuestions THEN Len(p) ELSE MaxSubQuestions)

\* Sub-questions of the request (those it enables) make the plan.
TakeChosenPlan(s, p) ==
    /\ stage[s] = "planning"
    /\ plan' = [plan EXCEPT ![s] = WithCases(p, cases[s])]
    /\ chosen' = [chosen EXCEPT ![s] = TRUE]
    /\ Goto(s, "planned")
    /\ UNCHANGED <<cases, given, agentVars, store, outcome>>

\* The shared planner is given the study's client and asks it.
AskPlanner(s) ==
    /\ stage[s] = "planning"
    /\ Goto(s, "llm")
    /\ UNCHANGED <<planVars, agentVars, store, outcome>>

\* The planner's LLM answers with a plan, or the rules make one of the query (or
\* of an answer that is no JSON).
PlanArrives(s, p) ==
    /\ stage[s] = "llm"
    /\ \/ /\ Len(p) >= 2
          /\ Goto(s, "enrich")
          /\ plan' = [plan EXCEPT ![s] = p]
       \/ /\ Goto(s, "planned")
          /\ plan' = [plan EXCEPT ![s] = WithCases(Capped(p), cases[s])]
    /\ given' = [given EXCEPT ![s] = p]
    /\ UNCHANGED <<cases, chosen, agentVars, store, outcome>>

\* M4's cross references add a sub-question, or do not.
EnrichWithKG(s, found) ==
    /\ stage[s] = "enrich"
    /\ Goto(s, "planned")
    /\ plan' = [plan EXCEPT ![s] = WithCases(Capped(Enriched(@, found)), cases[s])]
    /\ UNCHANGED <<localVars, agentVars, store, outcome>>

\* An answer whose sub_questions is not a list raises, and the study ends with an
\* error event.
PlanningFails(s) ==
    /\ stage[s] \in {"llm", "enrich"}
    /\ End(s, "failed")
    /\ Drop(s)
    /\ UNCHANGED store

(***************************************************************************)
(* Phase 2: the two agents, as tasks of one asyncio.gather, which starts   *)
(* them in its order.  They share the plan's sub-questions: the web agent  *)
(* first extends every search_query by its domain's words, in place, and   *)
(* the regulations agent reads each search_query when it comes to it.      *)
(***************************************************************************)
Search(s) ==
    /\ stage[s] = "planned"
    /\ Goto(s, "search")
    /\ reg' = [reg EXCEPT ![s] = "waiting"]
    /\ web' = [web EXCEPT ![s] = "waiting"]
    /\ UNCHANGED <<planVars, at, suffixed, firstQuery, store, outcome>>

\* (mutation) the sub-question it has searched for counts as one to come.
AheadRetrying(s) ==
    {i \in (IF at[s] = 0 THEN 1 ELSE at[s])..Len(plan[s]) :
        "regulations" \in plan[s][i].strategy}

\* The sub-questions the regulations agent has still to search for.
Ahead(s) == {i \in (at[s] + 1)..Len(plan[s]) : "regulations" \in plan[s][i].strategy}

Query(s) == IF suffixed[s] THEN "extended" ELSE "planned"

\* (mutation) gather returns an agent's exception with the other one's results.
AgentRaisesAlone(s) == UNCHANGED <<stage, localVars, outcome>>

\* An exception of one agent ends the study; gather does not stop the other one,
\* which runs on for nobody.
AgentRaises(s) ==
    IF stage[s] = "search" THEN End(s, "failed") ELSE UNCHANGED <<stage, localVars, outcome>>

\* From one sub-question to the next: a missing search_query raises KeyError,
\* failing searches of M3, M4 or the ISO list only cost their results.
SearchRegulations(s) ==
    /\ reg[s] \in {"waiting", "searching"}
    /\ \/ /\ Ahead(s) = {}
          /\ reg' = [reg EXCEPT ![s] = "finished"]
          /\ UNCHANGED <<stage, localVars, at, firstQuery, outcome>>
       \/ \E i \in Ahead(s) :
             /\ \A j \in Ahead(s) : i <= j
             /\ IF plan[s][i].query
                THEN /\ reg' = [reg EXCEPT ![s] = "searching"]
                     /\ at' = [at EXCEPT ![s] = i]
                     /\ firstQuery' = [firstQuery EXCEPT ![s] =
                                           IF @ = None THEN Query(s) ELSE @]
                     /\ UNCHANGED <<stage, localVars, outcome>>
                ELSE /\ reg' = [reg EXCEPT ![s] = "finished"]
                     /\ AgentRaises(s)
                     /\ UNCHANGED <<at, firstQuery>>
    /\ UNCHANGED <<plan, web, suffixed, store>>

\* (mutation) the web agent may run before the regulations agent has started.
ExtendQueriesFirst(s) ==
    /\ web[s] = "waiting"
    /\ IF \A i \in 1..Len(plan[s]) : plan[s][i].query
       THEN /\ web' = [web EXCEPT ![s] = "searching"]
            /\ suffixed' = [suffixed EXCEPT ![s] = TRUE]
            /\ UNCHANGED <<stage, localVars, outcome>>
       ELSE /\ web' = [web EXCEPT ![s] = "finished"]
            /\ AgentRaises(s)
            /\ UNCHANGED suffixed
    /\ UNCHANGED <<plan, reg, at, firstQuery, store>>

\* The web agent's first loop, once the regulations agent has run to its first
\* await: every sub-question needs a search_query, web or not.
ExtendQueries(s) ==
    /\ web[s] = "waiting"
    /\ reg[s] # "waiting"
    /\ IF \A i \in 1..Len(plan[s]) : plan[s][i].query
       THEN /\ web' = [web EXCEPT ![s] = "searching"]
            /\ suffixed' = [suffixed EXCEPT ![s] = TRUE]
            /\ UNCHANGED <<stage, localVars, outcome>>
       ELSE /\ web' = [web EXCEPT ![s] = "finished"]
            /\ AgentRaises(s)
            /\ UNCHANGED suffixed
    /\ UNCHANGED <<plan, reg, at, firstQuery, store>>

\* Its searches: one that fails is skipped.
SearchWeb(s) ==
    /\ web[s] = "searching"
    /\ web' = [web EXCEPT ![s] = "finished"]
    /\ UNCHANGED <<stage, planVars, reg, at, suffixed, firstQuery, store, outcome>>

Gathered(s) ==
    /\ stage[s] = "search"
    /\ reg[s] = "finished" /\ web[s] = "finished"
    /\ Goto(s, "analyze")
    /\ UNCHANGED <<planVars, agentVars, store, outcome>>

(***************************************************************************)
(* Phases 3 and 4.  An analysis that fails is replaced by an empty one, a  *)
(* report the LLM does not write by the template's; only an exception of   *)
(* the template ends the study.                                            *)
(***************************************************************************)
Analyze(s) ==
    /\ stage[s] = "analyze"
    /\ Goto(s, "report")
    /\ UNCHANGED <<planVars, agentVars, store, outcome>>

\* (mutation) the evidence is kept when the report is there.
GenerateReportStoring(s) ==
    /\ stage[s] = "report"
    /\ Goto(s, "chunks")
    /\ store' = store \cup {s}
    /\ UNCHANGED <<planVars, agentVars, outcome>>

GenerateReport(s) ==
    /\ stage[s] = "report"
    /\ Goto(s, "chunks")
    /\ UNCHANGED <<planVars, agentVars, store, outcome>>

ReportFails(s) ==
    /\ stage[s] = "report"
    /\ End(s, "failed")
    /\ Drop(s)
    /\ UNCHANGED store

\* The last report_chunk is sent: the evidence is kept, and "done" follows with
\* no await in between.
StoreAndFinish(s) ==
    /\ stage[s] = "chunks"
    /\ store' = store \cup {s}
    /\ End(s, "reported")
    /\ Drop(s)

(***************************************************************************)
(* The client leaves: the stream's task is cancelled where it waits, and   *)
(* gather cancels both agents with it.  A restart cancels everything and   *)
(* forgets what is kept.                                                   *)
(***************************************************************************)
Running(s) == stage[s] \notin {"new", "ended"}

Disconnect(s) ==
    /\ Running(s)
    /\ End(s, "left")
    /\ Drop(s)
    /\ UNCHANGED store

Restart ==
    /\ stage' = [s \in Studies |-> IF Running(s) THEN "ended" ELSE stage[s]]
    /\ outcome' = [s \in Studies |-> IF Running(s) THEN "left" ELSE outcome[s]]
    /\ cases' = [s \in Studies |-> FALSE]
    /\ chosen' = [s \in Studies |-> FALSE]
    /\ given' = [s \in Studies |-> <<>>]
    /\ plan' = [s \in Studies |-> <<>>]
    /\ reg' = [s \in Studies |-> "none"]
    /\ at' = [s \in Studies |-> 0]
    /\ web' = [s \in Studies |-> "none"]
    /\ suffixed' = [s \in Studies |-> FALSE]
    /\ firstQuery' = [s \in Studies |-> None]
    /\ store' = {}

Plan(s) ==
    \/ AskPlanner(s)
    \/ \E p \in LLMPlans : TakeChosenPlan(s, p)
    \/ \E p \in LLMPlans \cup RulePlans : PlanArrives(s, p)
    \/ \E found \in BOOLEAN : EnrichWithKG(s, found)

Agents(s) == SearchRegulations(s) \/ ExtendQueries(s) \/ SearchWeb(s)

Proceed(s) ==
    \/ Plan(s) \/ PlanningFails(s) \/ Search(s) \/ Gathered(s) \/ Analyze(s)
    \/ GenerateReport(s) \/ ReportFails(s) \/ StoreAndFinish(s)

Next ==
    \/ \E s \in Studies, c \in BOOLEAN : StartResearch(s, c)
    \/ \E s \in Studies : Proceed(s) \/ Agents(s) \/ Disconnect(s)
    \/ Restart

\* Every await ends: the LLM client and the web searches time out, and the stream
\* is either read or cancelled.
Fairness == \A s \in Studies : WF_vars(Proceed(s)) /\ WF_vars(Agents(s))

Spec == Init /\ [][Next]_vars /\ Fairness

-----------------------------------------------------------------------------
(***************************************************************************)
(* Properties                                                              *)
(***************************************************************************)

\* "Maximum sub-questions to prevent runaway decomposition" (planner.py:31).  What
\* the LLM answers, what the knowledge graph adds at the edge and the cut after it
\* leave at most that many sub-questions, and none of the first ones the planner
\* gave is lost or moved; the case study alone comes on top, as the last one.
PlanBounded ==
    \A s \in Studies :
        stage[s] \in {"planned", "search", "analyze", "report", "chunks"} /\ ~chosen[s] =>
            /\ Len(plan[s]) <= MaxSubQuestions + IF cases[s] THEN 1 ELSE 0
            /\ \A i \in 1..Len(given[s]) :
                  i <= MaxSubQuestions => i <= Len(plan[s]) /\ plan[s][i] = given[s][i]
            /\ cases[s] => plan[s][Len(plan[s])] = CaseStudy

\* What is analysed and reported was searched for: both agents have come through
\* the whole plan, the sub-questions the other one is not for included.  An agent
\* that breaks on one of them, first or last, takes the study with it, so that no
\* report is written from a part of its plan.
WholePlanSearched ==
    \A s \in Studies :
        stage[s] \in {"analyze", "report", "chunks"} => Ahead(s) = {} /\ suffixed[s]

\* The agents race on the sub-questions they share, and later regulation searches
\* do use queries extended for the web; the first one never does, because gather
\* starts the regulations agent first and it reads before it waits.
FirstSearchAsPlanned == \A s \in Studies : firstQuery[s] \in {None, "planned"}

\* A study's outcome and its evidence follow ResearchOutcome: "done" is sent for
\* exactly the studies whose evidence is kept, and after an error, a disconnect or
\* a restart a study reports nothing any more, although agents may run on.
Outcome == INSTANCE ResearchOutcome WITH kept <- store
KeepsPromise == Outcome!Spec

\* Every study ends and so do its agents, those of a failed study included.
EveryStudyEnds ==
    \A s \in Studies :
        Running(s) ~> stage[s] = "ended" /\ {reg[s], web[s]} \subseteq {"none", "finished"}
=============================================================================
