------------------------- MODULE DeepResearchProofs -------------------------
(***************************************************************************)
(* Deep Research keeps its promise for every number of concurrent studies, *)
(* every plan an LLM or a user can hand in, and every maximum of           *)
(* sub-questions.                                                          *)
(***************************************************************************)
EXTENDS DeepResearch, SequenceTheorems, TLAPS

\* The outcome a client sees moves with the study.
OutcomeFollows ==
    \A s \in Studies :
        /\ outcome[s] = "new" <=> stage[s] = "new"
        /\ outcome[s] = "running" <=> Running(s)

\* Before the search no agent runs and no query is extended; the plan that is being
\* enriched is the one that arrived.
NotYet ==
    \A s \in Studies :
        /\ stage[s] \in {"new", "planning", "llm", "enrich", "planned"} =>
              reg[s] = "none" /\ web[s] = "none" /\ ~suffixed[s] /\ firstQuery[s] = None
        /\ stage[s] = "enrich" => plan[s] = given[s]

\* The queries are extended after the regulations agent has started, and it has
\* read one once it searches.
StartsFirst ==
    \A s \in Studies :
        /\ suffixed[s] => reg[s] # "waiting"
        /\ reg[s] = "searching" => firstQuery[s] # None

\* As long as the study goes on, an agent that has finished has come through the
\* plan; from the analysis on both have.
Through ==
    \A s \in Studies :
        /\ stage[s] = "search" /\ reg[s] = "finished" => Ahead(s) = {}
        /\ stage[s] = "search" /\ web[s] \in {"searching", "finished"} => suffixed[s]
        /\ stage[s] \in {"analyze", "report", "chunks"} =>
              reg[s] = "finished" /\ web[s] = "finished"

\* The inductive invariant.
IInv == /\ TypeOK /\ OutcomeFollows /\ NotYet /\ StartsFirst /\ Through
        /\ PlanBounded /\ WholePlanSearched /\ FirstSearchAsPlanned

-----------------------------------------------------------------------------
(***************************************************************************)
(* Plans                                                                   *)
(***************************************************************************)
LEMMA CappedPlan ==
    ASSUME NEW p \in Seq(SubQuestions)
    PROVE  /\ Capped(p) \in Seq(SubQuestions)
           /\ Len(Capped(p)) <= MaxSubQuestions
           /\ \A i \in 1..Len(p) :
                 i <= MaxSubQuestions => i <= Len(Capped(p)) /\ Capped(p)[i] = p[i]
<1> DEFINE n == IF Len(p) < MaxSubQuestions THEN Len(p) ELSE MaxSubQuestions
<1>1. n \in 0..Len(p) /\ n <= MaxSubQuestions
  BY MaxNat
<1>2. /\ SubSeq(p, 1, n) \in Seq(SubQuestions) /\ Len(SubSeq(p, 1, n)) = n
      /\ \A i \in 1..n : SubSeq(p, 1, n)[i] = p[i]
  BY <1>1, SubSeqProperties
<1>3. \A i \in 1..Len(p) : i <= MaxSubQuestions => i \in 1..n
  BY MaxNat
<1> QED  BY <1>1, <1>2, <1>3 DEF Capped

LEMMA CasesPlan ==
    ASSUME NEW p \in Seq(SubQuestions), NEW c \in BOOLEAN
    PROVE  /\ WithCases(p, c) \in Seq(SubQuestions)
           /\ Len(WithCases(p, c)) = Len(p) + IF c THEN 1 ELSE 0
           /\ \A i \in 1..Len(p) : WithCases(p, c)[i] = p[i]
           /\ c => WithCases(p, c)[Len(WithCases(p, c))] = CaseStudy
<1>1. CaseStudy \in SubQuestions
  BY DEF CaseStudy, SubQuestions
<1> QED  BY <1>1, AppendProperties DEF WithCases

LEMMA EnrichedPlan ==
    ASSUME NEW p \in Seq(SubQuestions), NEW found \in BOOLEAN
    PROVE  /\ Enriched(p, found) \in Seq(SubQuestions)
           /\ Len(p) <= Len(Enriched(p, found))
           /\ \A i \in 1..Len(p) : Enriched(p, found)[i] = p[i]
<1>1. CrossReference \in SubQuestions
  BY DEF CrossReference, SubQuestions
<1> QED  BY <1>1, AppendProperties DEF Enriched

\* A plan that begins with what was given stays within the maximum, and still
\* begins with it, once it is cut and the case study is added.
LEMMA CutPlan ==
    ASSUME NEW p \in Seq(SubQuestions), NEW e \in Seq(SubQuestions), NEW c \in BOOLEAN,
           Len(p) <= Len(e), \A i \in 1..Len(p) : e[i] = p[i],
           NEW q, q = WithCases(Capped(e), c)
    PROVE  /\ q \in Seq(SubQuestions)
           /\ Len(q) <= MaxSubQuestions + IF c THEN 1 ELSE 0
           /\ \A i \in 1..Len(p) : i <= MaxSubQuestions => i <= Len(q) /\ q[i] = p[i]
           /\ c => q[Len(q)] = CaseStudy
<1>1. /\ Capped(e) \in Seq(SubQuestions) /\ Len(Capped(e)) <= MaxSubQuestions
      /\ \A i \in 1..Len(e) :
            i <= MaxSubQuestions => i <= Len(Capped(e)) /\ Capped(e)[i] = e[i]
  BY CappedPlan
<1>2. Len(Capped(e)) \in Nat /\ Len(e) \in Nat /\ Len(p) \in Nat /\ MaxSubQuestions \in Nat
  BY <1>1, LenProperties, MaxNat
<1>3. /\ q \in Seq(SubQuestions) /\ Len(q) = Len(Capped(e)) + IF c THEN 1 ELSE 0
      /\ \A i \in 1..Len(Capped(e)) : q[i] = Capped(e)[i]
      /\ c => q[Len(q)] = CaseStudy
  BY <1>1, CasesPlan
<1>4. Len(q) <= MaxSubQuestions + IF c THEN 1 ELSE 0
  BY <1>1, <1>2, <1>3
<1>5. ASSUME NEW i \in 1..Len(p), i <= MaxSubQuestions
      PROVE  i <= Len(q) /\ q[i] = p[i]
  <2>1. i \in 1..Len(e) /\ e[i] = p[i]
    BY <1>2
  <2>2. i <= Len(Capped(e)) /\ Capped(e)[i] = e[i]
    BY <1>1, <1>5, <2>1
  <2>3. i \in 1..Len(Capped(e)) /\ i <= Len(q)
    BY <1>2, <1>3, <2>2
  <2> QED  BY <1>3, <2>1, <2>2, <2>3
<1> QED  BY <1>3, <1>4, <1>5

-----------------------------------------------------------------------------
THEOREM Initial == Init => IInv
<1> SUFFICES ASSUME Init PROVE IInv
  OBVIOUS
<1>1. <<>> \in Seq(SubQuestions)
  BY EmptySeq
<1>2. TypeOK
  BY <1>1 DEF Init, TypeOK, Stages, Agent, Queries
<1>3. OutcomeFollows /\ NotYet /\ StartsFirst /\ Through
  BY DEF Init, OutcomeFollows, NotYet, StartsFirst, Through, Ahead, Running
<1>4. PlanBounded /\ WholePlanSearched /\ FirstSearchAsPlanned
  BY DEF Init, PlanBounded, WholePlanSearched, Ahead, FirstSearchAsPlanned
<1> QED  BY <1>2, <1>3, <1>4 DEF IInv

LEMMA StartStep ==
    ASSUME IInv, NEW s \in Studies, NEW c \in BOOLEAN, StartResearch(s, c)
    PROVE  IInv'
<1> USE DEF IInv, StartResearch, Goto
<1>1. TypeOK'
  BY DEF TypeOK, Stages, agentVars
<1>2. OutcomeFollows' /\ NotYet' /\ StartsFirst' /\ Through'
  BY DEF TypeOK, OutcomeFollows, NotYet, StartsFirst, Through, Ahead, Running, agentVars
<1>3. PlanBounded' /\ WholePlanSearched' /\ FirstSearchAsPlanned'
  BY DEF TypeOK, NotYet, PlanBounded, WholePlanSearched, Ahead, FirstSearchAsPlanned, agentVars
<1> QED  BY <1>1, <1>2, <1>3

\* The planner's steps: each leaves the agents alone.
LEMMA PlanStep ==
    ASSUME IInv, NEW s \in Studies, Plan(s)
    PROVE  IInv'
<1>1. CASE AskPlanner(s)
  <2> USE <1>1 DEF IInv, AskPlanner, Goto, planVars, localVars
  <2>1. TypeOK'
    BY DEF TypeOK, Stages, agentVars
  <2>2. OutcomeFollows' /\ NotYet' /\ StartsFirst' /\ Through'
    BY DEF TypeOK, OutcomeFollows, NotYet, StartsFirst, Through, Ahead, Running, agentVars
  <2>3. PlanBounded' /\ WholePlanSearched' /\ FirstSearchAsPlanned'
    BY DEF TypeOK, PlanBounded, WholePlanSearched, Ahead, FirstSearchAsPlanned, agentVars
  <2> QED  BY <2>1, <2>2, <2>3
<1>2. ASSUME NEW p \in LLMPlans, TakeChosenPlan(s, p) PROVE IInv'
  <2> USE <1>2 DEF IInv, TakeChosenPlan, Goto
  <2>0. p \in Seq(SubQuestions) /\ cases[s] \in BOOLEAN
    BY PlansType DEF TypeOK
  <2>4. WithCases(p, cases[s]) \in Seq(SubQuestions)
    BY <2>0, CasesPlan
  <2>1. TypeOK'
    BY <2>4 DEF TypeOK, Stages, agentVars
  <2>2. OutcomeFollows' /\ NotYet' /\ StartsFirst' /\ Through'
    BY DEF TypeOK, OutcomeFollows, NotYet, StartsFirst, Through, Ahead, Running, agentVars
  <2>3. PlanBounded' /\ WholePlanSearched' /\ FirstSearchAsPlanned'
    BY DEF TypeOK, PlanBounded, WholePlanSearched, Ahead, FirstSearchAsPlanned, agentVars
  <2> QED  BY <2>1, <2>2, <2>3
<1>3. ASSUME NEW p \in LLMPlans \cup RulePlans, PlanArrives(s, p) PROVE IInv'
  <2> USE DEF IInv
  <2> DEFINE q == WithCases(Capped(p), cases[s])
  <2>0. p \in Seq(SubQuestions) /\ cases[s] \in BOOLEAN
    BY PlansType, RulePlansType DEF TypeOK
  <2>4. /\ q \in Seq(SubQuestions)
        /\ Len(q) <= MaxSubQuestions + IF cases[s] THEN 1 ELSE 0
        /\ \A i \in 1..Len(p) : i <= MaxSubQuestions => i <= Len(q) /\ q[i] = p[i]
        /\ cases[s] => q[Len(q)] = CaseStudy
    <3>1. Len(p) <= Len(p)
      BY <2>0, LenProperties
    <3> QED  BY <2>0, <3>1, CutPlan
  <2> HIDE DEF q
  <2>5. \/ stage' = [stage EXCEPT ![s] = "enrich"] /\ plan' = [plan EXCEPT ![s] = p]
        \/ stage' = [stage EXCEPT ![s] = "planned"] /\ plan' = [plan EXCEPT ![s] = q]
    BY <1>3 DEF PlanArrives, Goto, q
  <2>7. /\ UNCHANGED <<cases, chosen, agentVars, store, outcome>>
        /\ given' = [given EXCEPT ![s] = p]
    BY <1>3 DEF PlanArrives
  <2>1. TypeOK'
    <3>1. stage' \in [Studies -> Stages]
      BY <2>5 DEF TypeOK, Stages
    <3>2. plan' \in [Studies -> Seq(SubQuestions)]
      BY <2>0, <2>4, <2>5 DEF TypeOK
    <3>3. given' \in [Studies -> Seq(SubQuestions)]
      BY <2>0, <2>7 DEF TypeOK
    <3> QED  BY <3>1, <3>2, <3>3, <2>7 DEF TypeOK, agentVars
  <2>2. OutcomeFollows' /\ NotYet' /\ StartsFirst' /\ Through'
    BY <1>3, <2>5, <2>7 DEF PlanArrives, TypeOK, OutcomeFollows, NotYet, StartsFirst, Through, Ahead, Running, agentVars
  <2>3. WholePlanSearched' /\ FirstSearchAsPlanned'
    BY <2>5, <2>7 DEF TypeOK, WholePlanSearched, Ahead, FirstSearchAsPlanned, agentVars
  <2>6. PlanBounded'
    BY <2>4, <2>5, <2>7 DEF TypeOK, PlanBounded
  <2> QED  BY <2>1, <2>2, <2>3, <2>6
<1>4. ASSUME NEW found \in BOOLEAN, EnrichWithKG(s, found) PROVE IInv'
  <2> USE DEF IInv
  <2> DEFINE q == WithCases(Capped(Enriched(plan[s], found)), cases[s])
  <2>0. plan[s] \in Seq(SubQuestions) /\ cases[s] \in BOOLEAN
    BY DEF TypeOK
  <2>4. /\ q \in Seq(SubQuestions)
        /\ Len(q) <= MaxSubQuestions + IF cases[s] THEN 1 ELSE 0
        /\ \A i \in 1..Len(given[s]) :
              i <= MaxSubQuestions => i <= Len(q) /\ q[i] = given[s][i]
        /\ cases[s] => q[Len(q)] = CaseStudy
    <3>1. given[s] = plan[s]
      BY <1>4 DEF EnrichWithKG, NotYet
    <3>2. /\ Enriched(plan[s], found) \in Seq(SubQuestions)
          /\ Len(plan[s]) <= Len(Enriched(plan[s], found))
          /\ \A i \in 1..Len(plan[s]) : Enriched(plan[s], found)[i] = plan[s][i]
      BY <2>0, EnrichedPlan
    <3>3. /\ q \in Seq(SubQuestions)
          /\ Len(q) <= MaxSubQuestions + IF cases[s] THEN 1 ELSE 0
          /\ \A i \in 1..Len(plan[s]) :
                i <= MaxSubQuestions => i <= Len(q) /\ q[i] = plan[s][i]
          /\ cases[s] => q[Len(q)] = CaseStudy
      BY <2>0, <3>2, CutPlan
    <3> QED  BY <3>1, <3>3
  <2> HIDE DEF q
  <2>5. stage' = [stage EXCEPT ![s] = "planned"] /\ plan' = [plan EXCEPT ![s] = q]
    BY <1>4 DEF EnrichWithKG, Goto, q
  <2>7. UNCHANGED <<cases, chosen, given, agentVars, store, outcome>>
    BY <1>4 DEF EnrichWithKG, localVars
  <2>1. TypeOK'
    BY <2>4, <2>5, <2>7 DEF TypeOK, Stages, agentVars
  <2>2. OutcomeFollows' /\ NotYet' /\ StartsFirst' /\ Through'
    BY <1>4, <2>5, <2>7 DEF EnrichWithKG, TypeOK, OutcomeFollows, NotYet, StartsFirst, Through, Ahead, Running, agentVars
  <2>3. WholePlanSearched' /\ FirstSearchAsPlanned'
    BY <2>5, <2>7 DEF TypeOK, WholePlanSearched, Ahead, FirstSearchAsPlanned, agentVars
  <2>6. PlanBounded'
    BY <2>4, <2>5, <2>7 DEF TypeOK, PlanBounded
  <2> QED  BY <2>1, <2>2, <2>3, <2>6
<1> QED  BY <1>1, <1>2, <1>3, <1>4 DEF Plan

-----------------------------------------------------------------------------
(***************************************************************************)
(* Ends                                                                    *)
(***************************************************************************)

\* A running study ends and nothing of it runs on.
LEMMA EndStep ==
    ASSUME IInv, NEW s \in Studies, NEW how \in {"failed", "left", "reported"},
           Running(s), End(s, how), Drop(s), store' \subseteq Studies
    PROVE  IInv'
<1> USE DEF IInv, End, Goto, Drop
<1>1. <<>> \in Seq(SubQuestions)
  BY EmptySeq
<1>2. TypeOK'
  BY <1>1 DEF TypeOK, Stages, Agent, Queries
<1>3. OutcomeFollows' /\ NotYet' /\ StartsFirst' /\ Through'
  BY DEF TypeOK, OutcomeFollows, NotYet, StartsFirst, Through, Ahead, Running
<1>4. PlanBounded' /\ WholePlanSearched' /\ FirstSearchAsPlanned'
  BY DEF TypeOK, PlanBounded, WholePlanSearched, Ahead, FirstSearchAsPlanned
<1> QED  BY <1>2, <1>3, <1>4

LEMMA RestartStep ==
    ASSUME IInv, Restart
    PROVE  IInv'
<1> USE DEF IInv, Restart
<1>1. <<>> \in Seq(SubQuestions)
  BY EmptySeq
<1>2. TypeOK'
  BY <1>1 DEF TypeOK, Stages, Agent, Queries, Running
<1>3. OutcomeFollows' /\ NotYet' /\ StartsFirst' /\ Through'
  BY DEF TypeOK, OutcomeFollows, NotYet, StartsFirst, Through, Ahead, Running
<1>4. PlanBounded' /\ WholePlanSearched' /\ FirstSearchAsPlanned'
  BY DEF TypeOK, PlanBounded, WholePlanSearched, Ahead, FirstSearchAsPlanned, Running
<1> QED  BY <1>2, <1>3, <1>4

-----------------------------------------------------------------------------
(***************************************************************************)
(* The agents                                                              *)
(***************************************************************************)

\* An agent's exception ends its study or, if that has ended, nothing: the parts
\* of the invariant that do not speak of the agents stay.
LEMMA RaiseStep ==
    ASSUME IInv, NEW s \in Studies, AgentRaises(s), UNCHANGED plan
    PROVE  /\ stage' \in [Studies -> Stages]
           /\ outcome' \in [Studies -> {"new", "running", "reported", "failed", "left"}]
           /\ cases' \in [Studies -> BOOLEAN] /\ chosen' \in [Studies -> BOOLEAN]
           /\ given' \in [Studies -> Seq(SubQuestions)]
           /\ OutcomeFollows' /\ PlanBounded'
           /\ stage'[s] # "search"
           /\ \A t \in Studies :
                 \/ stage'[t] = stage[t] /\ given'[t] = given[t]
                 \/ stage'[t] = "ended"
<1>1. CASE stage[s] = "search"
  <2> USE <1>1 DEF AgentRaises, End, Goto, IInv
  <2>0. <<>> \in Seq(SubQuestions)
    BY EmptySeq
  <2>1. /\ stage' \in [Studies -> Stages]
        /\ outcome' \in [Studies -> {"new", "running", "reported", "failed", "left"}]
        /\ cases' \in [Studies -> BOOLEAN] /\ chosen' \in [Studies -> BOOLEAN]
        /\ given' \in [Studies -> Seq(SubQuestions)]
    BY <2>0 DEF TypeOK, Stages
  <2>5. /\ stage'[s] = "ended" /\ outcome'[s] = "failed"
        /\ \A t \in Studies : t # s =>
              /\ stage'[t] = stage[t] /\ outcome'[t] = outcome[t]
              /\ chosen'[t] = chosen[t] /\ cases'[t] = cases[t]
              /\ plan'[t] = plan[t] /\ given'[t] = given[t]
    BY DEF TypeOK
  <2> QED
    <3> HIDE DEF AgentRaises, End, Goto, IInv
    <3>1. OutcomeFollows'
      BY <2>5 DEF IInv, OutcomeFollows, Running
    <3>2. PlanBounded'
      BY <2>5 DEF IInv, PlanBounded
    <3> QED  BY <2>1, <2>5, <3>1, <3>2
<1>2. CASE stage[s] # "search"
  BY <1>2 DEF AgentRaises, localVars, IInv, TypeOK, OutcomeFollows, Running, PlanBounded
<1> QED  BY <1>1, <1>2

LEMMA SearchStep ==
    ASSUME IInv, NEW s \in Studies, Search(s)
    PROVE  IInv'
<1> USE DEF IInv, Search, Goto, planVars, localVars
<1>1. TypeOK'
  BY DEF TypeOK, Stages, Agent
<1>2. OutcomeFollows' /\ NotYet' /\ StartsFirst' /\ Through'
  BY DEF TypeOK, OutcomeFollows, NotYet, StartsFirst, Through, Ahead, Running
<1>3. PlanBounded' /\ WholePlanSearched' /\ FirstSearchAsPlanned'
  BY DEF TypeOK, PlanBounded, WholePlanSearched, Ahead, FirstSearchAsPlanned
<1> QED  BY <1>1, <1>2, <1>3

LEMMA RegulationsStep ==
    ASSUME IInv, NEW s \in Studies, SearchRegulations(s)
    PROVE  IInv'
<1> USE DEF IInv
<1>0. /\ reg[s] \in {"waiting", "searching"}
      /\ UNCHANGED <<plan, web, suffixed, store>>
  BY DEF SearchRegulations
<1>1. CASE /\ Ahead(s) = {}
           /\ reg' = [reg EXCEPT ![s] = "finished"]
           /\ UNCHANGED <<stage, localVars, at, firstQuery, outcome>>
  <2> USE <1>0, <1>1 DEF localVars
  <2>1. TypeOK'
    BY DEF TypeOK, Agent
  <2>2. OutcomeFollows' /\ NotYet' /\ StartsFirst' /\ Through'
    BY DEF TypeOK, OutcomeFollows, NotYet, StartsFirst, Through, Ahead, Running
  <2>3. PlanBounded' /\ WholePlanSearched' /\ FirstSearchAsPlanned'
    BY DEF PlanBounded, WholePlanSearched, Ahead, FirstSearchAsPlanned
  <2> QED  BY <2>1, <2>2, <2>3
<1>2. ASSUME NEW i \in Ahead(s),
             reg' = [reg EXCEPT ![s] = "searching"],
             at' = [at EXCEPT ![s] = i],
             firstQuery' = [firstQuery EXCEPT ![s] =
                               IF firstQuery[s] = None THEN Query(s) ELSE firstQuery[s]],
             UNCHANGED <<stage, localVars, outcome>>
      PROVE  IInv'
  <2> USE <1>0, <1>2 DEF localVars
  <2>0. i \in Nat
    BY DEF Ahead, TypeOK
  <2>1. TypeOK'
    BY <2>0 DEF TypeOK, Agent, Queries, Query
  <2>2. OutcomeFollows' /\ NotYet'
    BY DEF TypeOK, OutcomeFollows, NotYet, Running
  <2>9. Through'
    BY DEF TypeOK, Through, Ahead
  <2>3. \A t \in Studies : t # s => firstQuery'[t] = firstQuery[t] /\ reg'[t] = reg[t]
    BY DEF TypeOK
  <2>4. firstQuery'[s] = "planned" /\ reg'[s] = "searching"
    BY DEF TypeOK, Queries, Query, StartsFirst, FirstSearchAsPlanned
  <2>5. "planned" # None
    BY NoneIsNoQuery DEF Queries
  <2>6. StartsFirst'
    BY <2>3, <2>4, <2>5 DEF StartsFirst
  <2>7. PlanBounded' /\ WholePlanSearched'
    BY DEF PlanBounded, WholePlanSearched, Through, Ahead, TypeOK
  <2>8. FirstSearchAsPlanned'
    BY <2>3, <2>4 DEF FirstSearchAsPlanned
  <2> QED  BY <2>1, <2>2, <2>6, <2>7, <2>8, <2>9
<1>3. CASE /\ reg' = [reg EXCEPT ![s] = "finished"]
           /\ AgentRaises(s)
           /\ UNCHANGED <<at, firstQuery>>
  <2>0. UNCHANGED plan
    BY <1>0
  <2>1. /\ stage' \in [Studies -> Stages]
        /\ outcome' \in [Studies -> {"new", "running", "reported", "failed", "left"}]
        /\ cases' \in [Studies -> BOOLEAN] /\ chosen' \in [Studies -> BOOLEAN]
        /\ given' \in [Studies -> Seq(SubQuestions)]
        /\ OutcomeFollows' /\ PlanBounded'
        /\ stage'[s] # "search"
        /\ \A t \in Studies :
              \/ stage'[t] = stage[t] /\ given'[t] = given[t]
              \/ stage'[t] = "ended"
    BY <1>3, <2>0, RaiseStep
  <2>2. TypeOK'
    BY <1>0, <1>3, <2>1 DEF TypeOK, Agent
  <2>3. NotYet' /\ StartsFirst' /\ FirstSearchAsPlanned'
    BY <1>0, <1>3, <2>1 DEF TypeOK, NotYet, StartsFirst, FirstSearchAsPlanned
  <2>4. Through' /\ WholePlanSearched'
    BY <1>0, <1>3, <2>1 DEF TypeOK, NotYet, Through, WholePlanSearched, Ahead
  <2> QED  BY <2>1, <2>2, <2>3, <2>4
<1> QED  BY <1>1, <1>2, <1>3 DEF SearchRegulations

LEMMA ExtendStep ==
    ASSUME IInv, NEW s \in Studies, ExtendQueries(s)
    PROVE  IInv'
<1> USE DEF IInv
<1>0. /\ web[s] = "waiting" /\ reg[s] # "waiting"
      /\ UNCHANGED <<plan, reg, at, firstQuery, store>>
  BY DEF ExtendQueries
<1>1. CASE /\ web' = [web EXCEPT ![s] = "searching"]
           /\ suffixed' = [suffixed EXCEPT ![s] = TRUE]
           /\ UNCHANGED <<stage, localVars, outcome>>
  <2> USE <1>0, <1>1 DEF localVars
  <2>1. TypeOK'
    BY DEF TypeOK, Agent
  <2>2. OutcomeFollows' /\ NotYet' /\ StartsFirst' /\ Through'
    BY DEF TypeOK, OutcomeFollows, NotYet, StartsFirst, Through, Ahead, Running
  <2>3. PlanBounded' /\ WholePlanSearched' /\ FirstSearchAsPlanned'
    BY DEF PlanBounded, WholePlanSearched, Ahead, FirstSearchAsPlanned
  <2> QED  BY <2>1, <2>2, <2>3
<1>2. CASE /\ web' = [web EXCEPT ![s] = "finished"]
           /\ AgentRaises(s)
           /\ UNCHANGED suffixed
  <2>0. UNCHANGED plan
    BY <1>0
  <2>1. /\ stage' \in [Studies -> Stages]
        /\ outcome' \in [Studies -> {"new", "running", "reported", "failed", "left"}]
        /\ cases' \in [Studies -> BOOLEAN] /\ chosen' \in [Studies -> BOOLEAN]
        /\ given' \in [Studies -> Seq(SubQuestions)]
        /\ OutcomeFollows' /\ PlanBounded'
        /\ stage'[s] # "search"
        /\ \A t \in Studies :
              \/ stage'[t] = stage[t] /\ given'[t] = given[t]
              \/ stage'[t] = "ended"
    BY <1>2, <2>0, RaiseStep
  <2>2. TypeOK'
    BY <1>0, <1>2, <2>1 DEF TypeOK, Agent
  <2>3. NotYet' /\ StartsFirst' /\ FirstSearchAsPlanned'
    BY <1>0, <1>2, <2>1 DEF TypeOK, NotYet, StartsFirst, FirstSearchAsPlanned
  <2>4. Through' /\ WholePlanSearched'
    BY <1>0, <1>2, <2>1 DEF TypeOK, NotYet, Through, WholePlanSearched, Ahead
  <2> QED  BY <2>1, <2>2, <2>3, <2>4
<1> QED  BY <1>1, <1>2 DEF ExtendQueries

LEMMA WebStep ==
    ASSUME IInv, NEW s \in Studies, SearchWeb(s)
    PROVE  IInv'
<1> USE DEF IInv, SearchWeb, planVars, localVars
<1>1. TypeOK'
  BY DEF TypeOK, Agent
<1>2. OutcomeFollows' /\ NotYet' /\ StartsFirst' /\ Through'
  BY DEF TypeOK, OutcomeFollows, NotYet, StartsFirst, Through, Ahead, Running
<1>3. PlanBounded' /\ WholePlanSearched' /\ FirstSearchAsPlanned'
  BY DEF PlanBounded, WholePlanSearched, Ahead, FirstSearchAsPlanned
<1> QED  BY <1>1, <1>2, <1>3

\* The phases after the search.
LEMMA PhaseStep ==
    ASSUME IInv, NEW s \in Studies,
           Gathered(s) \/ Analyze(s) \/ GenerateReport(s)
    PROVE  IInv'
<1>1. PICK to \in {"analyze", "report", "chunks"} : stage' = [stage EXCEPT ![s] = to]
  BY DEF Gathered, Analyze, GenerateReport, Goto
<1>2. /\ stage[s] \in {"search", "analyze", "report"}
      /\ reg[s] = "finished" /\ web[s] = "finished"
      /\ UNCHANGED <<planVars, agentVars, store, outcome>>
  BY DEF Gathered, Analyze, GenerateReport, IInv, Through
<1>3. Ahead(s) = {} /\ suffixed[s]
  BY <1>2 DEF IInv, Through, WholePlanSearched
<1> USE <1>1, <1>2 DEF IInv, planVars, localVars, agentVars
<1>4. TypeOK'
  BY DEF TypeOK, Stages
<1>5. OutcomeFollows' /\ NotYet' /\ StartsFirst'
  BY DEF TypeOK, OutcomeFollows, NotYet, StartsFirst, Running
<1>6. Through' /\ WholePlanSearched'
  BY <1>3 DEF TypeOK, Through, WholePlanSearched, Ahead
<1>7. PlanBounded' /\ FirstSearchAsPlanned'
  BY DEF TypeOK, PlanBounded, FirstSearchAsPlanned
<1> QED  BY <1>4, <1>5, <1>6, <1>7

-----------------------------------------------------------------------------
THEOREM Inductive == IInv /\ [Next]_vars => IInv'
<1> SUFFICES ASSUME IInv, [Next]_vars PROVE IInv'
  OBVIOUS
<1>1. ASSUME NEW s \in Studies, NEW c \in BOOLEAN, StartResearch(s, c) PROVE IInv'
  BY <1>1, StartStep
<1>2. ASSUME NEW s \in Studies, Proceed(s) PROVE IInv'
  <2>1. CASE Plan(s)
    BY <2>1, PlanStep
  <2>2. CASE PlanningFails(s)
    BY <2>2, EndStep DEF PlanningFails, Running, IInv, TypeOK
  <2>3. CASE Search(s)
    BY <2>3, SearchStep
  <2>4. CASE Gathered(s) \/ Analyze(s) \/ GenerateReport(s)
    BY <2>4, PhaseStep
  <2>5. CASE ReportFails(s)
    BY <2>5, EndStep DEF ReportFails, Running, IInv, TypeOK
  <2>6. CASE StoreAndFinish(s)
    BY <2>6, EndStep DEF StoreAndFinish, Running, IInv, TypeOK
  <2> QED  BY <1>2, <2>1, <2>2, <2>3, <2>4, <2>5, <2>6 DEF Proceed
<1>3. ASSUME NEW s \in Studies, Agents(s) PROVE IInv'
  BY <1>3, RegulationsStep, ExtendStep, WebStep DEF Agents
<1>4. ASSUME NEW s \in Studies, Disconnect(s) PROVE IInv'
  BY <1>4, EndStep DEF Disconnect, IInv, TypeOK
<1>6. CASE Restart
  BY <1>6, RestartStep
<1>7. CASE UNCHANGED vars
  BY <1>7 DEF vars, planVars, localVars, agentVars, IInv, TypeOK, OutcomeFollows,
              Running, NotYet, StartsFirst, Through, PlanBounded, WholePlanSearched, Ahead, FirstSearchAsPlanned
<1> QED  BY <1>1, <1>2, <1>3, <1>4, <1>6, <1>7 DEF Next

THEOREM Invariant == Spec => []IInv
BY Initial, Inductive, PTL DEF Spec

\* The state of Deep Research keeps its types, whatever plans come in.
THEOREM TypeCorrect == Spec => []TypeOK
BY Invariant, PTL DEF IInv

\* No plan the planner makes has more sub-questions than the maximum and the case
\* study, or loses one of the first that were given.
THEOREM PlansStayBounded == Spec => []PlanBounded
BY Invariant, PTL DEF IInv

\* No study is analysed or reported before both agents have come through its plan.
THEOREM ReportsRestOnWholePlans == Spec => []WholePlanSearched
BY Invariant, PTL DEF IInv

\* The first regulation search of a study uses the query of its plan.
THEOREM RegulationsStartAsPlanned == Spec => []FirstSearchAsPlanned
BY Invariant, PTL DEF IInv

-----------------------------------------------------------------------------
(***************************************************************************)
(* Deep Research implements ResearchOutcome.                               *)
(***************************************************************************)

\* A study that ends does so once, in one of the three ways.
LEMMA Ended ==
    ASSUME IInv, NEW s \in Studies, NEW how, Running(s), End(s, how)
    PROVE  /\ outcome[s] = "running"
           /\ outcome' = [outcome EXCEPT ![s] = how]
BY DEF End, IInv, OutcomeFollows

LEMMA Raised ==
    ASSUME IInv, NEW s \in Studies, AgentRaises(s), UNCHANGED store
    PROVE  Outcome!Fail(s) \/ UNCHANGED Outcome!vars
<1>1. CASE stage[s] = "search"
  <2>1. Running(s)
    BY <1>1 DEF Running
  <2> QED  BY <1>1, <2>1, Ended DEF AgentRaises, Outcome!Fail, Outcome!Becomes
<1>2. CASE stage[s] # "search"
  BY <1>2 DEF AgentRaises, Outcome!vars
<1> QED  BY <1>1, <1>2

THEOREM Refinement == Spec => KeepsPromise
<1>1. Init => Outcome!Init
  BY DEF Init, Outcome!Init
<1>2. ASSUME IInv, [Next]_vars PROVE [Outcome!Next]_(Outcome!vars)
  <2>1. ASSUME NEW s \in Studies, NEW c \in BOOLEAN, StartResearch(s, c)
        PROVE  Outcome!Next
    <3>1. Outcome!Open(s)
      BY <1>2, <2>1 DEF StartResearch, IInv, OutcomeFollows, Outcome!Open, Outcome!Becomes
    <3> QED  BY <3>1 DEF Outcome!Next
  <2>2. ASSUME NEW s \in Studies, Proceed(s)
        PROVE  Outcome!Next \/ UNCHANGED Outcome!vars
    <3>1. CASE Plan(s) \/ Search(s) \/ Gathered(s) \/ Analyze(s) \/ GenerateReport(s)
      BY <3>1 DEF Plan, AskPlanner, TakeChosenPlan, PlanArrives, EnrichWithKG, Search,
                  Gathered, Analyze, GenerateReport, Outcome!vars
    <3>2. CASE PlanningFails(s) \/ ReportFails(s)
      <4>1. Running(s) /\ End(s, "failed") /\ UNCHANGED store
        BY <3>2 DEF PlanningFails, ReportFails, Running
      <4>2. Outcome!Fail(s)
        BY <1>2, <4>1, Ended DEF Outcome!Fail, Outcome!Becomes
      <4> QED  BY <4>2 DEF Outcome!Next
    <3>3. CASE StoreAndFinish(s)
      <4>1. Running(s) /\ End(s, "reported") /\ store' = store \cup {s}
        BY <3>3 DEF StoreAndFinish, Running
      <4>2. Outcome!Report(s)
        BY <1>2, <4>1, Ended DEF Outcome!Report, Outcome!Becomes
      <4> QED  BY <4>2 DEF Outcome!Next
    <3> QED  BY <2>2, <3>1, <3>2, <3>3 DEF Proceed
  <2>3. ASSUME NEW s \in Studies, Agents(s)
        PROVE  Outcome!Next \/ UNCHANGED Outcome!vars
    <3>1. UNCHANGED store
      BY <2>3 DEF Agents, SearchRegulations, ExtendQueries, SearchWeb
    <3>2. AgentRaises(s) \/ UNCHANGED outcome
      BY <2>3 DEF Agents, SearchRegulations, ExtendQueries, SearchWeb
    <3>3. CASE AgentRaises(s)
      BY <1>2, <3>1, <3>3, Raised DEF Outcome!Next
    <3> QED  BY <3>1, <3>2, <3>3 DEF Outcome!vars
  <2>4. ASSUME NEW s \in Studies, Disconnect(s) PROVE Outcome!Next
    <3>1. Running(s) /\ End(s, "left") /\ UNCHANGED store
      BY <2>4 DEF Disconnect
    <3>2. Outcome!Leave(s)
      BY <1>2, <3>1, Ended DEF Outcome!Leave, Outcome!Becomes
    <3> QED  BY <3>2 DEF Outcome!Next
  <2>6. CASE Restart
    <3>1. Outcome!Restart
      BY <1>2, <2>6 DEF Restart, IInv, OutcomeFollows, Outcome!Restart
    <3> QED  BY <3>1 DEF Outcome!Next
  <2>7. CASE UNCHANGED vars
    BY <2>7 DEF vars, Outcome!vars
  <2> QED  BY <1>2, <2>1, <2>2, <2>3, <2>4, <2>6, <2>7 DEF Next
<1> QED  BY <1>1, <1>2, Invariant, PTL DEF Spec, KeepsPromise, Outcome!Spec
=============================================================================
