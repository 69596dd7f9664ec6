--------------------------- MODULE MCDeepResearch ---------------------------
(* An instance of DeepResearch with a maximum of three sub-questions: plans  *)
(* the knowledge graph's sub-question fits into exactly, plans that are full *)
(* and plans that are cut, and one without search queries.                   *)
EXTENDS DeepResearch

Both == [strategy |-> {"regulations", "web"}, query |-> TRUE]
Regulations == [strategy |-> {"regulations"}, query |-> TRUE]
Web == [strategy |-> {"web"}, query |-> TRUE]
Broken == [strategy |-> {"web"}, query |-> FALSE]
BrokenToo == [strategy |-> {"regulations"}, query |-> FALSE]

MCLLMPlans ==
    {<<Both, Regulations>>, <<Web, Both, Regulations, Both>>, <<Both, Broken, BrokenToo>>}
MCRulePlans == {<<Both>>}
=============================================================================
