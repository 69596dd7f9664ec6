CONSTANTS
    None = None
    Studies = {s1, s2}
    MaxSubQuestions = 3
    LLMPlans <- MCLLMPlans
    RulePlans <- MCRulePlans
SPECIFICATION Spec
INVARIANTS PlanBounded WholePlanSearched FirstSearchAsPlanned
PROPERTIES KeepsPromise EveryStudyEnds
