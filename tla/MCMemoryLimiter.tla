-------------------------- MODULE MCMemoryLimiter --------------------------
(* An instance of MemoryLimiter: two finite tiers and an unlimited one.    *)
EXTENDS MemoryLimiter, TLC

CONSTANTS basic, pro, enterprise

MCTiers == {basic, pro, enterprise}
MCLimits == (basic :> 1) @@ (pro :> 2) @@ (enterprise :> Unlimited)

Alike == Permutations(Requests) \cup Permutations(Keys)
=============================================================================
