--------------------------- MODULE MCKnowledgeGraph ---------------------------
(***************************************************************************)
(* KnowledgeGraph on a small instance: a rulebook, about which the LLM is  *)
(* asked in two batches that share a clause, and a manual of two editions  *)
(* that has the clause too. In the first edition the rulebook's second     *)
(* clause is only a part of the first's name; in the second the clause is  *)
(* an exception, and so is the type of ship where it is named first.       *)
(***************************************************************************)
EXTENDS KnowledgeGraph, TLC

CONSTANTS rules, manual, c1, c2, mm, tanker, DNV, ABS

At(k, f, t) == [key |-> k, from |-> f, to |-> t]

MCKind   == c1 :> "clause" @@ c2 :> "clause" @@ mm :> "parameter" @@ tanker :> "ship"
MCBefore == {<<c1, c2>>}
MCEditions ==
  rules  :> {[says |-> {At(c1, 1, 5), At(c2, 6, 8)}, excepts |-> {},
              batches |-> 1 :> {c1, c2} @@ 2 :> {c1}]} @@
  manual :> {[says |-> {At(c1, 1, 5), At(c2, 3, 5), At(mm, 6, 7), At(tanker, 8, 9)}, excepts |-> {},
              batches |-> 1 :> {c1, tanker}],
             [says |-> {At(c1, 2, 5), At(tanker, 6, 7), At(mm, 8, 9), At(tanker, 10, 11)},
              excepts |-> {[from |-> 1, to |-> 7]}, batches |-> 1 :> {mm}]}
MCTopics == {{mm}, {c2, tanker}}
MCTiers  == {[depth |-> 1, cap |-> 2, cross |-> FALSE], [depth |-> 2, cap |-> 3, cross |-> TRUE]}
MCSociety == rules :> DNV @@ manual :> ABS
Symmetry == Permutations(Tasks)
=============================================================================
