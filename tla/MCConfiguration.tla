--------------------------- MODULE MCConfiguration ---------------------------
(* An instance of Configuration for TLC. *)
EXTENDS Configuration, TLC

CONSTANTS h1, h2, chosen, key, place

MCHandlers == {h1, h2}
MCSections == {"web_search"}

\* One value each, a blank API key, and a key alone, with others and with all.
MCBodies ==
    {[plain |-> Default, secret |-> None,  unapplied |-> None],
     [plain |-> chosen,  secret |-> Blank, unapplied |-> None],
     [plain |-> None,    secret |-> key,   unapplied |-> None],
     [plain |-> None,    secret |-> Blank, unapplied |-> place],
     [plain |-> chosen,  secret |-> key,   unapplied |-> place]}

Symmetry   == Permutations(MCHandlers)
=============================================================================
