----------------------------- MODULE MCAnswering -----------------------------
(***************************************************************************)
(* Answering on a small instance: a question of a chapter, the same with a *)
(* synonym, and a keyword query; a rule of two overlapping chunks and a    *)
(* chunk of its part, one of them long; a cache of one entry.              *)
(***************************************************************************)
EXTENDS Answering, TLC

CONSTANTS plain, synonym, terms, code, guess, a1, a2, part

Texts == {plain, synonym, terms, code, guess}

Query(id, n, proper, society, chapter, keyed) ==
  [identifier |-> id, words |-> n, proper |-> proper, society |-> society,
   chapter |-> chapter, year |-> Nil, keyed |-> keyed, prose |-> TRUE]

MCAsked ==
  plain   :> Query(FALSE, 9, TRUE, Nil, <<"Pt4", "Ch3">>, TRUE) @@
  synonym :> Query(FALSE, 10, TRUE, Nil, <<"Pt4", "Ch3">>, TRUE) @@
  terms   :> Query(FALSE, 3, TRUE, "DNV", << >>, FALSE) @@
  code    :> Query(TRUE, 1, TRUE, "DNV", << >>, TRUE)

Meta(ch) == [society |-> "DNV", chapter |-> ch, year |-> "2023"]
MCMeta == a1 :> Meta(<<"Pt4", "Ch3">>) @@ a2 :> Meta(<<"Pt4", "Ch3">>) @@ part :> Meta(<<"Pt4">>)

MCHypothesis == [q \in DOMAIN MCAsked |-> guess]
MCByMeaning  == [t \in Texts |-> IF t = guess THEN <<part, a1, a2>> ELSE <<a1, part, a2>>]
MCByWords    == [t \in Texts |-> <<a2, a1, part>>]
MCRelevance  ==
  [t \in Texts |-> IF t \in {synonym, guess} THEN a1 :> 3 @@ a2 :> 2 @@ part :> 1
                   ELSE a1 :> 1 @@ a2 :> 2 @@ part :> 1]
MCTwins   == {{a1, a2}}
MCCorpora == {{a1}, {a1, a2, part}}

\* A question: its text, mode and tier, and whether the answer is streamed.
A(q, mode, tier, streamed) == [query |-> q, mode |-> mode, tier |-> tier, streamed |-> streamed]

MCDeployments ==
  {[m3 |-> TRUE, m4 |-> FALSE, cache |-> TRUE, hyde |-> FALSE, scored |-> TRUE,
    asks |-> {A(terms, "simple", "basic", FALSE), A(plain, "self_rag", "basic", FALSE),
              A(plain, "self_rag", "pro", TRUE)}],
   [m3 |-> TRUE, m4 |-> TRUE, cache |-> FALSE, hyde |-> TRUE, scored |-> FALSE,
    asks |-> {A(plain, "pipeline", "pro", FALSE)}],
   [m3 |-> TRUE, m4 |-> FALSE, cache |-> TRUE, hyde |-> FALSE, scored |-> TRUE,
    asks |-> {A(code, "pipeline", "pro", FALSE), A(code, "self_rag", "pro", FALSE),
              A(terms, "pipeline", "basic", FALSE)}],
   [m3 |-> TRUE, m4 |-> FALSE, cache |-> TRUE, hyde |-> FALSE, scored |-> FALSE,
    asks |-> {A(code, "self_rag", "pro", FALSE), A(code, "simple", "basic", FALSE)}],
   [m3 |-> FALSE, m4 |-> TRUE, cache |-> TRUE, hyde |-> FALSE, scored |-> FALSE,
    asks |-> {A(plain, "self_rag", "enterprise", FALSE), A(code, "simple", "basic", FALSE)}]}

MCSynonym  == <<plain, 0>> :> synonym
MCLength   == [q \in DOMAIN MCAsked |-> IF q = synonym THEN 300 ELSE 200]
MCTokens   == a1 :> 700 @@ a2 :> 300 @@ part :> 300
MCSourceOf == a1 :> "rules" @@ a2 :> "rules" @@ part :> "guide"
Symmetry   == Permutations(Calls)
=============================================================================
