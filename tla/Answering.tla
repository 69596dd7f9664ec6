------------------------------ MODULE Answering ------------------------------
(***************************************************************************)
(* From a question to an answer: QAEngine.chat and chat_stream (M5), the   *)
(* three pipelines behind them, and RetrievalClient, which asks M3         *)
(* (module Retrieval) and M4 at once.  Quotas and projects are ChatEngine's*)
(* part; here a question comes with the mode and the tier it was given.    *)
(*                                                                         *)
(* Propositions are left out: retrieve_propositions raises nothing, and    *)
(* what it finds is neither counted against the budget nor cited.          *)
(***************************************************************************)
EXTENDS Retrieval

CONSTANTS
  SimpleTopK, ParallelTopK,
  MaxIterations,  \* max_self_rag_iterations
  Threshold,      \* grade that is good enough: retrieval_score_threshold
  Synonym,        \* <<query, iteration>> -> the query with synonyms appended
  Length,         \* query -> characters
  Tokens,         \* chunk -> tokens of "[Source ...] text"
  SourceOf        \* chunk -> <<file, regulation>>

ASSUME AskingAssumption ==
  /\ SimpleTopK \in Nat \ {0} /\ ParallelTopK \in Nat \ {0}
  /\ \A d \in Deployments : \A a \in d.asks : a.query \in Queries
  /\ \A s \in DOMAIN Synonym : Synonym[s] \in Queries

\* What a retrieval returns, with what went wrong.
Contexts == [chunks : Seq(Chunks), top : Nat, scored : BOOLEAN,
             failed : BOOLEAN, saw : BOOLEAN, warned : BOOLEAN]

ASSUME NilIsNoContext == Nil \notin Contexts

ASSUME PendingIsNoAnswer == Pending \notin {"ok", "failed"}

VARIABLE question

answeringVars == <<m3vars, question>>

(***************************************************************************)
(* allocate_budget: the tier's share, by the length of the query.          *)
(***************************************************************************)

Window == [basic |-> 4000, pro |-> 8000, enterprise |-> 16000]
Share  == [basic |-> 30, pro |-> 40, enterprise |-> 50]         \* per cent

Clamp(n) == IF n < 50 THEN 50 ELSE IF n > 150 THEN 150 ELSE n

RetrievalLimit(tier, q) ==
  IF Length[q] = 0 THEN (Window[tier] * Share[tier]) \div 100
  ELSE (Window[tier] * Share[tier] * Clamp(Length[q] \div 5)) \div 10000

\* fuse_context: chunks in their order, until the first that is too long.
Cost(chunks) == FoldLeft(LAMBDA n, c : n + Tokens[c], 0, chunks)

Shown(chunks, limit) ==
  LET fit == CHOOSE n \in 0 .. Len(chunks) :
               /\ Cost(SubSeq(chunks, 1, n)) <= limit
               /\ n < Len(chunks) => Cost(SubSeq(chunks, 1, n + 1)) > limit
  IN  SubSeq(chunks, 1, fit)

\* build_citations: one for each source among all chunks that were retrieved, in
\* the prompt or not.
BuildCitations(chunks) == {SourceOf[c] : c \in ToSet(chunks)}

\* _expand_query
Expanded(q, iteration) ==
  IF <<q, iteration>> \in DOMAIN Synonym THEN Synonym[<<q, iteration>>] ELSE q

(***************************************************************************)
(* A question on its way.                                                  *)
(***************************************************************************)

\* What was answered, and whether to its end ([DONE], in a stream); cut, failed and
\* saw are history: of the context it rests on.
NoFate == [kind |-> "none", shown |-> << >>, cited |-> {}, whole |-> FALSE, warned |-> FALSE,
           cut |-> FALSE, failed |-> FALSE, saw |-> FALSE]

NoQuestion == [at |-> "idle", ask |-> Nil, now |-> Nil, round |-> 0, graph |-> "ok",
               ctx |-> Nil, fate |-> NoFate,
               found |-> FALSE]    \* history: a retrieval returned a chunk, with a score

AnsweringInit ==
  /\ InitM3
  /\ question = [r \in Calls |-> NoQuestion]

SelfRag(a) == a.mode = "self_rag" /\ ~a.streamed

\* Tasks for M3 and M4; without an engine its part is empty, and simple mode
\* asks M3 alone.
Retrieve(r, a, q) ==
  call' = [call EXCEPT ![r] =
    IF deploy.m3
    THEN Called(<<q, IF a.mode = "simple" THEN SimpleTopK ELSE ParallelTopK>>)
    ELSE [NoCall EXCEPT !.at = "ok"]]

GraphTask(a) == IF a.mode # "simple" /\ deploy.m4 THEN Pending ELSE "ok"

\* chat() or chat_stream() with a mode and a tier.
Ask(r) ==
  /\ question[r].at = "idle"
  /\ \E a \in deploy.asks :
       /\ question' = [question EXCEPT ![r] =
            [NoQuestion EXCEPT !.at = "retrieve", !.ask = a, !.now = a.query,
                               !.graph = GraphTask(a)]]
       /\ Retrieve(r, a, a.query)
  /\ UNCHANGED <<deploy, index, changes, cache, order, raced>>

GraphAnswers(r) ==
  /\ question[r].graph = Pending
  /\ \E g \in {"ok", "failed"} : question' = [question EXCEPT ![r].graph = g]
  /\ UNCHANGED m3vars

\* What parallel_retrieve and simple_retrieve return; failed and saw are history.
Context(r) ==
  [chunks |-> call[r].result.chunks, top |-> call[r].result.top,
   scored |-> call[r].result.scored,
   failed |-> call[r].at = "failed", saw |-> call[r].saw,
   warned |-> call[r].at = "failed" \/ question[r].graph = "failed"]

\* (mutation) only a context that is good enough is kept.
BetterIfGood(ctx, best) == IF ctx.top >= Threshold THEN ctx ELSE best

\* The highest score so far wins; a score of nought never does.
Better(ctx, best) ==
  LET score == IF best = Nil THEN 0 ELSE best.top
  IN  IF ctx.top > score THEN ctx ELSE best

\* The end of one iteration of execute_self_rag: good enough, or another one
\* with synonyms.  After the last the best context is used; None.errors raises
\* when there is none.
EndIteration(r) ==
  LET ctx   == Context(r)
      best  == Better(ctx, question[r].ctx)
      good  == ctx.top >= Threshold
      next  == IF good THEN question[r].now
               ELSE Expanded(question[r].now, question[r].round)
      on    == [question[r] EXCEPT !.ctx = best, !.now = next, !.round = @ + 1,
                                   !.found = @ \/ (ctx.scored /\ ctx.chunks # << >>)]
  IN  IF ~good /\ on.round < MaxIterations
      THEN /\ question' = [question EXCEPT ![r] = [on EXCEPT !.graph = GraphTask(on.ask)]]
           /\ Retrieve(r, on.ask, next)
      ELSE /\ question' = [question EXCEPT ![r] =
                IF best = Nil
                THEN [NoQuestion EXCEPT !.at = "done", !.fate.kind = "no context",
                                        !.found = on.found]
                ELSE [on EXCEPT !.at = "generate"]]
           /\ call' = [call EXCEPT ![r] = NoCall]

\* All tasks of a retrieval are in.
Collect(r) ==
  /\ question[r].at = "retrieve"
  /\ call[r].at \in {"ok", "failed"} /\ question[r].graph # Pending
  /\ IF SelfRag(question[r].ask)
     THEN EndIteration(r)
     ELSE /\ question' = [question EXCEPT ![r].at = "generate", ![r].ctx = Context(r)]
          /\ call' = [call EXCEPT ![r] = NoCall]
  /\ UNCHANGED <<deploy, index, changes, cache, order, raced>>

\* The prompt is built from what fits.
Prompt(r) ==
  Shown(question[r].ctx.chunks, RetrievalLimit(question[r].ask.tier, question[r].now))

\* A stream has no citations to its end: chat_stream calls sse_citations, which
\* engine.py does not import.  With sources the generator raises NameError after
\* the answer's text and its "stop", before the citations and [DONE].
Ends(r, kind, cited) ==
  /\ LET ctx == question[r].ctx
         broken == question[r].ask.streamed /\ BuildCitations(ctx.chunks) # {}
         fate == [kind |-> kind, shown |-> Prompt(r), cited |-> cited, whole |-> ~broken,
                  warned |-> ctx.warned, cut |-> Prompt(r) # ctx.chunks, failed |-> ctx.failed, saw |-> ctx.saw]
     IN  question' = [question EXCEPT ![r] = [NoQuestion EXCEPT !.at = "done", !.fate = fate]]
  /\ UNCHANGED m3vars

\* The LLM answers.  Simple mode cites every source, the others those whose number
\* the answer mentions, and a stream none.
LlmAnswers(r) ==
  /\ question[r].at = "generate"
  /\ LET ask == question[r].ask
         sources == BuildCitations(question[r].ctx.chunks)
     IN  \/ /\ ~ask.streamed /\ ask.mode = "simple"
            /\ Ends(r, "answer", sources)
         \/ /\ ~ask.streamed /\ ask.mode # "simple"
            /\ \E cited \in SUBSET sources : Ends(r, "answer", cited)
         \/ /\ ask.streamed
            /\ Ends(r, "answer", {})

\* The LLM fails: an apology without citations.
LlmFails(r) ==
  /\ question[r].at = "generate"
  /\ Ends(r, "apology", {})

QuestionStep(r) ==
  \/ CallStep(r) /\ UNCHANGED question
  \/ GraphAnswers(r)
  \/ Collect(r)
  \/ LlmAnswers(r)
  \/ LlmFails(r)

AnsweringNext ==
  \/ \E r \in Calls : Ask(r) \/ QuestionStep(r)
  \/ Reindex /\ UNCHANGED question

AnsweringSpec == AnsweringInit /\ [][AnsweringNext]_answeringVars

(***************************************************************************)
(* Properties.                                                             *)
(***************************************************************************)

\* What was found is used: a question ends for want of a context only if no
\* retrieval it waited for found anything that has a score (self_rag.py:98 drops
\* what has none), and the LLM answers without a chunk and without a warning only
\* if the search it relies on was completed and found nothing, or the budget cut
\* the first chunk.
FoundIsUsed ==
  \A r \in Calls : question[r].at = "done" =>
    LET fate == question[r].fate
    IN  /\ fate.kind = "no context" => ~question[r].found
        /\ fate.kind = "answer" /\ fate.shown = << >> /\ ~fate.warned =>
             ~fate.failed /\ (fate.saw => fate.cut)
=============================================================================
