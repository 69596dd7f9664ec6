------------------------------ MODULE Retrieval ------------------------------
(***************************************************************************)
(* M3's retrieval pipeline (core/pipeline.py) as M5 calls it: a result     *)
(* cache in front of a query analysis, a chain of ever broader chapter     *)
(* filters, the dense and the sparse search of each level run side by      *)
(* side, reciprocal rank fusion, a cross-encoder in a thread, and the      *)
(* removal of near duplicates.  One RetrievalPipeline serves every request *)
(* of the process: cache and order are its attributes, and calls           *)
(* interleave at each of its awaits.                                       *)
(*                                                                         *)
(* The embedder and dense_retriever.py are not in the repository: the      *)
(* dense search is modelled from how pipeline.py uses it.  A text is a     *)
(* value; what a backend thinks of it is a constant order.                 *)
(***************************************************************************)
EXTENDS Integers, SequencesExt

CONSTANTS
  Calls,          \* who calls retrieve(): one call each at a time
  Queries,
  Asked,          \* query -> what analyze_query finds in its text
  Hypothesis,     \* query -> the text HyDE's LLM answers with
  ByMeaning,      \* text -> chunks, nearest embedding first
  Relevance,      \* text -> chunk -> grade by the cross-encoder
  FusedGrade, SparseGrade,   \* grade of a fused score; of the full-text index's
  ByWords,        \* query -> chunks, best BM25 score first
  Chunks,
  MetaOf,         \* chunk -> its society, chapter and year
  Twins,          \* pairs of chunks whose words overlap above dedup_threshold
  Corpora,        \* what may be stored when the process starts
  DenseTopK, SparseTopK, FusionK, RerankInputK, RerankTopK,   \* RetrievalConfig
  MinResults, MaxLevels, CacheMax,
  DefaultYear,    \* str(current year - default_year_range)
  Deployments,    \* [m3, m4, cache, hyde, scored: BOOLEAN, asks: questions that are asked]
  MaxChanges,     \* bound: chunks stored or deleted during the run
  Pending, Nil   \* a search under way; a field analyze_query did not find

ASSUME NilIsNoError == Nil \notin {"KeyError", "backend"}

\* What a text is ranked and graded by is chunks. No score is nought: the
\* cross-encoder's go through a sigmoid, fusion adds reciprocals, and a full-text
\* index that scores gives none to what it does not find.
ASSUME RankingAssumption ==
  /\ IsFiniteSet(Chunks)
  /\ \A q \in Queries :
       /\ ByWords[q] \in Seq(Chunks)
       /\ \A t \in {q, Hypothesis[q]} :
            /\ ByMeaning[t] \in Seq(Chunks)
            /\ \A c \in Chunks : Relevance[t][c] \in Nat \ {0}
  /\ FusedGrade \in Nat \ {0} /\ SparseGrade \in Nat \ {0}
  /\ {DenseTopK, SparseTopK, FusionK, RerankInputK, RerankTopK} \subseteq Nat

VARIABLES
  deploy,   \* what this process was configured with
  index,    \* chunks that M2 holds now
  changes,
  cache,    \* RetrievalPipeline._cache: key -> chunks
  order,    \* RetrievalPipeline._cache_order
  call,     \* each caller's retrieve()
  raced     \* history: a key was being computed by two calls at once

m3vars == <<deploy, index, changes, cache, order, call, raced>>

Keys == Queries \X Nat          \* _cache_key: the query and top_k

\* The members of S, each behind those that are ahead of it.
SortedBy(S, ahead(_, _)) ==
  [i \in 1 .. Cardinality(S) |->
     CHOOSE c \in S : Cardinality({d \in S : ahead(d, c)}) = i - 1]

Upto(s, k) == SubSeq(s, 1, IF k < Len(s) THEN k ELSE Len(s))

(***************************************************************************)
(* The analysis of a query.                                                *)
(***************************************************************************)

PathOf(q) ==
  IF Asked[q].identifier THEN "exact"
  ELSE IF Asked[q].words <= 5 /\ Asked[q].proper THEN "keyword"
  ELSE "full"

\* build_fallback_chain: the reference, one part less (strip_section) as long as
\* one is left, and no filter at all.
FallbackChain(ch) == [i \in 1 .. Len(ch) + 1 |-> SubSeq(ch, 1, Len(ch) + 1 - i)]

\* The levels that are tried.  A query that names no chapter has one.
Levels(q) == Upto(FallbackChain(Asked[q].chapter), MaxLevels)

\* _build_filters: what is not asked for is no filter, but for the year.
BuildFilters(q, level) ==
  [society |-> Asked[q].society,
   chapter |-> level,
   year    |-> IF Asked[q].year = Nil THEN DefaultYear ELSE Asked[q].year]

\* Every backend compares for equality: a chapter's filter does not let its
\* sections through.
Passes(c, f) ==
  /\ f.society \in {Nil, MetaOf[c].society}
  /\ f.chapter \in {<< >>, MetaOf[c].chapter}
  /\ f.year = MetaOf[c].year

Place(list, c) == CHOOSE i \in DOMAIN list : list[i] = c

\* A search: what is stored and passes, in the order of its rank.
Found(rank, f, k) ==
  LET hits == {c \in ToSet(rank) : c \in index /\ Passes(c, f)}
      ahead(c, d) == Place(rank, c) < Place(rank, d)
  IN  Upto(SortedBy(hits, ahead), k)

(***************************************************************************)
(* Fusion, reranking, and the removal of near duplicates.                  *)
(***************************************************************************)

FirstSeen(list, c) ==
  CHOOSE i \in DOMAIN list : list[i] = c /\ \A j \in 1 .. i - 1 : list[j] # c

\* 1 / (k + rank), in millionths.
Contribution(list, c) ==
  IF c \in ToSet(list) THEN 1000000 \div (FusionK + Place(list, c)) ELSE 0

\* rrf_fusion of the two lists: highest sum first, ties as first seen.
RrfFusion(dense, sparse) ==
  LET seen == dense \o sparse
      score(c) == Contribution(dense, c) + Contribution(sparse, c)
      ahead(c, d) == \/ score(c) > score(d)
                     \/ score(c) = score(d) /\ FirstSeen(seen, c) < FirstSeen(seen, d)
  IN  Upto(SortedBy(ToSet(seen), ahead), RerankInputK)

\* rerank_sync: by grade, ties in the order of the fusion.
Reranked(text, fused) ==
  LET ahead(c, d) ==
        \/ Relevance[text][c] > Relevance[text][d]
        \/ Relevance[text][c] = Relevance[text][d] /\ Place(fused, c) < Place(fused, d)
  IN  Upto(SortedBy(ToSet(fused), ahead), RerankTopK)

NearDuplicate(c, d) == {c, d} \in Twins

\* deduplicate_chunks: each chunk against the last one kept.
Deduplicated(chunks) ==
  LET kept[n \in 0 .. Len(chunks)] ==
        IF n = 0 THEN << >>
        ELSE IF kept[n - 1] # << >> /\ NearDuplicate(Last(kept[n - 1]), chunks[n])
             THEN kept[n - 1]
             ELSE Append(kept[n - 1], chunks[n])
  IN  kept[Len(chunks)]

(***************************************************************************)
(* One call of retrieve().                                                 *)
(***************************************************************************)

\* A result; top is its best score; scored is history: what ranked it gives scores.
Nothing == [chunks |-> << >>, top |-> 0, scored |-> FALSE]

NoCall == [at |-> "idle", key |-> Nil, hyde |-> FALSE, level |-> 0,
           dense |-> << >>, sparse |-> << >>, fused |-> << >>,
           best |-> << >>, result |-> Nothing, error |-> Nil,
           saw |-> FALSE]     \* history: a level found a chunk

Working == {"hyde", "search", "rerank"}

QueryOf(r) == call[r].key[1]
TopK(r) == call[r].key[2]

\* The text that is embedded and reranked against: the hypothesis, once there is
\* one.
SemanticQuery(c) == IF c.hyde THEN Hypothesis[c.key[1]] ELSE c.key[1]

FiltersOf(r) == BuildFilters(QueryOf(r), Levels(QueryOf(r))[call[r].level])

\* _execute_path up to its await: which searches this level starts.  Without
\* words to embed, or without keywords, a search is not started and adds
\* nothing; an identifier is looked up by its keywords alone.
SearchAt(c, level) ==
  LET q == c.key[1]
  IN  [c EXCEPT !.at = "search", !.level = level, !.fused = << >>,
         !.dense = IF PathOf(q) # "exact" /\ (Asked[q].prose \/ c.hyde) THEN Pending ELSE << >>,
         !.sparse = IF Asked[q].keyed THEN Pending ELSE << >>]

InitM3 ==
  /\ deploy \in Deployments
  /\ index \in Corpora
  /\ changes = 0
  /\ cache = << >>
  /\ order = << >>
  /\ call = [r \in Calls |-> NoCall]
  /\ raced = FALSE

\* RetrievalEngine.retrieve is called for key.
Called(key) == [NoCall EXCEPT !.at = "called", !.key = key]

\* The cache is asked first.
Hit(r) ==
  /\ call[r].at = "called"
  /\ deploy.cache /\ call[r].key \in DOMAIN cache
  /\ call' = [call EXCEPT ![r] = [NoCall EXCEPT !.at = "ok",
                 !.result = cache[call[r].key], !.saw = cache[call[r].key].chunks # << >>]]
  /\ UNCHANGED <<deploy, index, changes, cache, order, raced>>

\* A miss: the query is analysed, and the first level is searched unless a
\* hypothesis is asked for first.
Miss(r) ==
  /\ call[r].at = "called"
  /\ ~(deploy.cache /\ call[r].key \in DOMAIN cache)
  /\ call' = [call EXCEPT ![r] =
       IF deploy.hyde THEN [@ EXCEPT !.at = "hyde"] ELSE SearchAt(@, 1)]
  /\ raced' = (raced \/ \E s \in Calls \ {r} :
                          call[s].at \in Working /\ call[s].key = call[r].key)
  /\ UNCHANGED <<deploy, index, changes, cache, order>>

\* _generate_hyde_hypothesis: the hypothesis is embedded in the query's place;
\* any failure of the LLM leaves the query.
HydeAnswers(r) ==
  /\ call[r].at = "hyde"
  /\ \E said \in BOOLEAN :
       call' = [call EXCEPT ![r] = SearchAt([@ EXCEPT !.hyde = said], 1)]
  /\ UNCHANGED <<deploy, index, changes, cache, order, raced>>

DenseAnswers(r) ==
  /\ call[r].at = "search" /\ call[r].dense = Pending
  /\ call' = [call EXCEPT ![r].dense = Found(ByMeaning[SemanticQuery(call[r])],
                                             FiltersOf(r), DenseTopK)]
  /\ UNCHANGED <<deploy, index, changes, cache, order, raced>>

SparseAnswers(r) ==
  /\ call[r].at = "search" /\ call[r].sparse = Pending
  /\ call' = [call EXCEPT ![r].sparse = Found(ByWords[QueryOf(r)], FiltersOf(r), SparseTopK)]
  /\ UNCHANGED <<deploy, index, changes, cache, order, raced>>

\* Nothing in the pipeline catches what a search or the model raises.
Raises(r) ==
  /\ \/ call[r].at = "search" /\ Pending \in {call[r].dense, call[r].sparse}
     \/ call[r].at = "rerank"
  /\ call' = [call EXCEPT ![r] = [NoCall EXCEPT !.at = "failed", !.error = "backend"]]
  /\ UNCHANGED <<deploy, index, changes, cache, order, raced>>

(***************************************************************************)
(* The end of retrieve(): near duplicates out, top_k of the rest, and the  *)
(* cache written.  The key is appended whether it is in order or not; when *)
(* a key is in order twice, the second time it is evicted del raises       *)
(* KeyError, and the request fails after all its work.                     *)
(***************************************************************************)

\* (mutation) the entry is dropped, its place in the order is kept.
StoreKeepingPlace(key, result) ==
  LET grown == Append(order, key)
      full  == Len(grown) > CacheMax
      held  == [k \in DOMAIN cache \cup {key} |-> IF k = key THEN result ELSE cache[k]]
  IN  [order |-> IF full THEN Tail(grown) ELSE grown,
       lost  |-> full /\ Head(grown) \notin DOMAIN held,
       cache |-> IF full THEN [k \in DOMAIN held \ {Last(grown)} |-> held[k]] ELSE held]

Store(key, result) ==
  LET grown == Append(order, key)
      full  == Len(grown) > CacheMax
      held  == [k \in DOMAIN cache \cup {key} |-> IF k = key THEN result ELSE cache[k]]
  IN  [order |-> IF full THEN Tail(grown) ELSE grown,
       lost  |-> full /\ Head(grown) \notin DOMAIN held,
       cache |-> IF full THEN [k \in DOMAIN held \ {Head(grown)} |-> held[k]] ELSE held]

\* An identifier is ranked by the full-text index alone. Elasticsearch scores its
\* hits; Meilisearch is not asked to, and a hit without a score counts 0.0.
Scores(r) == deploy.scored \/ PathOf(QueryOf(r)) # "exact"

\* The score a chunk is returned with: the last stage's.
Grade(r, c) ==
  CASE PathOf(QueryOf(r)) = "full"    -> Relevance[SemanticQuery(call[r])][c]
    [] PathOf(QueryOf(r)) = "keyword" -> FusedGrade
    [] OTHER                          -> IF deploy.scored THEN SparseGrade ELSE 0

Assemble(r, chunks) ==
  \E kept \in {Upto(Deduplicated(chunks), TopK(r))} :
  LET result == [chunks |-> kept, top |-> IF kept = << >> THEN 0 ELSE Grade(r, Head(kept)),
                 scored |-> Scores(r)]
      stored == Store(call[r].key, result)
      done   == [NoCall EXCEPT !.at = "ok", !.result = result,
                               !.saw = call[r].saw \/ chunks # << >>]
  IN  IF deploy.cache
      THEN /\ cache' = stored.cache
           /\ order' = stored.order
           /\ call' = [call EXCEPT ![r] =
                IF stored.lost
                THEN [done EXCEPT !.at = "failed", !.error = "KeyError", !.result = Nothing]
                ELSE done]
      ELSE /\ call' = [call EXCEPT ![r] = done]
           /\ UNCHANGED <<cache, order>>

\* best_chunks: the last level that found anything, the broader level's chunks
\* in place of the narrower one's.
KeepBest(best, found) == IF found = << >> THEN best ELSE found

\* A level is done: enough, or no level left, or the next one.
LevelDone(r, found) ==
  LET best == KeepBest(call[r].best, found)
      enough == found # << >> /\ Len(best) >= MinResults
  IN  IF enough \/ call[r].level = Len(Levels(QueryOf(r)))
      THEN Assemble(r, best)
      ELSE /\ call' = [call EXCEPT ![r] =
                        SearchAt([@ EXCEPT !.best = best,
                                           !.saw = call[r].saw \/ found # << >>],
                                 @.level + 1)]
           /\ UNCHANGED <<cache, order>>

\* Both searches are in: the exact path takes what was found, the others fuse,
\* and the full path hands a list that is not empty to the reranker.
Fuse(r) ==
  /\ call[r].at = "search" /\ Pending \notin {call[r].dense, call[r].sparse}
  /\ \E fused \in {IF PathOf(QueryOf(r)) = "exact" THEN call[r].sparse
                    ELSE RrfFusion(call[r].dense, call[r].sparse)} :
       IF PathOf(QueryOf(r)) = "full" /\ fused # << >>
       THEN /\ call' = [call EXCEPT ![r].at = "rerank", ![r].fused = fused]
            /\ UNCHANGED <<cache, order>>
       ELSE LevelDone(r, fused)
  /\ UNCHANGED <<deploy, index, changes, raced>>

Rerank(r) ==
  /\ call[r].at = "rerank"
  /\ \E ranked \in {Reranked(SemanticQuery(call[r]), call[r].fused)} : LevelDone(r, ranked)
  /\ UNCHANGED <<deploy, index, changes, raced>>

\* M1 and M2 store or delete a chunk meanwhile.  The cache is not told.
Reindex ==
  /\ changes < MaxChanges
  /\ changes' = changes + 1
  /\ \E c \in Chunks : index' = IF c \in index THEN index \ {c} ELSE index \cup {c}
  /\ UNCHANGED <<deploy, cache, order, call, raced>>

CallStep(r) ==
  Hit(r) \/ Miss(r) \/ HydeAnswers(r) \/ DenseAnswers(r) \/ SparseAnswers(r)
    \/ Raises(r) \/ Fuse(r) \/ Rerank(r)

(***************************************************************************)
(* Properties of the cache.                                                *)
(***************************************************************************)

\* Two requests that compute the same key at once may cost a third one its
\* answer, long after both are gone (pipeline.py:409-413); as long as that has
\* not happened no request fails in the cache, which then holds exactly the
\* keys of its order, each once.
LostOnlyIfRaced ==
  \/ raced
  \/ /\ \A r \in Calls : call[r].error # "KeyError"
     /\ DOMAIN cache = ToSet(order)
     /\ \A i, j \in DOMAIN order : order[i] = order[j] => i = j
=============================================================================
