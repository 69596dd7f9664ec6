# The Marine & Offshore Expert System in TLA+

A verification project for MOES-RAG: a retrieval-augmented assistant for
classification-society rules. This directory holds TLA+ modules translated from
the Python sources, TLC configurations that check them on small instances,
TLAPS proofs of the theorems that matter most for every instance, and
`PROJECT.json`, which maps each definition to the source lines it stands for.

Paths below are relative to the repository. "The gateway" is M8, "the engine"
is M5's `QAEngine`.

## 1. Inventory

### The system's parts

| Part | State it keeps | Operations | Hard behaviour |
|---|---|---|---|
| M8 gateway, chat route (`m8-api-gateway/m8_gateway/routes/chat.py`) | the project id it writes on the engine | `POST /v1/chat/completions` | one engine object for all requests |
| M5 engine, chat path (`m5-qa-engine/m5_qa/core/engine.py`, `conversation/manager.py`) | `user_quota`, `conversations`, `messages`, `project_conversations` in `m5_qa.db` | `chat`, `consume_premium`, auto-link | check and charge in separate statements; one write lock; midnight; restarts |
| M8 rate limiting (`rate_limit/`) | lists of timestamps per key, or a Redis sorted set per key | `check`, `get_usage`, replacement by an admin | lazy pruning, window edges, instances whose Redis commands interleave, lost answers, TTLs |
| M5 project workspace (`project/manager.py`, `routes/projects.py`, `auth/project_permissions.py`) | tables `projects`, `project_*` | create, members, PATCH, archive, case study, delete, inserts | read-merge-write over two connections; checks before acts; no enforced foreign keys |
| M5 deep research (`research/`, `routes/research.py`) | one planner object, `_research_store`, each study's plan | plan, two agents, analysis, report, follow-ups | shared planner, agents that share and modify the plan, a stream that can be left at any time |
| M8 accounts (`routes/auth.py`, `auth/key_manager.py`, `core/bootstrap.py`) | `users`, `api_keys`, `password_reset_tokens`, OAuth tables, counters in memory | register, login, forgot and reset password, OAuth, keys, first start | fire-and-forget hash upgrade, two-transaction operations, counters lost on restart |
| M8 configuration (`routes/admin.py`, `routes/keys.py`, `core/app.py`, `core/config.py`) | table `system_config`, `app.state`: config, limiter, engine | get and set sections, hot reload, limiter swap, engine initialisation | the last write is not always the last one applied; keys that are stored and never applied; settings that change before the limiter they need is known to work; nothing of it read at a start |
| M8 conversations and extras (`routes/conversations.py`, `routes/extras.py`) | M5's conversations, the gateway's folders, shares, pins | list, delete, share, pin, delete an account | two databases, one operation |
| M5 pipelines and context (`pipelines/`, `context/`, `conversation/compressor.py`) | none across requests | self-RAG loop, fusion, token budget, citations | sources that fail one by one, the best context of several tries, budgets at their edge |
| M4 knowledge graph (`m4-knowledge-graph/m4_kg/`) | Kuzu graph with a reference count per node | extract by rules and by an LLM, merge, insert, delete a document, traverse, cross references | merging of duplicate entities, counts that outlive documents, statements that commit one by one |
| M3 retrieval (`m3-retrieval/m3_retrieval/`) | a result cache and its order, for all requests | dense and sparse search, fusion, rerank, context expansion | two requests that compute one key, degradation when a backend fails |
| M2 storage (`m2-storage/m2_storage/`) | vectors, documents, files, relational rows | start-up, put, search, delete, health | writes over several stores, writes a server works off later, two files that must agree, writes that fail or are cut |
| M1 parsing (`m1-doc-parsing/m1_parser/`) and M8 upload (`routes/documents.py`) | temporary files of both servers, a directory per document, a saved configuration | `POST /documents/upload`, `POST /parse`, `convert` on the command line | two servers that time out and restart apart, processes that share an output directory, a conversion that blocks its event loop |
| Contracts, M6 and M7 portals, mock server, deployment | none of their own | | data classes, browser code, configuration |

### How they interact

M6 and M7 call M8's routes. A route's dependencies run first: `get_api_key` reads
the key's row, `check_rate_limit` asks the limiter. Both limiters take the key's
first ten characters and the tier of the key. Routes reach M5 through `app.state.qa_engine`,
one object for the whole process, and through managers that open a SQLite connection
per call. M5 calls M3 and M4 through the contracts' protocols and an LLM over HTTP.
M3 and M4 read what M1 parsed and M2 stored.

Everything in the gateway is one asyncio event loop: code between two awaits runs
undisturbed, and anything can happen at an await. That is the grain of every module
here: an action runs from one await to the next. SQLite
lets one connection write at a time; a commit makes all of a transaction visible at
once. A restart of the process drops every request in flight and all state in memory.

### What makes each part correct

* Chat: a user's daily premium queries are capped; no upgrade is free; a conversation
  is linked to the project its request named; every request is answered.
* Limiters: no window holds more than the limit; nothing that counts is forgotten;
  nothing is turned away for a grant that no longer counts.
* Projects: an update changes what its caller named; a member has the role that the last
  request of someone entitled gave; deletion leaves nothing behind; a link between conclusions
  stays until its conclusion goes.
* Deep research: a study's plan is bounded and a report rests on all of it; a study ends
  exactly once, and its evidence is kept exactly if it was reported.
* Ingestion: temporary files are removed on every path; a document's directory is its
  own; success means there is one; every upload is answered; what was parsed is
  reported as parsed.
* Accounts: a lockout is exceeded by what was under way at most; a password that was set
  after a proof stands; a token serves once; nothing belongs to an account that is gone.
* Configuration: of what the reload applies, what is stored last is what runs in the end; the
  limiter in force is the one that was configured.
* Storage: what a caller was told is stored is found; a text has its vectors; what was
  deleted does not come back; a key holds what was put there last.
* Knowledge graph: a node stays while a document claims it; no edge without its ends; no
  node nobody claims; a search finds exactly what is in reach.
* Retrieval and answering: a failing backend costs its own results only; what was found
  reaches the prompt; a cache costs no answer.

The hazards behind these properties are listed line by line under "hazards" in
`PROJECT.json`; those without a property say why.

## 2. Modules

| Module | Models | State and actions, and the code they come from |
|---|---|---|
| `ChatEngine` | `chat_completions`, `QAEngine.chat`, `consume_premium`, the auto-link | A handler's `stage` is the await it stands at. `ReceiveChat` is the route up to the first await; `SelectQuota`, `InsertRow`, `UpdateQuota`, `CommitQuota` and `UpgradeMode` are the statements of `consume_premium`; `Answer`, `LookupProject` and `LinkConversation` the rest of `chat`. `LockTimeout`, `AutoLinkFails`, `Midnight`, `DeleteProject` and `Restart` are the surroundings. |
| `SlidingWindow` | what `BaseRateLimiter.check` promises | Abstract: all grants are remembered; a request is turned away exactly when the window that ends now is full. |
| `MemoryLimiter` | `InMemoryRateLimiter` | `windows` is `_windows`, pruned by `CheckGranted`, `CheckRejected` and `GetUsage` only. `NewLimiter` is the admin's swap. Implements `SlidingWindow`. |
| `RedisLimiter` | `RedisRateLimiter` of several gateway instances | One action per Redis command; `CommandFails` and `AddWithoutAnswer` are its failures; `TimePasses` runs the TTL. |
| `ProjectStore` | `ProjectManager`, the project routes, `check_project_access` | A request is read, merge, write over separate connections: `CheckAccess`, `ReadProject`, `ReadExisting`, `WriteRow`, and the single-statement methods. |
| `ResearchOutcome` | what Deep Research promises | Abstract: how a study ends, whose evidence is kept. |
| `DeepResearch` | `execute_research`, planner, agents, report, store | `stage` follows the phases of the stream; `reg` and `web` are the two tasks of `gather`. Implements `ResearchOutcome`. |
| `Ingestion` | `upload_document`, `parse`, `convert`, `_handle_convert` | `gateway` is where an upload's handler is, `stage` where a document's conversion is: `Receive`, `SaveFails`, `RejectPages` and `StoreChunks` are of `parse`, `Choose`, `RouteElsewhere`, `Parse` and `Write` of `convert`, for the web server's documents (one at a time, since `convert` blocks the loop) and for commands. `held` is the temporary files of M1, `sent` those of M8, `dirs` the shared output directory. `GatewayRestart`, `ParserDown`, `ParserStart` and `Interrupt` are the crashes. |
| `ProjectRecords` | conclusions, their links and citations, the compliance matrix (`project/manager.py`, `routes/projects.py`) | Extends `ProjectStore`: its requests take the same handlers. `ReadLinks` and `WriteLinks` read a list and write it over two connections; between them `WalkOn` is one call of `_detect_circular`, with a connection of its own, `WalkFails` the exception it takes for "no circle", `RefuseLink` the one it finds. A citation commits and then fails at the first item it finds. |
| `Accounts` | `routes/auth.py`, `key_manager.py`, `bootstrap.py`, `delete_account` | A request's `stage` names the read or the transaction it stands before. `fails`, `throttled`, `tries` and `upgrades` are what the process keeps in memory; `users`, `keys`, `tokens`, `states`, `links` are tables. A login is `LoginCheck`, `LoginRead` (the row, in aiosqlite's thread) and `LoginVerify` (after its await); `Upgrade` is the task that replaces an old hash after the login was answered. |
| `Managers`, `VectorStore`, `DocumentIndex`, `FileStore`, `Storage` | M2's manager and factory, four vector stores, two full-text indexes, two file stores, and the block of M1's server that calls them | One module per kind of store, with an action per call and the servers' own steps (`Refresh`, Meilisearch's task queue); `Storage` composes them into what a `StorageManager` does, and adds the end of the process. FAISS's index and metadata are the two files they are, each torn by a write that is cut in it (`CutShort`); `VCloseFails`, `OpenFails`, `WriteFails`, `UnlinkFails` and `ProbeFails` are what the file system refuses. |
| `KnowledgeGraph` | M4: `rule_extractor`, `llm_extractor`, the bridge, `kuzu_store`, `traversal`, `graph_search`, `cross_reference` | An extraction waits for a place, asks the LLM batch by batch, merges and inserts; insertion and deletion are one undisturbed step, or cut short by `Crash` at any statement. Searches change nothing and are operators. |
| `Retrieval` | M3's `RetrievalPipeline` | The cache, the levels of chapter filters, the two searches of a level, fusion, reranking, duplicates. A call's `at` is its await; pure stages are operators. |
| `Answering` | `QAEngine.chat` and `chat_stream` after the quota, the three pipelines, `RetrievalClient` | Extends `Retrieval`: a question asks M3 and M4, in one go or as two tasks, up to `MaxIterations` times for self-RAG; `Prompt`, `LlmAnswers`, `LlmFails` end it. |
| `Configuration` | `set_config` and its hot reload, `initialize-engine`, the PATCH of the limiter, the factory of limiters, start-up | `Receive`, `SetSection`, `GetSection` and `HotReload` are the stretches of one request between its awaits; `UpdateRateLimitConfig` has no await and is one step; `Restart` keeps the store only. A section's keys are of three kinds: applied by the reload, applied unless blank, stored and never applied (`ApplyTo`). |

The modules that begin with `MC` give the constants a `.cfg` cannot write and the symmetry;
a run without one needs neither. Definitions marked
"(mutation)" are not part of the model: each is a plausible slip in one definition,
and `PROJECT.json` names the property that TLC finds violated when it is used in
the definition's place.

A name is used once among modules that are proved about together, which is why the
specifications are called `Spec` here and `RedisSpec`, `StorageSpec`, `ConfigSpec`, `AnsweringSpec`
or `WorkspaceSpec` there.

Composition: `ProjectRecords` shares `ProjectStore`'s handlers and deletions,
`Storage` composes the stores, `Answering` runs over `Retrieval`'s cache.
`MemoryLimiter` refines `SlidingWindow`, `DeepResearch` refines `ResearchOutcome`.
`ChatEngine` takes the pipelines as one step and `Answering` the quota as given: they meet
in the mode with which a question comes.

## 3. Runs

| Run | Bounds | What it shows |
|---|---|---|
| `ChatEngine` | 2 handlers, 1 user and anonymous requests, 1 project, limit 2, 2 days | The cap is overrun by one at most, no upgrade is free, serial links are right, every chat ends. |
| `ChatQuotaCap` (violation) | as above | The cap of the docstring does not hold: two requests read the last credit before either charges it. |
| `MemoryLimiter` | 4 requests, 2 keys, tiers of limit 1, 2 and none, window 2, clock to 4 | The pruned lists are a sliding window, edges included. |
| `RedisLimiter` | 2 instances, 2 suffixes, limit 2, window 2, clock to 6 | The overrun is one grant at most; nothing is forgotten early. |
| `ProjectStore` | `WorkspaceSpec`: 2 handlers, owner and one other user, 3 requests of any kind, 2 projects, 2 conclusions, 1 clause, link depth 2 | A role is the last one given but for two named ways round that, a deletion is clean, links stay, serial updates write what they name. |
| `DeepResearch` | 2 studies, plans of 1 to 4 sub-questions, one of them without search queries, cap 3 | The plan's bound at its edge, that a report rests on the whole plan, the agents' race, the outcome, and that studies end. |
| `Ingestion` | 1 upload, 1 form, 1 command, one document name, 3 seconds | Directories shared only by overlapping conversions, no file left behind but in three named cases, success means written, every upload ends. |
| `Accounts` | 3 requests of any kind, 2 addresses, 2 passwords, 1 identity, 1 old account, lockout at 1, 2 tries of a token, 1 restart | How far a lockout is exceeded, which passwords, tokens, keys and links survive. |
| `Storage` | 3 sessions over 3 documents (two share a stem and a line), 7 deployments that reach each store, 3 keys of which one is another's sidecar, 1 deletion, 1 crash, any call refused, any write failing or cut | What was called stored is found, texts have vectors, what was deleted stays deleted, a path holds the last put, a store is sick for a reason. |
| `KnowledgeGraph` | 2 extractions at 1 place, a rulebook in two batches that share a clause, a manual of 2 editions, 1 id made up by the LLM, 2 deletions, 1 crash | Claimed nodes stay, no dangling edges, only merged nodes are left over, searches are exact, societies meet at shared clauses. |
| `Answering` | 2 questions at once, 5 deployments (with and without M3, M4, cache, HyDE, scores), a cache of one, one change of the index | Only a key computed twice at once costs an answer; what was found is used. |
| `Configuration` | 2 updates in flight, 1 section with a key of each kind, 2 values, 2 hosts, 2 windows, 4 requests or restarts in all | The engine follows the store and an admin's own values are in force, for the keys that are applied; the limiter is the configured one, its host included. |

Why the bounds are enough to be of use. Every race in these modules is between two
requests, so two handlers, instances or studies show it; the theorems below cover the
rest. A limit of two leaves room for a grant before the
race (with a limit of one `consume_premium`'s first-row path already fails the second
request, and no overrun appears). The clock of the limiters passes twice the window,
so that a grant expires, is pruned and is followed by another, and a key's TTL (twice
the window) runs out with time left. Two days give a midnight between charge and upgrade.
Three project requests are enough for one to run inside another's read and write and
a third to see the result; so are three of `Accounts` (a login whose upgrade is pending, a
reset, and a login after both) and three sessions of `Storage` (two that overlap and one that reads
what they left). For `Ingestion`, one document on each way in gives the three
pairs that can meet: two of one server and, for each, one of another process. Three seconds let
a directory exist in one second, be chosen again in the next and a third time after that.
`KnowledgeGraph` needs two documents that share a node, one of them with an edition that drops
it, and two deletions to see the count reach zero. A cache of one entry is full after
the first answer, so a key stored twice is evicted twice by the questions that follow.
Plans of one, two, three and four sub-questions with a cap of three are cut, full, or filled
by the knowledge graph's sub-question exactly; the graph is asked from two on. Two links suffice for
`ProjectStore`'s walk, whose bound of two is the depth at which it gives up. Each write of `Storage` may fail
once begun, and the one crash may come inside it, between the two files of FAISS or after both.
`Configuration` needs an engine, two updates that meet and one more alone. It has one
section, with a key of each kind: `llm` is applied by the same operator, and no other section
reaches the engine.
`MaxRequests`, `LastDay`, `MaxTime`, `MaxClock`, `MaxDeletes`, `MaxCrashes`, `MaxRestarts`, `MaxChanges` and
`MaxEvents` are bounds of the model, not of the code.

Deadlock is checked for `ChatEngine`, both limiters, `DeepResearch` and `Ingestion`. In the other
runs each request, extraction, session or question is served once, and when all are
the system may stop; they do not check it.

### Findings

* `ChatQuotaCap`: `consume_premium` against "Basic users are capped at 3 premium
  queries per day" (`conversation/manager.py:52`).

Other differences met while reading, each at its line, for which there is no run:

* Rate limits: the "Atomic sliding window" (`redis_limiter.py:179`) is four separate commands; N
  instances grant up to N - 1 requests too many, which `RedisBounded` states and a theorem proves.
* Roles: an editor cannot manage members (`auth/project_permissions.py:8-9`, 79-84), but PATCH takes
  `team_members` from everyone who may edit (`routes/projects.py:48`), so an editor can promote itself or
  remove a member. A request that had read the row writes the team it read, so a role that was taken away
  meanwhile comes back. And entitlement is judged once, at the access check: who loses it afterwards
  still writes. `RolesAsGiven` names the members of the first two cases (`patched`, `restored`) and holds of
  the others.
* Projects: `update_project` "Only updates provided keys." (`project/manager.py:246`) but writes all
  columns, from a row read earlier. `_detect_circular` (line 1126) is to "Detect circular cross-project
  references", but walks from the source only and never to the target's links, so n can link to m and m to
  n; and it answers "no circle" to any exception (lines 1155-1156). What it does refuse is a second link
  to one project, unless the list changed or the check failed meanwhile: that is `LinksKept`. The
  automatic update of the matrix reads `row["clause_id"]` of a tuple (line 607) and raises after its
  commit. GET `/projects/cases`, `/templates` and `/notifications` are answered by GET `/{project_id}`,
  which is registered first.
* Deep research: "TTL: 1 hour (auto-cleaned ...)" (`research/progress.py:37`), but nothing removes anything
  from `_research_store` and `stored_at` is never read: `Report` keeps evidence until the process ends. An
  "error" event is "non-fatal" (`progress.py:13`), but it is a study's last event; an agent that raises ends
  the study (`Fail`).
* Uploads: a `tmp.write` that fails leaves its file behind, on both servers (`routes/documents.py:107-109`,
  `web_server.py:547-549`): the file is made with `delete=False` and the write is outside the `try`. A rejected
  page count leaves one too.
* Uploads: `parse` reads `os.environ` without importing `os` (`web_server.py:591`) and after that
  exception reads the unassigned `chunks` (line 622), so a document that was parsed and written
  is reported as an error; `form_data` (`routes/documents.py:137`) is no name of its handler, so every
  upload that was answered ends in an exception.
* Configuration: "Changes take effect immediately" (`admin.py:10`) does not hold for `searxng_url` and
  `google_cx`: `set_config` stores them and answers `hot_reloaded: true` (line 175), `_apply_config_to_m5`
  passes over them (lines 686-689), and chat goes on with those the engine was made with
  (`core/engine.py:198-199`).
* Configuration: `system_config` is never read at a start, so neither the stored sections nor a PATCH
  outlive the process. LLMClient copies model, key and URL when the engine is made
  (`llm_client.py:61`), and `initialize-engine` cannot take an LLM (its JSON dict is no
  `LLMBackend`): the section `llm` changes `QAEngine._config` and no answer. Section `retrieval`
  asks `QAConfig` for `dense_top_k`, which it does not have (`admin.py:683`). The typed routes of one
  segment (`/llm`, `/rate-limit` for GET, ...) come after `/{section}` and are never reached, and the
  admin portal's bodies have no `data`, which the generic route requires. A PATCH with backend `auto`
  is not resolved again and means memory. After a fallback its answer says backend `redis`,
  `redis_healthy` true: the memory limiter is always healthy.
* Graph: an explicit `depth` exceeds the tier's, which a comment excludes (`core/engine.py`, "never
  exceed"). The LLM's relations to unknown ids are skipped to prevent "dangling edges"
  (`llm_extractor.py:590`), but the merge of two batches then drops ids that relations still
  name, and such an edge finds another document's node or none.
* Retrieval: the default-year filter compares an int with the stored strings (`pipeline.py:177`);
  `cache_ttl` is never read; a query that is an exact identifier has keywords only if a part of it looks
  like a steel grade or a temperature (`DNV-AH36`), and without any its only search is empty;
  `embedder.py` and `dense_retriever.py` are imported and not in the repository; `QAEngine` makes its
  `RetrievalClient` without engines (`m5_qa/core/engine.py:119`).
* Self-RAG: "the highest-scoring context is better than nothing" (`self_rag.py:113`), but a score of 0.0
  never becomes the best. Meilisearch is asked without `showRankingScore` and its hits then count 0.0
  (`meilisearch_index.py:443`), so an identifier that is found there ends in `None.errors`. Fusion and
  reranking give scores of their own; `FoundIsUsed` says what holds, for what has a score.
* Answering: `chat_stream` calls `sse_citations` (`core/engine.py:409`), which line 51 does not import. A
  stream with sources therefore raises NameError after its last token, without citations and without
  `[DONE]`: `whole` in the fate of a question says whether a stream came to its end.
* Answering: the routes call `chat` when a stream is asked for and nothing calls `chat_stream`; the
  compressor is created and never called; a first chunk above the budget leaves the context empty.
* Accounts: the row that a login verified was read before an await (`auth.py:397-417`). A reset that commits
  in between is undone by the upgrade of the old hash, also where no upgrade was pending at the time.
* Storage: FAISS's close opens the index and then the texts for writing, which empties them first
  (`faiss_store.py:93-95`). A process that ends inside either leaves a torn file, and the next start an
  empty index; `StorageManager.close` passes over a failing close, so the caller is told "stored" though
  nothing was written.
* Storage: the key `a.meta.json` of LocalFS is the sidecar of `a`: a put with metadata of the one writes
  over the other, and `list` hides it. A put that fails half way leaves a part of the file under its key
  (`local_fs.py:236-243`), and the health check's probe is a key like any other.
* Storage: MinIO's `get`, `delete` and `list` pass keyword arguments that `_retry_sync` does not
  take and raise TypeError. Startup reads `config.m5_db_path` where `config` may be None
  (`core/app.py:170`).

### Fairness

`ChatEngine`, `DeepResearch` and `Ingestion` have liveness properties, under weak fairness of
each handler's own steps: the event loop resumes every coroutine whose await is over,
and each await here is over in time (SQLite answers or the lock's holder commits,
`httpx` clients have timeouts, the web searches too). Weak fairness is
per handler or study, and for Deep Research also per pair of agents, which are tasks
of their own. No fairness is assumed of clients, admins, midnight, lock timeouts,
failures or restarts: chats end even if SQLite never gives up waiting, because
nobody holds the lock across anything but its own steps. `Ingestion` has fairness
for the gateway's handlers only, whose HTTP client gives up after 120 seconds; M1
is free to hang, which its conversions, blocking and without a limit, may do. The other modules
state safety only and assume no fairness.

## 4. Proofs

Every safety property that a passing run checks is a theorem too, and `MemoryLimiter` and
`DeepResearch` are proved to implement their abstract specifications. One module proves about
components that belong together.

| Module | Theorems | The inductive invariant |
|---|---|---|
| `ChatEngineProofs`: quota | `TypeCorrect`, `OvershootIsBounded`, `NoUnchargedUpgrade`, `SerialLinks` | `OvershootBounded` is not inductive: a handler past the check adds to `used` later. `CreditBound` counts credits used plus handlers between check and commit; where no row is there yet only one handler can insert it. `NeverUncharged` counts the handlers between commit and upgrade. `SerialInv` says what a lone, undisturbed request finds on the engine. |
| `ChatEngineProofs`: answers | `CacheUnlessRaced`, `FoundIsAnswered` | `CacheInv`: unless two calls computed one key at once, the order lists the cache's keys, each once, and a key that is being computed is not cached and computed by nobody else; so it is new to the order when it is stored. `AnswerInv`: a call that saw a chunk has one in its best list, and in its result when it ends; every result with chunks has a score that is not nought, if what ranked it gives scores; the context a question goes on with is good, and there is one as soon as a retrieval returned anything. It rests on what the pure stages return: a strict order on a finite set has one member for each place (`EachPlaceTaken`), so fusion and reranking are sequences of chunks, and the removal of duplicates empties no list. |
| `GatewayProofs`: memory limiter | `TypeCorrect`, `LimitKept`, `NothingForgotten`, `Refinement` | Grants are of asked requests; what is pruned equals the live grants, so each step of the lists is a step of `SlidingWindow` (or a stutter, for `get_usage`). |
| `GatewayProofs`: Redis limiter | `RedisTyped`, `GrantsRemembered`, `OverrunIsBounded` | Members carry times no later than now; granted ones stay in the set until they leave the window, since the TTL is twice the window; live members plus instances past ZCARD never exceed limit + N - 1. |
| `GatewayProofs`: configuration | `EngineAsStored`, `OwnValuesInForce`, `LimiterFollowsSettings` | `AloneKnows`: who has had a section for itself still has, and has read what is stored. `OwnKept`: what a request has stored is there, and was read, but for the keys another one has written since. Both are about what the store holds; of the engine they give the applied keys only. |
| `ProjectStoreProofs` | `RolesGiven`, `DeletionClean`, `WorkspaceSafe`, `LinksAsAnswered`, `SerialUpdates` | Every copy of the team, in a request's changes or in what a request has read, equals the row, but for the members whose role others have changed since it was read (`behind`), who are those a write would restore. `Clean`: once the project is gone the filled tables are those that requests past their check filled late, and the comments, which nothing deletes. Both survive `ProjectRecords`' steps, which share handlers and restarts with them. `LinksInv`: the list that a request holds is the table's and its own link, but for what others have written since (`missed`), which its write leaves out (`overwritten`). Of two links to one project the second is refused, since some call of the walk, in whatever order they come, will find the project visited (`Refused`), unless one failed (`unchecked`). `SerialInv`: until two requests overlap, what an update has read is still the row. |
| `DeepResearchProofs` | `TypeCorrect`, `PlansStayBounded`, `ReportsRestOnWholePlans`, `RegulationsStartAsPlanned`, `Refinement` | `Through`: an agent that has finished has no sub-question ahead of it, and from the analysis on both have. `StartsFirst`: the web agent extends queries only after the regulations agent has left its first position; `OutcomeFollows` ties the outcome to the stage; `NotYet` says what has not happened before a stage. |
| `DocumentProofs`: upload | `IngestionTyped`, `TempsOwned`, `DirectoriesShared`, `SuccessesWritten` | `Dated` orders a conversion's choice, its directory and the clock, and ties the suffix to the choice; `ChosenBefore` says that whoever shares an existing directory chose it no later than it was created: a name with a suffix that exists was chosen in this very second. `Commanded` says what a command has at each stage. |
| `DocumentProofs`: stores | `StorageTyped`, `TextsVectored`, `StoredStay`, `DeletedForGood`, `FilesLast`, `SickExplained` | `VectorsInv`: of FAISS's two files the index is written first, so a session nobody has overtaken has a vector for every text on disk, also when a write was cut between them; a torn file is not read, so it may say anything. `StoredInv`: a server has what was called stored and what an open session has inserted; FAISS's files have what was called stored, unless a write to them failed or was cut, and an open session has read it or it was written since (`Knows`). `DeletedInv`: Meilisearch's queue has a file's deletion behind everything it still has to add of it. `FilesInv`: a call is at work on the paths that its place says (`Placed`), sidecars that are keys included; who has its paths for itself (`ByItself`) finds there what it left (`Finds`), and a check that is alone is sick only if it was refused something. |
| `AccountsProofs` | `TypeCorrect`, `PasswordlessAreLinked`, `PasswordsStand`, `OrphansOverlap`, `LockoutHolds`, `TokensNotReused` | `TypeInv` adds to the types what a request at a stage carries. `PwInv`: a login that is to upgrade a hash has the password that was set last, unless a reset came since it read the row (`raced`); such a login is still to upgrade or has done so, and only its password can stand in place of the chosen one. `OwnedInv`: each row, and each request that is about to write one, a verified login included, belongs to an account that exists or whose deletion cut it. `LockInv`: failures plus logins between the check and the count, before or after they have read the row, are at most the limit - 1 plus those in flight at once. `SpentInv`: a reset that ended leaves its token and its account's other tokens used. `Moves` says which stages a request can go through; the last two invariants are shown for it. |
| `KnowledgeGraphProofs` | `TypeCorrect`, `NoDanglingEdge`, `ClaimedNodesStay`, `OnlyMergedStay`, `SocietiesMeetAtShared`, `SearchAnswersReach` | `Moves`: every step inserts one extraction, takes out one document, or at most drops edges, wherever a crash cuts it. `CountInv`: a node's count is at least the number of documents that claim it; `OnceInv`: a node that was never merged is counted once for each; `CrossInv`: an edge has its ends in one society, or one of them is shared. `SearchAnswersReach` is an induction over the hops of a search: after each, it has seen what is that many edges away, and all of it unless it is full. |
| `Induction` | lemmas | Induction over the numbers for a set of them, from the library's facts on well-founded relations. |

The theorems hold for every value of the constants that meets the named assumptions: finite
sets of handlers or documents, positive limits and numbers of results, a `None` or `Nil` that is
none of the values, defaults and rankings of the type the code gives them. `RankingAssumption` says that no
score is nought where one is given: the cross-encoder's goes through a sigmoid, a fused one is a sum of
reciprocals, and a hit of Elasticsearch has a term in common with the query. That Meilisearch's hits have
none is a part of the model (`deploy.scored`), not assumed away. No theorem needs fairness. Cardinality facts come from
`FiniteSetTheorems`.

The library's induction theorems take the property as an operator, which the provers cannot instantiate.
`Induction` states them for a set of numbers, and that is enough for what recursive
functions compute: the walk over links, the hops of a search, the removal of duplicates. First the function is
shown to exist for every length, then what it computes.

Only model-checked: `EveryChatEnds`, `EveryStudyEnds` and `EveryUploadEnds`. They are liveness
properties under weak fairness, which needs `ENABLED`, and that is out of the prover's reach.
`WithinLimit` and `WindowsExact` of `MemoryLimiter` are proved and no run lists
them: its run checks `IsSlidingWindow`, which follows the decisions they are about.

## 5. Abstractions, and what they leave out

* Texts, prompts, answers, search results, prices and ids are left out; a message is
  the step it causes. In `ChatEngine` a pipeline of M5 is one step, since its exceptions
  become the answer's text; `Answering` opens that step.
* `MemoryLimiter` and `RedisLimiter` assume that clocks do not step back, that
  `window_seconds` does not change during a limiter's life, and, for Redis, that
  instances' clocks agree. Redis evicts nothing but by TTL.
* `RedisLimiter` follows one key and one finite tier. What a failed check does
  afterwards (reject when strict, else count in a process-local list) is
  `MemoryLimiter`'s algorithm and is not composed with it.
* `ChatEngine` knows the one tier that is ever stored, "basic".
  `chat_stream` takes the same quota steps without the auto-link; `Answering` has its answers.
* `ProjectStore` takes `routes/projects.py` as if mounted alone. In the app that
  `create_app` builds (`core/app.py:231`), `routes/extras.py` comes first and
  answers POST and GET `/api/v1/projects`, POST `/{id}/conversations` and DELETE
  `/{id}` from the gateway's own database.
* `ProjectRecords`: the calls of one check of a link come in any order, where the code goes to the
  depth first; each sees the lists of its own moment, and the check ends as soon as one finds a circle.
* In `DeepResearch` a plan is a sequence of sub-questions with the agents they are
  for and whether they carry a query at all; `cases` counts as an additional one. The LLM client that a
  study puts into the shared planner is left out: nothing comes between its assignment and its use.
* `Ingestion` has one output directory. A conversion by Marker or MinerU is one step that
  fails, since `convert` raises after it; what those tools and docling's fallback leave
  in the output directory itself is left out, as are the configuration `parse` saves and the
  result of the table quality gate, which nothing reads. The removal in a `finally` succeeds, if the process
  lives to make it. The clock does not step back.
* `Accounts`: what a request creates is named after the request; hashes are the
  passwords, with a flag for the old kind; mails arrive or do not, and who holds a token may redeem it.
* `Storage`: embeddings, scores and the order of hits are left out. A server that is asked
  answers or raises. A write that was cut leaves a file that is torn, however much of it is there. The keys are
  those of three files, so a sidecar's own sidecar is no key.
* `KnowledgeGraph`: an entity is its name and type; what the patterns match in a text is a constant
  of the instance (`Editions`). A batch's answer has at most one relation, of two different entities.
* `Retrieval` and `Answering`: what a backend thinks of a text is an order or a grade; fusion
  adds millionths; tokens are counted by a table.
* `Configuration`: a section has one key of each kind that the reload tells apart (always applied; applied
  unless blank; stored and never applied). Of the limiter's settings `host` stands for what a Redis client
  is made of. It holds `QAEngine._config`; what copies of it live on elsewhere is said under Findings.

Not modelled: the parsers and their enrichments, adapters of external services and web searches
(third-party code behind calls that can fail, which the callers' modules have); prompts, metrics and
exports (text); the relational store of M2, whose SQLAlchemy sessions nothing takes; conversations,
shares, pins and folders of the gateway (single statements over rows that nothing in the repository
creates); the typed configuration routes, which are never reached, and the SMTP and OAuth test routes;
contracts (data classes), the portals (browser code), the mock server and deployment files.

## 6. Plan

Done: the chat path and its quota; both limiters; the project workspace with its records;
deep research; ingestion; accounts; storage; the knowledge graph; retrieval and answering;
configuration. Proofs of every safety property, and of both refinements.

Left, in this order:

1. `RedisLimiter` with the process-local list behind it, as one limiter that implements a sliding
   window while Redis answers.
2. An abstract specification of `Storage` (a caller's files, and what may be lost of them) that the
   stores implement.
3. The chunker and the table quality gate of M1 as operators, should something call them.
