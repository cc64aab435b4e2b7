# Verification of IntelliRAG

TLA+ models of the parts of IntelliRAG whose correctness depends on the order in
which concurrent things happen, and of the algorithms of its Python pipeline; TLC
configurations that check them on small instances, and TLAPS proofs of the most
important properties for instances of any size. `PROJECT.json` is the index:
components, runs, the source lines behind every definition, mutants (a plausible bug
per property, which TLC must find), hazards and theorems.

The repository holds two implementations of one idea. `src/rag-platform/` is a
Python platform: Celery workers ingest GitHub payloads into Postgres, chunk them
and index the chunks in ChromaDB, and a FastAPI service answers queries.
`src/web/` is the TypeScript product: a server that stores documents and chunks in
Postgres (or in memory), keeps a "graph sidecar" of derived data, streams
generated answers, and lets browsers meet in peer-to-peer rooms. They share no
state and no code; they are modelled separately.

Contents: [inventory](#1-inventory), [plan](#2-plan), [modules](#3-modules),
[runs](#4-runs), [fairness](#5-fairness), [proofs](#6-proofs),
[disagreements](#7-where-code-and-documentation-disagree),
[not modelled](#8-what-is-not-modelled), [running](#9-running).

## 1. Inventory

### rag-platform (Python)

| Component | State | Operations | Interacts with | Hard behaviour | Correct when |
|---|---|---|---|---|---|
| Ingestion workers (`apps/workers/.../ingestion/github`, `libs/connectors/sinks`) | `documents`, `document_versions`, `raw_payloads`, `ingestion_runs`; raw files | `ingest_github_issues`, `ingest_github_issue_comments`, `reprocess_github_document` | Celery broker, Postgres row locks and unique indexes, file system | concurrent deliveries of one document; at-least-once delivery; rollback around a file write; status rows written on other connections; deadlock | versions of a document are numbered without gaps, exactly the newest is active, each can be replayed; nothing is dropped without a failed run |
| Processing workers (`apps/workers/.../processing`, `libs/rag/processing`, `libs/rag/indexing`) | `documents.lifecycle_state`, `chunks` rows, ChromaDB vectors | `process_document` → `index_document_chunks` | two stores without a common transaction; ingestion registers versions meanwhile | failure between stores; redelivery; lifecycle state read early and written late | every vector has its row; a document is published over a complete index; redelivery is harmless, to the vectors where one process writes them |
| Query API (`apps/api/.../services/query`, `main.py`, `libs/rag/pipeline/factory.py`) | a singleton service with its lazily built pipeline, labels and counters | `query`, `stream_query`, `health`; warm-up in the lifespan handler | threads of FastAPI; observability; the failure feed | unlocked lazy construction; a stream whose client leaves or whose layer raises; restart | one finished pipeline; a stream ends once; every request ends |
| Observability (`libs/observability`), failure feed (`libs/rag/evaluation/failure_feed.py`) | counts of a collector per build; the process's registry, gauge and traces; a JSON file | `record_query`, spans, `record` | updated by all queries at once | read, modify, write without a lock; a file rewritten in place | counters agree; a trace belongs to one query; recorded failures stay |
| Chunking (`libs/rag/chunking`) | none (a cache of chunkers) | four strategies, GitHub issues and comments | processing workers, evaluation | offsets moved through normalization, splits, merges and overlaps | no text is lost; offsets cover the source |
| Embeddings, retrieval, reranking (`libs/rag/embeddings`, `retrieval`, `reranking`) | indexes built once | embed, search, fuse, rerank | query API, evaluation | fallbacks; filters before or after the cut; scripts without spaces | fusion keeps agreement; a filter loses nothing; a fallback is complete |
| Context and generation (`libs/rag/context`, `generation`) | none | select, deduplicate, compress, budget; answer, parse citations | language models | thresholds and counts; markers nobody can open | budget kept, chunks accounted for; every marker opens a chunk the model saw |
| Evaluation (`libs/rag/evaluation`) | datasets, baselines | metrics, benchmarks, judge, gate | all of the pipeline | a mean and a percentile, a refusal, a fallback of the judge | nothing critical passes; two measurements of one thing agree |
| Ingestion API (`apps/api/.../ingestion`) | none | enqueue a task by name, read runs back | Celery | – | – |
| Scheduler, markdown tasks | – (placeholders) | – | – | – | – |

### web (TypeScript)

| Component | State | Operations | Interacts with | Hard behaviour | Correct when |
|---|---|---|---|---|---|
| Durable store (`store.server.ts`, `ingest.server.ts`) | `documents`, `chunks` rows | `upsertDocument`, `deleteDocument`, `embedPendingBatch`, `saveChunkEmbeddings` | Postgres locks; the graph sidecar reads slug, version and model | concurrent ingests of one source; chunks replaced while being embedded; a lost request | chunks are the cut of the body; one document per source; versions advance with every text |
| Graph sidecar (`graphify/persist.server.ts`, `graphify/query.ts`) | per instance: graph, learned vectors, answer cache; one row in Postgres | `ensureGraph`, `saveQueryResult`, `rememberRetrievedVectors`, `recordOutcome`, `bumpCacheHit` | every query; the corpus changes between its awaits | stale reads across awaits; two loads of one state; overwritten rows | whatever is derived belongs to the fingerprint it is kept under |
| Query (`query.server.ts`, `sse.server.ts`) | one request | `runQueryStream` | all of the above, model providers | cancellation against completion; retrieval, generation and saving far apart in time | the stream closes once; no stale answer is kept |
| Rooms (`multiplayer/p2p.ts`) | peers, connections, cursors, queues | poll, signal, negotiate, watchdog | other browsers through a lossy relay | simultaneous offers, rebuilt connections, overlapping polls | every pair connects or is given up by both |
| Memory store (`memory.server.ts`) | arrays of one process | same as the durable store | awaits between reads and writes | interleaving at awaits | same as the durable store |
| Database access (`db.ts`, `storage.ts`) | memoized clients, ephemeral flag | `getSql`, migrations | every store | a failed migration while others use the client | all callers agree which store is in use |
| Pure algorithms (`chunking.ts`, `ranking.ts`, `vector-index.ts`, `vector.ts`, `reflect.ts`, `jev-decision.ts`) | none | functions | – | boundaries | equal to a reference definition |

`PROJECT.json` lists all of them with their files and status, and 40 hazards at
the lines where they bite.

## 2. Plan

Ordered by how much depends on the component and how little a test can reach.

| # | Module | Abstract specification | Runs | Theorems | State |
|---|---|---|---|---|---|
| 1 | `Ingestion`, `IngestionRecovery` | `DocumentVersions`: an append-only history per document | update, live, recovery, new_document | types; newest version active; versions advance; refinement; unique active version | done |
| 2 | `Processing` | – (the promise is a set of invariants over two stores) | overlap, serial, half_indexed | types; vectors have rows; redelivery; one worker publishes whole indexes | done |
| 3 | `CorpusStore` | `CorpusRevisions`: per slug a version, a body and a model | corpus_store | types; chunks follow the body; one document per source; refinement | done |
| 4 | `AnswerCache`, which composes the sidecar with `CorpusRevisions` in place of the store | – | answer_cache, answer_cache_stale | graph, vectors and cached answers follow the corpus; ratings stay | done |
| 5 | `QueryService`, which composes the query service with observability and the failure feed | – | query_service | types; one pipeline; streams end once; records stay; observations agree | done |
| 6 | `Texts`, `Tokenizer`, `RecursiveChunker`, `StructureAwareChunker`, `SemanticChunker`, `ChunkingService`, `Ranking`, `Retrieval`, `Embeddings`, `ContextAssembly`, `Generation`, `Faithfulness`, `Benchmarks`, and `RagPipeline`, which calls them | contracts between the layers, stated beside the functions they bind | rag_pipeline | the contracts of retrieval, contexts, answers and evaluation | done |
| 7 | `PeerRooms` (`p2p.ts`), `MemoryStore` against `CorpusRevisions`, `QueryStream` and `DatabaseAccess` of the web application | `CorpusRevisions` again | one run each | refinement, if it holds | left (section 8) |

Composition: `AnswerCache` takes the corpus from `CorpusRevisions`, and
`CorpusStore` is proved to implement `CorpusRevisions`. So the two are connected
without a product of their state spaces: what the cache assumes of the corpus is
what the store provides. `DocumentVersions`
is what `Processing` assumes of ingestion: its `RegisterVersion` appends the next
version and nothing else. `QueryService` knows of a layer only that it ends or
raises, and `RagPipeline` what a layer returns: the service adds no state to them.

## 3. Modules

A module states code in the order of the code; next to a definition that a mutant
replaces stands its mutant, an operator with a comment `Mutant:`, which nothing
uses.

### Ingestion (`Ingestion.tla`)

`pipeline.py`'s `_ingest_single_payload`, its three callers, the repositories
below it, and the parts of Celery and Postgres they rely on.

| Model | Code |
|---|---|
| `documents`, `versions`, `payloads`, `runs` | the four tables of migrations 001 and 003; a document is its id, a payload its hash |
| `files` | raw payload files; the path holds the run id, so a file is `<<document, run>>` |
| `task`, `worker` | Celery tasks and worker processes (`acks_late`, `reject_on_worker_lost`) |
| `lock`, `rowlock` | `SELECT ... FOR UPDATE` on the documents row; the row lock an `UPDATE` of the active version takes |
| `TakeTask`, `CreateRun`, `Validate`, `FinishTask` | the task loop; `create_run` and status updates commit on their own connections |
| `LockDocument` … `Register` | the transaction, cut where it can wait or be overtaken; its writes appear at the commit |
| `RecordFailure`, `Abort`, `Escape` | the exception handler, the rollback, an exception nobody catches |
| `StepFails`, `CommitAckLost`, `WorkerLost`, `DeadlockDetected` | failing calls, a commit whose acknowledgement is lost, a dead or killed process, Postgres' deadlock detector |

Foreign keys matter here: setting `ingestion_runs.document_id` takes a share lock on
the documents row and fails when it does not exist. `IngestionRecovery` adds the
loss of a document's version rows, the case `reprocess_github_payloads_to_postgres`
exists for. `DocumentVersions` is the promise to everything downstream.

### Processing (`Processing.tla`)

`process_document` and `index_document_chunks` for one document (every statement is
keyed by one document id). `owner`, `embedded`, `indexed` are the chunks table:
`make_chunk_id` contains no version, so two versions share the row of a common
chunk, and `INSERT ... ON CONFLICT DO NOTHING` leaves it to the version that had
it. `vectors` is ChromaDB, a library inside the process that uses it, made for "single-process
access only (no concurrent writers)" (`chroma_store.py:12`). Nothing in the repository says
how Celery places its workers, so `Process` maps each worker to a process: threads of one
process, whose calls the library serializes, or processes of their own. A write while
another process has the store open (`opened`) does what no document specifies: `Store` lets
each vector be lost, stay, or be any entry it once was (`written`). The API process has a
directory of its own by default (`service.py:94-97`, `processing/pipeline.py:56-58`). Actions are the calls in order: `LoadDocument`,
`LoadVersion`, `PersistChunks` (one transaction), `Embed`, `DeleteOldVectors`
(whose failure is swallowed: `DeleteFails`), `AddVectors`, `MarkEmbedded`,
`MarkIndexed`, `Publish` (one transaction). `FailTask` and `RetryTask` distinguish
the two ways a failure leaves the task; `ProcessLost` takes all workers of a process.
`RegisterVersion` is ingestion. `Chunk.chunk_text` must not be empty (`chunk.py:91`); no
chunker makes an empty chunk of a text that is not blank, and the error is left out.

### Durable corpus store (`CorpusStore.tla`)

One ingest is one READ COMMITTED transaction of `upsertDurable`. Statements that
read are steps (`Begin` takes the advisory lock on the slug base; `LookupUri`,
`LookupSlug`, `Compare`, `UpdateRow`, `ChooseSlug`), writes become visible in
`CommitUpdate` and `CommitInsert`, and from `UpdateRow` to the commit the row is
locked. An embedding request runs outside any transaction, one step per statement:
`StartBatch`, `SaveChunk`, `CountLeftover`, `MarkIndexed`, `EndBatch`; `LoseBatch`
ends it anywhere. A chunk has the generation `gen` of the replacement that inserted
it, which stands for its random id. Titles, paths and languages are left out: their
refresh changes neither body, version nor chunks. `CorpusRevisions` is the view the
sidecar has of it, through `Revisions`.

### Answer cache (`AnswerCache.tla`)

The sidecar as a JavaScript server runs it: a step is what one request does between
two awaits. `Ensuring`, `LoadState`, `CompareFingerprint`, `FetchDocument`,
`Rebuild` and `SaveRow` are `ensureGraph` and the write that follows; `Resume`
continues the caller named by `ret`: `Lookup`, `Bump`, `Learn`, `SaveAnswer`,
`RecordOutcome`. `Ask`, `Retrieve`, `Remember`, `LoadRows`, `CheckRevision`,
`Answer` are `runQueryStream`. A query with `skipCache` that would have had a hit goes on
without a key (`Missed`): it retrieves and learns, and saves nothing. State objects are named by the request that loaded
them, because two first requests of an instance each load one and only the last is
kept. `late` and `gone` are history: an answer retrieved under another fingerprint
than it is saved under, and slugs that lost their document. `MCAnswerCache` explores
states that differ only in state objects nobody holds once (`MCView`).

### Query service (`QueryService.tla`)

FastAPI runs every request in a thread, so a step is what a thread does without a
call that can switch threads. `Main` is the lifespan handler, which warms the service.

| Model | Code |
|---|---|
| `pipeline`, `clients`, `backend`, `cold` | `_pipeline` (a number of a build), the generation client of each build, `_llm_backend`, a failed warm-up |
| `Guide`, `Ask` | `classify_intent` answers at once, or the request needs the pipeline |
| `Check`, `Build`, `BuildRaises`, `ChooseClient`, `Publish` | `_ensure_pipeline`, which takes no lock; `PipelineFactory.build` |
| `Root`, `Started`, `EndLayer`, `LayerRaises`, with `StartTrace`, `StartSpan`, `AfterSpan`, `SpansFailed` | `ObservedRAGPipeline.query` and `tracing.py`; the current span is local to the request, the list of traces is not |
| `Choose`, `Trim`, `TrimRaises` | `_trim_traces`: the oldest traces are listed (`doomed`), then deleted one by one; one that another request has deleted meanwhile raises `KeyError`, and the query ends in a 503 |
| `Count`, `Total`, `TotalErrors`, `Measure`, `SetGauge` | `record_query`: the counts of the collector of the request's build (`counts`, one pair per build: `factory.py:196`), the two counters of the process (`totals`), and the gauge, computed from the collector's counts before it is set |
| `Load`, `Open`, `Write` | `FailureFeed.record`: load, `open("w")`, which empties the file, and write |
| `StreamRetrieved` … `StreamScored`, `StreamRaises` | `stream_query` and the generator around it: a stage is announced, then worked |
| `Disconnect`, `Restart` | a client leaves at an event; the process stops, and only the feed's file survives. `StopsAt` bounds where a request is when it does |

### The algorithms (`RagPipeline.tla` and the modules it calls)

Text is a sequence of numbers with a few named characters (`Sp`, `NL`, `Dot`, `Hash`,
`Fence`, ...) or, from retrieval on, of word numbers; fractions are integers of
`1/Scale`. What a model computes (BM25, TF-IDF and cosine scores, embeddings, a judge's
verdict, the text of an answer) is an input: the definitions say what the code does
with it.

| Module | Code (`libs/rag/...`) |
|---|---|
| `Lists` | no code of its own: Python's comprehensions with a condition, which all of them use, as elements at the positions of a set, in order |
| `Texts` | `chunking/utils.py`: whitespace normalization with its checkpoints back to the source, overlap, merging, token counts |
| `RecursiveChunker`, `StructureAwareChunker`, `SemanticChunker` | the file of the same name, and `chunking/base.py` |
| `ChunkingService` | `service.py`, `factory.py`, `hybrid.py`, `github_chunker.py` |
| `Tokenizer`, `Retrieval`, `Ranking` | `retrieval/keyword.py` (scripts without spaces, bigrams), `dense.py`, `hybrid.py`, `service.py`; `reranking/` |
| `Embeddings` | `embeddings/embedder.py`, `retriever.py`, `pipeline/embedders.py` |
| `ContextAssembly` | `context/`: deduplication, selection, compression, budget |
| `Generation` | `generation/`: prompt sources, offline model, citations, refusal, clients; the answer of `stream_query` |
| `Faithfulness` | `evaluation/faithfulness.py`, `metrics.py`, `thresholds.py`, `baseline.py`, `quality_gate.py` |
| `Benchmarks` | the benchmarks of `evaluation/`, `ragas_wrapper.py`, `task_eval.py`, `sota_comparison.py`, `adversarial.py`, `platform.py` |

`RagPipeline` takes one input of one entry point, calls it and keeps the result; the
evaluation platform runs in seven steps, one per layer, each from the results before.

## 4. Runs

Passing runs find no error; a violation run states one sentence of the
documentation and TLC finds the behaviour of the code that contradicts it
(section 7). Workers, requests, tasks and bodies are symmetric where a run declares
symmetry; no run with a liveness property does.

| Run | Question | Bounds, and why they are enough |
|---|---|---|
| `ingestion_update` | Overlapping, stale, replayed and malformed deliveries of a registered document while one call fails | 2 workers, 3 tasks (two fetches that share a payload, one stale payload, one replay), 4 hashes, of which one is malformed, 1 fault. All conflicts are between two transactions on one document; a third waits like the second. One fault at every step of every path |
| `ingestion_live` | Do tasks settle, payloads arrive and terminal runs stay terminal? | 2 workers, 2 tasks, a malformed payload, 1 crash with redelivery or kill at any step |
| `ingestion_recovery` | Deliveries that no row lock serializes; a loss of versions and its replay | 3 workers (a cycle of waits needs two, a third can arrive during it), 4 tasks, 1 fault: the loss or a failing call |
| `processing_overlap` | Redelivered tasks at once, with new versions, a failure and a crash | 3 workers, two of them threads of one process and one a process of its own (two writers that are serialized and two that are not), 2 tasks with a retry each, 3 versions of which the middle one has no text, chunks shared between versions, 2 processes lost |
| `processing_serial` | The same with one worker, where publication is exact | 1 worker, 2 tasks, 2 versions, 2 faults, 1 crash |
| `corpus_store` | Ingests, the index loop and a deletion on shared tables | 2 transactions, 1 embedding request, 3 ingests of 4 inputs (two texts, one re-chunked as code, a note with the same slug from another corpus), 1 deletion, 1 lost request. `BatchSize` 2 makes a document of two chunks and a document of one compete for a batch |
| `answer_cache` | Two requests at a time over one graph state while the corpus changes | 1 slug, 2 bodies, 1 instance, 2 requests, 2 queries, 1 rating, 1 change of the corpus, 1 fault (failed save, unreadable row or restart). The store of another instance appears as the row loaded after a restart |
| `query_service` | Do streams, pipelines, counters, traces and the feed keep together while requests overlap, raise, leave, and the process restarts? | Two requests and the warm-up: one evaluated query, and one evaluated query or stream; 1 trace kept (so that the second trims the first, and two can trim the same one), 1 token, 2 starts, of which the second comes before a pipeline, in a stage, inside of a recording or after an answer (`StopsAt`; with every place the states are the same ones, by more steps). `auto` lets every build find or miss the server. After a failed warm-up the two build a pipeline each and count on two collectors. A race on any of the shared variables is between two |
| `rag_pipeline` | What does every algorithm promise the next? | Every document of up to 4 pieces of 8 kinds, every list of 4 chunks over 4 texts with both filters, every answer of up to 4 pieces, every combination of fallbacks: `MCRagPipeline` lists them. Boundaries sit inside them: chunk size 7 with overlap 6, budgets of 3 and 8, top 1 and 3 |
| `ingestion_new_document`, `processing_half_indexed`, `answer_cache_stale` | section 7 | smallest instance that shows it, no faults |

What the properties say:

- `NewestIsActive`, `VersionsOnlyAdvance`, `ImplementsDocumentVersions`: the row
  lock, the duplicate check against every version (not just the active one) and the
  deactivation together make a document an append-only history, whatever is
  delivered how often and how late. `OnePastDuplicateCheck` is the mutual exclusion
  the comment at `pipeline.py:237-239` asks for.
- `VersionsAreBacked`, `RestoredVersionsAreBacked`: the file a version names exists,
  although files are written inside transactions that may roll back.
- `SuccessMeansStored`, `NothingSilentlyDropped`, `TerminalIsFinal`: what
  `ingestion_runs` reports is what happened.
- `TasksSettle`, `PayloadsArrive`: no lock, wait or crash keeps a task open, or a
  well-formed payload of a registered document away.
- `NeverTwoActive`: what the unique indexes give without any lock.
- `VectorsHaveRows`, `RedeliveryIsHarmless`, `PublishedOverFullIndex`,
  `PublishedUntilNewVersion`, `WaitingTaskPublishes`: the two stores of the
  processing pipeline agree where the code makes them agree. Redelivery is harmless to
  Postgres whoever works; to the vectors only if one process had the store open. With
  several, all that is left is that no vector is of a chunk that is not the document's;
  TLC finds the claim about them violated if `SingleProcess` is taken out of it.
- `ChunksCutFromBody`, `OneDocumentPerSource`, `ImplementsRevisions`,
  `EverythingIndexed`: the corpus tables are consistent under concurrent ingests,
  embedding and deletion; the index loop ends with everything embedded and marked.
- `GraphFollowsCorpus`, `VectorsFollowCorpus`, `CacheFollowsCorpus`: a state whose
  fingerprint equals that of the corpus holds the graph, vectors and answers of that
  corpus, also in Postgres and in copies other requests still hold.
  `RatingsOutliveAnswers`: a rejection survives the answers generated meanwhile.

- `StreamProtocol`: a reader sees one final event, as the last, and tokens only after
  their stage, whatever raises. `OnePipeline`: nobody runs on a pipeline whose client
  is not set, with however many threads inside `_ensure_pipeline`; and unless the
  warm-up failed it is built once. `ObservationsAgree`: the registry's counters trail the
  sum of all collectors' counts by exactly the requests between the two, on however many
  builds these ran; the gauge is a rate of one collector, not of the process; and the
  trace of an answered query, as long as it is kept, holds its layers and no other's.
  `FeedKeepsRecords`: a recorded failure stays, unless two recordings overlapped or one was
  cut off. `EveryRequestEnds`: again and again no request is under way, also after the
  feed was left unreadable.
- `ChunksKeepEverything`: no letter of a document, title or comment is lost by any
  chunker, and offsets cover the source text; only the semantic chunker's may begin
  before it (section 7). `RetrievalContract`: fusion never inverts
  an order both retrievers agree on; a filter loses no match; batches embed as one call;
  adjacent characters of unspaced scripts are found. `ContextContract`: budget, counts,
  no near duplicates. `AnswerContract`: every marker opens the chunk the model saw, the
  stream agrees where the model cited well, and only what a citation backs counts as
  faithful. `EvaluationContract`: the gate passes nothing with a critical tenth, and
  rates that measure one thing twice agree.

Preconditions in properties are there because the code is otherwise wrong, and each
is a line in section 7: `OneSlugPerSource`, `Traceable`, `late`, and the faults
excluded in `EverythingIndexed`, `PayloadsArrive` and `WaitingTaskPublishes`.

## 5. Fairness

- Ingestion and Processing: weak fairness of `Step(w)` for every worker: a live
  process executes, and Postgres grants locks that stay free. Faults, crashes and
  new versions are never owed. A dead worker takes tasks again: Celery's parent
  process replaces it.
- CorpusStore: weak fairness of `IngestStep(w)`: a transaction that has begun runs
  on; and of `EmbedStep(e)`, which includes starting a batch: the console's
  `runIndexLoop` (`console.tsx:227-245`) asks for another batch as long as chunks are
  pending. That holds while a console is open; it is what `EverythingIndexed` is
  relative to.
- QueryService: weak fairness of `Work(a)` for every thread: a live thread runs, and
  every wait of a layer is bounded by the clients' timeouts. Arrivals, disconnects and
  restarts are never owed.
- AnswerCache and RagPipeline state no liveness property and no fairness.

## 6. Proofs

Every theorem holds for all values of the constants that satisfy the module's named
assumption (`IngestionAssumption`, `ProcessingAssumption`, `CorpusStoreAssumption`,
`NoneIsNoRevision`, `AnswerCacheAssumption`, `NoneIsNoPrint`, `RepliesAreAnswers`,
`CandidatesAreTyped`, `CorporaAreIndexed`, `CandidatesAreScored`, `TextsAreLists`,
`RunsAreTyped`, `DataSetsAreTyped`, and those of `QueryService`), which type the parameters, say that `None` is no other value (in
`AnswerCache` neither a fingerprint, an outcome nor a key), and that a process serves finitely
many requests (`RequestsAreFinite`). The inductive invariants `TypeInv`, `KnownInv`,
`RowInv`, `CutInv`, `SlugInv`, `SourceInv` and `CacheInv` were also checked by TLC on the
instance of the component's run; the others strengthen properties TLC checks there.
The proof modules state `TypeOK` as a theorem (`TypesHold`, in `QueryServiceProofs`
`TypeCorrect`, in `AnswerCacheProofs` `GraphStatesAreWellFormed`), but for that of the
recovery.

**`IngestionProofs`.** `TypeCorrect` strengthens `TypeOK` with what a worker's
position says of its locals (`WorkerOK`). `NewestIsActive` is not inductive: the
commit writes what the transaction read many steps earlier. `KnownInv` adds that the
foreign key keeps unregistered documents without versions (`NoNewDocument`,
`ItemsKnown`), that row locks are held by transactions on their document, and by all
of those (`LocksHeld`), and so that what a transaction has read of the active version
and of the hash is still so (`ReadsCurrent`). `NewestActive`, `VersionsAdvance` and
`IngestionRefines` follow from it, under the assumption `OnlyKnownDocuments`:
untracked deliveries only concern documents registered before. It is needed: two
first deliveries of a document without a row share no lock. `OnePast` is `LocksHeld`
read off where every document is registered. The rest needs no assumption on the
deliveries:

- `UniqueActive`: the unique indexes alone suffice.
- `VersionsBacked`, by `BackedInv`: a fetched payload's file is written before its
  rows and no rollback removes it (`WorkerBacked`); a `raw_payloads` row appears only
  together with a version of its hash (`PayloadsAreVersions`), so that a replayed
  payload, whose row exists, is always found to be a duplicate.
- `SuccessStored`: a successful run names a hash its document's versions hold
  (`SuccessInv`), and no step takes a hash away (`HashesStay`).
- `NothingDropped`, by `DropInv`: each payload of a worker's batch is still to come, at
  hand, or accounted for (`BatchCovered`). What is accounted for stays so because a
  failed run's row is written by nobody: the worker that owns a run has not failed it,
  and run ids are not shared (`RunsOwned`).
- `TerminalStays`: the same of every terminal status, where nothing fails. A lost
  acknowledgement of the commit turns "registered" into "failed", hence the condition.

The module ends with `IngestionRecovery`. With version rows being lost, `PayloadsAreVersions` is
false, and with it `VersionsAreBacked`. What remains is that every stored payload's
file exists (`PayloadsReadable`) and that a replaying worker's payload is stored;
`RestoredBacked` follows. `RecoveryUnique` repeats `UniqueActive`: a loss empties a
document's rows, which no uniqueness can mind.

**`ProcessingProofs`.** `VectorsTraceable` proves `VectorsHaveRows`
from `RowInv`: a row belongs to a version that yields its chunk (`RowsBelong`), so
that version's next persist, the only one that deletes the row, inserts it again; and
a worker past `PersistChunks` finds rows for all it made (`RowsBeforeVectors`).

`Redelivery` proves `RedeliveryIsHarmless` for any number of workers in any number of
processes, and what it says depends on the processes: the rows and the two marks of a
document that is done are complete however Celery places its workers, its vectors only if
no second process opened the store (`SingleProcess`), as `chroma_store.py:12` demands.
What one worker undoes for another it does again itself: whoever deletes the vectors adds
them, whoever resets the marks sets them. `Repaired` says so position by position: once
somebody is past a step, its effect is complete or a worker is at a position from
which it will complete it (`Rows`, `Embedded`, `Indexed`, and under `SingleProcess`
`Vectors`, since then no other process has the store open and `Store` does what was
asked); and a task ends only when somebody has got to work (`WorkGoesOn`). It assumes that
there is a task.
`SerialPublishes` and `SerialStaysPublished` are under `OneWorker`, as their run is:
what the worker wrote since it began is still there (`Written`), and a published
document is not processed again (`NotAgain`). With two workers both are false.

**`CorpusStoreProofs`.** `TypeCorrect` includes that a transaction holding a row lock
still has a live document under it. `ChunksFollowBody` is inductive in the form
`CutInv`, chunk by chunk. `OnePerSource` rests on `SourceInv`: one transaction per
slug base (`Serialized`), a document carries the slug its source hints
(`SourceNamesSlug`), hence whoever found a document holds the lock of its slug and
the row it read is current (`RowIsCurrent`), and a source past its lookup names only
the document found (`OnlyFoundDocument`). `StoreImplementsRevisions` adds that a slug
names one live document: then every step changes the entry of one slug as
`Add`, `Revise`, `Index` or `Remove` does, or none. Both are under
`OneSlugPerSource`, as the property itself is; without it the refinement is false.

**`AnswerCacheProofs`.** The argument follows fingerprints, not requests. A list of
versions that was once true can only fall behind (`Past`); a text read after the list
was made belongs to the listed version or a later one, so it is the current text
whenever the listed version is current (`Backed`). `Inv` says so of every state object,
the stored row, every list and row in a request's hands, and every payload being saved;
`ChangeMovesOn` and `PastMovesOn` show that a change of the corpus keeps it, except for
a slug that lost its document, and `ResumeWrites` that every continuation of
`ensureGraph` does. `GraphIsCurrent` and `VectorsAreCurrent` read it off for a
fingerprint that is the corpus' own.

Its second half is about the cached answers and their ratings. `remember` filters the list (`Others`), and what a filter of a sequence
of any length keeps needs induction: `NaturalsBySteps` gives it for a set of naturals,
`OthersIsFilter` and `OthersIsPart` use it. `CacheInv` adds to `Inv` two parts.
`KeptStates`: an answer that is not marked late quotes what its fingerprint stands for,
in every list of answers there is, in memory, in the row and in the hands of a request;
`KeptWrites` says the same of what a continuation of `ensureGraph` is about to write.
`FreshStates`: while a request is still loading the row, nobody has written to the
process' state object; otherwise the row, which may be older than a rating, would replace
it, and `RatingsOutliveAnswers` would be false. `Rates` is what a list of answers tells of
a question's rating, `SavedRates` and `RatedCache` say which steps change it: only a
rating does.

**`QueryServiceProofs`.** Five invariants, each on top of `TypeInv`, which adds to the
types that a thread that is idle or done holds no build and one that runs on a pipeline
holds one (`Holding`). `PipelineUnique`
needs that a thread between `Build` and `Publish` names a build of the process
(`Builder`), and that the warm-up runs alone and, unless it failed, leaves a pipeline
behind (`WarmUp`). `StreamsEndOnce` relates the events sent to the place a request is
at and the endpoint it came by (`Consistent`). `RecordsStay` needs that a reply is the
last thing a request does (`RepliesLast`), and that without overlap at most one request
is between load and write and will write what the file held (`FeedSerial`).
`ObservationsCorrect` is about collectors of which every build has its own. Their counts
in sum are the number of pairs of a build and a number up to its count (`Upto`), so that one
more of one build is one more pair (`OneMore`, `OneBuild`). `CountInv` has two parts:
by `Sums`, each counter of the process and the requests that are between the two updates
(`Pending`) make up that number; by `Rates`, the gauge comes from a pair that was read from
one collector (`RateOf`) and has since only been overtaken. `TraceInv` follows a trace from
the list that was just appended to, over the steps of the trim, to the last layer
(`Faithful`, `LayersOK`): it holds exactly the layers its request has finished.

**`RagPipelineProofs`.** `AnswersKeepTheContract` proves `AnswerContract` for any set of
replies, any context and any length of answer. Its assumption `RepliesAreAnswers` types
the replies and says that `Scale` is fine enough for the claims of the longest one: with
a coarser scale two rates that differ would be rounded to one, as the program's floating
point would for astronomically many claims. Its parts are lemmas about functions:

- `AnswersOpen`, `StreamsAgree`: `NormalizeCleans` follows a reply through the four
  passes of the normalization; no marker is left unwritten and no heading follows one
  (`Clean`). A second normalization of a clean answer, which is what happens after the
  markers that do not resolve are stripped, keeps every marker (`CleanKeepsCites`). So
  the answer cites what `ParseCitations` found, and each of it is in the context.
- `ScoresHonest`, `JudgedFairly`: an answer is cut into at most one sentence more than
  it has pieces (`SentencesWithCitationsAre`), each claim is judged in one of the
  branches of `evaluate_claim` (`EvaluateClaimIs`), the four labels partition the claims
  (`LabelsCount`), citations are at least those of any claim and at most the claims
  times the longest (`CitationCountBounds`), and a rate is zero exactly when what it
  counts is absent (`RateSeen`), grows with it (`RatesGrow`), and with its complement
  gives the whole but for the rounding (`RatesAddUp`).

Loops and folds are recursive functions here, and that one exists at all is proved
(`LoopExists`, `FoldExists`), by induction over a set of naturals (`NaturalsBySteps`).

Its second half is about contexts. `ContextsKeepTheContract` proves `ContextContract` for any
set of candidates that `CandidatesAreTyped` types: any number of chunks with any texts
and integer scores, and any budgets, thresholds and weights. The inductive invariant,
`ContextInv`, says that an assembled context is what `Assemble` computes for a candidate
of the call; the rest, `ContextsKeepToTheirBudget`, is about that operator:

- Sorting by score is a permutation whatever the ties (the places that `Ranks` assigns
  are the numbers up to the length, each once). So `Deduplicate`, `SelectTopK`,
  `SelectDiverse` and `PackByBudget` each return a list taken from their input without
  taking a place twice, and what one of them takes from a list without near duplicates
  has none (`ApartTaken`); by `SelectedHolds` the same is so of every strategy.
- Token sums are numbers of pairs (`Weight`), so that they compare under a permutation
  and under a choice of places. The first loop of `pack_by_budget` never exceeds the
  budget, and what it leaves out does not fit: hence the second loop, which offers the
  same chunks again, packs nothing (`PackedTwiceIs`).
- `CompressShortens`: the header lines and the sentences compression keeps are disjoint
  parts of the chunk, and joining them again takes no more characters than separated them
  there. It never raises the token estimate, so a packed context keeps to its budget
  after compression as well.

**`RetrievalProofs`.** `RetrievalKeepsTheContract` proves `RetrievalContract`. The
inductive invariant, `RetrievalInv`, says of each call what its operator computes for
the arguments of the job; each part of the contract is a theorem about such an operator:

- `SearchHolds`, for two indexes of any size under `CorporaAreIndexed` (within an index
  an id names one chunk; the two may differ). What a retriever returns names no chunk
  twice (`DenseIdentified`, `KeywordIdentified`). The points for a place fall with the place, also as
  whole numbers (`PointsFall`), so a chunk that is nowhere behind another has no fewer
  points (`AheadScores`); where they have the same number the stable sort decides, and
  dense results come before the ones only keyword search found (`FusionKeepsOrder`).
- `RescoreHolds`: normalizing keeps the order and the ties of the model's scores, so
  that sorting moves nothing. It needs that the scale tells the scores apart
  (`CandidatesAreScored`), as floating point does.
- `LookupHolds`: the two ways to ask a retriever give the same texts, and fail together.
- `EmbedHolds`: the batches are cuts of the list at increasing places (`BatchesCut`), so
  their embeddings in a row are those of the list (`BatchesEmbedAll`).
- `TokenizeHolds`, for texts over any characters (`TextsAreLists`). Words, segments, runs
  and clusters are folds; for each there is a function that gives the list after every
  character (`SegmentTrace`, `RunTrace`), and an invariant of it: two neighbours of one
  script are never parted (`WordsSplit`, `SegmentsSplit`, `RunsSplit`, `ClustersSplit`),
  and no part begins with a mark unless the whole does (`Headed`). Then what two
  neighbours alone are cut into is computed (`TokensOfTwo`), and it is among the tokens
  of the text.

**`EvaluationProofs`.** `EvaluationsKeepTheContract` proves `EvaluationContract`, for any
data sets and comparisons that `DataSetsAreTyped` and `RunsAreTyped` type. These say more
than types in three places: within an index an id names one chunk; the scale is finer than
a corpus and a sample's relevant chunks together are many, so that no hit is rounded away;
and a pipeline reranks to at most what it retrieves (`rerank_k <= top_n`), as the defaults
of `parameters.py` and `factory.py` do. The last is needed: a pipeline that retrieves fewer
is compared to another baseline than the mode is, and their lifts differ.

- `GatesHold`: a metric is critical at its own level or at that of its worst tenth, and any
  critical one fails the gate, whatever the baseline says.
- `ComparisonHolds`: the composite is a quotient of two sums over the metrics in use, each
  a function of the set of metrics (`SumsBounded`); the best of a list is one of it.
- `SameBaseline`: without fusion what a mode retrieves for a small number is the beginning
  of what it retrieves for a large one (`KeywordBegins`).
- What each stage hands to the next makes the numbers rates: ranked lists of rated chunks
  with distinct ids (`DenseFinds`, `KeywordFinds`, `RerankRates`), from which the ranking
  scores are between nought and one, and nought together (`RankingScoresAre`); contexts
  with texts and positions (`ContextLabelled`), and answers made of the pieces the judge
  reads (`MockAnswerTyped`).
- `EvaluationInv`, the inductive invariant, says of each call what it returned, and of an
  evaluation under way what each finished layer holds (`LayersReturn`); `LayerIs` shows
  that a layer leaves those before it alone.

Model-checked only: all liveness properties (fairness and `ENABLED` are outside the
prover); and of the contracts of `rag_pipeline`, `ChunksKeepEverything`: an offset is
followed through five recursions over one text, from the separators a document is split at
to the words of the source.

## 7. Where code and documentation disagree

Kept as violation runs:

- `ingestion_new_document`: the first payload of a document violates the foreign key
  of `ingestion_runs` (`pipeline.py:300` against migration `003:8`), and so does the
  handler that would record it. `lifecycle.py:65` says new documents are registered.
- `processing_half_indexed`: a version registered while its predecessor is indexed is
  published without vectors (`processing/pipeline.py:157`);
  `phase5-indexing-architecture.md:31` says "never publish half-indexed documents".
- `answer_cache_stale`: an answer retrieved before a change of the corpus is cached
  under the fingerprint after it (`persist.server.ts:162`); line 103 says a changed
  source invalidates cached answers.

Met while modelling, bounded out of the passing runs where they would break a
property, and not runs of their own:

- A commit whose acknowledgement is lost: the handler overwrites REGISTERED by FAILED
  (so `TerminalIsFinal` is checked without faults).
- Two unserialized first deliveries may leave no active version; a replay after a loss
  may activate an older payload (`pipeline.py:691-693`).
- Vectors of an old version stay after a swallowed delete failure
  (`indexing/service.py:221-225`); a failed index leaves partial vectors; no retry of
  `process_document` can succeed, as the document is no longer REGISTERED; nothing in
  the repository enqueues that task; EMBEDDED is never set.
- ChromaDB is for "single-process access only (no concurrent writers)"
  (`chroma_store.py:12`, `17`; `phase5-indexing-architecture.md:119`), but `process_document`
  runs in whatever processes Celery has, and no lock or setting keeps them apart. (The API
  keeps an index of its own in another directory, unless `RAG_CHROMA_DIR` and
  `CHROMA_PERSIST_DIR` name the same one.) So `RedeliveryIsHarmless` claims vectors under `SingleProcess`
  only: with two processes `processing_overlap` reaches done documents without some.
- A run that failed validation records no payload hash (`pipeline.py:223-230`), so which
  payload it was about cannot be told from the row. Of a malformed payload, as
  `ingestion_update` has one, `NothingSilentlyDropped` therefore claims only that a failed
  run without a hash is on record.
- Web: two ingests of one URI under different slug hints can reuse a version
  (`store.server.ts:127-129`, `189`); a document deleted and ingested again repeats its
  fingerprint with another text (hence `Traceable`); a request lost after its last
  chunk leaves its document unmarked; a cached answer can be blanked by a rejection
  while it is being streamed (`query.server.ts:227`, `232`); instances overwrite each
  other's `graphify_state` row; a refresh of the title alone changes neither version
  nor fingerprint. Two requests with older lists can rebuild the state around a third
  one's learning, which then keeps vectors of a document under the list from before it;
  after its removal that list is the current one (so `VectorsFollowCorpus` leaves out
  documents that came and went).
- Query service: `_ensure_pipeline` (`service.py:91`) takes no lock, so after a failed
  warm-up several requests build, each indexing all documents once more under new ids
  (`PipelineFactory.build`); labels are set apart from the pipeline, so `health` may
  name the wrong backend. The failure feed is a read, modify, write without a lock
  (`failure_feed.py:69-86`, `146`): two recordings lose or garble records, and a crash
  between `open("w")` and the write leaves an empty file, after which every low-scored
  evaluated query gets a 503. Streams are neither counted nor recorded, and a query that
  raises is not counted. Each build makes a collector (`factory.py:196`) while the
  registry's counters belong to the process: after a failed warm-up no collector counts all
  queries, and the gauge is the rate of whichever set it last. The dashboard of `main.py:43`
  has a collector of its own and stays at zero. Two queries that trim the traces at once can
  choose the same oldest one; the second deletion raises `KeyError` (`tracing.py:220-224`)
  and an otherwise good query gets a 503.
- Streamed answers: `stream_query` adds a "[Source 1]" nobody wrote and keeps markers
  that resolve to nothing (`service.py:449-461`), which `generation/service.py:75-78`
  says are removed; `StreamAgrees` is therefore about answers with only good markers. A
  refusal keeps the model's markers with no citation behind them. In
  "A. [Source 1] B. [Source 2]" the first source is attached to B (`citations.py`).
- Chunking: the offsets of the structure-aware chunker drift and are left out of
  `Covered`; a chunk with overlap may exceed the maximum it is configured with. The
  semantic chunker moves a start back by the whole overlap (`semantic.py:453-459`), where
  the recursive one clamps it to the source of the previous span, as "the start goes
  negative" otherwise (`recursive.py:285-288`): with an overlap nearly as large as a
  chunk, an offset of -1 is reached in `rag_pipeline`.
- Context: `top_k`, `dedup_only` and `mmr` ignore the token budget; the second pass of
  `pack_by_budget` never adds a chunk (`PackedTwiceIs`).
- Evaluation: the gate passes no baseline samples, so no difference is ever
  significant; it takes the tenth percentile also where lower is better; its failure
  message quotes a limit no level uses; end-to-end latency counts retrieval twice;
  `mrr_lift` is the rank itself; the judge's "no citation" verdict counts a cited claim
  as uncited; a metric that is missing passes.
- Embeddings: the retriever falls back to words if its model was missing when it was
  built, not when it is lost later; the words' positions are then returned as ids.

## 8. What is not modelled

Left for later models, as each needs a state space and a run of its own: the rooms
(negotiation of a pair over a lossy relay, watchdog, overlapping polls), the memory
store, the query stream of the web application and the fallback of its database.
`PROJECT.json` lists their hazards.

Left out for good: an API process configured to open the directory of the workers'
ChromaDB; network fetchers and model providers (their outcomes are choices or
inputs), extraction patterns, scores that are real numbers (BM25, cosine, rerankers:
the models rank by given scores), the web application's own chunking and ranking
functions, user interface, authentication wiring, and placeholders. In the modelled
components: formatting, logging, prompt wording, titles and paths, hit counts and
feedback memory of the sidecar, the memory fallback of the store, histograms and the
dashboard, the capacity model, report formatting and the promotion of failures.
`PROJECT.json` gives the reason per component.

## 9. Running

    tlc -workers 2 -config ingestion_update.cfg MCIngestion
    tlapm IngestionProofs.tla

Each `.cfg` belongs to the MC module `PROJECT.json` names. The largest runs,
`answer_cache` (1.4 million states) and `query_service` (570,000 states, with a
liveness property), take about two minutes each; `processing_overlap` has 540,000 states;
`rag_pipeline` has 230,000, one or two per input; the others take a few seconds to a minute. A proof module
takes some minutes from nothing, `RagPipelineProofs` and `RetrievalProofs` a quarter of
an hour each.
