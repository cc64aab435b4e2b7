----------------------------- MODULE RagPipeline -----------------------------
(***************************************************************************)
(* The Python pipeline as a caller uses it, one call at a time: a job is a *)
(* call with its arguments, out what it returns.  The calls have no state  *)
(* in common: the service that has is QueryService.                        *)
(***************************************************************************)
EXTENDS ChunkingService, SemanticChunker, Benchmarks, Embeddings, Tokenizer

CONSTANTS Documents,    \* [text, title] to chunk
          Comments,     \* lists of comments
          Corpora,      \* [index, corpus, query, k, filter] to search
          Batched,      \* [texts, size, server] to embed
          Words_,       \* texts to tokenize
          Candidates,   \* [query, chunks, config] to assemble
          Replies,      \* [context, content, judged] of a model
          Rescored,     \* [candidates, scores, k] to rerank
          Lookups,      \* [chunks, query, sim, k, first, later]: server at first and later
          Streams,      \* [server, lines] a model streams
          Judged_,      \* [ragas, judged, contexts, truths] to evaluate
          Tasks,        \* [samples, floors, metrics] by task
          Runs,         \* [rows, configs, documents, samples] to compare
          Reports,      \* [metrics, p10, thresholds, baseline] to gate
          DataSets,     \* [samples, pipeline, thresholds, baseline] to evaluate
          ChunkerConfig, EmbeddingConfig

(* A chunker is built from a configuration its checks let through.         *)
ASSUME ChunkerConfigValid == ConfigValid(ChunkerConfig) /\ SemanticConfigValid(ChunkerConfig)

(* A reply is an answer in a context that is a list, and the scale tells   *)
(* the rates of its claims apart, as the program's floating point does.    *)
ASSUME RepliesAreAnswers ==
    \A r \in Replies :
        /\ r.context \in Seq(ToSet(r.context))
        /\ r.content \in Seq(AnswerPieces)
        /\ (Len(r.content) + 1) * ((Len(r.content) + 1) * Len(r.content)) <= Scale

(* A candidate is a list of chunks with texts and scores, and a            *)
(* configuration has one of the six strategies and budgets that count.     *)
Strategies == {"top_k", "dedup_only", "mmr", "budget", "full", "full_compressed"}
ASSUME CandidatesAreTyped ==
    \A r \in Candidates :
        /\ r.query \in Seq(Int)
        /\ r.chunks \in Seq(ToSet(r.chunks))
        /\ \A i \in DOMAIN r.chunks : r.chunks[i].text \in Seq(Int) /\ r.chunks[i].score \in Int
        /\ r.config.strategy \in Strategies
        /\ r.config.max_chunks \in Nat /\ r.config.max_tokens \in Nat
        /\ r.config.per_chunk_max_tokens \in Nat /\ r.config.min_chunk_tokens \in Nat
        /\ r.config.dedup_threshold \in Int /\ r.config.mmr_lambda \in Int
        /\ r.config.enable_compression \in BOOLEAN

(* The chunks of the two indices have identities, texts and similarities;  *)
(* a cross-encoder scores each candidate, and the scale tells its scores   *)
(* apart; texts to embed and to tokenize are lists, and a batch takes one. *)
ASSUME CorporaAreIndexed ==
    \A r \in Corpora :
        /\ r.query \in Seq(ToSet(r.query)) /\ r.k \in Nat
        /\ \A chunks \in {r.index, r.corpus} :
              /\ chunks \in Seq(ToSet(chunks))
              /\ \A i, j \in DOMAIN chunks : chunks[i].id = chunks[j].id => i = j
        /\ \A i \in DOMAIN r.index : r.index[i].sim \in Int
        /\ \A i \in DOMAIN r.corpus : r.corpus[i].text \in Seq(ToSet(r.corpus[i].text))
ASSUME CandidatesAreScored ==
    \A r \in Rescored :
        /\ r.candidates \in Seq(ToSet(r.candidates)) /\ r.k \in Nat
        /\ r.scores \in Seq(Int) /\ Len(r.scores) = Len(r.candidates)
        /\ \A i, j \in DOMAIN r.scores : r.scores[i] - r.scores[j] <= Scale
ASSUME TextsAreLists ==
    /\ \A r \in Batched : r.texts \in Seq(ToSet(r.texts)) /\ r.size \in Nat \ {0}
    /\ \A w \in Words_ : w \in Seq(ToSet(w))

(* A comparison has rows of rates, and lists of settings, documents and    *)
(* samples with the words of a true answer.                                *)
ASSUME RunsAreTyped ==
    \A r \in Runs :
        /\ r.rows \in Seq(ToSet(r.rows)) /\ r.rows # <<>>
        /\ \A i \in DOMAIN r.rows : r.rows[i].score \in 0..Scale
        /\ r.configs \in Seq(ToSet(r.configs)) /\ r.documents \in Seq(ToSet(r.documents))
        /\ r.samples \in Seq(ToSet(r.samples))
        /\ \A i \in DOMAIN r.samples : r.samples[i].truth \in Seq(Int)

(* A data set has questions and references, and fewer relevant chunks than *)
(* the scale tells apart; its pipeline has two indices like those of a     *)
(* search, a context's configuration, and reranks at most what it          *)
(* retrieves, as it does with its defaults.                                *)
ASSUME DataSetsAreTyped ==
    /\ Instruction \in Seq(Int)
    /\ \A r \in DataSets :
          LET p == r.pipeline
              c == p.context
          IN  /\ \A n \in DOMAIN r.samples :
                    /\ r.samples[n].question \in Seq(Int)
                    /\ r.samples[n].references \in Seq(Seq(Int))
                    /\ IsFiniteSet(r.samples[n].relevant)
                    /\ Len(p.corpus) + Cardinality(r.samples[n].relevant) <= Scale
              /\ {"index", "corpus", "mode", "top_k", "top_n", "rerank_k", "context"}
                    \subseteq DOMAIN p
              /\ \A chunks \in {p.index, p.corpus} :
                    /\ chunks \in Seq(ToSet(chunks))
                    /\ \A i, j \in DOMAIN chunks : chunks[i].id = chunks[j].id => i = j
                    /\ \A i \in DOMAIN chunks : chunks[i].text \in Seq(Int)
              /\ \A i \in DOMAIN p.index : p.index[i].sim \in Int
              /\ p.top_k \in 0..Scale /\ p.top_n \in Nat
              /\ p.rerank_k \in Nat /\ p.rerank_k <= p.top_n
              /\ c.strategy \in Strategies /\ c.max_chunks \in Nat /\ c.max_tokens \in Nat
              /\ c.per_chunk_max_tokens \in Nat /\ c.min_chunk_tokens \in Nat
              /\ c.dedup_threshold \in Int /\ c.mmr_lambda \in Int
              /\ c.enable_compression \in BOOLEAN

VARIABLES job, out
vars == <<job, out>>
None == [call |-> "none"]
Jobs(call, inputs) == [call : {call}, of : inputs]

Init == /\ job \in UNION {Jobs("document", Documents), Jobs("recursive", Documents),
                          Jobs("semantic", Documents), Jobs("fallback", Documents),
                          Jobs("comments", Comments), Jobs("search", Corpora),
                          Jobs("embed", Batched), Jobs("tokenize", Words_),
                          Jobs("assemble", Candidates), Jobs("answer", Replies),
                          Jobs("rescore", Rescored), Jobs("lookup", Lookups),
                          Jobs("stream", Streams), Jobs("judge", Judged_),
                          Jobs("tasks", Tasks), Jobs("compare", Runs),
                          Jobs("modes", DataSets), Jobs("gate", Reports), Jobs("evaluate", DataSets)}
        /\ out = None
Return(call, result) ==
    /\ out = None
    /\ job.call = call
    /\ out' = result
    /\ UNCHANGED job

x == job.of
(* ChunkingService.chunk_document, and the chunkers nothing but a          *)
(* configuration selects.                                                  *)
ChunkADocument == Return("document", ChunkDocument("github_issue", x.title, x.text, ChunkerConfig))
ChunkRecursively == Return("recursive", RecursiveChunks(x.text, ChunkerConfig))
ChunkSemantically == Return("semantic", SemanticChunks(x.text, ChunkerConfig, TRUE, 0..Len(x.text)))
ChunkWithoutModel == Return("fallback", SemanticChunks(x.text, ChunkerConfig, FALSE, {}))
ChunkSomeComments == Return("comments", CommentChunks(x, ChunkerConfig, TRUE))
Find == Return("search",
    [dense |-> DenseRetrieve(x.index, 2 * x.k, x.filter),
     keyword |-> KeywordRetrieve(x.corpus, x.query, 2 * x.k, x.filter),
     hybrid |-> Retrieve(x.index, x.corpus, x.query, "hybrid", x.k, x.filter)])
EmbedSome == Return("embed",
    [batched |-> EmbedBatch(x.texts, x.size, FALSE, EmbeddingConfig, x.server),
     whole |-> EmbedDocuments(x.texts, EmbeddingConfig, x.server)])
TokenizeSome == Return("tokenize", [tokens |-> Tokenize(x)])
AssembleSome == Return("assemble", Assemble(x.query, x.chunks, x.config))
AnswerSome == Return("answer",
    LET r == Answer(x.context, x.content)
    IN  [result |-> r,
         scores |-> EvaluateAnswer(<<2>>, r, x.context, x.judged)])
Rescore == Return("rescore",
    [plain |-> CrossEncode(x.candidates, x.scores, x.k, FALSE),
     unit |-> CrossEncode(x.candidates, x.scores, x.k, TRUE)])
(* A retriever that is built while the server is in one state and asked    *)
(* when it is in another; and the vectors the default index has instead.   *)
LookUp == Return("lookup",
    LET found(ready) ==
            [ready |-> ready,
             rows |-> RetrieveWithScores(x.chunks, x.query, x.sim, x.k, ready, EmbeddingConfig, x.later),
             models |-> CompareModels(x.chunks, x.query, [nomic |-> x.sim], x.k, [nomic |-> ready],
                                      EmbeddingConfig, x.later),
             vector |-> TfidfVector(Column(x.chunks, "text"), x.query, 3,
                                    [t \in ToSet(x.query) |-> t])]
    IN  found(RetrieverReady(x.chunks, EmbeddingConfig, x.first)))
StreamSome == Return("stream",
    [streamed |-> OllamaStream(x.server, x.lines),
     ollama |-> OllamaGenerate(x.server, Column(x.lines, "content")),
     openrouter |-> OpenRouterGenerate(TRUE, x.server, <<>>)])
JudgeSome == Return("judge",
    [retrieval |-> EvaluateRetrieval(x.ragas, x.judged, x.contexts, x.truths),
     full |-> EvaluateFull(x.ragas, x.judged, x.contexts, x.truths),
     samples |-> EvaluatePerSample(x.ragas, [k \in DOMAIN x.truths |-> x.judged],
                                   x.contexts, x.truths)])
RunTasks == Return("tasks",
    EvaluateTasks(x.samples, x.floors, x.metrics))
CompareRuns == Return("compare",
    [report |-> Compare(x.rows),
     chunking |->
        LET chunked == [c \in ToSet(x.configs) |-> [d \in DOMAIN x.documents |->
                <<x.documents[d], SubSeq(x.documents[d], 1, c.chunk_size)>>]]
        IN  RunComparison(x.samples, chunked, x.configs, 2, "absent", NoScores),
     composite |-> Composite([retrieval_mrr |-> x.rows[1].score, retrieval_ndcg |-> Scale,
                              faithfulness |-> 0]),
     overlap |-> SweepOverlap(100, x.tenths)])
CompareSettings == Return("modes",
    [modes |-> CompareModes(x.samples, x.pipeline, <<"dense", "keyword", "hybrid">>),
     strategies |-> CompareStrategies(x.samples, x.pipeline.corpus,
        RetrievedFor(x.samples, x.pipeline, x.pipeline.top_n),
        <<[x.pipeline.context EXCEPT !.strategy = "top_k"], x.pipeline.context>>)])
GateSome == Return("gate", Gate(x.metrics, x.p10, x.thresholds, x.baseline))
(* EvaluationPlatform.run, a layer at a time; then the report and its gate.*)
Layers == <<"retrieval", "rerank", "context", "answers", "probes", "result", "gate">>
Layer(k, scores) ==
    /\ job.call = "evaluate"
    /\ DOMAIN out = DOMAIN None \cup {Layers[i] : i \in 1..(k - 1)}
    /\ out' = [l \in DOMAIN out \cup {Layers[k]} |-> IF l = Layers[k] THEN scores ELSE out[l]]
    /\ UNCHANGED job
RunRetrieval == Layer(1, RetrievalLayer(x.samples, x.pipeline))
RunRerank == Layer(2, RerankLayer(x.samples, x.pipeline))
RunContext == Layer(3, ContextLayer(x.samples, x.pipeline))
RunAnswers == Layer(4, AnswerLayer(x.samples, x.pipeline))
RunProbes == Layer(5, ProbeLayer(x.samples, x.pipeline))
Report == Layer(6, PlatformResult(Samples(out.retrieval, out.context, out.answers),
                                  out.retrieval, out.rerank, out.probes))
GateReport == Layer(7, Gate(out.result.metrics, out.result.p10, x.thresholds, x.baseline))

Next == \/ ChunkADocument \/ ChunkRecursively \/ ChunkSemantically \/ ChunkWithoutModel
        \/ ChunkSomeComments \/ Find \/ EmbedSome \/ TokenizeSome \/ AssembleSome
        \/ AnswerSome \/ Rescore \/ LookUp \/ StreamSome \/ JudgeSome \/ RunTasks \/ CompareRuns
        \/ CompareSettings
        \/ GateSome \/ RunRetrieval \/ RunRerank \/ RunContext \/ RunAnswers
        \/ RunProbes \/ Report \/ GateReport
Spec == Init /\ [][Next]_vars

Returned(call) == out # None /\ job.call = call

(***************************************************************************)
(* Properties.                                                             *)
(***************************************************************************)
(* No letter of a document, an issue's title or a comment is lost on the   *)
(* way into chunks; a document fails only when it has none; and the        *)
(* recursive and the semantic chunkers' offsets cover the source text they *)
(* were remapped to, as the citations of chunk.start and .end need.  Only  *)
(* the semantic chunker's may begin before the text, for want of a clamp.  *)
ChunksKeepEverything ==
    /\ Returned("document") =>
          IF out.success THEN NoLetterLost(out.chunks, x.title \o x.text)
          ELSE ~ValidInput(x.text)
    /\ \A call \in {"recursive", "semantic", "fallback"} : Returned(call) =>
          /\ NoLetterLost(out.chunks, x.text)
          /\ Covered(out.chunks, x.text)
          /\ \A k \in DOMAIN out.chunks :
                \/ InSource(out.chunks[k], x.text)
                \/ call = "semantic" /\ BeforeSource(out.chunks[k], x.text)
    /\ Returned("comments") => \A i \in DOMAIN x : \A c \in Words(x[i].body) :
          \E k \in DOMAIN out.chunks :
              out.chunks[k].author = x[i].author /\ Contains(out.chunks[k].text, c)

(* What retrieval finds: fusion keeps the order both retrievers agree on,  *)
(* a filter loses no chunk that matches it, batches embed what one call    *)
(* would, two characters side by side are found by searching for them,     *)
(* normalized scores rank as the model's do, and a retriever falls back to *)
(* words only if its model was not there at first, not when it is lost.    *)
RetrievalContract ==
    /\ Returned("search") =>
          /\ FusionRespectsBoth(out.dense, out.keyword, out.hybrid)
          /\ FilterLosesNothing(out.keyword, x.corpus, x.query, 2 * x.k, x.filter)
    /\ Returned("rescore") =>
          /\ Ids(out.plain) = Ids(out.unit)
          /\ \A k \in DOMAIN out.unit : out.unit[k].score \in 0..Scale \/ Len(x.scores) = 1
    /\ Returned("lookup") =>
          /\ out.rows.ok <=> ~out.ready \/ x.later = "up"
          /\ out.rows.ok => Column(out.rows.vectors, "text") = out.models.nomic.vectors
    /\ Returned("embed") => out.batched = out.whole
    /\ Returned("tokenize") => AdjacentMatch(x) /\ MarksKeepTheirBase(x)

(* The context of a prompt keeps to its budget, says what became of every  *)
(* chunk it was given, and a deduplicated one has no near duplicates.      *)
ContextContract ==
    Returned("assemble") => /\ WithinBudget(out, x.config)
                            /\ Accounted(out, x.chunks, x.config)
                            /\ Distinct(out, x.config)

(* Every marker of an answer opens the chunk the model saw under it; the   *)
(* stream gives the same answer when the model cited well; and only what a *)
(* citation of the answer backs counts as faithful.                        *)
AnswerContract ==
    Returned("answer") => /\ CitationsOpen(out.result, x.context)
                          /\ StreamAgrees(x.context, x.content)
                          /\ ScoresHonest(out.scores, out.result, x.context)
                          /\ JudgedFairly(out.scores, x.context, x.judged)

(* The gate passes nothing whose worst tenth is critical, also as the last *)
(* step of an evaluation, and the numbers it is given there are rates that *)
(* agree on whether anything was found.  An evaluation without its judge   *)
(* is one of words, tasks pass together, and who beats all others wins.    *)
(* The comparison of modes, which retrieves its baseline a second time,    *)
(* agrees with the pipeline's own but for the fusion of longer lists.      *)
EvaluationContract ==
    /\ Returned("gate") => GateHolds(out, x.metrics, x.p10, x.thresholds)
    /\ Returned("judge") =>
          /\ Len(x.contexts) = Len(x.truths) /\ x.ragas # "ok" => out.retrieval.ok
          /\ Len(x.contexts) = Len(x.truths) /\ x.ragas \in {"absent", "ok"} =>
                out.full = out.retrieval
          /\ x.ragas = "absent" /\ out.full.ok =>
                out.full.recall = Average(Column(out.samples, "recall"))
    /\ Returned("modes") => \A k \in DOMAIN out.modes.results :
          LET r == out.modes.results[k] IN r.mode # "hybrid" => r.ndcg_lift = r.pipeline_lift
    /\ Returned("tasks") => (out.all_passed =>
          \A n \in DOMAIN x.samples : TaskOf(x.samples[n]) \in TaskTypes =>
              out.failures[TaskOf(x.samples[n])] = {})
    /\ Returned("compare") =>
          /\ out.report.beats_all =>
                \E k \in DOMAIN x.rows : x.rows[k].production /\ x.rows[k].name = out.report.winner
          /\ out.composite \in 0..Scale
          /\ \A k \in DOMAIN out.chunking.best : out.chunking.best[k] \in ToSet(x.configs)
    /\ Returned("evaluate") /\ "result" \in DOMAIN out =>
          RatesBounded(out.result.samples) /\ RetrievalScoresAgree(out.result.samples)
    /\ Returned("evaluate") /\ "gate" \in DOMAIN out =>
          GateHolds(out.gate, out.result.metrics, out.result.p10, x.thresholds)
==============================================================================
