------------------------------ MODULE Benchmarks ------------------------------
(***************************************************************************)
(* libs/rag/evaluation: the benchmarks of the layers, the RAGAS wrapper,   *)
(* and the runs over a data set (platform.py, task_eval.py,                *)
(* sota_comparison.py).  A sample is a record of its question, document    *)
(* (NoFilter without one), references, the set relevant of chunk ids,      *)
(* truth, and the metadata a task is read from.  Texts are words (letters  *)
(* of Texts), a corpus is a sequence of chunks [id, text, meta, sim] with  *)
(* the document as meta, rates are fractions of Scale.  Times are left out.*)
(***************************************************************************)
EXTENDS Faithfulness, Retrieval

CONSTANTS CanaryText, CanaryRank,   \* the probe's chunk, numbered 99
          Keywords,                 \* detection_keywords
          RelevantOverlap           \* 0.1 of Scale

Average(values) == IF values = <<>> THEN 0 ELSE FoldLeft(+, 0, values) \div Len(values)
Column(rows, field) == [k \in DOMAIN rows |-> rows[k][field]]
Averages(rows, fields) == [f \in fields |-> Average(Column(rows, f))]
Flag(b) == IF b THEN Scale ELSE 0
FirstBest(rows, field) == SortedBy(rows, LAMBDA r : r[field])[1]
Either(text, reference) == Occurs(text, reference) \/ Occurs(reference, text)

(***************************************************************************)
(* retrieval_benchmark.py                                                  *)
(***************************************************************************)
IsRelevant(chunk, sample) ==
    \/ chunk.id \in sample.relevant
    \/ /\ Strip(chunk.text) # <<>>
       /\ \E r \in ToSet(sample.references) :
             Strip(r) # <<>> /\ Either(Strip(chunk.text), Strip(r))
OfDocument(chunk, sample) == sample.document # NoFilter /\ chunk.meta = sample.document
(* _resolve_relevant_ids                                                   *)
RelevantIds(corpus, sample) ==
    sample.relevant \cup {c.id : c \in {d \in ToSet(corpus) :
                                            IsRelevant(d, sample) \/ OfDocument(d, sample)}}
(* 1 / log2(rank + 1) in hundredths, as far as the lists go.               *)
Discount == <<100, 63, 50, 43, 39>>
(* recall_at_k, precision_at_k, mrr and ndcg_at_k                          *)
RankingScores(ids, relevant, k) ==
    LET hits == {i \in DOMAIN ids : ids[i] \in relevant}
        top == {i \in hits : i <= k}
        ideal == 1..(IF Cardinality(relevant) < k THEN Cardinality(relevant) ELSE k)
        gain(I) == MapThenSumSet(LAMBDA i : Discount[i], I)
    IN  [recall |-> Rate(Cardinality(top), Cardinality(relevant)),
         precision |-> Rate(Cardinality(top), k),
         mrr |-> IF hits = {} THEN 0 ELSE Scale \div Min(hits),
         ndcg |-> Rate(gain(top), gain(ideal))]
(* What a pipeline p retrieves for each sample.                            *)
RetrievedFor(dataset, p, n) ==
    [i \in DOMAIN dataset |->
        Retrieve(p.index, p.corpus, dataset[i].question, p.mode, n, dataset[i].document)]
(* RetrievalBenchmark.evaluate_retriever over what was found.              *)
EvaluateRetriever(dataset, corpus, found, k) ==
    [n \in DOMAIN dataset |->
        RankingScores(Ids(found[n]), RelevantIds(corpus, dataset[n]), k)]

(***************************************************************************)
(* reranking_benchmark.py                                                  *)
(***************************************************************************)
(* _evaluate_rerank_result                                                 *)
RerankScores(reranked, retrieved, relevant, k) ==
    LET ids == Ids(reranked)
        base == Ids(TopK(retrieved, k))
        shared == Where([i \in DOMAIN ids |-> i], LAMBDA i : Contains(base, ids[i]))
        moved(i) == LET j == Max({b \in DOMAIN base : base[b] = ids[i]})
                    IN  IF i > j THEN i - j ELSE j - i
    IN  RankingScores(ids, relevant, k) @@
        [top1_changed |-> Flag(ids # <<>> /\ base # <<>> /\ ids[1] # base[1]),
         displacement |-> Average([s \in DOMAIN shared |-> Scale * moved(shared[s])])]
RerankFields == {"recall", "precision", "mrr", "ndcg", "top1_changed", "displacement"}
(* evaluate_pipeline: the lift over the first k of what was found.         *)
EvaluatePipeline(dataset, corpus, found, k) ==
    LET relevant(n) == RelevantIds(corpus, dataset[n])
        base == [n \in DOMAIN dataset |->
                    RankingScores(Ids(TopK(found[n], k)), relevant(n), k)]
        rows == [n \in DOMAIN dataset |->
                    RerankScores(LexicalRerank(dataset[n].question, found[n], k),
                                 found[n], relevant(n), k)]
        mean == Averages(rows, RerankFields)
    IN  [mean |-> mean, rows |-> rows,
         mrr_lift |-> mean.mrr - Average(Column(base, "mrr")),
         ndcg_lift |-> mean.ndcg - Average(Column(base, "ndcg"))]
(* run_full_comparison over modes: there the NDCG is compared with a       *)
(* retrieval of k chunks, not of topN.                                     *)
CompareModes(dataset, p, modes) ==
    LET row(mode, e, base) ==
            [mode |-> mode, mrr |-> e.mean.mrr, mrr_lift |-> e.mrr_lift,
             ndcg_lift |-> e.mean.ndcg - Average(Column(base, "ndcg")),
             pipeline_lift |-> e.ndcg_lift]
        result(mode) ==
            LET found(n) == RetrievedFor(dataset, [p EXCEPT !.mode = mode], n)
            IN  row(mode, EvaluatePipeline(dataset, p.corpus, found(p.top_n), p.rerank_k),
                    EvaluateRetriever(dataset, p.corpus, found(p.rerank_k), p.rerank_k))
        best(results) == [results |-> results, best |-> FirstBest(results, "mrr").mode]
    IN  best([m \in DOMAIN modes |-> result(modes[m])])

(***************************************************************************)
(* context_benchmark.py.  Here an empty text or reference matches.         *)
(***************************************************************************)
(* _token_overlap_recall: a reference half of whose words are in it.       *)
ContextRecall(chunks, references) ==
    LET words == UNION {Words(chunks[k].text) : k \in DOMAIN chunks}
        hit(r) == Words(r) # {}
                  /\ 2 * Cardinality(Words(r) \cap words) >= Cardinality(Words(r))
    IN  Rate(Len(Where(references, hit)), Len(references))
(* _context_precision: the share of tokens in relevant chunks.             *)
ContextPrecision(chunks, relevant, references) ==
    LET good == Where(chunks, LAMBDA c :
                    c.id \in relevant \/ \E r \in ToSet(references) : Either(c.text, r))
    IN  Rate(Tokens(good), Tokens(chunks))
ContextRelevantIds(corpus, sample) ==
    sample.relevant \cup {c.id : c \in {d \in ToSet(corpus) :
        OfDocument(d, sample)
        \/ \E r \in ToSet(sample.references) : Strip(r) # <<>> /\ Either(d.text, Strip(r))}}
(* evaluate_strategy                                                       *)
ContextScores(a, sample, corpus, maxTokens) ==
    LET p == ContextPrecision(a.chunks, ContextRelevantIds(corpus, sample), sample.references)
        r == ContextRecall(a.chunks, sample.references)
        used == Rate(a.stats.tokens_out, maxTokens)
        floor == Scale \div 100
    IN  [precision |-> p, recall |-> r, utilization |-> used,
         efficiency |-> (p * r) \div (IF used > floor THEN used ELSE IF floor > 0 THEN floor ELSE 1),
         dedup_rate |-> Rate(a.stats.duplicates_removed, a.stats.chunks_in),
         compression |-> IF a.stats.tokens_out > 0
                         THEN Rate(a.stats.tokens_in, a.stats.tokens_out) ELSE Scale,
         has_relevant |-> Flag(r > 0 \/ p > 0)]
(* run_strategy_comparison and run_budget_sweep, over configurations.      *)
CompareStrategies(dataset, corpus, found, configs) ==
    LET rows(c) == [n \in DOMAIN dataset |->
            ContextScores(Assemble(dataset[n].question, found[n], c),
                          dataset[n], corpus, c.max_tokens)]
        result(c) == [strategy |-> c.strategy, efficiency |-> Average(Column(rows(c), "efficiency"))]
        best(results) == [results |-> results, best |-> FirstBest(results, "efficiency").strategy]
    IN  best([k \in DOMAIN configs |-> result(configs[k])])

(***************************************************************************)
(* generation_benchmark.py and adversarial.py, with the mock model.        *)
(***************************************************************************)
GenerationFields == {"faithfulness", "citation_precision", "citation_recall",
                     "hallucination_rate", "citation_coverage", "answer_relevancy"}
(* GenerationBenchmark.run of one sample, with the lexical judge           *)
GenerationScores(question, chunks) ==
    LET judged == [n \in DOMAIN SourceIndex(chunks) |-> "none"]
        row(r, e) == [f \in GenerationFields \cup {"refused", "cited"} |->
                         CASE f = "refused" -> Flag(r.refused)
                           [] f = "cited" -> Flag(r.citations # <<>>)
                           [] OTHER -> e[f]]
        of(r) == row(r, EvaluateAnswer(question, r, chunks, judged))
    IN  of(Answer(chunks, MockAnswer(question, chunks)))
(* inject_canary                                                           *)
Poisoned(chunks) ==
    Append(chunks, [id |-> "canary", text |-> CanaryText, score |-> 1, rank |-> CanaryRank,
                    was_compressed |-> FALSE])
(* AdversarialProbe.probe                                                  *)
ProbePasses(question, chunks) ==
    LET harmless(r) == r.refused \/ ClaimWords(r.answer) \cap Keywords = {}
        of(poisoned) == harmless(Answer(poisoned, MockAnswer(question, poisoned)))
    IN  of(Poisoned(chunks))

(***************************************************************************)
(* platform.py, EvaluationPlatform.run.  p is the pipeline: its index, the *)
(* corpus of the keyword retriever, and the parameters.                    *)
(***************************************************************************)
Samples(retrieval, contexts, answers) ==
    [retrieval_mrr |-> Column(retrieval, "mrr"),
     retrieval_recall |-> Column(retrieval, "recall"),
     retrieval_precision |-> Column(retrieval, "precision"),
     context_precision |-> Column(contexts, "precision"),
     context_recall |-> Column(contexts, "recall"),
     faithfulness |-> Column(answers, "faithfulness"),
     citation_precision |-> Column(answers, "citation_precision"),
     hallucination_rate |-> Column(answers, "hallucination_rate"),
     answer_relevancy |-> Column(answers, "answer_relevancy")]
PlatformResult(samples, retrieval, rerank, probes) ==
    [samples |-> samples,
     p10 |-> [m \in DOMAIN samples |-> Distribution(samples[m], 0, TRUE).p10],
     metrics |-> [m \in DOMAIN samples |-> Average(samples[m])] @@
         [retrieval_ndcg |-> Average(Column(retrieval, "ndcg")),
          rerank_mrr_lift |-> rerank.mrr_lift, rerank_ndcg_lift |-> rerank.ndcg_lift,
          rerank_mrr |-> rerank.mean.mrr, rerank_ndcg |-> rerank.mean.ndcg,
          top1_change_rate |-> rerank.mean.top1_changed,
          adversarial_pass_rate |-> Average(probes)]]
(* Its layers, in their order.                                             *)
RetrievalLayer(dataset, p) ==
    EvaluateRetriever(dataset, p.corpus, RetrievedFor(dataset, p, p.top_k), p.top_k)
RerankLayer(dataset, p) ==
    EvaluatePipeline(dataset, p.corpus, RetrievedFor(dataset, p, p.top_n), p.rerank_k)
ContextFor(p, s, k) ==
    Assemble(s.question,
        RetrieveAndRerank(p.index, p.corpus, s.question, p.mode, p.top_n, k, s.document).chunks,
        p.context)
ContextLayer(dataset, p) ==
    [n \in DOMAIN dataset |->
        ContextScores(ContextFor(p, dataset[n], 10), dataset[n], p.corpus, p.context.max_tokens)]
AnswerLayer(dataset, p) ==
    [n \in DOMAIN dataset |->
        GenerationScores(dataset[n].question, ContextFor(p, dataset[n], p.rerank_k).chunks)]
ProbeLayer(dataset, p) ==
    [n \in DOMAIN dataset |->
        Flag(ProbePasses(dataset[n].question, ContextFor(p, dataset[n], p.rerank_k).chunks))]

(***************************************************************************)
(* task_taxonomy.py and task_eval.py                                       *)
(***************************************************************************)
TaskTypes == {"incident_rca", "incident_resolution", "how_to", "runbook_procedure", "conceptual"}
(* resolve_task_type for a sample without an explicit task type.           *)
ResolveTask(s) ==
    CASE s.route = "incident" -> IF s.resolving THEN "incident_resolution" ELSE "incident_rca"
      [] s.route \in {"async", "how_to", "how-to"} -> "how_to"
      [] s.type = "runbook" -> "runbook_procedure"
      [] s.topic \in {"scheduling", "resources", "taints"} -> "conceptual"
      [] OTHER -> "how_to"
TaskOf(s) == IF s.task = "" THEN ResolveTask(s) ELSE s.task
(* TaskEvaluator.evaluate: samples of an unknown task are left out;        *)
(* metrics[t] are those of a platform's run over the samples of task t;    *)
(* floors is what _check_thresholds asks of each, with 0.001 to spare.     *)
EvaluateTasks(dataset, floors, metrics) ==
    LET below(m, t) == {f \in DOMAIN floors[t] \cap DOMAIN m :
                           m[f] < floors[t][f] - Scale \div 1000}
        passed(failures) == DOMAIN failures # {} /\ \A t \in DOMAIN failures : failures[t] = {}
        report(failures) == [failures |-> failures, all_passed |-> passed(failures)]
    IN  report([t \in {TaskOf(dataset[n]) : n \in DOMAIN dataset} \cap TaskTypes |->
                   below(metrics[t], t)])

(* compute_task_composite_score, weights in hundredths.                    *)
Weights == [retrieval_mrr |-> 14, retrieval_ndcg |-> 10, retrieval_recall |-> 6,
            rerank_mrr |-> 10, rerank_ndcg |-> 8, rerank_ndcg_lift |-> 6, rerank_mrr_lift |-> 4,
            top1_change_rate |-> 4, context_precision |-> 16, context_recall |-> 4,
            faithfulness |-> 10, answer_relevancy |-> 6, citation_precision |-> 2]
Composite(metrics) ==
    LET from == [m \in DOMAIN Weights |->
            IF m \in DOMAIN metrics THEN m
            ELSE IF m = "rerank_mrr" THEN "retrieval_mrr"
            ELSE IF m = "rerank_ndcg" THEN "retrieval_ndcg" ELSE m]
        used == {m \in DOMAIN Weights : from[m] \in DOMAIN metrics}
        sum(Op(_)) == MapThenSumSet(Op, used)
    IN  IF used = {} THEN 0
        ELSE sum(LAMBDA m : Weights[m] * metrics[from[m]]) \div sum(LAMBDA m : Weights[m])
(* SOTAComparisonRunner.compare over rows [name, production, score]; a     *)
(* lead of 0.0001 is needed.                                               *)
Lead == Scale \div 10000
Compare(rows) ==
    LET ours == Where(rows, LAMBDA r : r.production)
        others == {r.score : r \in {s \in ToSet(rows) : ~s.production}}
        score == IF ours = <<>> THEN 0 ELSE ours[1].score
    IN  [winner |-> IF rows = <<>> THEN "none" ELSE FirstBest(rows, "score").name,
         beats_all |-> ours # <<>> /\ \A o \in others : score > o + Lead,
         margin |-> score - (IF others = {} THEN 0 ELSE Max(others))]

(***************************************************************************)
(* ragas_wrapper.py and benchmark.py.  A RAGAS evaluation is external:     *)
(* ragas says "absent", "no_llm" (not to be initialized), "fails" or "ok". *)
(***************************************************************************)
NoScores == [ok |-> FALSE, precision |-> 0, recall |-> 0]
(* _fallback_sample_score, and the terms of _fallback_evaluation           *)
LexicalScores(contexts, truth) ==
    LET n(words) == Cardinality(Words(truth) \cap words)
        of == Max({1, Cardinality(Words(truth))})
        near == Where(contexts, LAMBDA t : Rate(n(Words(t)), of) > RelevantOverlap)
    IN  [ok |-> TRUE, precision |-> Rate(Len(near), Len(contexts)),
         recall |-> Rate(n(UNION {Words(contexts[k]) : k \in DOMAIN contexts}), of)]
PerSample(contexts, truths) ==
    [k \in 1..Min({Len(contexts), Len(truths)}) |-> LexicalScores(contexts[k], truths[k])]
(* _fallback_evaluation                                                    *)
Fallback(contexts, truths) ==
    LET mean(rows) == [ok |-> TRUE, precision |-> Average(Column(rows, "precision")),
                       recall |-> Average(Column(rows, "recall"))]
    IN  mean(PerSample(contexts, truths))
(* evaluate_retrieval checks the lengths and falls back whatever else goes *)
(* wrong, evaluate_full checks nothing and falls back only without the     *)
(* library: with it, what goes wrong is raised.                            *)
EvaluateRetrieval(ragas, judged, contexts, truths) ==
    IF Len(contexts) # Len(truths) THEN NoScores
    ELSE IF ragas = "ok" THEN judged ELSE Fallback(contexts, truths)
EvaluateFull(ragas, judged, contexts, truths) ==
    CASE ragas = "absent" -> Fallback(contexts, truths)
      [] ragas = "ok" /\ Len(contexts) = Len(truths) -> judged
      [] OTHER -> NoScores
(* evaluate_per_sample: a sample that cannot be judged scores 0.           *)
EvaluatePerSample(ragas, judged, contexts, truths) ==
    CASE ragas = "absent" -> PerSample(contexts, truths)
      [] ragas = "no_llm" -> <<>>
      [] OTHER -> [k \in 1..Min({Len(contexts), Len(truths)}) |->
                      IF judged[k].ok THEN judged[k] ELSE NoScores]

(* SimpleRetriever.retrieve over the texts of the chunks.                  *)
SimpleRetrieve(texts, query, k) ==
    LET worded == Where(texts, LAMBDA t : Words(t) # {})
    IN  TopK(SortedBy(worded, LAMBDA t : Jaccard(Words(query), Words(t))), k)
CombinedScore(s) ==
    IF s.precision + s.recall = 0 THEN 0
    ELSE (2 * s.precision * s.recall) \div (s.precision + s.recall)
(* ChunkingBenchmark.run_single: chunked[c] are the chunks of each document*)
(* under a configuration, <<>> for one that cannot be chunked.             *)
RunSingle(dataset, chunked, c, k, ragas, judged) ==
    LET texts == FlattenSeq(chunked[c])
        found == [n \in DOMAIN dataset |-> SimpleRetrieve(texts, dataset[n].question, k)]
        truths == [n \in DOMAIN dataset |-> dataset[n].truth]
        s == IF texts = <<>> THEN [ok |-> TRUE, precision |-> 0, recall |-> 0]
             ELSE EvaluateRetrieval(ragas, judged, found, truths)
    IN  [config |-> c, total_chunks |-> Len(texts), precision |-> s.precision,
         recall |-> s.recall, combined |-> CombinedScore(s)]
(* run_comparison: overlaps that do not fit the size are skipped.          *)
RunComparison(dataset, chunked, configs, k, ragas, judged) ==
    LET fitting == Where(configs, LAMBDA c : c.chunk_overlap < c.chunk_size)
        results == [i \in DOMAIN fitting |->
                       RunSingle(dataset, chunked, fitting[i], k, ragas, judged)]
    IN  [results |-> results,
         best |-> IF results = <<>> THEN <<>> ELSE <<FirstBest(results, "combined").config>>]
(* find_optimal_chunk_size: the overlaps of its sweep.                     *)
SweepOverlap(size, tenths) ==
    LET wanted == (size * tenths) \div 10
        most == IF wanted < size - 10 THEN wanted ELSE size - 10
    IN  IF most > 10 THEN most ELSE 10

(***************************************************************************)
(* Every metric is a rate, and the ones that measure one thing agree: a    *)
(* relevant chunk was retrieved, or none was.                              *)
(***************************************************************************)
RatesBounded(samples) ==
    \A m \in DOMAIN samples : \A k \in DOMAIN samples[m] : samples[m][k] \in 0..Scale
RetrievalScoresAgree(samples) ==
    \A k \in DOMAIN samples.retrieval_mrr :
        /\ samples.retrieval_mrr[k] > 0 <=> samples.retrieval_recall[k] > 0
        /\ samples.retrieval_mrr[k] > 0 <=> samples.retrieval_precision[k] > 0
==============================================================================
