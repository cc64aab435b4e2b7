--------------------------- MODULE EvaluationProofs ---------------------------
(***************************************************************************)
(* What the Python pipeline promises of how it is evaluated, for every     *)
(* data set, threshold and comparison: GatesHold, ComparisonHolds and      *)
(* EvaluationsKeepTheContract.  The gate, the judge and the tasks come     *)
(* first, then the modes and the comparison, whose scores are quotients of *)
(* sums; then what every stage of the pipeline hands to the next (ranked   *)
(* lists, labelled contexts, the pieces of an answer), which makes each    *)
(* number of an evaluation a rate; last its layers, one step at a time.    *)
(***************************************************************************)
EXTENDS RetrievalProofs

------------------------------------------------------------------------------
\* The gate, the judge and the tasks.

\* A value has one of three levels.
LEMMA LevelIs ==
    ASSUME NEW threshold, NEW value
    PROVE  Level(threshold, value) \in {"good", "warning", "critical"}
BY DEF Level

\* The gate passes nothing whose mean or worst tenth is critical.
THEOREM GatesHold ==
    ASSUME NEW metrics, NEW p10, NEW thresholds, NEW baseline
    PROVE  GateHolds(Gate(metrics, p10, thresholds, baseline), metrics, p10, thresholds)
<1> DEFINE checks == Checked(metrics, p10, thresholds)
           deltas == Deltas(metrics, baseline)
           failures == {m \in DOMAIN checks : checks[m] = "critical"}
           warnings == {m \in DOMAIN checks : checks[m] = "warning"}
                         \cup {m \in DOMAIN deltas : deltas[m].significant
                                                       /\ deltas[m].direction = "degraded"}
           M == DOMAIN metrics \cap DOMAIN thresholds
           verdict == IF failures # {} THEN "fail" ELSE IF warnings # {} THEN "warning" ELSE "pass"
           g == Gate(metrics, p10, thresholds, baseline)
<1>1. g = [verdict |-> verdict, checks |-> checks, deltas |-> deltas, failures |-> failures]
  BY Zenon DEF Gate
<1>2. DOMAIN checks = M
      /\ \A m \in M : checks[m] = IF m \in DOMAIN p10 /\ Level(thresholds[m], p10[m]) = "critical"
                                  THEN "critical" ELSE Level(thresholds[m], metrics[m])
  BY DEF Checked
<1> HIDE DEF checks, deltas, g
<1>3. g.verdict = verdict
  BY <1>1
<1>4. ASSUME g.verdict # "fail", NEW m \in M
      PROVE  /\ Level(thresholds[m], metrics[m]) # "critical"
             /\ m \in DOMAIN p10 => Level(thresholds[m], p10[m]) # "critical"
  <2>1. checks[m] # "critical"
    BY <1>2, <1>3, <1>4
  <2> QED BY <1>2, <2>1
<1>5. ASSUME g.verdict = "pass", NEW m \in M PROVE Level(thresholds[m], metrics[m]) = "good"
  <2>1. checks[m] # "warning" /\ checks[m] # "critical"
    BY <1>2, <1>3, <1>5
  <2> QED BY <1>2, <2>1, LevelIs
<1> QED BY <1>4, <1>5 DEF GateHolds, g

\* An evaluation without its judge is one of words.
JudgeContract(ragas, judged, contexts, truths, o) ==
    /\ Len(contexts) = Len(truths) /\ ragas # "ok" => o.retrieval.ok
    /\ Len(contexts) = Len(truths) /\ ragas \in {"absent", "ok"} => o.full = o.retrieval
    /\ ragas = "absent" /\ o.full.ok => o.full.recall = Average(Column(o.samples, "recall"))

\* The part of the contract about the judge: what an unavailable judge and a judged sample report.
LEMMA JudgeHolds ==
    ASSUME NEW ragas, NEW judged, NEW contexts, NEW truths, NEW each, NEW o,
           o.retrieval = EvaluateRetrieval(ragas, judged, contexts, truths),
           o.full = EvaluateFull(ragas, judged, contexts, truths),
           o.samples = EvaluatePerSample(ragas, each, contexts, truths)
    PROVE  JudgeContract(ragas, judged, contexts, truths, o)
<1> DEFINE rows == PerSample(contexts, truths)
           f == Fallback(contexts, truths)
           p == Average(Column(rows, "precision"))
           r == Average(Column(rows, "recall"))
<1>1. f.ok = TRUE /\ f.recall = r
  <2>1. f = [ok |-> TRUE, precision |-> p, recall |-> r]
    BY Zenon DEF Fallback
  <2> HIDE DEF f, p, r
  <2> QED BY <2>1
<1>2. /\ o.retrieval = IF Len(contexts) # Len(truths) THEN NoScores
                       ELSE IF ragas = "ok" THEN judged ELSE f
      /\ ragas = "absent" => o.full = f /\ o.samples = rows
      /\ ragas = "ok" /\ Len(contexts) = Len(truths) => o.full = judged
  BY DEF EvaluateRetrieval, EvaluateFull, EvaluatePerSample
<1> HIDE DEF f, rows
<1>3. Len(contexts) = Len(truths) /\ ragas # "ok" => o.retrieval.ok
  BY <1>1, <1>2
<1>4. Len(contexts) = Len(truths) /\ ragas \in {"absent", "ok"} => o.full = o.retrieval
  BY <1>2
<1>5. ragas = "absent" => o.full.recall = Average(Column(o.samples, "recall"))
  BY <1>1, <1>2
<1> QED BY <1>3, <1>4, <1>5 DEF JudgeContract

\* Tasks pass together.
LEMMA TasksHold ==
    ASSUME NEW samples, NEW floors, NEW metrics, NEW o, o = EvaluateTasks(samples, floors, metrics),
           o.all_passed, NEW n \in DOMAIN samples, TaskOf(samples[n]) \in TaskTypes
    PROVE  o.failures[TaskOf(samples[n])] = {}
<1> DEFINE T == {TaskOf(samples[i]) : i \in DOMAIN samples} \cap TaskTypes
           below(m, t) == {f \in DOMAIN floors[t] \cap DOMAIN m : m[f] < floors[t][f] - Scale \div 1000}
           failures == [t \in T |-> below(metrics[t], t)]
           passed == DOMAIN failures # {} /\ \A t \in DOMAIN failures : failures[t] = {}
<1>1. o = [failures |-> failures, all_passed |-> passed]
  BY Zenon DEF EvaluateTasks
<1>2. DOMAIN failures = T
  BY DEF failures
<1> HIDE DEF failures
<1>3. o.failures = failures /\ o.all_passed = passed
  <2> HIDE DEF passed
  <2> QED BY <1>1
<1>4. TaskOf(samples[n]) \in T
  OBVIOUS
<1> HIDE DEF T
<1> QED BY <1>2, <1>3, <1>4

------------------------------------------------------------------------------
\* The comparison of modes.

\* A list in the order of its places is a list.
LEMMA PlacedList ==
    ASSUME NEW A, NEW s \in Seq(A), NEW r
    PROVE  Placed(s, r) \in Seq(ToSet(Placed(s, r)))
<1> DEFINE n == Len(s)
           t == Placed(s, r)
<1>1. n \in Nat /\ DOMAIN s = 1..n
  OBVIOUS
<1>2. t = [k \in 1..n |-> t[k]]
  <2>1. t = [k \in 1..n |-> s[CHOOSE i \in 1..n : r[i] = k]]
    BY <1>1 DEF Placed
  <2> HIDE DEF t
  <2> QED BY <2>1
<1> HIDE DEF t, n
<1>3. t \in Seq(ToSet(t))
  BY <1>1, <1>2, SeqOfItself
<1> QED BY <1>3 DEF t

\* A function of a list's places is a list.
LEMMA ByPlace ==
    ASSUME NEW A, NEW s \in Seq(A), NEW f, f = [k \in DOMAIN s |-> f[k]]
    PROVE  f \in Seq(ToSet(f)) /\ Len(f) = Len(s) /\ DOMAIN f = 1..Len(s)
<1>1. Len(s) \in Nat /\ DOMAIN s = 1..Len(s)
  OBVIOUS
<1>2. f = [k \in 1..Len(s) |-> f[k]]
  BY <1>1
<1> QED BY <1>1, <1>2, SeqOfItself

\* What a retriever finds is the beginning of one list, however many are asked for.
LEMMA DenseBegins ==
    ASSUME NEW A, NEW chunks \in Seq(A), NEW filter
    PROVE  \E S : S \in Seq(ToSet(S)) /\ \A k : DenseRetrieve(chunks, k, filter) = Retrieved(TopK(S, k), "dense")
<1> DEFINE m == Matching(chunks, filter)
           rows == DenseRows(m)
           v == [i \in DOMAIN rows |-> rows[i].score]
           S == Placed(rows, Ranks(v))
<1>1. m \in Seq(A)
  <2> DEFINE I == {i \in DOMAIN chunks : MatchesFilter(chunks[i], filter)}
  <2>1. I \in SUBSET (1..Len(chunks)) /\ m = Kept(chunks, I)
    BY DEF Matching
  <2> HIDE DEF I, m
  <2> QED BY <2>1, KeptElements
<1>2. rows \in Seq(ToSet(rows))
  <2>1. rows = [i \in DOMAIN m |-> rows[i]]
    BY DEF DenseRows
  <2> HIDE DEF m, rows
  <2> QED BY <1>1, <2>1, ByPlace
<1>3. \A k : DenseRetrieve(chunks, k, filter) = Retrieved(TopK(S, k), "dense")
  BY DenseIs
<1> HIDE DEF rows, v
<1>4. S \in Seq(ToSet(S))
  BY <1>2, PlacedList
<1> HIDE DEF S
<1> QED BY <1>3, <1>4

\* Keyword retrieval for every k takes the first k of one list.
LEMMA KeywordBegins ==
    ASSUME NEW A, NEW chunks \in Seq(A), NEW query, NEW filter
    PROVE  \E S : S \in Seq(ToSet(S))
                  /\ \A k : KeywordRetrieve(chunks, query, k, filter) = Retrieved(TopK(S, k), "keyword")
<1> DEFINE I == {i \in DOMAIN chunks : chunks[i].text # <<>>}
           index == Kept(chunks, I)
           rows == KeywordRows(chunks, query)
           J == {i \in DOMAIN rows : rows[i].score > 0}
           some == Positive(rows)
           v == [i \in DOMAIN some |-> some[i].score]
           found == Search(chunks, query)
           M == {i \in DOMAIN found : MatchesFilter(found[i], filter)}
           S == Matching(found, filter)
<1>1. index \in Seq(A)
  <2>1. I \in SUBSET (1..Len(chunks))
    OBVIOUS
  <2> HIDE DEF I
  <2> QED BY <2>1, KeptElements
<1>2. rows \in Seq(ToSet(rows))
  <2>1. rows = [i \in DOMAIN index |-> rows[i]]
    BY DEF KeywordRows
  <2> HIDE DEF index, rows
  <2> QED BY <1>1, <2>1, ByPlace
<1> HIDE DEF index, rows
<1>3. some \in Seq(ToSet(rows))
  <2>1. J \in SUBSET (1..Len(rows)) /\ some = Kept(rows, J)
    BY <1>2 DEF Positive
  <2> HIDE DEF J, some
  <2> QED BY <1>2, <2>1, KeptElements
<1>4. found \in Seq(ToSet(found))
  <2>1. found = Placed(some, Ranks(v))
    BY SearchIs DEF rows
  <2> HIDE DEF found, some, v
  <2>2. Placed(some, Ranks(v)) \in Seq(ToSet(Placed(some, Ranks(v))))
    BY <1>3, PlacedList
  <2> QED BY <2>1, <2>2
<1> HIDE DEF found, some, v
<1>5. S \in Seq(ToSet(found))
  <2>1. M \in SUBSET (1..Len(found)) /\ S = Kept(found, M)
    BY <1>4 DEF Matching
  <2> HIDE DEF M, S
  <2> QED BY <1>4, <2>1, KeptElements
<1>6. S \in Seq(ToSet(S))
  <2>1. Len(S) \in Nat /\ S = [k \in 1..Len(S) |-> S[k]]
    <3> HIDE DEF S
    <3> QED BY <1>5
  <2> HIDE DEF S
  <2> QED BY <2>1, SeqOfItself
<1>7. \A k : KeywordRetrieve(chunks, query, k, filter) = Retrieved(TopK(S, k), "keyword")
  BY KeywordIs DEF found
<1> HIDE DEF S
<1> QED BY <1>6, <1>7

\* Asking for more and taking the first of it is asking for them.
LEMMA TopOfMore ==
    ASSUME NEW S, S \in Seq(ToSet(S)), NEW k \in Nat, NEW m \in Nat, k <= m, NEW name
    PROVE  Ids(TopK(Retrieved(TopK(S, m), name), k)) = Ids(Retrieved(TopK(S, k), name))
<1> DEFINE n == Len(S)
           a == IF k < n THEN k ELSE n
           b == IF m < n THEN m ELSE n
           first == TopK(S, k)
           more == TopK(S, m)
           r == Retrieved(more, name)
           R == Retrieved(first, name)
           t == TopK(r, k)
<1>1. n \in Nat /\ a \in Nat /\ b \in Nat /\ a <= b /\ b <= n /\ (IF k < b THEN k ELSE b) = a
  OBVIOUS
<1>2. first = [i \in 1..a |-> S[i]] /\ more = [i \in 1..b |-> S[i]]
  <2>1. Len(first) = a /\ Len(more) = b /\ DOMAIN first = 1..Len(first) /\ DOMAIN more = 1..Len(more)
        /\ first = SubSeq(S, 1, a) /\ more = SubSeq(S, 1, b)
    BY TopKIs DEF TopK
  <2>2. \A i \in 1..a : first[i] = S[i]
    <3> HIDE DEF a, first
    <3> QED BY <1>1, <2>1, SubSeqElements
  <2>3. \A i \in 1..b : more[i] = S[i]
    <3> HIDE DEF b, more
    <3> QED BY <1>1, <2>1, SubSeqElements
  <2>4. first = [i \in 1..a |-> first[i]] /\ more = [i \in 1..b |-> more[i]]
    BY <2>1
  <2> HIDE DEF first, more
  <2> QED BY <2>2, <2>3, <2>4
<1> HIDE DEF first, more, a, b
<1>3. DOMAIN r = 1..b /\ \A i \in 1..b : r[i].id = S[i].id
  BY <1>2 DEF Retrieved
<1>4. DOMAIN R = 1..a /\ \A i \in 1..a : R[i].id = S[i].id
  BY <1>2 DEF Retrieved
<1>5. r \in Seq(ToSet(r)) /\ Len(r) = b
  <2>1. r = [i \in 1..b |-> r[i]]
    <3>1. r = [i \in DOMAIN more |-> r[i]] /\ DOMAIN more = 1..b
      BY <1>2 DEF Retrieved
    <3> QED BY <3>1
  <2> HIDE DEF r
  <2> QED BY <1>1, <2>1, SeqOfItself
<1> HIDE DEF r, R
<1>6. DOMAIN t = 1..a /\ \A i \in 1..a : t[i] = r[i]
  <2>1. Len(t) = a /\ DOMAIN t = 1..Len(t) /\ t = SubSeq(r, 1, a)
    BY <1>1, <1>5, TopKIs DEF TopK
  <2> HIDE DEF t
  <2> QED BY <1>1, <1>5, <2>1, SubSeqElements
<1> HIDE DEF t
<1>7. \A i \in 1..a : t[i].id = R[i].id
  BY <1>1, <1>3, <1>4, <1>6
<1>8. Ids(t) = [i \in 1..a |-> t[i].id] /\ Ids(R) = [i \in 1..a |-> R[i].id]
  BY <1>4, <1>6 DEF Ids
<1>9. Ids(t) = Ids(R)
  BY <1>7, <1>8
<1> QED BY <1>9 DEF t, r, R, more, first

\* A row of the comparison, and what it is compared with.
PipelineBase(dataset, corpus, found, k) ==
    [n \in DOMAIN dataset |->
        RankingScores(Ids(TopK(found[n], k)), RelevantIds(corpus, dataset[n]), k)]

\* The lift of a pipeline is its mean less that of the baseline on the same chunks.
LEMMA PipelineLift ==
    ASSUME NEW dataset, NEW corpus, NEW found, NEW k
    PROVE  LET e == EvaluatePipeline(dataset, corpus, found, k)
           IN  e.ndcg_lift = e.mean.ndcg
                                - Average(Column(PipelineBase(dataset, corpus, found, k), "ndcg"))
<1> DEFINE base == PipelineBase(dataset, corpus, found, k)
           rows == [n \in DOMAIN dataset |->
                       RerankScores(LexicalRerank(dataset[n].question, found[n], k),
                                    found[n], RelevantIds(corpus, dataset[n]), k)]
           mean == Averages(rows, RerankFields)
           mrr == mean.mrr - Average(Column(base, "mrr"))
           ndcg == mean.ndcg - Average(Column(base, "ndcg"))
           e == EvaluatePipeline(dataset, corpus, found, k)
<1>1. e = [mean |-> mean, rows |-> rows, mrr_lift |-> mrr, ndcg_lift |-> ndcg]
  BY Zenon DEF EvaluatePipeline, PipelineBase
<1> HIDE DEF e, mean, rows, mrr
<1>2. e.ndcg_lift = ndcg /\ e.mean = mean
  <2> HIDE DEF ndcg
  <2> QED BY <1>1
<1> QED BY <1>2 DEF e
ModeRow(dataset, p, mode) ==
    LET q == [p EXCEPT !.mode = mode]
        e == EvaluatePipeline(dataset, p.corpus, RetrievedFor(dataset, q, p.top_n), p.rerank_k)
        base == EvaluateRetriever(dataset, p.corpus, RetrievedFor(dataset, q, p.rerank_k), p.rerank_k)
    IN  [mode |-> mode, mrr |-> e.mean.mrr, mrr_lift |-> e.mrr_lift,
         ndcg_lift |-> e.mean.ndcg - Average(Column(base, "ndcg")), pipeline_lift |-> e.ndcg_lift]

\* The comparison of modes has one row for each mode, in their order.
LEMMA ModesAre ==
    ASSUME NEW dataset, NEW p, NEW modes
    PROVE  CompareModes(dataset, p, modes).results = [m \in DOMAIN modes |-> ModeRow(dataset, p, modes[m])]
<1> DEFINE results == [m \in DOMAIN modes |-> ModeRow(dataset, p, modes[m])]
           best == FirstBest(results, "mrr").mode
<1>1. CompareModes(dataset, p, modes) = [results |-> results, best |-> best]
  BY Zenon DEF CompareModes, ModeRow
<1> HIDE DEF results, best
<1>2. CompareModes(dataset, p, modes).results = results
  BY <1>1
<1> QED BY <1>2 DEF results

\* In one list only, the baseline a comparison retrieves a second time is the
\* pipeline's own.
PipelineFields == {"index", "corpus", "mode", "top_k", "top_n", "rerank_k", "context"}
Piped(p) ==
    /\ PipelineFields \subseteq DOMAIN p
    /\ p.index \in Seq(ToSet(p.index)) /\ p.corpus \in Seq(ToSet(p.corpus))
    /\ p.rerank_k \in Nat /\ p.top_n \in Nat /\ p.rerank_k <= p.top_n

\* Without fusion the first rerank_k chunks are the same whether rerank_k or top_n are asked for.
LEMMA SameBaseline ==
    ASSUME NEW dataset, NEW p, Piped(p), NEW mode \in {"dense", "keyword"}
    PROVE  LET q == [p EXCEPT !.mode = mode]
           IN  EvaluateRetriever(dataset, p.corpus, RetrievedFor(dataset, q, p.rerank_k), p.rerank_k)
                 = PipelineBase(dataset, p.corpus, RetrievedFor(dataset, q, p.top_n), p.rerank_k)
<1> DEFINE q == [p EXCEPT !.mode = mode]
           k == p.rerank_k
           m == p.top_n
           few == RetrievedFor(dataset, q, k)
           many == RetrievedFor(dataset, q, m)
<1>1. /\ q.index = p.index /\ q.corpus = p.corpus /\ q.mode = mode
      /\ q.index \in Seq(ToSet(q.index)) /\ q.corpus \in Seq(ToSet(q.corpus))
      /\ k \in Nat /\ m \in Nat /\ k <= m
  BY DEF Piped, PipelineFields
<1> HIDE DEF q, k, m
<1>2. ASSUME NEW i \in DOMAIN dataset PROVE Ids(few[i]) = Ids(TopK(many[i], k))
  <2> DEFINE question == dataset[i].question
             document == dataset[i].document
  <2>1. /\ few[i] = Retrieve(q.index, q.corpus, question, q.mode, k, document)
        /\ many[i] = Retrieve(q.index, q.corpus, question, q.mode, m, document)
    BY Zenon DEF RetrievedFor
  <2> HIDE DEF few, many, question, document
  <2>2. CASE mode = "dense"
    <3>1. few[i] = DenseRetrieve(q.index, k, document) /\ many[i] = DenseRetrieve(q.index, m, document)
      BY <1>1, <2>1, <2>2 DEF Retrieve
    <3>2. PICK S : S \in Seq(ToSet(S)) /\ \A l : DenseRetrieve(q.index, l, document) = Retrieved(TopK(S, l), "dense")
      BY <1>1, DenseBegins
    <3>3. Ids(TopK(Retrieved(TopK(S, m), "dense"), k)) = Ids(Retrieved(TopK(S, k), "dense"))
      BY <1>1, <3>2, TopOfMore
    <3> QED BY <3>1, <3>2, <3>3
  <2>3. CASE mode = "keyword"
    <3>1. /\ few[i] = KeywordRetrieve(q.corpus, question, k, document)
          /\ many[i] = KeywordRetrieve(q.corpus, question, m, document)
      BY <1>1, <2>1, <2>3 DEF Retrieve
    <3>2. PICK S : S \in Seq(ToSet(S))
                   /\ \A l : KeywordRetrieve(q.corpus, question, l, document) = Retrieved(TopK(S, l), "keyword")
      BY <1>1, KeywordBegins
    <3>3. Ids(TopK(Retrieved(TopK(S, m), "keyword"), k)) = Ids(Retrieved(TopK(S, k), "keyword"))
      BY <1>1, <3>2, TopOfMore
    <3> QED BY <3>1, <3>2, <3>3
  <2> QED BY <2>2, <2>3
<1> HIDE DEF few, many
<1>3. EvaluateRetriever(dataset, p.corpus, few, k) = PipelineBase(dataset, p.corpus, many, k)
  BY <1>2 DEF EvaluateRetriever, PipelineBase
<1> QED BY <1>3 DEF q, k, m, few, many

\* A mode that does not fuse reports the lift of its own pipeline.
LEMMA ModesHold ==
    ASSUME NEW dataset, NEW p, Piped(p), NEW modes, modes = <<"dense", "keyword", "hybrid">>,
           NEW o, o = CompareModes(dataset, p, modes), NEW j \in DOMAIN o.results,
           o.results[j].mode # "hybrid"
    PROVE  o.results[j].ndcg_lift = o.results[j].pipeline_lift
<1> DEFINE mode == modes[j]
           q == [p EXCEPT !.mode = mode]
           many == RetrievedFor(dataset, q, p.top_n)
           e == EvaluatePipeline(dataset, p.corpus, many, p.rerank_k)
           base == EvaluateRetriever(dataset, p.corpus, RetrievedFor(dataset, q, p.rerank_k), p.rerank_k)
           lift == e.mean.ndcg - Average(Column(base, "ndcg"))
           r == o.results[j]
<1>1. o.results = [m \in DOMAIN modes |-> ModeRow(dataset, p, modes[m])]
  BY ModesAre
<1>2. j \in 1..3 /\ r = ModeRow(dataset, p, mode)
  BY <1>1
<1>3. r = [mode |-> mode, mrr |-> e.mean.mrr, mrr_lift |-> e.mrr_lift, ndcg_lift |-> lift,
           pipeline_lift |-> e.ndcg_lift]
  BY <1>2, Zenon DEF ModeRow
<1> HIDE DEF e, lift, r
<1>4. r.mode = mode /\ r.ndcg_lift = lift /\ r.pipeline_lift = e.ndcg_lift
  BY <1>3
<1>5. mode \in {"dense", "keyword"}
  <2>1. mode \in {"dense", "keyword", "hybrid"}
    BY <1>2
  <2> HIDE DEF mode
  <2> QED BY <1>4, <2>1 DEF r
<1>6. base = PipelineBase(dataset, p.corpus, many, p.rerank_k)
  <2> HIDE DEF mode
  <2> QED BY <1>5, SameBaseline
<1>7. e.ndcg_lift = e.mean.ndcg - Average(Column(PipelineBase(dataset, p.corpus, many, p.rerank_k), "ndcg"))
  <2> HIDE DEF many
  <2> QED BY PipelineLift DEF e
<1> HIDE DEF base, many
<1> QED BY <1>4, <1>6, <1>7 DEF lift, r

------------------------------------------------------------------------------
\* Who is first, and the comparison of systems.

\* The first of the best is a row, and no row scores more.
LEMMA FirstBestIs ==
    ASSUME NEW A, NEW rows \in Seq(A), rows # <<>>, NEW field,
           \A i \in DOMAIN rows : rows[i][field] \in Int
    PROVE  \E j \in DOMAIN rows : /\ FirstBest(rows, field) = rows[j]
                                  /\ \A i \in DOMAIN rows : rows[i][field] <= rows[j][field]
<1> DEFINE n == Len(rows)
           v == [i \in DOMAIN rows |-> rows[i][field]]
           t == Placed(rows, Ranks(v))
<1>1. n \in Nat /\ n # 0 /\ DOMAIN rows = 1..n /\ 1 \in 1..n
  OBVIOUS
<1>2. FirstBest(rows, field) = t[1]
  BY Zenon DEF FirstBest, SortedBy, Placed
<1>3. v \in [1..n -> Int] /\ \A i \in 1..n : v[i] = rows[i][field]
  BY <1>1
<1> HIDE DEF v
<1>4. PICK p \in [1..n -> 1..n] :
        /\ \A k \in 1..n : t[k] = rows[p[k]]
        /\ \A i \in 1..n : \E k \in 1..n : p[k] = i
        /\ \A a, b \in 1..n : a < b => Before(v, p[a], p[b])
  BY <1>3, SortedIs
<1> HIDE DEF n, t
<1>5. p[1] \in 1..n /\ t[1] = rows[p[1]]
  BY <1>1, <1>4
<1>6. ASSUME NEW i \in 1..n PROVE v[i] <= v[p[1]]
  <2>1. PICK k \in 1..n : p[k] = i
    BY <1>4
  <2>2. CASE k = 1
    BY <1>3, <2>1, <2>2
  <2>3. CASE k # 1
    <3>1. 1 < k
      BY <1>1, <2>3
    <3>2. Before(v, p[1], i)
      BY <1>1, <1>4, <2>1, <3>1
    <3> QED BY <1>3, <1>5, <3>2 DEF Before
  <2> QED BY <2>2, <2>3
<1>7. \A i \in 1..n : rows[i][field] <= rows[p[1]][field]
  BY <1>3, <1>5, <1>6
<1> QED BY <1>1, <1>2, <1>5, <1>7

\* A system that beats all others wins.
LEMMA CompareHolds ==
    ASSUME NEW A, NEW rows \in Seq(A), \A i \in DOMAIN rows : rows[i].score \in Int,
           Compare(rows).beats_all
    PROVE  \E k \in DOMAIN rows : rows[k].production /\ rows[k].name = Compare(rows).winner
<1> DEFINE P == {i \in DOMAIN rows : rows[i].production}
           ours == Kept(rows, P)
           others == {r.score : r \in {s \in ToSet(rows) : ~s.production}}
           score == IF ours = <<>> THEN 0 ELSE ours[1].score
           winner == IF rows = <<>> THEN "none" ELSE FirstBest(rows, "score").name
           beats == ours # <<>> /\ \A o \in others : score > o + Lead
           margin == score - (IF others = {} THEN 0 ELSE Max(others))
           n == Len(rows)
<1>1. Compare(rows) = [winner |-> winner, beats_all |-> beats, margin |-> margin]
  BY Zenon DEF Compare, Where
<1> HIDE DEF winner, beats, margin
<1>2. Compare(rows).winner = winner /\ Compare(rows).beats_all = beats
  BY <1>1
<1>3. ours # <<>> /\ \A o \in others : score > o + Lead
  BY <1>2, Zenon DEF beats
<1>4. n \in Nat /\ DOMAIN rows = 1..n /\ P \in SUBSET (1..n)
  OBVIOUS
<1>5. Lead \in Nat
  <2>1. 10000 \in Nat \ {0} /\ Scale \in Nat
    BY ScalePositive
  <2> QED BY <2>1, Quotient DEF Lead
<1> HIDE DEF n
<1>6. PICK g \in P : ours[1] = rows[g]
  <2> HIDE DEF P
  <2>1. ours \in Seq(A) /\ \A k \in DOMAIN ours : \E i \in P : ours[k] = rows[i]
    BY <1>4, KeptElements DEF n
  <2> HIDE DEF ours
  <2>2. 1 \in DOMAIN ours
    BY <1>3, <2>1
  <2> QED BY <2>1, <2>2
<1> HIDE DEF ours
<1>7. score = rows[g].score /\ g \in 1..n /\ rows[g].production
  BY <1>3, <1>4, <1>6
<1> HIDE DEF score
<1>8. rows # <<>>
  BY <1>4, <1>7
<1>9. PICK j \in DOMAIN rows : /\ FirstBest(rows, "score") = rows[j]
                               /\ \A i \in DOMAIN rows : rows[i]["score"] <= rows[j]["score"]
  <2>1. \A i \in DOMAIN rows : rows[i]["score"] \in Int
    OBVIOUS
  <2> QED BY <1>8, <2>1, FirstBestIs
<1>10. winner = rows[j].name
  BY <1>8, <1>9 DEF winner
<1>11. rows[j].production
  <2>1. SUFFICES ASSUME ~rows[j].production PROVE FALSE
    OBVIOUS
  <2>2. rows[j].score \in others
    BY <1>4, <2>1 DEF ToSet
  <2>3. score > rows[j].score + Lead /\ rows[g].score <= rows[j].score
    BY <1>3, <1>4, <1>7, <1>9, <2>2
  <2>4. score \in Int /\ rows[j].score \in Int
    BY <1>4, <1>7
  <2> QED BY <1>5, <1>7, <2>3, <2>4
<1> QED BY <1>2, <1>10, <1>11

------------------------------------------------------------------------------
\* Sums over finite sets, and the composite score.

\* A sum over a set, one member at a time.
SumOver(f, w, S) ==
    f = [d \in SUBSET S |-> IF d = {} THEN 0 ELSE w[Some(d)] + f[d \ {Some(d)}]]

\* A member of a finite set, taken from it, leaves one less.
LEMMA SomeOfFinite ==
    ASSUME NEW S, IsFiniteSet(S), NEW d \in SUBSET S, d # {}
    PROVE  /\ Some(d) \in d /\ d \ {Some(d)} \in SUBSET S
           /\ IsFiniteSet(d) /\ Cardinality(d) \in Nat
           /\ Cardinality(d \ {Some(d)}) = Cardinality(d) - 1
<1>1. Some(d) \in d
  BY DEF Some
<1>2. IsFiniteSet(d) /\ Cardinality(d) \in Nat
  BY FS_Subset, FS_CardinalityType
<1>3. Cardinality(d \ {Some(d)}) = Cardinality(d) - 1
  BY <1>1, <1>2, FS_RemoveElement
<1> QED BY <1>1, <1>2, <1>3

\* Weights add up over any finite set.
LEMMA FinitePairs ==
    ASSUME NEW S, IsFiniteSet(S), NEW w \in [S -> Nat], NEW d \in SUBSET S
    PROVE  IsFiniteSet(Pairs(w, d))
<1>1. ASSUME NEW i \in S PROVE IsFiniteSet({i} \X (1..w[i]))
  <2>1. IsFiniteSet({i}) /\ IsFiniteSet(1..w[i])
    BY FS_Singleton, UpToIsFinite
  <2> QED BY <2>1, FS_Product
<1>2. IsFiniteSet(d)
  BY FS_Subset
<1> DEFINE t == {{i} \X (1..w[i]) : i \in d}
           h == [i \in d |-> {i} \X (1..w[i])]
<1>3. IsFiniteSet(t)
  <2>1. h \in [d -> t] /\ \A e \in t : \E i \in d : h[i] = e
    OBVIOUS
  <2> HIDE DEF h, t
  <2>2. h \in Surjection(d, t)
    BY <2>1 DEF Surjection
  <2> QED BY <1>2, <2>2, FS_Surjection
<1>4. \A e \in t : IsFiniteSet(e)
  BY <1>1
<1> QED BY <1>3, <1>4, FS_UNION DEF Pairs

\* A weight of a finite set, one position less.
LEMMA FiniteWeightStep ==
    ASSUME NEW S, IsFiniteSet(S), NEW w \in [S -> Nat], NEW d \in SUBSET S, NEW p \in d
    PROVE  Weight(w, d) = w[p] + Weight(w, d \ {p})
<1> DEFINE a == {p} \X (1..w[p])
           b == Pairs(w, d \ {p})
<1>1. Pairs(w, d) = a \cup b
  BY DEF Pairs
<1>2. a \cap b = {}
  BY DEF Pairs
<1>3. w[p] \in Nat /\ IsFiniteSet(1..w[p]) /\ Cardinality(1..w[p]) = w[p]
  BY UpToIsFinite
<1>4. IsFiniteSet({p}) /\ Cardinality({p}) = 1
  BY FS_Singleton
<1>5. IsFiniteSet(a) /\ Cardinality(a) = w[p]
  <2>1. IsFiniteSet(a) /\ Cardinality(a) = Cardinality({p}) * Cardinality(1..w[p])
    BY <1>3, <1>4, FS_Product
  <2> HIDE DEF a
  <2> QED BY <1>3, <1>4, <2>1
<1>6. IsFiniteSet(b)
  <2>1. d \ {p} \in SUBSET S
    OBVIOUS
  <2> QED BY <2>1, FinitePairs
<1> HIDE DEF a, b
<1>7. Cardinality(a \cup b) = Cardinality(a) + Cardinality(b)
  BY <1>2, <1>5, <1>6, DisjointUnion
<1> QED BY <1>1, <1>5, <1>7 DEF Weight, b

\* There is such a sum.
LEMMA SumExists ==
    ASSUME NEW S, IsFiniteSet(S), NEW w \in [S -> Nat]
    PROVE  \E f : SumOver(f, w, S)
<1> DEFINE f == [d \in SUBSET S |-> Weight(w, d)]
           g == [d \in SUBSET S |-> IF d = {} THEN 0 ELSE w[Some(d)] + f[d \ {Some(d)}]]
<1>1. ASSUME NEW d \in SUBSET S PROVE f[d] = g[d]
  <2>1. CASE d = {}
    <3>1. Pairs(w, {}) = {}
      BY DEF Pairs
    <3>2. Weight(w, {}) = 0
      BY <3>1, FS_EmptySet DEF Weight
    <3> QED BY <2>1, <3>2
  <2>2. CASE d # {}
    <3> DEFINE p == Some(d)
    <3>1. p \in d /\ d \ {p} \in SUBSET S
      BY <2>2, SomeOfFinite
    <3>2. f[d] = Weight(w, d) /\ f[d \ {p}] = Weight(w, d \ {p}) /\ g[d] = w[p] + f[d \ {p}]
      BY <2>2, <3>1
    <3> HIDE DEF p, f, g
    <3>3. Weight(w, d) = w[p] + Weight(w, d \ {p})
      BY <3>1, FiniteWeightStep
    <3> QED BY <3>2, <3>3
  <2> QED BY <2>1, <2>2
<1>2. f = [d \in SUBSET S |-> f[d]] /\ g = [d \in SUBSET S |-> g[d]]
  OBVIOUS
<1> HIDE DEF f, g
<1>3. f = g
  BY <1>1, <1>2, Zenon
<1>4. SumOver(f, w, S)
  BY <1>3, Zenon DEF SumOver, g
<1> QED BY <1>4

\* Where each of what is summed is no more than b times its weight, so is the sum.
SumsTo(f, g, b, d) == f[d] \in Nat /\ g[d] \in Nat /\ f[d] <= b * g[d]

\* What is bounded term by term is bounded in the sum, and no term exceeds the sum.
LEMMA SumsBounded ==
    ASSUME NEW S, IsFiniteSet(S), NEW u \in [S -> Nat], NEW w \in [S -> Nat], NEW b \in Nat,
           \A i \in S : u[i] <= b * w[i],
           NEW f, SumOver(f, u, S), NEW g, SumOver(g, w, S)
    PROVE  /\ SumsTo(f, g, b, S)
           /\ S # {} => \E i \in S : w[i] <= g[S]
<1> DEFINE P == {m \in Nat : \A d \in SUBSET S : Cardinality(d) = m => SumsTo(f, g, b, d)}
<1>1. /\ \A d \in SUBSET S : f[d] = IF d = {} THEN 0 ELSE u[Some(d)] + f[d \ {Some(d)}]
      /\ \A d \in SUBSET S : g[d] = IF d = {} THEN 0 ELSE w[Some(d)] + g[d \ {Some(d)}]
  BY Zenon DEF SumOver
<1>2. 0 \in P
  <2>1. ASSUME NEW d \in SUBSET S, Cardinality(d) = 0 PROVE SumsTo(f, g, b, d)
    <3>1. d = {}
      BY <2>1, FS_Subset, FS_EmptySet
    <3>2. f[d] = 0 /\ g[d] = 0
      BY <1>1, <3>1
    <3>3. 0 <= b * 0 /\ 0 \in Nat
      OBVIOUS
    <3> QED BY <3>2, <3>3 DEF SumsTo
  <2> QED BY <2>1
<1>3. ASSUME NEW m \in P PROVE m + 1 \in P
  <2>1. m \in Nat /\ \A d \in SUBSET S : Cardinality(d) = m => SumsTo(f, g, b, d)
    OBVIOUS
  <2>2. ASSUME NEW d \in SUBSET S, Cardinality(d) = m + 1 PROVE SumsTo(f, g, b, d)
    <3> DEFINE p == Some(d)
               e == d \ {p}
    <3>1. d # {}
      <4>1. Cardinality({}) = 0 /\ m + 1 # 0
        BY <2>1, FS_EmptySet
      <4> HIDE DEF P
      <4> QED BY <2>2, <4>1
    <3>2. p \in d /\ e \in SUBSET S /\ Cardinality(e) = m
      <4>1. p \in d /\ e \in SUBSET S /\ Cardinality(e) = Cardinality(d) - 1
        BY <3>1, SomeOfFinite
      <4>2. (m + 1) - 1 = m
        BY <2>1
      <4> HIDE DEF P, p, e
      <4> QED BY <2>2, <4>1, <4>2
    <3>3. f[d] = u[p] + f[e] /\ g[d] = w[p] + g[e]
      BY <1>1, <3>1
    <3>4. SumsTo(f, g, b, e)
      BY <2>1, <3>2
    <3>5. u[p] \in Nat /\ w[p] \in Nat /\ u[p] <= b * w[p]
      BY <3>2
    <3> HIDE DEF P, p, e
    <3>6. f[e] \in Nat /\ g[e] \in Nat /\ f[e] <= b * g[e]
      BY <3>4 DEF SumsTo
    <3>7. b * (w[p] + g[e]) = b * w[p] + b * g[e] /\ b * w[p] \in Nat /\ b * g[e] \in Nat
      BY <3>5, <3>6
    <3>8. f[d] \in Nat /\ g[d] \in Nat /\ f[d] <= b * g[d]
      <4>1. u[p] + f[e] <= b * w[p] + b * g[e] /\ u[p] + f[e] \in Nat /\ w[p] + g[e] \in Nat
        BY <3>5, <3>6, <3>7
      <4> QED BY <3>3, <3>7, <4>1
    <3> QED BY <3>8 DEF SumsTo
  <2> QED BY <2>1, <2>2
<1>4. P = Nat
  <2>1. P \in SUBSET Nat
    OBVIOUS
  <2> HIDE DEF P
  <2> QED BY <1>2, <1>3, <2>1, NaturalsBySteps
<1>5. \A d \in SUBSET S : SumsTo(f, g, b, d)
  <2>1. ASSUME NEW d \in SUBSET S PROVE SumsTo(f, g, b, d)
    <3>1. Cardinality(d) \in Nat
      BY FS_Subset, FS_CardinalityType
    <3>2. Cardinality(d) \in P
      <4> HIDE DEF P
      <4> QED BY <1>4, <3>1
    <3> QED BY <3>2
  <2> QED BY <2>1
<1>6. ASSUME S # {} PROVE \E i \in S : w[i] <= g[S]
  <2> DEFINE p == Some(S)
             e == S \ {p}
  <2>1. p \in S /\ e \in SUBSET S
    BY <1>6, SomeOfFinite
  <2>2. g[S] = w[p] + g[e]
    BY <1>1, <1>6
  <2>3. g[e] \in Nat /\ w[p] \in Nat
    BY <1>5, <2>1 DEF SumsTo
  <2> HIDE DEF e, p
  <2> QED BY <2>1, <2>2, <2>3
<1> QED BY <1>5, <1>6

\* The composite of rates is a rate.
ScoreFrom(metrics) ==
    [m \in DOMAIN Weights |->
        IF m \in DOMAIN metrics THEN m
        ELSE IF m = "rerank_mrr" THEN "retrieval_mrr"
        ELSE IF m = "rerank_ndcg" THEN "retrieval_ndcg" ELSE m]
Used(metrics) == {m \in DOMAIN Weights : ScoreFrom(metrics)[m] \in DOMAIN metrics}
ScoreSums(f, metrics, S) ==
    f = [d \in SUBSET S |->
            IF d = {} THEN 0
            ELSE Weights[Some(d)] * metrics[ScoreFrom(metrics)[Some(d)]] + f[d \ {Some(d)}]]
WeightSums(f, S) ==
    f = [d \in SUBSET S |-> IF d = {} THEN 0 ELSE Weights[Some(d)] + f[d \ {Some(d)}]]

\* The composite score, as a quotient of the two sums over the metrics in use.
LEMMA CompositeIs ==
    ASSUME NEW metrics
    PROVE  Composite(metrics)
              = LET S == Used(metrics)
                IN  IF S = {} THEN 0
                    ELSE (CHOOSE f : ScoreSums(f, metrics, S))[S] \div (CHOOSE f : WeightSums(f, S))[S]
BY Zenon DEF Composite, MapThenSumSet, MapThenFoldSet, ScoreFrom, Used, ScoreSums, WeightSums, Some

\* There are finitely many weights, and each is a number above 0.
LEMMA WeightsAre ==
    /\ IsFiniteSet(DOMAIN Weights)
    /\ \A m \in DOMAIN Weights : Weights[m] \in Nat \ {0}
<1> DEFINE h == <<"retrieval_mrr", "retrieval_ndcg", "retrieval_recall", "rerank_mrr", "rerank_ndcg",
                  "rerank_ndcg_lift", "rerank_mrr_lift", "top1_change_rate", "context_precision",
                  "context_recall", "faithfulness", "answer_relevancy", "citation_precision">>
           T == {"retrieval_mrr", "retrieval_ndcg", "retrieval_recall", "rerank_mrr", "rerank_ndcg",
                  "rerank_ndcg_lift", "rerank_mrr_lift", "top1_change_rate", "context_precision",
                  "context_recall", "faithfulness", "answer_relevancy", "citation_precision"}
<1>1. DOMAIN Weights = T
  BY DEF Weights
<1>2. IsFiniteSet(T)
  <2>1. h \in [1..13 -> T] /\ \A e \in T : \E i \in 1..13 : h[i] = e
    OBVIOUS
  <2> HIDE DEF h, T
  <2>2. h \in Surjection(1..13, T)
    BY <2>1 DEF Surjection
  <2>3. IsFiniteSet(1..13)
    BY UpToIsFinite
  <2> QED BY <2>2, <2>3, FS_Surjection
<1>3. \A m \in T : Weights[m] \in Nat \ {0}
  BY DEF Weights
<1> QED BY <1>1, <1>2, <1>3

\* The composite of rates is a rate.
LEMMA CompositeHolds ==
    ASSUME NEW metrics, \A m \in DOMAIN metrics : metrics[m] \in 0..Scale
    PROVE  Composite(metrics) \in 0..Scale
<1> DEFINE from == ScoreFrom(metrics)
           S == Used(metrics)
           u == [m \in S |-> Weights[m] * metrics[from[m]]]
           w == [m \in S |-> Weights[m]]
           f == CHOOSE g : ScoreSums(g, metrics, S)
           e == CHOOSE g : WeightSums(g, S)
<1>1. Composite(metrics) = IF S = {} THEN 0 ELSE f[S] \div e[S]
  BY CompositeIs
<1>2. S \in SUBSET DOMAIN Weights /\ \A m \in S : from[m] \in DOMAIN metrics
  BY DEF Used
<1>3. IsFiniteSet(S)
  BY <1>2, WeightsAre, FS_Subset
<1> HIDE DEF S
<1>4. Scale \in Nat
  BY ScalePositive
<1>5. ASSUME NEW m \in S
      PROVE  /\ Weights[m] \in Nat \ {0} /\ Weights[m] * metrics[from[m]] \in Nat
             /\ Weights[m] * metrics[from[m]] <= Scale * Weights[m]
  <2> DEFINE a == metrics[from[m]]
             c == Weights[m]
  <2>1. c \in Nat \ {0} /\ a \in Nat /\ a <= Scale
    <3>1. m \in DOMAIN Weights /\ a \in 0..Scale
      BY <1>2
    <3> QED BY <1>4, <3>1, WeightsAre
  <2> HIDE DEF a, c
  <2>2. a * c <= Scale * c /\ a * c \in Int /\ Scale * c \in Int
    BY <1>4, <2>1, TimesKeepsOrder
  <2>3. c * a = a * c /\ c * a \in Nat
    BY <2>1
  <2> QED BY <2>1, <2>2, <2>3 DEF a, c
<1>6. u \in [S -> Nat] /\ w \in [S -> Nat] /\ \A m \in S : u[m] <= Scale * w[m]
  BY <1>5
<1>7. \A g : ScoreSums(g, metrics, S) <=> SumOver(g, u, S)
  <2>1. SUFFICES ASSUME NEW g PROVE ScoreSums(g, metrics, S) <=> SumOver(g, u, S)
    OBVIOUS
  <2> DEFINE a == [d \in SUBSET S |->
                      IF d = {} THEN 0 ELSE Weights[Some(d)] * metrics[from[Some(d)]] + g[d \ {Some(d)}]]
             b == [d \in SUBSET S |-> IF d = {} THEN 0 ELSE u[Some(d)] + g[d \ {Some(d)}]]
  <2>2. ASSUME NEW d \in SUBSET S PROVE a[d] = b[d]
    <3>1. CASE d = {}
      BY <3>1
    <3>2. CASE d # {}
      <4>1. Some(d) \in S
        BY <1>3, <3>2, SomeOfFinite
      <4>2. u[Some(d)] = Weights[Some(d)] * metrics[from[Some(d)]]
        BY <4>1
      <4> QED BY <3>2, <4>2
    <3> QED BY <3>1, <3>2
  <2>3. a = [d \in SUBSET S |-> a[d]] /\ b = [d \in SUBSET S |-> b[d]]
    OBVIOUS
  <2> HIDE DEF a, b
  <2>4. a = b
    BY <2>2, <2>3, Zenon
  <2> QED BY <2>4, Zenon DEF ScoreSums, SumOver, a, b
<1>8. \A g : WeightSums(g, S) <=> SumOver(g, w, S)
  <2>1. SUFFICES ASSUME NEW g PROVE WeightSums(g, S) <=> SumOver(g, w, S)
    OBVIOUS
  <2> DEFINE a == [d \in SUBSET S |-> IF d = {} THEN 0 ELSE Weights[Some(d)] + g[d \ {Some(d)}]]
             b == [d \in SUBSET S |-> IF d = {} THEN 0 ELSE w[Some(d)] + g[d \ {Some(d)}]]
  <2>2. ASSUME NEW d \in SUBSET S PROVE a[d] = b[d]
    <3>1. CASE d = {}
      BY <3>1
    <3>2. CASE d # {}
      <4>1. Some(d) \in S
        BY <1>3, <3>2, SomeOfFinite
      <4>2. w[Some(d)] = Weights[Some(d)]
        BY <4>1
      <4> QED BY <3>2, <4>2
    <3> QED BY <3>1, <3>2
  <2>3. a = [d \in SUBSET S |-> a[d]] /\ b = [d \in SUBSET S |-> b[d]]
    OBVIOUS
  <2> HIDE DEF a, b
  <2>4. a = b
    BY <2>2, <2>3, Zenon
  <2> QED BY <2>4, Zenon DEF WeightSums, SumOver, a, b
<1>10. \A m \in S : w[m] \in Nat \ {0}
  BY <1>5
<1> HIDE DEF u, w
<1>9. SumOver(f, u, S) /\ SumOver(e, w, S)
  <2>1. (\E g : SumOver(g, u, S)) /\ \E g : SumOver(g, w, S)
    BY <1>3, <1>6, SumExists
  <2>2. (\E g : ScoreSums(g, metrics, S)) /\ \E g : WeightSums(g, S)
    BY <1>7, <1>8, <2>1, Zenon
  <2>3. ScoreSums(f, metrics, S) /\ WeightSums(e, S)
    BY <2>2, Zenon
  <2> HIDE DEF f, e
  <2> QED BY <1>7, <1>8, <2>3, Zenon
<1> HIDE DEF f, e
<1>11. /\ SumsTo(f, e, Scale, S)
       /\ S # {} => \E m \in S : w[m] <= e[S]
  BY <1>3, <1>4, <1>6, <1>9, SumsBounded
<1>12. CASE S = {}
  BY <1>1, <1>4, <1>12
<1>13. CASE S # {}
  <2> DEFINE a == f[S]
             c == e[S]
  <2>1. a \in Nat /\ c \in Nat \ {0} /\ a <= Scale * c
    <3>1. a \in Nat /\ c \in Nat /\ a <= Scale * c
      BY <1>11 DEF SumsTo
    <3>2. PICK m \in S : w[m] <= c
      BY <1>11, <1>13
    <3> QED BY <1>10, <3>1, <3>2
  <2> HIDE DEF a, c
  <2>2. a \div c \in Nat /\ (a \div c) * c <= a
    BY <2>1, Quotient
  <2> DEFINE q == a \div c
  <2> HIDE DEF q
  <2>3. q <= Scale
    <3>1. q \in Nat /\ q * c <= a
      BY <2>2 DEF q
    <3>2. SUFFICES ASSUME q > Scale PROVE FALSE
      BY <1>4, <3>1
    <3>3. Scale + 1 \in Int /\ Scale + 1 <= q
      BY <1>4, <3>1, <3>2
    <3>4. (Scale + 1) * c <= q * c /\ (Scale + 1) * c \in Int /\ q * c \in Int
      BY <2>1, <3>1, <3>3, TimesKeepsOrder
    <3>5. (Scale + 1) * c = Scale * c + c /\ Scale * c \in Nat
      BY <1>4, <2>1
    <3> QED BY <2>1, <3>1, <3>4, <3>5
  <2>4. Composite(metrics) = q
    BY <1>1, <1>13 DEF q, a, c
  <2> QED BY <1>4, <2>2, <2>3, <2>4 DEF q
<1> QED BY <1>12, <1>13

------------------------------------------------------------------------------
\* Averages.
AddSteps(f, v) ==
    f = [d \in SUBSET DOMAIN v |-> IF d = {} THEN 0 ELSE f[d \ {Max(d)}] + v[Max(d)]]

\* The mean, as a quotient of the value of its additions.
LEMMA AverageIs ==
    ASSUME NEW v
    PROVE  Average(v) = IF v = <<>> THEN 0 ELSE (CHOOSE f : AddSteps(f, v))[DOMAIN v] \div Len(v)
BY Zenon DEF Average, FoldLeft, MapThenFoldSet, AddSteps

\* The additions of a mean have a value on every sequence of rates.
LEMMA AddsExist ==
    ASSUME NEW v \in Seq(Nat)
    PROVE  \E f : AddSteps(f, v)
<1> DEFINE n == Len(v)
           step == [p \in (1..n) \X Nat |-> p[2] + v[p[1]]]
<1>1. n \in Nat /\ DOMAIN v = 1..n /\ \A k \in 1..n : v[k] \in Nat
  OBVIOUS
<1>2. step \in [(1..n) \X Nat -> Nat]
  <2>1. \A k \in 1..n, h \in Nat : h + v[k] \in Nat
    BY <1>1
  <2> HIDE DEF n
  <2> QED BY <2>1
<1>3. PICK f \in [SUBSET (1..n) -> Nat] : FoldSteps(f, 0, step, n)
  <2> HIDE DEF step, n
  <2> QED BY <1>1, <1>2, FoldExists
<1> HIDE DEF n
<1>4. ASSUME NEW d \in SUBSET (1..n), d # {} PROVE f[d] = f[d \ {Max(d)}] + v[Max(d)]
  <2> DEFINE m == Max(d)
             e == d \ {m}
  <2>1. m \in 1..n /\ e \in SUBSET (1..n)
    BY <1>1, <1>4, MaxUpTo
  <2>2. f[d] = step[<<m, f[e]>>]
    BY <1>3, <1>4 DEF FoldSteps
  <2>3. f[e] \in Nat
    BY <1>3, <2>1
  <2> HIDE DEF m, e
  <2>4. step[<<m, f[e]>>] = f[e] + v[m]
    BY <2>1, <2>3
  <2> QED BY <2>2, <2>4 DEF m, e
<1>5. f[{}] = 0
  BY <1>3 DEF FoldSteps
<1> DEFINE g == [d \in SUBSET (1..n) |-> IF d = {} THEN 0 ELSE f[d \ {Max(d)}] + v[Max(d)]]
<1>6. f = g
  <2>1. ASSUME NEW d \in SUBSET (1..n) PROVE f[d] = g[d]
    <3>1. g[d] = IF d = {} THEN 0 ELSE f[d \ {Max(d)}] + v[Max(d)]
      OBVIOUS
    <3> HIDE DEF g
    <3> QED BY <1>4, <1>5, <3>1
  <2>2. f = [d \in SUBSET (1..n) |-> f[d]] /\ g = [d \in SUBSET (1..n) |-> g[d]]
    OBVIOUS
  <2> HIDE DEF g
  <2> QED BY <2>1, <2>2, Zenon
<1>7. AddSteps(f, v)
  BY <1>1, <1>6, Zenon DEF AddSteps
<1> QED BY <1>7

\* The average of natural numbers is one.
LEMMA AverageType ==
    ASSUME NEW v \in Seq(Nat)
    PROVE  Average(v) \in Nat
<1> DEFINE n == Len(v)
           f == CHOOSE g : AddSteps(g, v)
           P == {m \in Nat : m <= n => f[1..m] \in Nat}
<1>1. n \in Nat /\ DOMAIN v = 1..n /\ (\A k \in 1..n : v[k] \in Nat) /\ (v # <<>> => n # 0)
  OBVIOUS
<1>2. AddSteps(f, v)
  <2>1. \E g : AddSteps(g, v)
    BY AddsExist
  <2> QED BY <2>1, Zenon
<1> HIDE DEF f, n
<1>3. \A d \in SUBSET (1..n) : f[d] = IF d = {} THEN 0 ELSE f[d \ {Max(d)}] + v[Max(d)]
  <2>1. f = [d \in SUBSET DOMAIN v |-> IF d = {} THEN 0 ELSE f[d \ {Max(d)}] + v[Max(d)]]
    BY <1>2, Zenon DEF AddSteps
  <2> QED BY <1>1, <2>1, Zenon
<1>4. 0 \in P
  <2>1. 1..0 = {} /\ {} \in SUBSET (1..n)
    OBVIOUS
  <2>2. f[{}] = 0
    BY <1>3, <2>1
  <2> QED BY <2>1, <2>2
<1>5. ASSUME NEW m \in P PROVE m + 1 \in P
  <2>1. SUFFICES ASSUME m + 1 <= n PROVE f[1..(m + 1)] \in Nat
    OBVIOUS
  <2>2. m \in Nat /\ f[1..m] \in Nat /\ v[m + 1] \in Nat
    BY <1>1, <2>1
  <2> HIDE DEF P
  <2> DEFINE I == 1..(m + 1)
  <2>3. I # {} /\ I \in SUBSET (1..n) /\ m + 1 \in I /\ I \ {m + 1} = 1..m
    <3>1. m \in Nat /\ n \in Nat /\ m + 1 <= n
      BY <1>1, <2>1, <2>2
    <3>2. m + 1 \in I /\ I \in SUBSET (1..n)
      BY <3>1
    <3>3. I \ {m + 1} = 1..m
      BY <3>1
    <3> QED BY <3>2, <3>3
  <2>4. Max(I) = m + 1
    <3>1. Max(I) \in I /\ m + 1 <= Max(I)
      <4> HIDE DEF I
      <4> QED BY <1>1, <2>3, MaxUpTo
    <3> QED BY <2>2, <3>1
  <2> HIDE DEF I
  <2>5. f[I] = f[1..m] + v[m + 1]
    BY <1>3, <2>3, <2>4
  <2> QED BY <2>2, <2>5 DEF I
<1>6. P = Nat
  <2>1. P \in SUBSET Nat
    OBVIOUS
  <2> HIDE DEF P
  <2> QED BY <1>4, <1>5, <2>1, NaturalsBySteps
<1>7. f[1..n] \in Nat
  <2>1. n \in P /\ n <= n
    BY <1>1, <1>6
  <2> QED BY <2>1
<1>8. Average(v) = IF v = <<>> THEN 0 ELSE f[1..n] \div n
  BY <1>1, AverageIs DEF f, n
<1> QED BY <1>1, <1>7, <1>8, Quotient

------------------------------------------------------------------------------
\* The comparison of chunkers, judged by words: what is found is a list, its
\* scores are numbers, and the best of the results is one of the configurations.

\* What a simple retriever finds is a list.
LEMMA SimpleRetrieveIs ==
    ASSUME NEW A, NEW texts \in Seq(A), NEW query, NEW k \in Nat
    PROVE  LET f == SimpleRetrieve(texts, query, k) IN f \in Seq(ToSet(f))
<1> DEFINE worded == Kept(texts, {i \in DOMAIN texts : Words(texts[i]) # {}})
           v == [i \in DOMAIN worded |-> Jaccard(Words(query), Words(worded[i]))]
           S == Placed(worded, Ranks(v))
           f == TopK(S, k)
<1>1. SimpleRetrieve(texts, query, k) = f
  BY Zenon DEF SimpleRetrieve, Where, SortedBy, Placed
<1>2. worded \in Seq(A)
  <2>1. {i \in DOMAIN texts : Words(texts[i]) # {}} \in SUBSET (1..Len(texts))
    OBVIOUS
  <2> QED BY <2>1, KeptElements
<1> HIDE DEF v, worded
<1>3. S \in Seq(ToSet(S))
  BY <1>2, PlacedList
<1> HIDE DEF S
<1>4. f \in Seq(ToSet(S)) /\ Len(f) \in Nat /\ DOMAIN f = 1..Len(f)
  BY <1>3, FirstOf
<1>5. f = [i \in 1..Len(f) |-> f[i]]
  BY <1>4
<1> HIDE DEF f
<1>6. f \in Seq(ToSet(f))
  BY <1>4, <1>5, SeqOfItself
<1> QED BY <1>1, <1>6

\* The scores by words of contexts that are a list are numbers.
LEMMA LexicalScoresAre ==
    ASSUME NEW contexts, contexts \in Seq(ToSet(contexts)), NEW truth \in Seq(Int)
    PROVE  LET s == LexicalScores(contexts, truth) IN s.precision \in Nat /\ s.recall \in Nat
<1> DEFINE n(words) == Cardinality(Words(truth) \cap words)
           of == Max({1, Cardinality(Words(truth))})
           near == Kept(contexts, {i \in DOMAIN contexts :
                                      Rate(n(Words(contexts[i])), of) > RelevantOverlap})
           all == UNION {Words(contexts[k]) : k \in DOMAIN contexts}
<1>1. /\ LexicalScores(contexts, truth).precision = Rate(Len(near), Len(contexts))
      /\ LexicalScores(contexts, truth).recall = Rate(n(all), of)
  BY Zenon DEF LexicalScores, Where
<1>2. IsFiniteSet(Words(truth))
  BY WordsFinite
<1>3. Cardinality(Words(truth)) \in Nat /\ n(all) \in Nat
  <2>1. IsFiniteSet(Words(truth) \cap all)
    BY <1>2, FS_Subset
  <2> QED BY <1>2, <2>1, FS_CardinalityType
<1>4. of \in Nat
  <2> DEFINE c == Cardinality(Words(truth))
  <2>1. {1, c} \in SUBSET (0..(c + 1)) /\ {1, c} # {} /\ c + 1 \in Nat
    BY <1>3
  <2>2. Max({1, c}) \in {1, c}
    <3> HIDE DEF c
    <3> QED BY <2>1, MaxIsGreatest
  <2> QED BY <1>3, <2>2
<1>5. Len(near) \in Nat /\ Len(contexts) \in Nat
  <2> DEFINE I == {i \in DOMAIN contexts : Rate(n(Words(contexts[i])), of) > RelevantOverlap}
  <2>1. I \in SUBSET (1..Len(contexts)) /\ Len(contexts) \in Nat
    <3> HIDE DEF n, of
    <3> QED OBVIOUS
  <2> HIDE DEF I
  <2>2. Len(Kept(contexts, I)) \in Nat
    BY <2>1, KeptElements
  <2> QED BY <2>1, <2>2 DEF I
<1> HIDE DEF near, all, of, n
<1> QED BY <1>1, <1>3, <1>4, <1>5, RateType

\* The means of the scores by words are numbers, of as many samples as the

\* shorter list has.
LEMMA FallbackIs ==
    ASSUME NEW A, NEW contexts \in Seq(A), NEW truths \in Seq(Seq(Int)),
           \A k \in DOMAIN contexts : contexts[k] \in Seq(ToSet(contexts[k]))
    PROVE  LET s == Fallback(contexts, truths) IN s.precision \in Nat /\ s.recall \in Nat
<1> DEFINE rows == PerSample(contexts, truths)
           m == Min({Len(contexts), Len(truths)})
<1>1. /\ Fallback(contexts, truths).precision = Average(Column(rows, "precision"))
      /\ Fallback(contexts, truths).recall = Average(Column(rows, "recall"))
  BY Zenon DEF Fallback
<1>2. m \in Nat /\ m <= Len(contexts) /\ m <= Len(truths)
  <2> DEFINE a == Len(contexts)
             b == Len(truths)
  <2>1. {a, b} \in SUBSET Nat /\ {a, b} # {} /\ a \in Nat /\ b \in Nat
    OBVIOUS
  <2>2. Min({a, b}) \in {a, b} /\ \A i \in {a, b} : Min({a, b}) <= i
    <3> HIDE DEF a, b
    <3> QED BY <2>1, MinIsLeast
  <2> QED BY <2>1, <2>2
<1>3. rows = [k \in 1..m |-> LexicalScores(contexts[k], truths[k])]
  BY Zenon DEF PerSample
<1> HIDE DEF rows, m
<1>4. ASSUME NEW k \in 1..m PROVE rows[k].precision \in Nat /\ rows[k].recall \in Nat
  <2>1. contexts[k] \in Seq(ToSet(contexts[k])) /\ truths[k] \in Seq(Int)
    BY <1>2
  <2>2. rows[k] = LexicalScores(contexts[k], truths[k])
    BY <1>3
  <2> QED BY <2>1, <2>2, LexicalScoresAre
<1>5. Column(rows, "precision") \in Seq(Nat) /\ Column(rows, "recall") \in Seq(Nat)
  <2>1. DOMAIN rows = 1..m
    BY <1>3
  <2>2. /\ Column(rows, "precision") = [k \in 1..m |-> rows[k].precision]
        /\ Column(rows, "recall") = [k \in 1..m |-> rows[k].recall]
    BY <2>1, Zenon DEF Column
  <2>3. /\ [k \in 1..m |-> rows[k].precision] \in Seq(Nat)
        /\ [k \in 1..m |-> rows[k].recall] \in Seq(Nat)
    BY <1>2, <1>4
  <2> QED BY <2>2, <2>3, Zenon
<1> QED BY <1>1, <1>5, AverageType

\* The result of a configuration names it, and its score is a number.
LEMMA RunSingleIs ==
    ASSUME NEW dataset, dataset \in Seq(ToSet(dataset)),
           \A i \in DOMAIN dataset : dataset[i].truth \in Seq(Int),
           NEW chunked, NEW c, NEW A, chunked[c] \in Seq(Seq(A)), NEW k \in Nat, NEW judged
    PROVE  LET r == RunSingle(dataset, chunked, c, k, "absent", judged)
           IN  r.config = c /\ r.combined \in Int
<1> DEFINE texts == FlattenSeq(chunked[c])
           found == [n \in DOMAIN dataset |-> SimpleRetrieve(texts, dataset[n].question, k)]
           truths == [n \in DOMAIN dataset |-> dataset[n].truth]
           s == IF texts = <<>> THEN [ok |-> TRUE, precision |-> 0, recall |-> 0]
                ELSE EvaluateRetrieval("absent", judged, found, truths)
           r == RunSingle(dataset, chunked, c, k, "absent", judged)
<1>1. r.config = c /\ r.combined = CombinedScore(s)
  BY Zenon DEF RunSingle
<1>2. texts \in Seq(A)
  BY FlatElements
<1>3. found \in Seq(ToSet(found)) /\ DOMAIN found = DOMAIN dataset /\ Len(found) = Len(dataset)
      /\ \A n \in DOMAIN found : found[n] \in Seq(ToSet(found[n]))
  <2> HIDE DEF texts
  <2>1. found \in Seq(ToSet(found)) /\ Len(found) = Len(dataset) /\ DOMAIN found = 1..Len(dataset)
    <3>1. found = [n \in DOMAIN dataset |-> found[n]]
      OBVIOUS
    <3> HIDE DEF found
    <3> QED BY <3>1, ByPlace
  <2>2. ASSUME NEW n \in DOMAIN dataset PROVE found[n] \in Seq(ToSet(found[n]))
    <3>1. found[n] = SimpleRetrieve(texts, dataset[n].question, k)
      OBVIOUS
    <3> QED BY <1>2, <3>1, SimpleRetrieveIs
  <2> QED BY <2>1, <2>2
<1>4. truths \in Seq(Seq(Int)) /\ Len(truths) = Len(dataset)
  OBVIOUS
<1> HIDE DEF texts, found, truths
<1>5. s.precision \in Nat /\ s.recall \in Nat
  <2>1. CASE texts = <<>>
    BY <2>1
  <2>2. CASE texts # <<>>
    <3>1. s = Fallback(found, truths)
      BY <1>3, <1>4, <2>2, Zenon DEF EvaluateRetrieval
    <3> HIDE DEF s
    <3> QED BY <1>3, <1>4, <3>1, FallbackIs
  <2> QED BY <2>1, <2>2
<1> HIDE DEF s, r
<1>6. CombinedScore(s) \in Int
  <2> DEFINE a == s.precision
             b == s.recall
             t == a + b
             u == 2 * a * b
  <2>1. a \in Nat /\ b \in Nat
    BY <1>5
  <2>2. CombinedScore(s) = IF t = 0 THEN 0 ELSE u \div t
    BY Zenon DEF CombinedScore
  <2>3. t \in Nat /\ u \in Nat
    <3> HIDE DEF a, b
    <3> QED BY <2>1
  <2> HIDE DEF a, b, t, u
  <2> QED BY <2>2, <2>3, Quotient
<1> QED BY <1>1, <1>6, Zenon DEF r

\* The best of a comparison is one of its configurations.
LEMMA RunComparisonHolds ==
    ASSUME NEW dataset, dataset \in Seq(ToSet(dataset)),
           \A i \in DOMAIN dataset : dataset[i].truth \in Seq(Int),
           NEW chunked, NEW A, NEW configs, configs \in Seq(ToSet(configs)),
           \A c \in ToSet(configs) : chunked[c] \in Seq(Seq(A)), NEW k \in Nat, NEW judged,
           NEW best, best = RunComparison(dataset, chunked, configs, k, "absent", judged).best,
           NEW j \in DOMAIN best
    PROVE  best[j] \in ToSet(configs)
<1> DEFINE I == {i \in DOMAIN configs : configs[i].chunk_overlap < configs[i].chunk_size}
           fitting == Kept(configs, I)
           rows == [i \in DOMAIN fitting |-> RunSingle(dataset, chunked, fitting[i], k, "absent", judged)]
<1>1. best = IF rows = <<>> THEN <<>> ELSE <<FirstBest(rows, "combined").config>>
  BY Zenon DEF RunComparison, Where
<1>2. /\ fitting \in Seq(ToSet(configs)) /\ DOMAIN fitting = 1..Len(fitting)
      /\ \A i \in DOMAIN fitting : fitting[i] \in ToSet(configs)
  <2>1. I \in SUBSET (1..Len(configs))
    OBVIOUS
  <2> HIDE DEF I
  <2>2. fitting \in Seq(ToSet(configs))
    BY <2>1, KeptElements
  <2> HIDE DEF fitting
  <2> QED BY <2>2
<1> HIDE DEF I, fitting
<1>3. rows \in Seq(ToSet(rows)) /\ DOMAIN rows = DOMAIN fitting
  <2>1. rows = [i \in DOMAIN fitting |-> rows[i]]
    OBVIOUS
  <2> HIDE DEF rows
  <2>2. DOMAIN rows = DOMAIN fitting
    BY <2>1
  <2> QED BY <1>2, <2>1, <2>2, ByPlace
<1>4. ASSUME NEW i \in DOMAIN fitting
      PROVE  rows[i].config \in ToSet(configs) /\ rows[i].combined \in Int
  <2>1. rows[i] = RunSingle(dataset, chunked, fitting[i], k, "absent", judged)
    OBVIOUS
  <2>2. fitting[i] \in ToSet(configs) /\ chunked[fitting[i]] \in Seq(Seq(A))
    BY <1>2
  <2> HIDE DEF rows
  <2> QED BY <2>1, <2>2, RunSingleIs
<1> HIDE DEF rows
<1>5. rows # <<>>
  <2> SUFFICES ASSUME rows = <<>> PROVE FALSE
    OBVIOUS
  <2>1. best = <<>>
    BY <1>1
  <2> QED BY <2>1
<1>6. PICK i \in DOMAIN rows : FirstBest(rows, "combined") = rows[i]
  <2>1. \A i \in DOMAIN rows : rows[i]["combined"] \in Int
    BY <1>3, <1>4
  <2> QED BY <1>3, <1>5, <2>1, FirstBestIs
<1>7. best = <<rows[i].config>>
  BY <1>1, <1>5, <1>6, Zenon
<1>8. j = 1 /\ best[1] = rows[i].config
  BY <1>7
<1> QED BY <1>3, <1>4, <1>8

\* The chunks of each document under each configuration are lists of texts.
ChunkedBy(configs, documents) ==
    [c \in ToSet(configs) |->
        [d \in DOMAIN documents |-> <<documents[d], SubSeq(documents[d], 1, c.chunk_size)>>]]

\* Every configuration gives each document a sequence of chunks.
LEMMA ChunkedByIs ==
    ASSUME NEW configs, NEW documents, documents \in Seq(ToSet(documents))
    PROVE  \E A : \A c \in ToSet(configs) : ChunkedBy(configs, documents)[c] \in Seq(Seq(A))
<1> DEFINE cut(d, c) == SubSeq(documents[d], 1, c.chunk_size)
           A == UNION {UNION {{documents[d], cut(d, c)} : d \in DOMAIN documents} : c \in ToSet(configs)}
<1>1. DOMAIN documents = 1..Len(documents) /\ Len(documents) \in Nat
  OBVIOUS
<1>2. ASSUME NEW c \in ToSet(configs) PROVE ChunkedBy(configs, documents)[c] \in Seq(Seq(A))
  <2>1. ChunkedBy(configs, documents)[c] = [d \in 1..Len(documents) |-> <<documents[d], cut(d, c)>>]
    BY <1>1 DEF ChunkedBy
  <2>2. ASSUME NEW d \in 1..Len(documents) PROVE <<documents[d], cut(d, c)>> \in Seq(A)
    <3>1. documents[d] \in {documents[d], cut(d, c)} /\ cut(d, c) \in {documents[d], cut(d, c)}
      OBVIOUS
    <3>2. documents[d] \in A /\ cut(d, c) \in A
      <4> HIDE DEF cut
      <4> QED BY <1>1, <3>1
    <3> HIDE DEF A, cut
    <3> QED BY <3>2
  <2> HIDE DEF A, cut
  <2>3. [d \in 1..Len(documents) |-> <<documents[d], cut(d, c)>>] \in Seq(Seq(A))
    BY <1>1, <2>2
  <2> QED BY <2>1, <2>3
<1> QED BY <1>2

\* What a comparison of runs reports: who beats all others wins, the composite
\* score is a rate, and the best configuration is one of those compared.
CompareContract(run, o) ==
    /\ o.report.beats_all =>
          \E k \in DOMAIN run.rows : run.rows[k].production /\ run.rows[k].name = o.report.winner
    /\ o.composite \in 0..Scale
    /\ \A k \in DOMAIN o.chunking.best : o.chunking.best[k] \in ToSet(run.configs)

\* A comparison of runs holds its contract: the report, the chunking study and the composite.
THEOREM ComparisonHolds ==
    ASSUME NEW run \in Runs, NEW o, o.report = Compare(run.rows),
           o.chunking = RunComparison(run.samples, ChunkedBy(run.configs, run.documents),
                                      run.configs, 2, "absent", NoScores),
           o.composite = Composite([retrieval_mrr |-> run.rows[1].score, retrieval_ndcg |-> Scale,
                                    faithfulness |-> 0])
    PROVE  CompareContract(run, o)
<1>1. /\ run.rows \in Seq(ToSet(run.rows)) /\ run.rows # <<>>
      /\ \A i \in DOMAIN run.rows : run.rows[i].score \in 0..Scale
      /\ run.configs \in Seq(ToSet(run.configs)) /\ run.documents \in Seq(ToSet(run.documents))
      /\ run.samples \in Seq(ToSet(run.samples))
      /\ \A i \in DOMAIN run.samples : run.samples[i].truth \in Seq(Int)
  BY RunsAreTyped, Zenon
<1>2. Scale \in Nat
  BY ScalePositive
<1>3. ASSUME o.report.beats_all
      PROVE  \E k \in DOMAIN run.rows : run.rows[k].production /\ run.rows[k].name = o.report.winner
  <2>1. \A i \in DOMAIN run.rows : run.rows[i].score \in Int
    BY <1>1, <1>2
  <2>2. Compare(run.rows).beats_all
    BY <1>3, Zenon
  <2>3. \E k \in DOMAIN run.rows : run.rows[k].production /\ run.rows[k].name = Compare(run.rows).winner
    BY <1>1, <2>1, <2>2, CompareHolds
  <2> QED BY <2>3, Zenon
<1>4. o.composite \in 0..Scale
  <2> DEFINE s == run.rows[1].score
             metrics == [retrieval_mrr |-> s, retrieval_ndcg |-> Scale, faithfulness |-> 0]
  <2>1. s \in 0..Scale
    <3>1. 1 \in DOMAIN run.rows
      BY <1>1
    <3> QED BY <1>1, <3>1
  <2> HIDE DEF s
  <2>2. \A m \in DOMAIN metrics : metrics[m] \in 0..Scale
    BY <1>2, <2>1
  <2>3. o.composite = Composite(metrics)
    BY Zenon DEF s
  <2> HIDE DEF metrics
  <2> QED BY <2>2, <2>3, CompositeHolds
<1>5. ASSUME NEW k \in DOMAIN o.chunking.best PROVE o.chunking.best[k] \in ToSet(run.configs)
  <2> DEFINE chunked == ChunkedBy(run.configs, run.documents)
             best == RunComparison(run.samples, chunked, run.configs, 2, "absent", NoScores).best
  <2>1. PICK A : \A c \in ToSet(run.configs) : chunked[c] \in Seq(Seq(A))
    BY <1>1, ChunkedByIs
  <2>2. o.chunking.best = best
    BY Zenon
  <2> HIDE DEF chunked
  <2>3. \A j \in DOMAIN best : best[j] \in ToSet(run.configs)
    BY <1>1, <2>1, RunComparisonHolds
  <2> HIDE DEF best
  <2> QED BY <1>5, <2>2, <2>3
<1> QED BY <1>3, <1>4, <1>5 DEF CompareContract

(***************************************************************************)
(* The scores of a ranking are rates, and agree on whether anything        *)
(* relevant was found.                                                     *)
(***************************************************************************)
(* A part of a whole is a rate of at most one.                             *)
LEMMA RateUnit ==
    ASSUME NEW m \in Nat, NEW t \in Nat, m <= t
    PROVE  Rate(m, t) \in 0..Scale
<1>1. Scale \in Nat
    BY ScalePositive
<1>2. CASE t = 0
    <2>1. Rate(m, t) = 0
        BY <1>2 DEF Rate
    <2>2. QED
        BY <1>1, <2>1
<1>3. CASE t # 0
    <2>1. t \in Nat \ {0}
        BY <1>3
    <2>2. Rate(m, t) = (Scale * m) \div t
        BY <1>3 DEF Rate
    <2>3. m * Scale <= t * Scale
        BY <1>1, TimesKeepsOrder
    <2>4. m * Scale = Scale * m /\ t * Scale = Scale * t /\ Scale * m \in Nat
        BY <1>1
    <2>5. Rate(m, t) \in Nat
        BY RateType
    <2>6. (Rate(m, t)) * t <= Scale * m
        BY <2>1, <2>2, <2>4, Quotient
    <2>7. SUFFICES ASSUME Rate(m, t) > Scale PROVE FALSE
        BY <1>1, <2>5
    <2>8. (Scale + 1) * t <= Rate(m, t) * t
        <3>1. Scale + 1 \in Int /\ Rate(m, t) \in Int /\ Scale + 1 <= Rate(m, t)
            BY <1>1, <2>5, <2>7
        <3>2. QED
            BY <3>1, TimesKeepsOrder
    <2>9. (Scale + 1) * t = Scale * t + t
        BY <1>1
    <2>10. Scale * t \in Nat /\ Rate(m, t) * t \in Nat
        BY <1>1, <2>5
    <2>11. QED
        BY <2>1, <2>3, <2>4, <2>6, <2>8, <2>9, <2>10
<1>4. QED
    BY <1>2, <1>3

(* What RankingScores makes of a list of at most k names: rates, and none  *)
(* of them is zero unless all are.                                         *)
RankedWell(s) ==
    /\ s.mrr \in 0..Scale /\ s.recall \in 0..Scale /\ s.precision \in 0..Scale
    /\ s.mrr > 0 <=> s.recall > 0
    /\ s.mrr > 0 <=> s.precision > 0

\* The ranking scores of distinct identities within k are rates.
LEMMA RankingScoresAre ==
    ASSUME NEW A, NEW ids \in Seq(A), \A i, j \in DOMAIN ids : ids[i] = ids[j] => i = j,
           NEW k \in Nat, Len(ids) <= k, k <= Scale,
           NEW relevant, IsFiniteSet(relevant), Cardinality(relevant) <= Scale
    PROVE  RankedWell(RankingScores(ids, relevant, k))
<1> DEFINE hits == {i \in DOMAIN ids : ids[i] \in relevant}
           s == RankingScores(ids, relevant, k)
           c == Cardinality(hits)
           r == Cardinality(relevant)
<1>1. Scale \in Nat \ {0} /\ Len(ids) \in Nat /\ DOMAIN ids = 1..Len(ids)
    BY ScalePositive
<1>2. {i \in hits : i <= k} = hits
    BY <1>1
<1>3. /\ s.recall = Rate(c, r) /\ s.precision = Rate(c, k)
      /\ s.mrr = IF hits = {} THEN 0 ELSE Scale \div Min(hits)
    BY <1>2, Zenon DEF RankingScores
<1>4. hits \in SUBSET (1..Len(ids)) /\ hits \in SUBSET (1..k)
    BY <1>1
<1>5. IsFiniteSet(hits) /\ c \in Nat /\ c <= k
    <2>1. IsFiniteSet(1..k) /\ Cardinality(1..k) = k
        BY UpToIsFinite
    <2>2. IsFiniteSet(hits) /\ Cardinality(hits) <= Cardinality(1..k)
        BY <1>4, <2>1, FS_Subset
    <2>3. QED
        BY <2>1, <2>2, FS_CardinalityType
<1>6. r \in Nat
    BY FS_CardinalityType
<1>7. c <= r
    <2> DEFINE f == [i \in hits |-> ids[i]]
    <2>1. f \in Injection(hits, relevant)
        <3>1. f \in [hits -> relevant]
            OBVIOUS
        <3>2. \A i, j \in hits : f[i] = f[j] => i = j
            OBVIOUS
        <3>3. QED
            BY <3>1, <3>2 DEF Injection, IsInjective
    <2> HIDE DEF f, hits
    <2>2. QED
        BY <1>5, <2>1, FS_Injection
<1>8. c > 0 <=> hits # {}
    BY <1>5, FS_EmptySet
<1> HIDE DEF hits, s, r, c
<1>9. s.recall \in 0..Scale /\ s.precision \in 0..Scale
    BY <1>3, <1>5, <1>6, <1>7, RateUnit
<1>10. (s.recall > 0 <=> c > 0) /\ (s.precision > 0 <=> c > 0)
    <2>1. r <= Scale
        BY DEF r
    <2>2. (c > 0 => r > 0) /\ (c > 0 => k > 0)
        BY <1>5, <1>6, <1>7
    <2>3. QED
        BY <1>3, <1>5, <1>6, <2>1, <2>2, RateSeen
<1>11. s.mrr \in 0..Scale /\ (s.mrr > 0 <=> hits # {})
    <2>1. CASE hits = {}
        BY <1>1, <1>3, <2>1
    <2>2. CASE hits # {}
        <3>1. hits \in SUBSET Nat
            BY <1>4
        <3>2. Min(hits) \in hits
            BY <2>2, <3>1, MinIsLeast
        <3> DEFINE m == Min(hits)
        <3>3. m \in 1..k
            BY <1>4, <3>2
        <3>4. s.mrr = Scale \div m
            BY <1>3, <2>2
        <3> HIDE DEF m
        <3>5. m \in Nat \ {0} /\ 1 * m <= Scale
            BY <1>1, <3>3
        <3>6. Scale \div m \in Nat /\ (Scale \div m) * m <= Scale
            BY <1>1, <3>5, Quotient
        <3>7. 1 <= Scale \div m
            BY <1>1, <3>5, QuotientBounds
        <3>8. Scale \div m <= Scale
            <4> DEFINE q == Scale \div m
            <4>1. q \in Nat /\ q * m <= Scale /\ q \in Int
                BY <3>6
            <4> HIDE DEF q
            <4>2. 1 * q <= m * q
                BY <3>3, <4>1, TimesKeepsOrder
            <4>3. q * m = m * q /\ m * q \in Nat
                BY <3>5, <4>1
            <4>4. q <= Scale
                BY <1>1, <4>1, <4>2, <4>3
            <4>5. QED
                BY <4>4 DEF q
        <3>9. QED
            BY <1>1, <2>2, <3>4, <3>6, <3>7, <3>8
    <2>3. QED
        BY <2>1, <2>2
<1>12. RankedWell(s)
    BY <1>8, <1>9, <1>10, <1>11 DEF RankedWell
<1>13. QED
    BY <1>12 DEF s

(***************************************************************************)
(* What is retrieved: at most k chunks with texts and scores, each once.   *)
(***************************************************************************)
RatedList(s) == s \in Seq(ToSet(s)) /\ \A i \in DOMAIN s : Rated(s[i])
FoundWell(list, k) == Identified(list) /\ Len(list) <= k /\ \A i \in DOMAIN list : Rated(list[i])

(* The members of a list of rated chunks are a set of rated chunks, and    *)
(* a list over such a set is one of rated chunks.                          *)
LEMMA RatedMembers ==
    ASSUME NEW s, RatedList(s)
    PROVE  \A c \in ToSet(s) : Rated(c)
BY DEF RatedList, ToSet

\* A sequence of rated chunks is a rated list.
LEMMA RatedElements ==
    ASSUME NEW C, \A c \in C : Rated(c), NEW s \in Seq(C)
    PROVE  RatedList(s)
<1>1. s = [k \in 1..Len(s) |-> s[k]] /\ Len(s) \in Nat /\ DOMAIN s = 1..Len(s)
  OBVIOUS
<1>2. s \in Seq(ToSet(s))
  BY <1>1, SeqOfItself
<1>3. \A k \in DOMAIN s : s[k] \in C
  BY <1>1
<1> QED BY <1>2, <1>3 DEF RatedList

(* Chunks that are cut out of a list of rated ones are rated.              *)
LEMMA RatedTop ==
    ASSUME NEW s, RatedList(s), NEW k \in Nat, NEW name
    PROVE  LET r == Retrieved(TopK(s, k), name)
           IN  Len(r) <= k /\ \A i \in DOMAIN r : Rated(r[i])
<1> DEFINE C == ToSet(s)
           t == TopK(s, k)
           m == IF k < Len(s) THEN k ELSE Len(s)
           r == Retrieved(t, name)
<1>1. s \in Seq(C) /\ \A c \in C : Rated(c)
  BY RatedMembers DEF RatedList
<1> HIDE DEF C
<1>2. /\ m \in Nat /\ m <= k /\ t \in Seq(C) /\ Len(t) = m /\ DOMAIN t = 1..m
  <2>1. m \in Nat /\ t \in Seq(C) /\ Len(t) = m /\ DOMAIN t = 1..m
    BY <1>1, FirstOf
  <2>2. m <= k
    BY <1>1
  <2> HIDE DEF m, t
  <2> QED BY <2>1, <2>2
<1> HIDE DEF m, t
<1>3. r = [i \in 1..m |-> [id |-> t[i].id, text |-> t[i].text, meta |-> t[i].meta,
                           score |-> t[i].score, rank |-> i, retriever |-> name]]
  BY <1>2, Zenon DEF Retrieved
<1>4. \A i \in 1..m : t[i] \in C
  BY <1>2
<1> HIDE DEF r
<1>5. DOMAIN r = 1..m /\ \A i \in 1..m : r[i].text = t[i].text /\ r[i].score = t[i].score
  BY <1>3
<1>6. \A i \in 1..m : Rated(r[i])
  BY <1>1, <1>4, <1>5 DEF Rated
<1>7. Len(r) = m
  <2>1. r = [i \in 1..m |-> r[i]]
    BY <1>3
  <2> QED BY <1>2, <2>1, SeqOfItself
<1>8. Len(r) <= k /\ \A i \in DOMAIN r : Rated(r[i])
  BY <1>2, <1>5, <1>6, <1>7
<1> QED BY <1>8 DEF r, t

(* Rows with texts and integer scores, placed by their scores.             *)
LEMMA RatedByScore ==
    ASSUME NEW rows, RatedList(rows), NEW v, v = [i \in DOMAIN rows |-> rows[i].score]
    PROVE  RatedList(Placed(rows, Ranks(v)))
<1> DEFINE C == ToSet(rows)
<1>1. rows \in Seq(C) /\ \A c \in C : Rated(c)
  BY RatedMembers DEF RatedList
<1>2. DOMAIN rows = 1..Len(rows)
  BY <1>1
<1>3. v \in [1..Len(rows) -> Int]
  BY <1>2 DEF RatedList, Rated
<1>4. Placed(rows, Ranks(v)) \in Seq(C)
  <2> HIDE DEF C
  <2> QED BY <1>1, <1>3, PlacedIs
<1> HIDE DEF C
<1> QED BY <1>1, <1>4, RatedElements

(* A part of a list of rated chunks is one.                                *)
LEMMA RatedKept ==
    ASSUME NEW s, RatedList(s), NEW I \in SUBSET DOMAIN s
    PROVE  RatedList(Kept(s, I))
<1> DEFINE C == ToSet(s)
<1>1. s \in Seq(C) /\ \A c \in C : Rated(c)
  BY RatedMembers DEF RatedList
<1> HIDE DEF C
<1>2. I \in SUBSET (1..Len(s))
  BY <1>1
<1>3. Kept(s, I) \in Seq(C)
  BY <1>1, <1>2, KeptTakes
<1> QED BY <1>1, <1>3, RatedElements

(* Chunks of an index and of a corpus to evaluate on.                      *)
Texted(chunks) == Indexable(chunks) /\ \A i \in DOMAIN chunks : chunks[i].text \in Seq(Int)

\* Dense retrieval finds at most k rated chunks with distinct identities.
LEMMA DenseFinds ==
    ASSUME NEW chunks, Texted(chunks), \A i \in DOMAIN chunks : chunks[i].sim \in Int,
           NEW k \in Nat, NEW filter
    PROVE  FoundWell(DenseRetrieve(chunks, k, filter), k)
<1> DEFINE I == {i \in DOMAIN chunks : MatchesFilter(chunks[i], filter)}
           m == Matching(chunks, filter)
           n == Len(m)
           rows == DenseRows(m)
           v == [i \in DOMAIN rows |-> rows[i].score]
           t == Placed(rows, Ranks(v))
<1>1. Identified(DenseRetrieve(chunks, k, filter))
  BY DenseIdentified DEF Texted
<1>2. /\ chunks \in Seq(ToSet(chunks)) /\ DOMAIN chunks = 1..Len(chunks)
      /\ \A i \in DOMAIN chunks : chunks[i].text \in Seq(Int) /\ chunks[i].sim \in Int
  BY DEF Texted, Indexable
<1>3. /\ n \in Nat /\ DOMAIN m = 1..n
      /\ \A i \in DOMAIN m : m[i].text \in Seq(Int) /\ m[i].sim \in Int
  <2>1. I \in SUBSET (1..Len(chunks)) /\ m = Kept(chunks, I)
    BY <1>2 DEF Matching
  <2> HIDE DEF I, m
  <2>2. n \in Nat /\ DOMAIN m = 1..n /\ \A i \in DOMAIN m : \E p \in I : m[i] = chunks[p]
    BY <1>2, <2>1, KeptElements
  <2> QED BY <1>2, <2>1, <2>2
<1>4. rows = [i \in 1..n |-> [id |-> m[i].id, text |-> m[i].text, meta |-> m[i].meta, score |-> m[i].sim]]
  BY <1>3, Zenon DEF DenseRows
<1>5. DenseRetrieve(chunks, k, filter) = Retrieved(TopK(t, k), "dense")
  BY DenseIs, Zenon
<1> HIDE DEF m, n, rows
<1>6. /\ rows = [i \in 1..n |-> rows[i]]
      /\ \A i \in 1..n : rows[i].text = m[i].text /\ rows[i].score = m[i].sim
  BY <1>4
<1>7. rows \in Seq(ToSet(rows)) /\ DOMAIN rows = 1..n
  BY <1>3, <1>6, SeqOfItself
<1>8. RatedList(rows)
  BY <1>3, <1>6, <1>7 DEF RatedList, Rated
<1>9. RatedList(t)
  BY <1>8, RatedByScore
<1> HIDE DEF t
<1> QED BY <1>1, <1>5, <1>9, RatedTop DEF FoundWell

\* Keyword retrieval finds at most k rated chunks with distinct identities.
LEMMA KeywordFinds ==
    ASSUME NEW chunks, Texted(chunks), NEW query \in Seq(Int), NEW k \in Nat, NEW filter
    PROVE  FoundWell(KeywordRetrieve(chunks, query, k, filter), k)
<1> DEFINE I == {i \in DOMAIN chunks : chunks[i].text # <<>>}
           index == Kept(chunks, I)
           n == Len(index)
           rows == KeywordRows(chunks, query)
           J == {i \in DOMAIN rows : rows[i].score > 0}
           some == Positive(rows)
           v == [i \in DOMAIN some |-> some[i].score]
           s == Search(chunks, query)
           M == {i \in DOMAIN s : MatchesFilter(s[i], filter)}
           got == Matching(s, filter)
<1>1. /\ chunks \in Seq(ToSet(chunks)) /\ DOMAIN chunks = 1..Len(chunks) /\ Indexable(chunks)
      /\ \A i \in DOMAIN chunks : chunks[i].text \in Seq(Int)
      /\ \A i \in DOMAIN chunks : chunks[i].text \in Seq(ToSet(chunks[i].text))
  <2>1. \A t \in Seq(Int) : t \in Seq(ToSet(t))
    <3>1. ASSUME NEW t \in Seq(Int) PROVE t \in Seq(ToSet(t))
      <4>1. t = [i \in 1..Len(t) |-> t[i]] /\ Len(t) \in Nat
        OBVIOUS
      <4> QED BY <4>1, SeqOfItself
    <3> QED BY <3>1
  <2> QED BY <2>1 DEF Texted, Indexable
<1>2. query \in Seq(ToSet(query))
  <2>1. query = [i \in 1..Len(query) |-> query[i]] /\ Len(query) \in Nat
    OBVIOUS
  <2> QED BY <2>1, SeqOfItself
<1>3. Identified(KeywordRetrieve(chunks, query, k, filter))
  BY <1>1, <1>2, KeywordIdentified
<1>4. /\ n \in Nat /\ DOMAIN index = 1..n
      /\ \A i \in DOMAIN index : /\ index[i].text \in Seq(Int) /\ index[i].text # <<>>
                                 /\ index[i].text \in Seq(ToSet(index[i].text))
  <2>1. I \in SUBSET (1..Len(chunks))
    BY <1>1
  <2>2. \A p \in I : chunks[p].text \in Seq(Int) /\ chunks[p].text # <<>>
                     /\ chunks[p].text \in Seq(ToSet(chunks[p].text))
    BY <1>1
  <2> HIDE DEF I
  <2>3. n \in Nat /\ DOMAIN index = 1..n /\ \A i \in DOMAIN index : \E p \in I : index[i] = chunks[p]
    BY <1>1, <2>1, KeptElements
  <2> HIDE DEF index, n
  <2> QED BY <2>2, <2>3
<1>5. rows = [i \in DOMAIN index |-> [id |-> index[i].id, text |-> index[i].text,
                  meta |-> index[i].meta, score |-> BM25(index, query, index[i])]]
  BY Zenon DEF KeywordRows
<1>6. s = Placed(some, Ranks(v))
  BY SearchIs, Zenon
<1>7. KeywordRetrieve(chunks, query, k, filter) = Retrieved(TopK(got, k), "keyword")
  BY KeywordIs, Zenon
<1>8. got = Kept(s, M) /\ some = Kept(rows, J)
  BY Zenon DEF Matching, Positive
<1> HIDE DEF index, n, rows, s, got, some
<1>9. /\ rows = [i \in 1..n |-> rows[i]]
      /\ \A i \in 1..n : rows[i].text = index[i].text /\ rows[i].score = BM25(index, query, index[i])
  BY <1>4, <1>5
<1>10. rows \in Seq(ToSet(rows)) /\ DOMAIN rows = 1..n
  BY <1>4, <1>9, SeqOfItself
<1>11. \A i \in DOMAIN index : BM25(index, query, index[i]) \in Nat
  BY <1>2, <1>4, BM25Type DEF n
<1>12. RatedList(rows)
  <2>1. \A i \in DOMAIN rows : rows[i].text \in Seq(Int) /\ rows[i].score \in Int
    BY <1>4, <1>9, <1>10, <1>11
  <2> QED BY <1>10, <2>1 DEF RatedList, Rated
<1>13. J \in SUBSET DOMAIN rows /\ M \in SUBSET DOMAIN s
  OBVIOUS
<1> HIDE DEF J, M
<1>14. RatedList(some)
  BY <1>8, <1>12, <1>13, RatedKept
<1>15. RatedList(s)
  BY <1>6, <1>14, RatedByScore
<1>16. RatedList(got)
  BY <1>8, <1>13, <1>15, RatedKept
<1> QED BY <1>3, <1>7, <1>16, RatedTop DEF FoundWell

(* Fusion of what two retrievers found.                                    *)
LEMMA FusionFinds ==
    ASSUME NEW D, NEW K, NEW b, FoundWell(D, b), FoundWell(K, b), NEW k \in Nat
    PROVE  FoundWell(Fuse(D, K, k), k)
<1> DEFINE a == Both(D, K)
           n == Len(a)
           rows == FusedRows(D, K)
           v == [i \in DOMAIN rows |-> rows[i].score]
           t == Placed(rows, Ranks(v))
           Score(c) == RankScore(c, D) + RankScore(c, K)
           C == ToSet(D) \cup ToSet(K)
<1>1. /\ Identified(D) /\ Identified(K)
      /\ \A i \in DOMAIN D : Rated(D[i])
      /\ \A i \in DOMAIN K : Rated(K[i])
  BY DEF FoundWell
<1>2. \A c \in C : Rated(c)
  BY <1>1 DEF ToSet
<1>3. n \in Nat /\ DOMAIN a = 1..n /\ Unique(a)
  <2>1. Agreeing(D, K, a)
    BY <1>1, BothIs
  <2> HIDE DEF a
  <2> QED BY <2>1 DEF Agreeing, Unique
<1>4. \A i \in 1..n : a[i] \in C
  <2>1. Joined(D, K, Rest(D, K), Ordered(Rest(D, K), Len(K)), a, Len(D), Len(Ordered(Rest(D, K), Len(K))))
    BY <1>1, PlacesOfBoth
  <2> HIDE DEF a
  <2>2. a \in Seq(C)
    BY <2>1 DEF Joined
  <2> HIDE DEF C
  <2> QED BY <2>2
<1>5. rows = [i \in 1..n |-> [id |-> a[i].id, text |-> a[i].text, meta |-> a[i].meta,
                              score |-> Score(a[i].id)]]
  BY <1>3, Zenon DEF FusedRows
<1>6. \A c : Score(c) \in Int
  BY <1>1, AheadScores
<1>7. Fuse(D, K, k) = Retrieved(TopK(t, k), "hybrid")
  BY FuseIs, Zenon
<1> HIDE DEF a, n, rows, Score, C
<1>8. /\ rows = [i \in 1..n |-> rows[i]]
      /\ \A i \in 1..n : /\ rows[i].id = a[i].id /\ rows[i].text = a[i].text
                         /\ rows[i].score = Score(a[i].id)
  BY <1>5
<1>9. rows \in Seq(ToSet(rows)) /\ DOMAIN rows = 1..n /\ Len(rows) = n
  BY <1>3, <1>8, SeqOfItself
<1>10. RatedList(rows)
  <2>1. \A i \in 1..n : a[i].text \in Seq(Int)
    BY <1>2, <1>4 DEF Rated
  <2>2. \A i \in DOMAIN rows : rows[i].text \in Seq(Int) /\ rows[i].score \in Int
    BY <1>6, <1>8, <1>9, <2>1
  <2> QED BY <1>9, <2>2 DEF RatedList, Rated
<1>11. Unique(rows)
  BY <1>3, <1>8, <1>9, SameIdsUnique DEF n
<1>12. v \in [1..Len(rows) -> Int]
  BY <1>6, <1>8, <1>9
<1>13. RatedList(t)
  BY <1>10, RatedByScore
<1> HIDE DEF v
<1>14. t \in Seq(ToSet(rows)) /\ Unique(t)
  BY <1>9, <1>11, <1>12, BestUnique
<1> HIDE DEF t
<1>15. TopK(t, k) \in Seq(ToSet(rows)) /\ Unique(TopK(t, k))
  BY <1>14, TopKIs, TakesUnique
<1>16. Identified(Fuse(D, K, k))
  BY <1>7, <1>15, RetrievedIdentified
<1> QED BY <1>7, <1>13, <1>16, RatedTop DEF FoundWell

(* Whatever the mode.                                                      *)
LEMMA RetrieveFinds ==
    ASSUME NEW index, Texted(index), \A i \in DOMAIN index : index[i].sim \in Int,
           NEW corpus, Texted(corpus), NEW query \in Seq(Int), NEW mode, NEW k \in Nat, NEW filter
    PROVE  FoundWell(Retrieve(index, corpus, query, mode, k, filter), k)
<1>1. CASE mode = "dense"
  BY <1>1, DenseFinds DEF Retrieve
<1>2. CASE mode = "keyword"
  <2>1. Retrieve(index, corpus, query, mode, k, filter) = KeywordRetrieve(corpus, query, k, filter)
    BY <1>2 DEF Retrieve
  <2> QED BY <2>1, KeywordFinds
<1>3. CASE mode # "dense" /\ mode # "keyword"
  <2>1. Retrieve(index, corpus, query, mode, k, filter) = HybridRetrieve(index, corpus, query, k, filter)
    BY <1>3 DEF Retrieve
  <2>2. 2 * k \in Nat
    OBVIOUS
  <2> QED BY <2>1, <2>2, DenseFinds, KeywordFinds, FusionFinds DEF HybridRetrieve
<1> QED BY <1>1, <1>2, <1>3

(***************************************************************************)
(* The layers of an evaluation, sample by sample.                          *)
(***************************************************************************)
Evaluable(p) ==
    /\ Texted(p.index) /\ Texted(p.corpus)
    /\ \A i \in DOMAIN p.index : p.index[i].sim \in Int
    /\ p.top_k \in Nat /\ p.top_k <= Scale /\ p.top_n \in Nat /\ p.rerank_k \in Nat
    /\ Configured(p.context)
Sampled(s, p) ==
    /\ s.question \in Seq(Int) /\ s.references \in Seq(Seq(Int))
    /\ IsFiniteSet(s.relevant) /\ Len(p.corpus) + Cardinality(s.relevant) <= Scale

(* No more is relevant than is told of and in the corpus.                  *)
LEMMA RelevantFew ==
    ASSUME NEW corpus, corpus \in Seq(ToSet(corpus)), NEW s, IsFiniteSet(s.relevant),
           Len(corpus) + Cardinality(s.relevant) <= Scale
    PROVE  /\ IsFiniteSet(RelevantIds(corpus, s))
           /\ Cardinality(RelevantIds(corpus, s)) <= Scale
<1> DEFINE n == Len(corpus)
           f == [i \in 1..n |-> corpus[i].id]
           T == {corpus[i].id : i \in 1..n}
           R == s.relevant
           A == RelevantIds(corpus, s)
<1>1. n \in Nat /\ DOMAIN corpus = 1..n /\ Scale \in Nat
  BY ScalePositive
<1>2. IsFiniteSet(T) /\ Cardinality(T) <= n
  <2>1. f \in Surjection(1..n, T)
    BY DEF Surjection
  <2>2. IsFiniteSet(1..n) /\ Cardinality(1..n) = n
    BY <1>1, UpToIsFinite
  <2> HIDE DEF f, T, n
  <2> QED BY <2>1, <2>2, FS_Surjection
<1>3. IsFiniteSet(R \cup T) /\ Cardinality(R \cup T) = Cardinality(R) + Cardinality(T) - Cardinality(R \cap T)
  <2> HIDE DEF T, R
  <2>1. IsFiniteSet(R)
    BY DEF R
  <2> QED BY <1>2, <2>1, FS_Union
<1>4. Cardinality(R) \in Nat /\ Cardinality(T) \in Nat /\ Cardinality(R \cap T) \in Nat
  <2> HIDE DEF T
  <2>1. IsFiniteSet(R \cap T)
    BY <1>2, FS_Subset
  <2> QED BY <1>2, <2>1, FS_CardinalityType
<1>5. A \in SUBSET (R \cup T)
  <2>1. {c.id : c \in {d \in ToSet(corpus) : IsRelevant(d, s) \/ OfDocument(d, s)}} \subseteq T
    <3>1. \A c \in ToSet(corpus) : \E i \in 1..n : c = corpus[i]
      BY <1>1 DEF ToSet
    <3> QED BY <3>1
  <2> HIDE DEF T
  <2> QED BY <2>1, Zenon DEF RelevantIds
<1> HIDE DEF T, A
<1>6. IsFiniteSet(A) /\ Cardinality(A) <= Cardinality(R \cup T)
  <2> HIDE DEF R
  <2> QED BY <1>3, <1>5, FS_Subset
<1>7. Cardinality(A) \in Nat
  BY <1>6, FS_CardinalityType
<1>8. n + Cardinality(R) <= Scale
  OBVIOUS
<1>9. Cardinality(A) <= Scale
  <2> HIDE DEF n, R
  <2> QED BY <1>1, <1>2, <1>3, <1>4, <1>6, <1>7, <1>8
<1> QED BY <1>6, <1>9 DEF A

(* The names of what was found are a list without repetitions.             *)
LEMMA NamesFound ==
    ASSUME NEW list, NEW k \in Nat, FoundWell(list, k)
    PROVE  /\ Ids(list) \in Seq(ToSet(Ids(list))) /\ Len(Ids(list)) <= k
           /\ \A i, j \in DOMAIN Ids(list) : Ids(list)[i] = Ids(list)[j] => i = j
<1> DEFINE n == Len(list)
           f == Ids(list)
<1>1. /\ list \in Seq(ToSet(list)) /\ n <= k
      /\ \A i, j \in DOMAIN list : list[i].id = list[j].id => i = j
  BY DEF FoundWell, Identified
<1>2. n \in Nat /\ DOMAIN list = 1..n
  BY <1>1
<1>3. f = [i \in 1..n |-> list[i].id]
  BY <1>2, Zenon DEF Ids
<1> HIDE DEF n, f
<1>4. f = [i \in 1..n |-> f[i]] /\ \A i \in 1..n : f[i] = list[i].id
  BY <1>3
<1>5. f \in Seq(ToSet(f)) /\ Len(f) = n /\ DOMAIN f = 1..n
  BY <1>2, <1>4, SeqOfItself
<1>6. \A i, j \in DOMAIN f : f[i] = f[j] => i = j
  BY <1>1, <1>2, <1>4, <1>5
<1> QED BY <1>1, <1>5, <1>6 DEF f

\* The retrieval layer's row of a sample consists of rates.
LEMMA RetrievalRows ==
    ASSUME NEW dataset, NEW p, Evaluable(p), NEW n \in DOMAIN dataset, Sampled(dataset[n], p)
    PROVE  RankedWell(RetrievalLayer(dataset, p)[n])
<1> DEFINE s == dataset[n]
           list == Retrieve(p.index, p.corpus, s.question, p.mode, p.top_k, s.document)
           relevant == RelevantIds(p.corpus, s)
           k == p.top_k
<1>1. RetrievalLayer(dataset, p)[n] = RankingScores(Ids(list), relevant, k)
  BY Zenon DEF RetrievalLayer, EvaluateRetriever, RetrievedFor
<1>2. k \in Nat /\ k <= Scale /\ p.corpus \in Seq(ToSet(p.corpus))
  BY DEF Evaluable, Texted, Indexable
<1>3. FoundWell(list, k)
  BY RetrieveFinds DEF Evaluable, Sampled
<1>4. IsFiniteSet(relevant) /\ Cardinality(relevant) <= Scale
  BY <1>2, RelevantFew DEF Sampled
<1> HIDE DEF list, relevant, k
<1>5. RankedWell(RankingScores(Ids(list), relevant, k))
  BY <1>2, <1>3, <1>4, NamesFound, RankingScoresAre
<1> QED BY <1>1, <1>5

(* What is reranked are chunks with texts and scores still.                *)
LEMMA MembersFinite ==
    ASSUME NEW t \in Seq(Int)
    PROVE  IsFiniteSet(ToSet(t))
<1> DEFINE n == Len(t)
           f == [i \in 1..n |-> t[i]]
<1>1. n \in Nat /\ DOMAIN t = 1..n
  OBVIOUS
<1>2. f \in Surjection(1..n, ToSet(t))
  BY <1>1 DEF Surjection, ToSet
<1>3. IsFiniteSet(1..n)
  BY <1>1, UpToIsFinite
<1> HIDE DEF n, f
<1> QED BY <1>2, <1>3, FS_Surjection

\* The reranker that passes chunks through hands on rated chunks.
LEMMA PassedRated ==
    ASSUME NEW s, RatedList(s), NEW k \in Nat
    PROVE  RatedList(PassThrough(s, k))
<1> DEFINE C == ToSet(s)
           t == TopK(s, k)
           m == Len(t)
           r == PassThrough(s, k)
<1>1. s \in Seq(C) /\ \A c \in C : Rated(c)
  BY RatedMembers DEF RatedList
<1> HIDE DEF C
<1>2. t \in Seq(C) /\ m \in Nat /\ DOMAIN t = 1..m
  <2>1. t \in Seq(C)
    BY <1>1, FirstOf
  <2> HIDE DEF t
  <2> QED BY <2>1
<1>3. r = [i \in 1..m |-> RerankedChunk(t[i], t[i].score, i)]
  BY <1>2, Zenon DEF PassThrough
<1> HIDE DEF t, m
<1>4. \A i \in 1..m : Rated(t[i])
  BY <1>1, <1>2
<1> HIDE DEF r
<1>5. /\ r = [i \in 1..m |-> r[i]]
      /\ \A i \in 1..m : r[i].text = t[i].text /\ r[i].score = t[i].score
  BY <1>3 DEF RerankedChunk
<1>6. r \in Seq(ToSet(r)) /\ DOMAIN r = 1..m
  BY <1>2, <1>5, SeqOfItself
<1> QED BY <1>4, <1>5, <1>6 DEF RatedList, Rated, r

\* Reranking hands on rated chunks.
LEMMA RerankedRated ==
    ASSUME NEW s, RatedList(s), NEW v \in [1..Len(s) -> Int], NEW k \in Nat
    PROVE  RatedList(Reranked(s, v, k))
<1> DEFINE C == ToSet(s)
           n == Len(s)
           R == [chunk : C, score : Int]
           rows == RerankRows(s, v)
           w == [i \in DOMAIN rows |-> rows[i].score]
           t == TopK(Placed(rows, Ranks(w)), k)
           m == Len(t)
           r == Reranked(s, v, k)
<1>1. s \in Seq(C) /\ \A c \in C : Rated(c)
  BY RatedMembers DEF RatedList
<1> HIDE DEF C
<1>2. n \in Nat /\ DOMAIN s = 1..n /\ \A i \in 1..n : s[i] \in C
  BY <1>1
<1>3. rows = [i \in 1..n |-> [chunk |-> s[i], score |-> v[i]]]
  BY <1>2, Zenon DEF RerankRows
<1>4. r = RerankedRows(t)
  BY RerankedAre, Zenon
<1> HIDE DEF rows, r
<1>5. \A i \in 1..n : [chunk |-> s[i], score |-> v[i]] \in R
  BY <1>2
<1>6. rows \in [1..n -> R]
  BY <1>3, <1>5
<1>7. \A e \in R : e.chunk \in C /\ e.score \in Int
  OBVIOUS
<1> HIDE DEF R
<1>8. rows \in Seq(R) /\ Len(rows) = n /\ DOMAIN rows = 1..n
  BY <1>2, <1>6
<1>9. w \in [1..Len(rows) -> Int]
  BY <1>6, <1>7, <1>8
<1> HIDE DEF w
<1>10. Placed(rows, Ranks(w)) \in Seq(R)
  BY <1>8, <1>9, PlacedIs
<1>11. t \in Seq(R)
  BY <1>10, FirstOf
<1> HIDE DEF t
<1>12. m \in Nat /\ DOMAIN t = 1..m /\ \A i \in 1..m : t[i] \in R
  BY <1>11
<1>13. r = [i \in 1..m |->
              [id |-> t[i].chunk.id, text |-> t[i].chunk.text, meta |-> t[i].chunk.meta,
               retriever |-> t[i].chunk.retriever, score |-> t[i].score, rank |-> i,
               original_rank |-> t[i].chunk.rank, original_score |-> t[i].chunk.score]]
  BY <1>4, <1>12, Zenon DEF RerankedRows
<1> HIDE DEF m
<1>14. /\ r = [i \in 1..m |-> r[i]]
       /\ \A i \in 1..m : r[i].text = t[i].chunk.text /\ r[i].score = t[i].score
  BY <1>13
<1>15. \A i \in 1..m : t[i].chunk.text \in Seq(Int) /\ t[i].score \in Int
  BY <1>1, <1>7, <1>12 DEF Rated
<1>16. r \in Seq(ToSet(r)) /\ DOMAIN r = 1..m
  BY <1>12, <1>14, SeqOfItself
<1> QED BY <1>14, <1>15, <1>16 DEF RatedList, Rated, r

\* The lexical reranker hands on rated chunks.
LEMMA RerankRates ==
    ASSUME NEW query \in Seq(Int), NEW s, RatedList(s), NEW k \in Nat
    PROVE  RatedList(LexicalRerank(query, s, k))
<1>1. CASE query = <<>>
  BY <1>1, PassedRated DEF LexicalRerank
<1>2. CASE query # <<>>
  <2> DEFINE v == [i \in DOMAIN s |-> Jaccard(ToSet(query), ToSet(s[i].text))]
  <2>1. LexicalRerank(query, s, k) = Reranked(s, v, k)
    BY <1>2, Zenon DEF LexicalRerank
  <2>2. DOMAIN s = 1..Len(s) /\ \A i \in DOMAIN s : s[i].text \in Seq(Int)
    <3>1. s \in Seq(ToSet(s))
      BY DEF RatedList
    <3>2. DOMAIN s = 1..Len(s)
      BY <3>1
    <3> QED BY <3>2 DEF RatedList, Rated
  <2>3. \A i \in DOMAIN s : Jaccard(ToSet(query), ToSet(s[i].text)) \in Int
    <3>1. ASSUME NEW i \in DOMAIN s PROVE Jaccard(ToSet(query), ToSet(s[i].text)) \in Int
      <4>1. IsFiniteSet(ToSet(query)) /\ IsFiniteSet(ToSet(s[i].text))
        BY <2>2, MembersFinite
      <4>2. Jaccard(ToSet(query), ToSet(s[i].text)) \in 0..Scale
        BY <4>1, JaccardIs
      <4> QED BY <4>2
    <3> QED BY <3>1
  <2>4. v \in [1..Len(s) -> Int]
    BY <2>2, <2>3
  <2> HIDE DEF v
  <2> QED BY <2>1, <2>4, RerankedRated
<1> QED BY <1>1, <1>2

(* A context of chunks with texts, each labelled with its place.           *)
Labelled(chunks) ==
    /\ chunks \in Seq(ToSet(chunks))
    /\ \A k \in DOMAIN chunks : chunks[k].text \in Seq(Int) /\ chunks[k].rank = k

\* The chunks of an assembled context carry identities, texts and positions.
LEMMA AssembledLabelled ==
    ASSUME NEW query \in Seq(Int), NEW chunks, RatedList(chunks), NEW c, Configured(c)
    PROVE  Labelled(Assemble(query, chunks, c).chunks)
<1> DEFINE C == ToSet(chunks)
           s == Selected(query, chunks, c)
           kept == InContext(s, query, c)
           n == Len(s.chunks)
<1>1. chunks \in Seq(C) /\ \A b \in C : Rated(b)
  BY RatedMembers DEF RatedList
<1> HIDE DEF C
<1>2. Assemble(query, chunks, c).chunks = kept
  BY AssembleIs, ContextIs
<1>3. s.chunks \in Seq(C)
  <2>1. SelectedWell(s, C, chunks, c)
    BY <1>1, SelectedHolds
  <2> HIDE DEF s
  <2> QED BY <2>1 DEF SelectedWell
<1> HIDE DEF s
<1>4. /\ n \in Nat /\ DOMAIN kept = 1..n
      /\ \A k \in 1..n : kept[k].text \in Seq(Int)
  BY <1>1, <1>3, InContextIs
<1>5. kept = [k \in 1..n |->
                Shortened(s.chunks[k], k, TextIn(s.chunks[k].text, query, c), IsCut(s.chunks[k].text, c))]
  <2>1. DOMAIN s.chunks = 1..n
    BY <1>3
  <2> QED BY <2>1, Zenon DEF InContext
<1> HIDE DEF kept, n
<1>6. kept = [k \in 1..n |-> kept[k]] /\ \A k \in 1..n : kept[k].rank = k
  BY <1>5 DEF Shortened
<1>7. kept \in Seq(ToSet(kept))
  BY <1>4, <1>6, SeqOfItself
<1>8. Labelled(kept)
  BY <1>4, <1>6, <1>7 DEF Labelled
<1> QED BY <1>2, <1>8

\* The same for the context the evaluation builds for a sample.
LEMMA ContextLabelled ==
    ASSUME NEW p, Evaluable(p), NEW s, Sampled(s, p), NEW k \in Nat
    PROVE  Labelled(ContextFor(p, s, k).chunks)
<1> DEFINE found == Retrieve(p.index, p.corpus, s.question, p.mode, p.top_n, s.document)
           chunks == LexicalRerank(s.question, found, k)
<1>1. ContextFor(p, s, k) = Assemble(s.question, chunks, p.context)
  BY Zenon DEF ContextFor, RetrieveAndRerank
<1>2. s.question \in Seq(Int) /\ Configured(p.context) /\ p.top_n \in Nat
  BY DEF Evaluable, Sampled
<1>3. FoundWell(found, p.top_n)
  BY RetrieveFinds DEF Evaluable, Sampled
<1> HIDE DEF found
<1>4. RatedList(found)
  BY <1>3 DEF FoundWell, Identified, RatedList
<1>5. RatedList(chunks)
  BY <1>2, <1>4, RerankRates
<1> HIDE DEF chunks
<1> QED BY <1>1, <1>2, <1>5, AssembledLabelled

(***************************************************************************)
(* The scores of a context.                                                *)
(***************************************************************************)
(* A part of a context has no more tokens than the whole.                  *)
LEMMA TokensKept ==
    ASSUME NEW s, Labelled(s), NEW I \in SUBSET DOMAIN s
    PROVE  Tokens(Kept(s, I)) \in Nat /\ Tokens(s) \in Nat /\ Tokens(Kept(s, I)) <= Tokens(s)
<1> DEFINE C == ToSet(s)
           n == Len(s)
           t == Kept(s, I)
           m == Len(t)
           v == Sizes(t)
           w == Sizes(s)
<1>1. /\ s \in Seq(C) /\ n \in Nat /\ DOMAIN s = 1..n
      /\ \A i \in 1..n : s[i].text \in Seq(Int)
  BY DEF Labelled
<1> HIDE DEF C
<1>2. I \in SUBSET (1..Len(s))
  BY <1>1
<1>3. t \in Seq(C) /\ Takes(t, s)
  BY <1>1, <1>2, KeptTakes
<1> HIDE DEF t, n
<1>4. m \in Nat /\ DOMAIN t = 1..m
  BY <1>3
<1>5. PICK p \in [1..m -> 1..n] :
        /\ \A i, j \in 1..m : p[i] = p[j] => i = j
        /\ \A i \in 1..m : t[i] = s[p[i]]
  BY <1>3 DEF Takes, Taken, n
<1> HIDE DEF m
<1>6. \A i \in 1..m : p[i] \in 1..n /\ t[i].text = s[p[i]].text /\ t[i].text \in Seq(Int)
  BY <1>1, <1>5
<1>7. v \in [1..m -> Nat] /\ Tokens(t) \in Nat /\ Tokens(t) = Weight(v, 1..m)
  BY <1>4, <1>6, TokensWeigh
<1>8. w \in [1..n -> Nat] /\ Tokens(s) \in Nat /\ Tokens(s) = Weight(w, 1..n)
  BY <1>1, TokensWeigh
<1>9. \A i \in 1..m : v[i] = w[p[i]]
  <2>1. \A i \in 1..m : v[i] = EstimateTokens(t[i].text)
    BY <1>4 DEF Sizes
  <2>2. \A j \in 1..n : w[j] = EstimateTokens(s[j].text)
    BY <1>1 DEF Sizes
  <2> HIDE DEF v, w
  <2> QED BY <1>6, <2>1, <2>2
<1> HIDE DEF v, w
<1>10. \A i \in 1..m : v[i] <= w[p[i]]
  BY <1>6, <1>7, <1>8, <1>9
<1>11. Heavier(p, v, 1..m, w, 1..n)
  BY <1>5, <1>10 DEF Heavier
<1>12. Weight(v, 1..m) <= Weight(w, 1..n)
  <2>1. 1..m \in SUBSET (1..m) /\ 1..n \in SUBSET (1..n)
    OBVIOUS
  <2> QED BY <1>1, <1>4, <1>7, <1>8, <1>11, <2>1, WeightByInjection
<1>13. Tokens(t) <= Tokens(s)
  BY <1>7, <1>8, <1>12
<1> QED BY <1>7, <1>8, <1>13 DEF t

\* Context precision is a rate.
LEMMA ContextPrecisionUnit ==
    ASSUME NEW chunks, Labelled(chunks), NEW relevant, NEW references
    PROVE  ContextPrecision(chunks, relevant, references) \in 0..Scale
<1> DEFINE I == {i \in DOMAIN chunks :
                    chunks[i].id \in relevant
                    \/ \E r \in ToSet(references) : Either(chunks[i].text, r)}
<1>1. ContextPrecision(chunks, relevant, references) = Rate(Tokens(Kept(chunks, I)), Tokens(chunks))
  BY Zenon DEF ContextPrecision, Where
<1>2. I \in SUBSET DOMAIN chunks
  OBVIOUS
<1> HIDE DEF I
<1>3. /\ Tokens(Kept(chunks, I)) \in Nat /\ Tokens(chunks) \in Nat
      /\ Tokens(Kept(chunks, I)) <= Tokens(chunks)
  BY <1>2, TokensKept
<1> QED BY <1>1, <1>3, RateUnit

\* Context recall is a rate.
LEMMA ContextRecallUnit ==
    ASSUME NEW chunks, NEW references \in Seq(Seq(Int))
    PROVE  ContextRecall(chunks, references) \in 0..Scale
<1> DEFINE words == UNION {Words(chunks[k].text) : k \in DOMAIN chunks}
           I == {i \in DOMAIN references :
                    Words(references[i]) # {}
                    /\ 2 * Cardinality(Words(references[i]) \cap words) >= Cardinality(Words(references[i]))}
<1>1. ContextRecall(chunks, references) = Rate(Len(Kept(references, I)), Len(references))
  BY Zenon DEF ContextRecall, Where
<1>2. I \in SUBSET DOMAIN references
  OBVIOUS
<1> HIDE DEF I
<1>3. I \in SUBSET (1..Len(references)) /\ Len(references) \in Nat
  BY <1>2
<1>4. Len(Kept(references, I)) \in Nat /\ Len(Kept(references, I)) <= Len(references)
  BY <1>3, KeptCount
<1> QED BY <1>1, <1>3, <1>4, RateUnit

\* The context layer's row of a sample consists of rates.
LEMMA ContextRows ==
    ASSUME NEW dataset, NEW p, Evaluable(p), NEW n \in DOMAIN dataset, Sampled(dataset[n], p)
    PROVE  /\ ContextLayer(dataset, p)[n].precision \in 0..Scale
           /\ ContextLayer(dataset, p)[n].recall \in 0..Scale
<1> DEFINE s == dataset[n]
           a == ContextFor(p, s, 10)
           relevant == ContextRelevantIds(p.corpus, s)
           row == ContextLayer(dataset, p)[n]
<1>1. row = ContextScores(a, s, p.corpus, p.context.max_tokens)
  BY Zenon DEF ContextLayer
<1>2. /\ row.precision = ContextPrecision(a.chunks, relevant, s.references)
      /\ row.recall = ContextRecall(a.chunks, s.references)
  <2> HIDE DEF a, row
  <2> QED BY <1>1, Zenon DEF ContextScores
<1>3. Labelled(a.chunks)
  BY ContextLabelled
<1>4. s.references \in Seq(Seq(Int))
  BY DEF Sampled
<1> HIDE DEF a, relevant, row
<1>5. row.precision \in 0..Scale /\ row.recall \in 0..Scale
  BY <1>2, <1>3, <1>4, ContextPrecisionUnit, ContextRecallUnit
<1> QED BY <1>5 DEF row

(***************************************************************************)
(* The answer of the mock model, step by step: the source with most of the *)
(* question's words, its longer sentences, the best of them, its words.    *)
(***************************************************************************)
FlatText(t) == [i \in DOMAIN t |-> IF t[i] = NL THEN Sp ELSE t[i]]
CleanText(t) == Strip(Kept(t, {i \in DOMAIN t : t[i] # Hash}))
CleanTexts(ts) == [k \in DOMAIN ts |-> CleanText(ts[k])]
LongTexts(ts) == Kept(ts, {k \in DOMAIN ts : Len(ts[k]) >= MinSentence})
Overlaps(ts, question) == [k \in DOMAIN ts |-> Overlap(question, ts[k])]
Quotation(t, rank) ==
    LET words == Kept(t, {i \in DOMAIN t : t[i] > 0})
    IN  [k \in DOMAIN words |-> Word(words[k])] \o <<Stop, Cite(rank)>>
Quoted(t, rank, question) ==
    IF Overlap(question, t) < MinAnswerOverlap THEN Refusal ELSE Quotation(t, rank)
QuotedFrom(ts, rank, question) ==
    IF ts = <<>> THEN Refusal
    ELSE Quoted(Placed(ts, Ranks(Overlaps(ts, question)))[1], rank, question)
AnsweredFrom(source, question) ==
    IF Overlap(question, source.text) < MinAnswerOverlap THEN Refusal
    ELSE QuotedFrom(LongTexts(CleanTexts(Sentences(FlatText(source.text)))), source.rank, question)
Sources(chunks) ==
    LET texts == PromptSources(chunks)
    IN  [k \in DOMAIN texts |-> [text |-> texts[k], rank |-> chunks[k].rank]]
RowOverlaps(rows, question) == [k \in DOMAIN rows |-> Overlap(question, rows[k].text)]

\* The offline model refuses without chunks or a question and quotes the best source otherwise.
LEMMA MockAnswerIs ==
    ASSUME NEW question, NEW chunks
    PROVE  LET rows == Sources(chunks)
               top == Placed(rows, Ranks(RowOverlaps(rows, question)))[1]
           IN  MockAnswer(question, chunks) =
                  IF chunks = <<>> \/ question = <<>> THEN Refusal ELSE AnsweredFrom(top, question)
BY Zenon DEF MockAnswer, Sources, RowOverlaps, Overlaps, Placed, SortedBy, Where,
   AnsweredFrom, QuotedFrom, Quoted, Quotation, LongTexts, CleanTexts, CleanText, FlatText

\* A piece of an answer is one of the pieces an answer is made of.
LEMMA PieceTyped ==
    ASSUME NEW kind \in PieceKinds, NEW n \in Nat
    PROVE  Piece(kind, n) \in AnswerPieces
BY DEF Piece, AnswerPieces

\* The refusal is an answer.
LEMMA RefusalTyped == Refusal \in Seq(AnswerPieces)
<1> DEFINE e == Piece("refusal", 0)
<1>1. e \in AnswerPieces
  BY PieceTyped DEF PieceKinds
<1>2. Refusal = <<e>>
  BY DEF Refusal
<1> HIDE DEF e
<1> QED BY <1>1, <1>2

\* The overlap of a question with a text is an integer.
LEMMA OverlapType ==
    ASSUME NEW question \in Seq(Int), NEW t \in Seq(Int)
    PROVE  Overlap(question, t) \in Int
<1> DEFINE W == Words(question)
           V == W \cap Words(t)
<1>1. IsFiniteSet(W)
  BY WordsFinite
<1> HIDE DEF W
<1>2. IsFiniteSet(V)
  BY <1>1, FS_Subset
<1> HIDE DEF V
<1>3. Cardinality(W) \in Nat /\ Cardinality(V) \in Nat
  BY <1>1, <1>2, FS_CardinalityType
<1>4. W # {} => Cardinality(W) \in Nat \ {0}
  BY <1>1, <1>3, FS_EmptySet
<1>5. W # {} => (Scale * Cardinality(V)) \div Cardinality(W) \in Int
  <2>1. Scale * Cardinality(V) \in Nat
    BY <1>3, ScalePositive
  <2> QED BY <1>4, <2>1, Quotient
<1>6. Overlap(question, t) = IF W = {} THEN 0 ELSE (Scale * Cardinality(V)) \div Cardinality(W)
  BY Zenon DEF Overlap, W, V
<1> QED BY <1>5, <1>6

\* Cleaning a text of its markup leaves a text.
LEMMA CleanTyped ==
    ASSUME NEW t \in Seq(Int)
    PROVE  FlatText(t) \in Seq(Int) /\ CleanText(t) \in Seq(Int)
<1>1. FlatText(t) \in Seq(Int)
  <2>1. Len(t) \in Nat /\ DOMAIN t = 1..Len(t) /\ \A i \in 1..Len(t) : t[i] \in Int
    OBVIOUS
  <2>2. \A i \in 1..Len(t) : (IF t[i] = NL THEN Sp ELSE t[i]) \in Int
    BY <2>1 DEF Sp
  <2>3. FlatText(t) = [i \in 1..Len(t) |-> IF t[i] = NL THEN Sp ELSE t[i]]
    BY <2>1, Zenon DEF FlatText
  <2>4. FlatText(t) \in [1..Len(t) -> Int]
    BY <2>2, <2>3
  <2> QED BY <2>1, <2>4
<1>2. CleanText(t) \in Seq(Int)
  <2> DEFINE I == {i \in DOMAIN t : t[i] # Hash}
  <2>1. I \in SUBSET (1..Len(t))
    OBVIOUS
  <2>2. CleanText(t) = Strip(Kept(t, I))
    BY Zenon DEF CleanText
  <2> HIDE DEF I
  <2>3. Kept(t, I) \in Seq(Int)
    BY <2>1, KeptElements
  <2> QED BY <2>2, <2>3, StripShortens
<1> QED BY <1>1, <1>2

\* Keeping the long ones of the cleaned texts leaves texts.
LEMMA LongTyped ==
    ASSUME NEW ts \in Seq(Seq(Int))
    PROVE  LongTexts(CleanTexts(ts)) \in Seq(Seq(Int))
<1> DEFINE c == CleanTexts(ts)
           I == {k \in DOMAIN c : Len(c[k]) >= MinSentence}
           n == Len(ts)
<1>1. n \in Nat /\ DOMAIN ts = 1..n /\ \A k \in 1..n : ts[k] \in Seq(Int)
  OBVIOUS
<1>2. c = [k \in 1..n |-> CleanText(ts[k])]
  BY <1>1, Zenon DEF CleanTexts
<1>3. \A k \in 1..n : CleanText(ts[k]) \in Seq(Int)
  BY <1>1, CleanTyped
<1> HIDE DEF c, n
<1>4. c \in [1..n -> Seq(Int)]
  BY <1>2, <1>3
<1>5. c \in Seq(Seq(Int)) /\ DOMAIN c = 1..Len(c)
  BY <1>1, <1>4
<1>6. I \in SUBSET (1..Len(c))
  BY <1>5
<1>7. LongTexts(c) = Kept(c, I)
  BY Zenon DEF LongTexts
<1> HIDE DEF I
<1>8. LongTexts(c) \in Seq(Seq(Int))
  BY <1>5, <1>6, <1>7, KeptElements
<1> QED BY <1>8 DEF c

\* A quotation with its citation is part of an answer.
LEMMA QuotationTyped ==
    ASSUME NEW t \in Seq(Int), NEW rank \in Nat
    PROVE  Quotation(t, rank) \in Seq(AnswerPieces)
<1> DEFINE I == {i \in DOMAIN t : t[i] > 0}
           words == Kept(t, I)
           said == [k \in DOMAIN words |-> Word(words[k])]
           end == <<Stop, Cite(rank)>>
<1>1. I \in SUBSET (1..Len(t)) /\ \A i \in I : t[i] \in Nat
  OBVIOUS
<1>2. Quotation(t, rank) = said \o end
  BY Zenon DEF Quotation
<1> HIDE DEF I
<1>3. /\ Len(words) \in Nat /\ DOMAIN words = 1..Len(words)
      /\ \A k \in DOMAIN words : \E p \in I : words[k] = t[p]
  BY <1>1, KeptElements
<1>4. \A k \in DOMAIN words : words[k] \in Nat
  BY <1>1, <1>3
<1> HIDE DEF words
<1>5. \A k \in DOMAIN words : Word(words[k]) \in AnswerPieces
  BY <1>4, PieceTyped DEF Word, PieceKinds
<1>6. said \in [1..Len(words) -> AnswerPieces]
  <2> HIDE DEF AnswerPieces
  <2> QED BY <1>3, <1>5
<1>7. said \in Seq(AnswerPieces)
  BY <1>3, <1>6
<1>8. end \in Seq(AnswerPieces)
  <2>1. Stop \in AnswerPieces /\ Cite(rank) \in AnswerPieces
    BY PieceTyped DEF Stop, Cite, PieceKinds
  <2> QED BY <2>1
<1> HIDE DEF said, end
<1> QED BY <1>2, <1>7, <1>8

\* What is quoted from the sentences of a source is an answer.
LEMMA QuotedTyped ==
    ASSUME NEW ts \in Seq(Seq(Int)), NEW rank \in Nat, NEW question \in Seq(Int)
    PROVE  QuotedFrom(ts, rank, question) \in Seq(AnswerPieces)
<1> DEFINE v == Overlaps(ts, question)
           sorted == Placed(ts, Ranks(v))
<1>1. CASE ts = <<>>
  BY <1>1, RefusalTyped DEF QuotedFrom
<1>2. CASE ts # <<>>
  <2>1. Len(ts) \in Nat /\ DOMAIN ts = 1..Len(ts) /\ Len(ts) # 0
    BY <1>2
  <2>2. \A k \in 1..Len(ts) : Overlap(question, ts[k]) \in Int
    BY OverlapType
  <2>3. v \in [1..Len(ts) -> Int]
    <3>1. v = [k \in 1..Len(ts) |-> Overlap(question, ts[k])]
      BY <2>1, Zenon DEF Overlaps
    <3> HIDE DEF v
    <3> QED BY <2>2, <3>1
  <2>4. QuotedFrom(ts, rank, question) = Quoted(sorted[1], rank, question)
    BY <1>2, Zenon DEF QuotedFrom
  <2> HIDE DEF v
  <2>5. sorted \in Seq(Seq(Int)) /\ Len(sorted) = Len(ts)
    BY <2>3, PlacedIs
  <2> HIDE DEF sorted
  <2>6. sorted[1] \in Seq(Int)
    <3>1. 1 \in 1..Len(sorted)
      BY <2>1, <2>5
    <3> QED BY <2>5, <3>1
  <2>7. Quotation(sorted[1], rank) \in Seq(AnswerPieces)
    BY <2>6, QuotationTyped
  <2> QED BY <2>4, <2>7, RefusalTyped, Zenon DEF Quoted
<1> QED BY <1>1, <1>2

\* The offline model's answer is made of the pieces the judge reads.
LEMMA MockAnswerTyped ==
    ASSUME Instruction \in Seq(Int), NEW question \in Seq(Int), NEW chunks, Labelled(chunks)
    PROVE  MockAnswer(question, chunks) \in Seq(AnswerPieces)
<1> DEFINE n == Len(chunks)
           texts == PromptSources(chunks)
           rows == Sources(chunks)
           v == RowOverlaps(rows, question)
           sorted == Placed(rows, Ranks(v))
           top == sorted[1]
           R == [text : Seq(Int), rank : Nat]
<1>1. /\ n \in Nat /\ DOMAIN chunks = 1..n
      /\ \A k \in 1..n : chunks[k].text \in Seq(Int) /\ chunks[k].rank \in Nat
  <2>1. n \in Nat /\ DOMAIN chunks = 1..n
    BY DEF Labelled
  <2> QED BY <2>1 DEF Labelled
<1>2. CASE chunks = <<>> \/ question = <<>>
  BY <1>2, RefusalTyped, MockAnswerIs, Zenon
<1>3. CASE ~(chunks = <<>> \/ question = <<>>)
  <2>1. MockAnswer(question, chunks) = AnsweredFrom(top, question)
    BY <1>3, MockAnswerIs, Zenon
  <2>2. n # 0
    BY <1>3 DEF Labelled
  <2>3. DOMAIN texts = 1..n /\ \A k \in 1..n : texts[k] \in Seq(Int)
    <3>1. texts = [k \in 1..n |-> IF k < n THEN chunks[k].text
                                  ELSE chunks[k].text \o <<NL>> \o Instruction]
      BY <1>1, Zenon DEF PromptSources
    <3>2. \A k \in 1..n : chunks[k].text \o <<NL>> \o Instruction \in Seq(Int)
      BY <1>1 DEF NL
    <3> HIDE DEF texts, n
    <3> QED BY <1>1, <3>1, <3>2
  <2>4. rows = [k \in 1..n |-> [text |-> texts[k], rank |-> chunks[k].rank]]
    BY <2>3, Zenon DEF Sources
  <2> HIDE DEF n, texts, rows
  <2>5. rows \in [1..n -> R]
    BY <1>1, <2>3, <2>4
  <2>6. \A e \in R : e.text \in Seq(Int) /\ e.rank \in Nat
    OBVIOUS
  <2> HIDE DEF R
  <2>7. rows \in Seq(R) /\ Len(rows) = n /\ DOMAIN rows = 1..n
    BY <1>1, <2>5
  <2>8. \A k \in 1..n : Overlap(question, rows[k].text) \in Int
    BY <2>5, <2>6, OverlapType
  <2>9. v \in [1..Len(rows) -> Int]
    <3>1. v = [k \in 1..n |-> Overlap(question, rows[k].text)]
      BY <2>7, Zenon DEF RowOverlaps
    <3> HIDE DEF v
    <3> QED BY <2>7, <2>8, <3>1
  <2> HIDE DEF v
  <2>10. sorted \in Seq(R) /\ Len(sorted) = n
    BY <2>7, <2>9, PlacedIs
  <2> HIDE DEF sorted
  <2>11. top \in R
    <3>1. 1 \in 1..Len(sorted)
      BY <1>1, <2>2, <2>10
    <3> QED BY <2>10, <3>1
  <2> HIDE DEF top
  <2>12. top.text \in Seq(Int) /\ top.rank \in Nat
    BY <2>6, <2>11
  <2>13. Sentences(FlatText(top.text)) \in Seq(Seq(Int))
    BY <2>12, CleanTyped, SentencesFit
  <2>14. QuotedFrom(LongTexts(CleanTexts(Sentences(FlatText(top.text)))), top.rank, question)
            \in Seq(AnswerPieces)
    BY <2>12, <2>13, LongTyped, QuotedTyped
  <2> QED BY <2>1, <2>14, RefusalTyped, Zenon DEF AnsweredFrom
<1> QED BY <1>2, <1>3

------------------------------------------------------------------------------
\* The scores of an answer are rates.

\* What the scores are made of.
LEMMA ScoreParts ==
    ASSUME NEW claims, NEW refused, NEW empty, NEW relevancy
    PROVE  LET e == Scores(claims, refused, empty, relevancy)
               rest == CountOf(claims, "NO_CITATION") + CountOf(claims, "NEUTRAL")
                         + CountOf(claims, "CONTRADICTS")
           IN  /\ e.faithfulness = IF refused THEN Scale
                                   ELSE Rate(CountOf(claims, "SUPPORTS"), Len(claims))
               /\ e.citation_precision = IF refused THEN Scale
                                   ELSE Rate(CountOf(claims, "SUPPORTS"), CitationCount(claims))
               /\ e.hallucination_rate = IF refused THEN 0
                                   ELSE IF Len(claims) = 0 THEN (IF empty THEN 0 ELSE Scale)
                                   ELSE Rate(rest, Len(claims))
               /\ e.answer_relevancy = IF refused THEN 0 ELSE relevancy
<1> DEFINE e == Scores(claims, refused, empty, relevancy)
           total == Len(claims)
           count(l) == CountOf(claims, l)
           unbacked == count("NO_CITATION") + count("NEUTRAL")
           f == IF refused THEN Scale ELSE Rate(count("SUPPORTS"), total)
           p == IF refused THEN Scale ELSE Rate(count("SUPPORTS"), CitationCount(claims))
           h == IF refused THEN 0
                ELSE IF total = 0 THEN (IF empty THEN 0 ELSE Scale)
                ELSE Rate(unbacked + count("CONTRADICTS"), total)
           a == IF refused THEN 0 ELSE relevancy
<1>1. e = [claims |-> claims, refused |-> refused, total_claims |-> total,
           supported_claims |-> count("SUPPORTS"),
           faithfulness |-> f,
           citation_recall |-> IF refused THEN Scale ELSE Rate(count("SUPPORTS"), total),
           citation_precision |-> p,
           hallucination_rate |-> h,
           unsupported_claim_rate |-> Rate(unbacked, total),
           citation_coverage |-> Rate(total - count("NO_CITATION"), total),
           answer_relevancy |-> a,
           judge_fallbacks |-> Fallbacks(claims)]
  BY Zenon DEF Scores, Where, CitationCount, CountOf, Fallbacks
<1> HIDE DEF e, total, count, f, p, h, a
<1>2. e.faithfulness = f /\ e.citation_precision = p /\ e.hallucination_rate = h
      /\ e.answer_relevancy = a
  BY <1>1
<1> QED BY <1>2 DEF e, total, count, f, p, h, a

\* There are at least as many citations as claims that have one.
LEMMA CitationsCover ==
    ASSUME NEW claims, NEW n \in Nat, DOMAIN claims = 1..n,
           \A k \in 1..n : Len(claims[k].citations) \in Nat,
           NEW I \in SUBSET (1..n), \A k \in I : Len(claims[k].citations) > 0
    PROVE  CitationCount(claims) \in Nat /\ Cardinality(I) <= CitationCount(claims)
<1> DEFINE w == [i \in 1..n |-> Len(claims[i].citations)]
<1>1. w \in [1..n -> Nat]
  OBVIOUS
<1>2. \A d \in SUBSET (1..n) : d # {} => Some(d) \in 1..n
                                         /\ w[Some(d)] = Len(claims[Some(d)].citations)
  BY DEF Some
<1>3. \A k \in I : w[k] \in Nat /\ w[k] > 0
  OBVIOUS
<1> HIDE DEF w
<1>4. ASSUME NEW f PROVE Sums(f, claims, n) <=> SumsOf(f, w, n)
  <2> DEFINE g == [d \in SUBSET (1..n) |->
                     IF d = {} THEN 0 ELSE Len(claims[Some(d)].citations) + f[d \ {Some(d)}]]
             h == [d \in SUBSET (1..n) |-> IF d = {} THEN 0 ELSE w[Some(d)] + f[d \ {Some(d)}]]
  <2>1. \A d \in SUBSET (1..n) : g[d] = h[d]
    BY <1>2
  <2>2. g = [d \in SUBSET (1..n) |-> g[d]] /\ h = [d \in SUBSET (1..n) |-> h[d]]
    OBVIOUS
  <2>3. g = h
    <3> HIDE DEF g, h
    <3> QED BY <2>1, <2>2, Zenon
  <2>4. Sums(f, claims, n) <=> f = g
    BY Zenon DEF Sums
  <2>5. SumsOf(f, w, n) <=> f = h
    BY Zenon DEF SumsOf
  <2> QED BY <2>3, <2>4, <2>5
<1>5. CitationCount(claims) = (CHOOSE f : SumsOf(f, w, n))[1..n]
  <2>1. (CHOOSE f : Sums(f, claims, n)) = (CHOOSE f : SumsOf(f, w, n))
    BY <1>4, Zenon
  <2>2. CitationCount(claims) = (CHOOSE f : Sums(f, claims, n))[1..n]
    BY CitationCountIs
  <2> QED BY <2>1, <2>2, Zenon
<1>6. CitationCount(claims) = Weight(w, 1..n) /\ Weight(w, 1..n) \in Nat
  <2> DEFINE g == CHOOSE f : SumsOf(f, w, n)
  <2>1. SumsOf(g, w, n)
    <3>1. \E f : SumsOf(f, w, n)
      BY <1>1, SumsAreWeights
    <3> QED BY <3>1, Zenon
  <2> HIDE DEF g
  <2>2. g[1..n] = Weight(w, 1..n)
    BY <1>1, <2>1, SumsWeigh
  <2>3. Weight(w, 1..n) \in Nat
    <3>1. 1..n \in SUBSET (1..n)
      OBVIOUS
    <3> QED BY <1>1, <3>1, PairsFinite
  <2> QED BY <1>5, <2>2, <2>3 DEF g
<1> DEFINE Q == Pairs(w, 1..n)
           h == [k \in I |-> <<k, 1>>]
<1>7. h \in [I -> Q] /\ \A i, j \in I : h[i] = h[j] => i = j
  <2>1. ASSUME NEW k \in I PROVE <<k, 1>> \in Q
    <3>1. k \in 1..n /\ 1 \in 1..w[k]
      BY <1>3
    <3> QED BY <3>1, PairIn
  <2> HIDE DEF Q
  <2> QED BY <2>1
<1>8. IsFiniteSet(Q)
  <2>1. 1..n \in SUBSET (1..n)
    OBVIOUS
  <2> QED BY <1>1, <2>1, PairsFinite
<1> HIDE DEF h, Q
<1>9. h \in Injection(I, Q)
  BY <1>7 DEF Injection, IsInjective
<1>10. Cardinality(I) <= Cardinality(Q)
  BY <1>8, <1>9, FS_Injection
<1> QED BY <1>6, <1>10 DEF Weight, Q

\* The four rates a platform takes of an answer's scores.
Rates(e) == /\ e.faithfulness \in 0..Scale /\ e.citation_precision \in 0..Scale
            /\ e.hallucination_rate \in 0..Scale /\ e.answer_relevancy \in 0..Scale

\* They are rates when the claims are judged and cite what supports them.
LEMMA ScoresUnit ==
    ASSUME NEW claims, claims \in Seq(ToSet(claims)), NEW refused, NEW empty,
           NEW relevancy \in 0..Scale,
           \A k \in DOMAIN claims :
               /\ claims[k].label \in Labels /\ Len(claims[k].citations) \in Nat
               /\ claims[k].label = "SUPPORTS" => Len(claims[k].citations) > 0
    PROVE  Rates(Scores(claims, refused, empty, relevancy))
<1> DEFINE n == Len(claims)
           s == CountOf(claims, "SUPPORTS")
           a == CountOf(claims, "NO_CITATION")
           b == CountOf(claims, "NEUTRAL")
           c == CountOf(claims, "CONTRADICTS")
           t == CitationCount(claims)
           e == Scores(claims, refused, empty, relevancy)
<1>1. n \in Nat /\ DOMAIN claims = 1..n
  OBVIOUS
<1>2. s \in Nat /\ a \in Nat /\ b \in Nat /\ c \in Nat
  BY CountOfIs
<1>3. s + c + b + a = n
  <2>1. \A k \in 1..Len(claims) : claims[k].label \in Labels
    BY <1>1
  <2> QED BY <2>1, LabelsCount
<1>4. s <= t /\ t \in Nat
  <2> DEFINE I == {i \in 1..n : claims[i].label = "SUPPORTS"}
  <2>1. s = Cardinality(I)
    BY CountOfIs
  <2>2. I \in SUBSET (1..n) /\ \A k \in I : Len(claims[k].citations) > 0
    BY <1>1
  <2>3. \A k \in 1..n : Len(claims[k].citations) \in Nat
    BY <1>1
  <2> HIDE DEF I, n, s
  <2> QED BY <1>1, <2>1, <2>2, <2>3, CitationsCover
<1>5. /\ e.faithfulness = IF refused THEN Scale ELSE Rate(s, n)
      /\ e.citation_precision = IF refused THEN Scale ELSE Rate(s, t)
      /\ e.hallucination_rate = IF refused THEN 0
                                ELSE IF n = 0 THEN (IF empty THEN 0 ELSE Scale)
                                ELSE Rate(a + b + c, n)
      /\ e.answer_relevancy = IF refused THEN 0 ELSE relevancy
  BY ScoreParts
<1> HIDE DEF n, s, a, b, c, t, e
<1>6. Rate(s, n) \in 0..Scale /\ Rate(s, t) \in 0..Scale /\ Rate(a + b + c, n) \in 0..Scale
  <2>1. s <= n /\ a + b + c <= n /\ a + b + c \in Nat
    BY <1>1, <1>2, <1>3
  <2> QED BY <1>1, <1>2, <1>4, <2>1, RateUnit
<1>7. 0 \in 0..Scale /\ Scale \in 0..Scale
  BY ScalePositive
<1>8. e.faithfulness \in 0..Scale /\ e.citation_precision \in 0..Scale
      /\ e.hallucination_rate \in 0..Scale /\ e.answer_relevancy \in 0..Scale
  <2> DEFINE U == 0..Scale
  <2> HIDE DEF U
  <2>1. Rate(s, n) \in U /\ Rate(s, t) \in U /\ Rate(a + b + c, n) \in U
        /\ 0 \in U /\ Scale \in U /\ relevancy \in U
    BY <1>6, <1>7 DEF U
  <2>2. e.faithfulness \in U /\ e.citation_precision \in U
        /\ e.hallucination_rate \in U /\ e.answer_relevancy \in U
    BY <1>5, <2>1
  <2> QED BY <2>2 DEF U
<1> QED BY <1>8 DEF Rates, e

\* How much of a question's words an answer has is a rate.
LEMMA RelevancyUnit ==
    ASSUME NEW query \in Seq(Int), NEW answer
    PROVE  AnswerRelevancy(query, answer) \in 0..Scale
<1> DEFINE w == Words(query)
           v == w \cap ClaimWords(answer)
<1>1. IsFiniteSet(w)
  BY WordsFinite
<1>2. AnswerRelevancy(query, answer) = Rate(Cardinality(v), Cardinality(w))
  BY DEF AnswerRelevancy
<1>3. v \subseteq w
  OBVIOUS
<1> HIDE DEF v, w
<1>4. IsFiniteSet(v) /\ Cardinality(v) <= Cardinality(w)
  BY <1>1, <1>3, FS_Subset
<1>5. Cardinality(v) \in Nat /\ Cardinality(w) \in Nat
  BY <1>1, <1>4, FS_CardinalityType
<1> QED BY <1>2, <1>4, <1>5, RateUnit

\* So the scores of an answer are rates.
LEMMA AnswerRates ==
    ASSUME NEW query \in Seq(Int), NEW r, NEW chunks, NEW reply,
           ~r.refused => r.answer \in Seq(AnswerPieces)
    PROVE  Rates(EvaluateAnswer(query, r, chunks, reply))
<1> DEFINE a == r.answer
           texts == ExtractClaims(a)
           judged == [k \in DOMAIN texts |-> EvaluateClaim(a, texts[k], chunks, reply)]
           claims == IF r.refused THEN <<>> ELSE judged
           relevancy == AnswerRelevancy(query, a)
           empty == a = <<>>
           e == EvaluateAnswer(query, r, chunks, reply)
<1>1. e = Scores(claims, r.refused, empty, relevancy)
  BY EvaluatedIs
<1>2. relevancy \in 0..Scale
  BY RelevancyUnit
<1>3. /\ claims \in Seq(ToSet(claims))
      /\ \A k \in DOMAIN claims :
            /\ claims[k].label \in Labels /\ Len(claims[k].citations) \in Nat
            /\ claims[k].label = "SUPPORTS" => Len(claims[k].citations) > 0
  <2>1. CASE r.refused
    <3>1. claims = <<>>
      BY <2>1
    <3> HIDE DEF claims
    <3> QED BY <3>1
  <2>2. CASE ~r.refused
    <3>1. a \in Seq(AnswerPieces)
      BY <2>2
    <3> HIDE DEF a
    <3>2. texts \in Seq(Seq(AnswerPieces)) /\ Len(texts) \in Nat
      BY <3>1, ExtractClaimsIs
    <3> DEFINE n == Len(texts)
    <3>3. DOMAIN texts = 1..n /\ n \in Nat
      BY <3>2
    <3> HIDE DEF texts, n
    <3>4. judged \in Seq(ToSet(judged)) /\ DOMAIN judged = 1..n
      <4>1. judged = [k \in 1..n |-> judged[k]]
        BY <3>3
      <4> HIDE DEF judged
      <4> QED BY <3>3, <4>1, SeqOfItself
    <3>5. \A k \in 1..n : ClaimJudged(judged[k], texts[k], a, chunks, reply)
      BY <3>1, <3>3, EvaluateClaimIs
    <3> HIDE DEF judged
    <3>6. \A k \in 1..n : /\ judged[k].label \in Labels /\ Len(judged[k].citations) \in Nat
                          /\ judged[k].label = "SUPPORTS" => Len(judged[k].citations) > 0
      BY <3>5 DEF ClaimJudged
    <3>7. claims = judged
      BY <2>2
    <3> HIDE DEF claims
    <3> QED BY <3>4, <3>6, <3>7
  <2> QED BY <2>1, <2>2
<1> HIDE DEF claims, relevancy, empty, e
<1>4. Rates(Scores(claims, r.refused, empty, relevancy))
  BY <1>2, <1>3, ScoresUnit
<1> QED BY <1>1, <1>4 DEF e

\* A platform's rows of an answer hold four of its rates.
LEMMA AnswerRows ==
    ASSUME Instruction \in Seq(Int), NEW dataset, NEW p, Evaluable(p),
           NEW n \in DOMAIN dataset, Sampled(dataset[n], p)
    PROVE  Rates(AnswerLayer(dataset, p)[n])
<1> DEFINE q == dataset[n].question
           chunks == ContextFor(p, dataset[n], p.rerank_k).chunks
           judged == [i \in DOMAIN SourceIndex(chunks) |-> "none"]
           said == MockAnswer(q, chunks)
           r == Answer(chunks, said)
           e == EvaluateAnswer(q, r, chunks, judged)
           row == [f \in GenerationFields \cup {"refused", "cited"} |->
                      CASE f = "refused" -> Flag(r.refused)
                        [] f = "cited" -> Flag(r.citations # <<>>)
                        [] OTHER -> e[f]]
<1>1. AnswerLayer(dataset, p)[n] = row
  <2>1. AnswerLayer(dataset, p)[n] = GenerationScores(q, chunks)
    BY Zenon DEF AnswerLayer
  <2>2. GenerationScores(q, chunks) = row
    BY Zenon DEF GenerationScores
  <2> QED BY <2>1, <2>2, Zenon
<1>2. Labelled(chunks)
  <2>1. p.rerank_k \in Nat
    BY DEF Evaluable
  <2> QED BY <2>1, ContextLabelled
<1>3. q \in Seq(Int)
  BY DEF Sampled
<1> HIDE DEF q, chunks
<1>4. said \in Seq(AnswerPieces)
  BY <1>2, <1>3, MockAnswerTyped
<1>5. chunks \in Seq(ToSet(chunks))
  BY <1>2 DEF Labelled
<1> HIDE DEF said
<1>6. ~r.refused => r.answer \in Seq(AnswerPieces)
  BY <1>4, <1>5, AnswerShape
<1> HIDE DEF r, judged
<1>7. Rates(e)
  BY <1>3, <1>6, AnswerRates
<1> HIDE DEF e
<1>8. /\ row.faithfulness = e.faithfulness /\ row.citation_precision = e.citation_precision
      /\ row.hallucination_rate = e.hallucination_rate /\ row.answer_relevancy = e.answer_relevancy
  BY DEF GenerationFields
<1> HIDE DEF row
<1>9. Rates(row)
  BY <1>7, <1>8 DEF Rates
<1> QED BY <1>1, <1>9

\* The samples of an evaluation are rates, and those of the retrieval agree.
LEMMA SamplesHold ==
    ASSUME Instruction \in Seq(Int), NEW dataset, NEW p, Evaluable(p),
           \A n \in DOMAIN dataset : Sampled(dataset[n], p),
           NEW s, s = Samples(RetrievalLayer(dataset, p), ContextLayer(dataset, p),
                              AnswerLayer(dataset, p))
    PROVE  RatesBounded(s) /\ RetrievalScoresAgree(s)
<1> DEFINE D == DOMAIN dataset
           a == RetrievalLayer(dataset, p)
           b == ContextLayer(dataset, p)
           c == AnswerLayer(dataset, p)
           U == 0..Scale
<1>1. DOMAIN a = D /\ DOMAIN b = D /\ DOMAIN c = D
  BY Zenon DEF RetrievalLayer, EvaluateRetriever, ContextLayer, AnswerLayer
<1>2. ASSUME NEW n \in D
      PROVE  /\ RankedWell(a[n]) /\ Rates(c[n])
             /\ b[n].precision \in U /\ b[n].recall \in U
  BY RetrievalRows, ContextRows, AnswerRows
<1> HIDE DEF D, a, b, c
<1>3. s = [retrieval_mrr |-> Column(a, "mrr"),
           retrieval_recall |-> Column(a, "recall"),
           retrieval_precision |-> Column(a, "precision"),
           context_precision |-> Column(b, "precision"),
           context_recall |-> Column(b, "recall"),
           faithfulness |-> Column(c, "faithfulness"),
           citation_precision |-> Column(c, "citation_precision"),
           hallucination_rate |-> Column(c, "hallucination_rate"),
           answer_relevancy |-> Column(c, "answer_relevancy")]
  BY Zenon DEF Samples, a, b, c
<1> DEFINE Good(v) == \A k \in DOMAIN v : v[k] \in U
<1>4. ASSUME NEW v, NEW field, v = Column(a, field) \/ v = Column(b, field) \/ v = Column(c, field)
      PROVE  DOMAIN v = D
  BY <1>1, <1>4, Zenon DEF Column
<1>5. /\ Good(Column(a, "mrr")) /\ Good(Column(a, "recall")) /\ Good(Column(a, "precision"))
      /\ Good(Column(b, "precision")) /\ Good(Column(b, "recall"))
      /\ Good(Column(c, "faithfulness")) /\ Good(Column(c, "citation_precision"))
      /\ Good(Column(c, "hallucination_rate")) /\ Good(Column(c, "answer_relevancy"))
  <2>1. \A n \in D : a[n].mrr \in U /\ a[n].recall \in U /\ a[n].precision \in U
    BY <1>2 DEF RankedWell
  <2>2. \A n \in D : /\ c[n].faithfulness \in U /\ c[n].citation_precision \in U
                     /\ c[n].hallucination_rate \in U /\ c[n].answer_relevancy \in U
    BY <1>2 DEF Rates
  <2> HIDE DEF U
  <2>3. Good(Column(a, "mrr")) /\ Good(Column(a, "recall")) /\ Good(Column(a, "precision"))
    BY <1>1, <2>1 DEF Column
  <2>4. Good(Column(b, "precision")) /\ Good(Column(b, "recall"))
    BY <1>1, <1>2 DEF Column
  <2>5. Good(Column(c, "faithfulness")) /\ Good(Column(c, "citation_precision"))
    BY <1>1, <2>2 DEF Column
  <2>6. Good(Column(c, "hallucination_rate")) /\ Good(Column(c, "answer_relevancy"))
    BY <1>1, <2>2 DEF Column
  <2> QED BY <2>3, <2>4, <2>5, <2>6
<1>6. RatesBounded(s)
  <2>1. DOMAIN s = {"retrieval_mrr", "retrieval_recall", "retrieval_precision",
                    "context_precision", "context_recall", "faithfulness",
                    "citation_precision", "hallucination_rate", "answer_relevancy"}
    BY <1>3
  <2>2. /\ s["retrieval_mrr"] = Column(a, "mrr")
        /\ s["retrieval_recall"] = Column(a, "recall")
        /\ s["retrieval_precision"] = Column(a, "precision")
        /\ s["context_precision"] = Column(b, "precision")
        /\ s["context_recall"] = Column(b, "recall")
        /\ s["faithfulness"] = Column(c, "faithfulness")
        /\ s["citation_precision"] = Column(c, "citation_precision")
        /\ s["hallucination_rate"] = Column(c, "hallucination_rate")
        /\ s["answer_relevancy"] = Column(c, "answer_relevancy")
    BY <1>3
  <2> HIDE DEF Good
  <2>3. \A m \in DOMAIN s : Good(s[m])
    BY <1>5, <2>1, <2>2
  <2> USE DEF Good
  <2> QED BY <2>3, Zenon DEF RatesBounded
<1>7. RetrievalScoresAgree(s)
  <2> DEFINE x1 == s.retrieval_mrr
             x2 == s.retrieval_recall
             x3 == s.retrieval_precision
  <2>1. x1 = Column(a, "mrr") /\ x2 = Column(a, "recall") /\ x3 = Column(a, "precision")
    BY <1>3
  <2>2. DOMAIN x1 = D
    BY <1>1, <2>1, Zenon DEF Column
  <2>3. \A n \in D : x1[n] = a[n].mrr /\ x2[n] = a[n].recall /\ x3[n] = a[n].precision
    <3> HIDE DEF x1, x2, x3
    <3> QED BY <1>1, <2>1 DEF Column
  <2>4. \A n \in D : (a[n].mrr > 0 <=> a[n].recall > 0) /\ (a[n].mrr > 0 <=> a[n].precision > 0)
    BY <1>2 DEF RankedWell
  <2> HIDE DEF x1, x2, x3
  <2>5. \A k \in DOMAIN x1 : (x1[k] > 0 <=> x2[k] > 0) /\ (x1[k] > 0 <=> x3[k] > 0)
    BY <2>2, <2>3, <2>4
  <2> QED BY <2>5, Zenon DEF RetrievalScoresAgree, x1, x2, x3
<1> QED BY <1>6, <1>7

------------------------------------------------------------------------------
\* Evaluation, in the specification.

\* What the calls of the evaluation return for their arguments.
JudgeReturns(r, o) ==
    /\ o.retrieval = EvaluateRetrieval(r.ragas, r.judged, r.contexts, r.truths)
    /\ o.full = EvaluateFull(r.ragas, r.judged, r.contexts, r.truths)
    /\ o.samples = EvaluatePerSample(r.ragas, [k \in DOMAIN r.truths |-> r.judged],
                                     r.contexts, r.truths)
CompareReturns(r, o) ==
    /\ o.report = Compare(r.rows)
    /\ o.chunking = RunComparison(r.samples, ChunkedBy(r.configs, r.documents), r.configs, 2,
                                  "absent", NoScores)
    /\ o.composite = Composite([retrieval_mrr |-> r.rows[1].score, retrieval_ndcg |-> Scale,
                                faithfulness |-> 0])
ModesReturn(r, o) == o.modes = CompareModes(r.samples, r.pipeline, <<"dense", "keyword", "hybrid">>)
SamplesOf(r) == Samples(RetrievalLayer(r.samples, r.pipeline), ContextLayer(r.samples, r.pipeline),
                        AnswerLayer(r.samples, r.pipeline))
\* What the layers of an evaluation have returned so far.
LayersReturn(r, o) ==
    /\ "retrieval" \in DOMAIN o => o.retrieval = RetrievalLayer(r.samples, r.pipeline)
    /\ "context" \in DOMAIN o => o.context = ContextLayer(r.samples, r.pipeline)
    /\ "answers" \in DOMAIN o => o.answers = AnswerLayer(r.samples, r.pipeline)
    /\ "result" \in DOMAIN o => o.result.samples = SamplesOf(r)
    /\ "gate" \in DOMAIN o =>
          o.gate = Gate(o.result.metrics, o.result.p10, r.thresholds, r.baseline)

\* What a job of the evaluation returned.
EvaluationInv ==
    /\ JobTyped
    /\ out # None =>
          /\ job.call = "judge" => JudgeReturns(job.of, out)
          /\ job.call = "tasks" => out = EvaluateTasks(job.of.samples, job.of.floors, job.of.metrics)
          /\ job.call = "compare" => CompareReturns(job.of, out)
          /\ job.call = "modes" => ModesReturn(job.of, out)
          /\ job.call = "gate" =>
                out = Gate(job.of.metrics, job.of.p10, job.of.thresholds, job.of.baseline)
    /\ job.call = "evaluate" => LayersReturn(job.of, out)

\* A step of each call but an evaluation's returns that.
LEMMA JudgementsReturn ==
    /\ JudgeSome => JudgeReturns(job.of, out')
    /\ RunTasks => out' = EvaluateTasks(job.of.samples, job.of.floors, job.of.metrics)
    /\ CompareRuns => CompareReturns(job.of, out')
    /\ CompareSettings => ModesReturn(job.of, out')
    /\ GateSome => out' = Gate(job.of.metrics, job.of.p10, job.of.thresholds, job.of.baseline)
<1> DEFINE r == job.of
<1>1. ASSUME JudgeSome PROVE JudgeReturns(r, out')
  <2> DEFINE a == EvaluateRetrieval(r.ragas, r.judged, r.contexts, r.truths)
             b == EvaluateFull(r.ragas, r.judged, r.contexts, r.truths)
             c == EvaluatePerSample(r.ragas, [k \in DOMAIN r.truths |-> r.judged],
                                    r.contexts, r.truths)
  <2>1. out' = [retrieval |-> a, full |-> b, samples |-> c]
    BY <1>1, Zenon DEF JudgeSome, Return, x
  <2> HIDE DEF a, b, c
  <2>2. out'.retrieval = a /\ out'.full = b /\ out'.samples = c
    BY <2>1
  <2> QED BY <2>2, Zenon DEF JudgeReturns, a, b, c
<1>2. ASSUME RunTasks PROVE out' = EvaluateTasks(r.samples, r.floors, r.metrics)
  BY <1>2, Zenon DEF RunTasks, Return, x
<1>3. ASSUME CompareRuns PROVE CompareReturns(r, out')
  <2> DEFINE a == Compare(r.rows)
             chunked == [c \in ToSet(r.configs) |-> [d \in DOMAIN r.documents |->
                           <<r.documents[d], SubSeq(r.documents[d], 1, c.chunk_size)>>]]
             b == RunComparison(r.samples, chunked, r.configs, 2, "absent", NoScores)
             c == Composite([retrieval_mrr |-> r.rows[1].score, retrieval_ndcg |-> Scale,
                             faithfulness |-> 0])
             d == SweepOverlap(100, r.tenths)
  <2>1. out' = [report |-> a, chunking |-> b, composite |-> c, overlap |-> d]
    BY <1>3, Zenon DEF CompareRuns, Return, x
  <2>2. chunked = ChunkedBy(r.configs, r.documents)
    BY Zenon DEF ChunkedBy
  <2> HIDE DEF a, b, c, d, chunked
  <2>3. out'.report = a /\ out'.chunking = b /\ out'.composite = c
    BY <2>1
  <2> QED BY <2>2, <2>3, Zenon DEF CompareReturns, a, b, c
<1>4. ASSUME CompareSettings PROVE ModesReturn(r, out')
  <2> DEFINE a == CompareModes(r.samples, r.pipeline, <<"dense", "keyword", "hybrid">>)
             b == CompareStrategies(r.samples, r.pipeline.corpus,
                     RetrievedFor(r.samples, r.pipeline, r.pipeline.top_n),
                     <<[r.pipeline.context EXCEPT !.strategy = "top_k"], r.pipeline.context>>)
  <2>1. out' = [modes |-> a, strategies |-> b]
    BY <1>4, Zenon DEF CompareSettings, Return, x
  <2> HIDE DEF a, b
  <2>2. out'.modes = a
    BY <2>1
  <2> QED BY <2>2, Zenon DEF ModesReturn, a
<1>5. ASSUME GateSome PROVE out' = Gate(r.metrics, r.p10, r.thresholds, r.baseline)
  BY <1>5, Zenon DEF GateSome, Return, x
<1> QED BY <1>1, <1>2, <1>3, <1>4, <1>5

\* A layer adds what it scores to those before it.
LayersBefore(k) == {"call"} \cup {Layers[i] : i \in 1..(k - 1)}
Layered(k, scores) ==
    /\ DOMAIN out = LayersBefore(k) /\ DOMAIN out' = LayersBefore(k) \cup {Layers[k]}
    /\ out'[Layers[k]] = scores
    /\ \A l \in DOMAIN out : l # Layers[k] => out'[l] = out[l]

\* A step of one layer adds its scores and leaves those of the others.
LEMMA LayerIs ==
    ASSUME NEW k, NEW scores, Layer(k, scores)
    PROVE  Layered(k, scores)
<1>1. /\ DOMAIN out = DOMAIN None \cup {Layers[i] : i \in 1..(k - 1)}
      /\ out' = [l \in DOMAIN out \cup {Layers[k]} |-> IF l = Layers[k] THEN scores ELSE out[l]]
  BY Zenon DEF Layer
<1>2. DOMAIN None = {"call"}
  BY DEF None
<1>3. DOMAIN out = LayersBefore(k)
  BY <1>1, <1>2, Zenon DEF LayersBefore
<1> QED BY <1>1, <1>3, Zenon DEF Layered

\* The layers have the names they are looked up by.
LEMMA LayersAre ==
    /\ Layers[1] = "retrieval" /\ Layers[2] = "rerank" /\ Layers[3] = "context"
    /\ Layers[4] = "answers" /\ Layers[5] = "probes" /\ Layers[6] = "result" /\ Layers[7] = "gate"
    /\ LayersBefore(1) = {"call"}
    /\ LayersBefore(2) = {"call", "retrieval"}
    /\ LayersBefore(3) = {"call", "retrieval", "rerank"}
    /\ LayersBefore(4) = {"call", "retrieval", "rerank", "context"}
    /\ LayersBefore(5) = {"call", "retrieval", "rerank", "context", "answers"}
    /\ LayersBefore(6) = {"call", "retrieval", "rerank", "context", "answers", "probes"}
    /\ LayersBefore(7) = {"call", "retrieval", "rerank", "context", "answers", "probes", "result"}
<1>1. /\ Layers[1] = "retrieval" /\ Layers[2] = "rerank" /\ Layers[3] = "context"
      /\ Layers[4] = "answers" /\ Layers[5] = "probes" /\ Layers[6] = "result" /\ Layers[7] = "gate"
  BY DEF Layers
<1>2. /\ 1..0 = {} /\ 1..1 = {1} /\ 1..2 = {1, 2} /\ 1..3 = {1, 2, 3} /\ 1..4 = {1, 2, 3, 4}
      /\ 1..5 = {1, 2, 3, 4, 5} /\ 1..6 = {1, 2, 3, 4, 5, 6}
  OBVIOUS
<1> DEFINE named(S) == {Layers[i] : i \in S}
<1>3. /\ named({}) = {} /\ named({1}) = {"retrieval"} /\ named({1, 2}) = {"retrieval", "rerank"}
      /\ named({1, 2, 3}) = {"retrieval", "rerank", "context"}
      /\ named({1, 2, 3, 4}) = {"retrieval", "rerank", "context", "answers"}
      /\ named({1, 2, 3, 4, 5}) = {"retrieval", "rerank", "context", "answers", "probes"}
      /\ named({1, 2, 3, 4, 5, 6}) = {"retrieval", "rerank", "context", "answers", "probes", "result"}
  BY <1>1
<1>4. /\ LayersBefore(1) = {"call"} \cup named(1..0) /\ LayersBefore(2) = {"call"} \cup named(1..1)
      /\ LayersBefore(3) = {"call"} \cup named(1..2) /\ LayersBefore(4) = {"call"} \cup named(1..3)
      /\ LayersBefore(5) = {"call"} \cup named(1..4) /\ LayersBefore(6) = {"call"} \cup named(1..5)
      /\ LayersBefore(7) = {"call"} \cup named(1..6)
  <2>1. 1 - 1 = 0 /\ 2 - 1 = 1 /\ 3 - 1 = 2 /\ 4 - 1 = 3 /\ 5 - 1 = 4 /\ 6 - 1 = 5 /\ 7 - 1 = 6
    OBVIOUS
  <2> QED BY <2>1, Zenon DEF LayersBefore
<1> HIDE DEF named
<1>5. /\ LayersBefore(1) = {"call"} \cup named({}) /\ LayersBefore(2) = {"call"} \cup named({1})
      /\ LayersBefore(3) = {"call"} \cup named({1, 2}) /\ LayersBefore(4) = {"call"} \cup named({1, 2, 3})
      /\ LayersBefore(5) = {"call"} \cup named({1, 2, 3, 4})
      /\ LayersBefore(6) = {"call"} \cup named({1, 2, 3, 4, 5})
      /\ LayersBefore(7) = {"call"} \cup named({1, 2, 3, 4, 5, 6})
  BY <1>2, <1>4, Zenon
<1>6. /\ LayersBefore(1) = {"call"} /\ LayersBefore(2) = {"call", "retrieval"}
      /\ LayersBefore(3) = {"call", "retrieval", "rerank"}
      /\ LayersBefore(4) = {"call", "retrieval", "rerank", "context"}
  BY <1>3, <1>5
<1>7. /\ LayersBefore(5) = {"call", "retrieval", "rerank", "context", "answers"}
      /\ LayersBefore(6) = {"call", "retrieval", "rerank", "context", "answers", "probes"}
      /\ LayersBefore(7) = {"call", "retrieval", "rerank", "context", "answers", "probes", "result"}
  BY <1>3, <1>5
<1> QED BY <1>1, <1>6, <1>7

\* What a platform reports has the samples it is made of.
LEMMA ResultSamples ==
    ASSUME NEW samples, NEW retrieval, NEW rerank, NEW probes
    PROVE  PlatformResult(samples, retrieval, rerank, probes).samples = samples
<1> DEFINE p10 == [m \in DOMAIN samples |-> Distribution(samples[m], 0, TRUE).p10]
           metrics == [m \in DOMAIN samples |-> Average(samples[m])] @@
               [retrieval_ndcg |-> Average(Column(retrieval, "ndcg")),
                rerank_mrr_lift |-> rerank.mrr_lift, rerank_ndcg_lift |-> rerank.ndcg_lift,
                rerank_mrr |-> rerank.mean.mrr, rerank_ndcg |-> rerank.mean.ndcg,
                top1_change_rate |-> rerank.mean.top1_changed,
                adversarial_pass_rate |-> Average(probes)]
           result == PlatformResult(samples, retrieval, rerank, probes)
<1>1. result = [samples |-> samples, p10 |-> p10, metrics |-> metrics]
  BY Zenon DEF PlatformResult
<1> HIDE DEF p10, metrics, result
<1>2. result.samples = samples
  BY <1>1
<1> QED BY <1>2 DEF result

\* A layer's step keeps what the layers before it returned, and adds its own.
LEMMA LayersKeep ==
    ASSUME NEW r, r = job.of, LayersReturn(r, out),
           \/ RunRetrieval \/ RunRerank \/ RunContext \/ RunAnswers
           \/ RunProbes \/ Report \/ GateReport
    PROVE  LayersReturn(r, out')
<1> DEFINE a == RetrievalLayer(r.samples, r.pipeline)
           c == ContextLayer(r.samples, r.pipeline)
           g == AnswerLayer(r.samples, r.pipeline)
           samples == SamplesOf(r)
           gate(o) == Gate(o.result.metrics, o.result.p10, r.thresholds, r.baseline)
<1>1. /\ "retrieval" \in DOMAIN out => out["retrieval"] = a
      /\ "context" \in DOMAIN out => out["context"] = c
      /\ "answers" \in DOMAIN out => out["answers"] = g
      /\ "result" \in DOMAIN out => out["result"].samples = samples
  BY Zenon DEF LayersReturn
<1>2. x = r
  BY DEF x
<1> HIDE DEF a, c, g, samples
<1>3. CASE RunRetrieval
  <2>1. Layered(1, a)
    BY <1>2, <1>3, LayerIs, Zenon DEF RunRetrieval, a
  <2>2. DOMAIN out' = {"call", "retrieval"} /\ out'["retrieval"] = a
    BY <2>1, LayersAre DEF Layered
  <2> QED BY <2>2, Zenon DEF LayersReturn, a
<1>4. CASE RunRerank
  <2>1. \E scores : Layered(2, scores)
    BY <1>4, LayerIs, Zenon DEF RunRerank
  <2>2. DOMAIN out' = {"call", "retrieval", "rerank"} /\ out'["retrieval"] = out["retrieval"]
        /\ "retrieval" \in DOMAIN out
    BY <2>1, LayersAre DEF Layered
  <2>3. out'["retrieval"] = a
    BY <1>1, <2>2
  <2> QED BY <2>2, <2>3, Zenon DEF LayersReturn, a
<1>5. CASE RunContext
  <2>1. Layered(3, c)
    BY <1>2, <1>5, LayerIs, Zenon DEF RunContext, c
  <2>2. DOMAIN out' = {"call", "retrieval", "rerank", "context"}
        /\ out'["retrieval"] = out["retrieval"] /\ out'["context"] = c
        /\ "retrieval" \in DOMAIN out
    BY <2>1, LayersAre DEF Layered
  <2>3. out'["retrieval"] = a
    BY <1>1, <2>2
  <2> QED BY <2>2, <2>3, Zenon DEF LayersReturn, a, c
<1>6. CASE RunAnswers
  <2>1. Layered(4, g)
    BY <1>2, <1>6, LayerIs, Zenon DEF RunAnswers, g
  <2>2. DOMAIN out' = {"call", "retrieval", "rerank", "context", "answers"}
        /\ out'["retrieval"] = out["retrieval"] /\ out'["context"] = out["context"]
        /\ out'["answers"] = g
        /\ "retrieval" \in DOMAIN out /\ "context" \in DOMAIN out
    BY <2>1, LayersAre DEF Layered
  <2>3. out'["retrieval"] = a /\ out'["context"] = c
    BY <1>1, <2>2
  <2> QED BY <2>2, <2>3, Zenon DEF LayersReturn, a, c, g
<1>7. CASE RunProbes
  <2>1. \E scores : Layered(5, scores)
    BY <1>7, LayerIs, Zenon DEF RunProbes
  <2>2. DOMAIN out' = {"call", "retrieval", "rerank", "context", "answers", "probes"}
        /\ out'["retrieval"] = out["retrieval"] /\ out'["context"] = out["context"]
        /\ out'["answers"] = out["answers"]
        /\ "retrieval" \in DOMAIN out /\ "context" \in DOMAIN out /\ "answers" \in DOMAIN out
    BY <2>1, LayersAre DEF Layered
  <2>3. out'["retrieval"] = a /\ out'["context"] = c /\ out'["answers"] = g
    BY <1>1, <2>2
  <2> QED BY <2>2, <2>3, Zenon DEF LayersReturn, a, c, g
<1>8. CASE Report
  <2> DEFINE result == PlatformResult(Samples(out.retrieval, out.context, out.answers),
                                      out.retrieval, out.rerank, out.probes)
  <2>1. Layered(6, result)
    BY <1>8, LayerIs, Zenon DEF Report
  <2>2. DOMAIN out' = {"call", "retrieval", "rerank", "context", "answers", "probes", "result"}
        /\ out'["retrieval"] = out["retrieval"] /\ out'["context"] = out["context"]
        /\ out'["answers"] = out["answers"] /\ out'["result"] = result
        /\ "retrieval" \in DOMAIN out /\ "context" \in DOMAIN out /\ "answers" \in DOMAIN out
    <3> HIDE DEF result
    <3> QED BY <2>1, LayersAre DEF Layered
  <2>3. /\ out["retrieval"] = a /\ out["context"] = c /\ out["answers"] = g
        /\ out'["retrieval"] = a /\ out'["context"] = c /\ out'["answers"] = g
    BY <1>1, <2>2
  <2>4. result.samples = Samples(out["retrieval"], out["context"], out["answers"])
    BY ResultSamples
  <2>5. result.samples = samples
    BY <2>3, <2>4, Zenon DEF samples, SamplesOf, a, c, g
  <2> HIDE DEF result
  <2>6. out'["result"].samples = samples
    BY <2>2, <2>5
  <2>7. "gate" \notin DOMAIN out'
    BY <2>2
  <2> QED BY <2>3, <2>6, <2>7, Zenon DEF LayersReturn, samples, a, c, g
<1>9. CASE GateReport
  <2>1. Layered(7, gate(out))
    BY <1>2, <1>9, LayerIs, Zenon DEF GateReport
  <2>2. /\ out'["retrieval"] = out["retrieval"] /\ out'["context"] = out["context"]
        /\ out'["answers"] = out["answers"] /\ out'["result"] = out["result"]
        /\ out'["gate"] = gate(out)
        /\ "retrieval" \in DOMAIN out /\ "context" \in DOMAIN out /\ "answers" \in DOMAIN out
        /\ "result" \in DOMAIN out
    <3> HIDE DEF gate
    <3> QED BY <2>1, LayersAre DEF Layered
  <2>3. /\ out'["retrieval"] = a /\ out'["context"] = c /\ out'["answers"] = g
        /\ out'["result"].samples = samples
    BY <1>1, <2>2
  <2>4. gate(out') = gate(out)
    BY <2>2, Zenon
  <2>5. out'["gate"] = gate(out')
    BY <2>2, <2>4
  <2> QED BY <2>3, <2>5, Zenon DEF LayersReturn, samples, a, c, g
<1> QED BY <1>3, <1>4, <1>5, <1>6, <1>7, <1>8, <1>9

\* What a data set's pipeline and samples are.
LEMMA DataSetIs ==
    ASSUME NEW r \in DataSets
    PROVE  /\ Instruction \in Seq(Int)
           /\ Piped(r.pipeline) /\ Evaluable(r.pipeline)
           /\ \A n \in DOMAIN r.samples : Sampled(r.samples[n], r.pipeline)
<1> DEFINE p == r.pipeline
           c == p.context
<1>1. /\ Instruction \in Seq(Int)
      /\ \A n \in DOMAIN r.samples :
            /\ r.samples[n].question \in Seq(Int) /\ r.samples[n].references \in Seq(Seq(Int))
            /\ IsFiniteSet(r.samples[n].relevant)
            /\ Len(p.corpus) + Cardinality(r.samples[n].relevant) <= Scale
  BY DataSetsAreTyped
<1>2. /\ {"index", "corpus", "mode", "top_k", "top_n", "rerank_k", "context"} \subseteq DOMAIN p
      /\ p.top_k \in 0..Scale /\ p.top_n \in Nat /\ p.rerank_k \in Nat /\ p.rerank_k <= p.top_n
      /\ \A i \in DOMAIN p.index : p.index[i].sim \in Int
  BY DataSetsAreTyped
<1>3. Configured(c)
  <2>1. /\ c.strategy \in Strategies /\ c.max_chunks \in Nat /\ c.max_tokens \in Nat
        /\ c.per_chunk_max_tokens \in Nat /\ c.min_chunk_tokens \in Nat
        /\ c.dedup_threshold \in Int /\ c.mmr_lambda \in Int
        /\ c.enable_compression \in BOOLEAN
    BY DataSetsAreTyped
  <2> HIDE DEF c
  <2> QED BY <2>1 DEF Configured
<1>4. ASSUME NEW chunks \in {p.index, p.corpus}
      PROVE  chunks \in Seq(ToSet(chunks)) /\ Texted(chunks)
  <2>1. /\ chunks \in Seq(ToSet(chunks))
        /\ \A i, j \in DOMAIN chunks : chunks[i].id = chunks[j].id => i = j
        /\ \A i \in DOMAIN chunks : chunks[i].text \in Seq(Int)
    BY DataSetsAreTyped
  <2>2. DOMAIN chunks = 1..Len(chunks)
    BY <2>1
  <2>3. Indexable(chunks)
    BY <2>1, <2>2 DEF Indexable, Unique
  <2> QED BY <2>1, <2>3 DEF Texted
<1> HIDE DEF p
<1>5. Piped(p)
  BY <1>2, <1>4 DEF Piped, PipelineFields
<1>6. Evaluable(p)
  <2>1. p.top_k \in Nat /\ p.top_k <= Scale
    BY <1>2, ScalePositive
  <2>2. Texted(p.index) /\ Texted(p.corpus)
    BY <1>4
  <2> QED BY <1>2, <1>3, <2>1, <2>2 DEF Evaluable
<1>7. \A n \in DOMAIN r.samples : Sampled(r.samples[n], p)
  BY <1>1 DEF Sampled
<1> QED BY <1>1, <1>5, <1>6, <1>7 DEF p

\* Whatever the data set, an evaluation's samples are rates that agree, and its gate holds.
LEMMA LayersContract ==
    ASSUME NEW r \in DataSets, NEW o, LayersReturn(r, o)
    PROVE  /\ "result" \in DOMAIN o =>
                 RatesBounded(o.result.samples) /\ RetrievalScoresAgree(o.result.samples)
           /\ "gate" \in DOMAIN o => GateHolds(o.gate, o.result.metrics, o.result.p10, r.thresholds)
<1>1. RatesBounded(SamplesOf(r)) /\ RetrievalScoresAgree(SamplesOf(r))
  <2> DEFINE s == SamplesOf(r)
             dataset == r.samples
             p == r.pipeline
  <2>1. /\ Instruction \in Seq(Int) /\ Evaluable(p)
        /\ \A n \in DOMAIN dataset : Sampled(dataset[n], p)
    BY DataSetIs
  <2>2. s = Samples(RetrievalLayer(dataset, p), ContextLayer(dataset, p), AnswerLayer(dataset, p))
    BY Zenon DEF SamplesOf
  <2> HIDE DEF s, dataset, p
  <2>3. RatesBounded(s) /\ RetrievalScoresAgree(s)
    BY <2>1, <2>2, SamplesHold
  <2> QED BY <2>3 DEF s
<1>2. "result" \in DOMAIN o => o.result.samples = SamplesOf(r)
  BY Zenon DEF LayersReturn
<1>3. "gate" \in DOMAIN o => o.gate = Gate(o.result.metrics, o.result.p10, r.thresholds, r.baseline)
  BY Zenon DEF LayersReturn
<1>4. GateHolds(Gate(o.result.metrics, o.result.p10, r.thresholds, r.baseline),
                o.result.metrics, o.result.p10, r.thresholds)
  BY GatesHold
<1>5. "result" \in DOMAIN o =>
         RatesBounded(o.result.samples) /\ RetrievalScoresAgree(o.result.samples)
  BY <1>1, <1>2, Zenon
<1>6. "gate" \in DOMAIN o => GateHolds(o.gate, o.result.metrics, o.result.p10, r.thresholds)
  BY <1>3, <1>4, Zenon
<1> QED BY <1>5, <1>6

\* Whatever the inputs, what each call of the evaluation returns keeps to the contract: the
\* gate passes nothing whose worst tenth is critical, an evaluation's samples are rates that

\* agree on whether anything was found, tasks pass together, and the winner beats all others.
THEOREM EvaluationsKeepTheContract == Spec => []EvaluationContract
<1>1. Init => EvaluationInv
  <2> SUFFICES ASSUME Init PROVE EvaluationInv
    OBVIOUS
  <2>1. out = None /\ JobTyped
    BY InitialJob
  <2>2. DOMAIN out = {"call"}
    BY <2>1 DEF None
  <2>3. LayersReturn(job.of, out)
    <3>1. /\ "retrieval" \notin DOMAIN out /\ "context" \notin DOMAIN out
          /\ "answers" \notin DOMAIN out /\ "result" \notin DOMAIN out /\ "gate" \notin DOMAIN out
      BY <2>2
    <3> QED BY <3>1, Zenon DEF LayersReturn
  <2> QED BY <2>1, <2>3, Zenon DEF EvaluationInv
<1>2. EvaluationInv /\ [Next]_vars => EvaluationInv'
  <2> SUFFICES ASSUME EvaluationInv, [Next]_vars PROVE EvaluationInv'
    OBVIOUS
  <2>1. CASE Next
    <3>1. job' = job /\ ReturnsItsCall
      BY <2>1, CallsReturn
    <3>2. JobTyped'
      BY <3>1 DEF EvaluationInv, JobTyped
    <3>3. /\ job.call = "judge" => JudgeReturns(job.of, out')
          /\ job.call = "tasks" => out' = EvaluateTasks(job.of.samples, job.of.floors, job.of.metrics)
          /\ job.call = "compare" => CompareReturns(job.of, out')
          /\ job.call = "modes" => ModesReturn(job.of, out')
          /\ job.call = "gate" =>
                out' = Gate(job.of.metrics, job.of.p10, job.of.thresholds, job.of.baseline)
      BY <3>1, JudgementsReturn, Zenon DEF ReturnsItsCall
    <3>4. job.call = "evaluate" => LayersReturn(job.of, out')
      <4> SUFFICES ASSUME job.call = "evaluate" PROVE LayersReturn(job.of, out')
        OBVIOUS
      <4>1. LayersReturn(job.of, out)
        BY DEF EvaluationInv
      <4>2. \/ RunRetrieval \/ RunRerank \/ RunContext \/ RunAnswers
            \/ RunProbes \/ Report \/ GateReport
        BY <3>1, Zenon DEF ReturnsItsCall
      <4> QED BY <4>1, <4>2, LayersKeep
    <3>5. /\ job'.call = "judge" => JudgeReturns(job'.of, out')
          /\ job'.call = "tasks" => out' = EvaluateTasks(job'.of.samples, job'.of.floors, job'.of.metrics)
          /\ job'.call = "compare" => CompareReturns(job'.of, out')
          /\ job'.call = "modes" => ModesReturn(job'.of, out')
          /\ job'.call = "gate" =>
                out' = Gate(job'.of.metrics, job'.of.p10, job'.of.thresholds, job'.of.baseline)
          /\ job'.call = "evaluate" => LayersReturn(job'.of, out')
      BY <3>1, <3>3, <3>4
    <3> QED BY <3>2, <3>5, Zenon DEF EvaluationInv
  <2>2. CASE UNCHANGED vars
    <3>1. job' = job /\ out' = out
      BY <2>2 DEF vars
    <3>2. JobTyped'
      BY <3>1 DEF EvaluationInv, JobTyped
    <3> QED BY <3>1, <3>2 DEF EvaluationInv
  <2> QED BY <2>1, <2>2
<1>3. EvaluationInv => EvaluationContract
  <2> SUFFICES ASSUME EvaluationInv PROVE EvaluationContract
    OBVIOUS
  <2> DEFINE r == job.of
  <2>1. ASSUME Returned("gate") PROVE GateHolds(out, r.metrics, r.p10, r.thresholds)
    <3>1. out = Gate(r.metrics, r.p10, r.thresholds, r.baseline)
      BY <2>1, Zenon DEF EvaluationInv, Returned
    <3>2. GateHolds(Gate(r.metrics, r.p10, r.thresholds, r.baseline), r.metrics, r.p10, r.thresholds)
      BY GatesHold
    <3> QED BY <3>1, <3>2, Zenon
  <2>2. ASSUME Returned("judge")
        PROVE  JudgeContract(r.ragas, r.judged, r.contexts, r.truths, out)
    <3>1. JudgeReturns(r, out)
      BY <2>2, Zenon DEF EvaluationInv, Returned
    <3>2. PICK each : out.samples = EvaluatePerSample(r.ragas, each, r.contexts, r.truths)
      BY <3>1, Zenon DEF JudgeReturns
    <3>3. /\ out.retrieval = EvaluateRetrieval(r.ragas, r.judged, r.contexts, r.truths)
          /\ out.full = EvaluateFull(r.ragas, r.judged, r.contexts, r.truths)
      BY <3>1, Zenon DEF JudgeReturns
    <3> HIDE DEF r
    <3> QED BY <3>2, <3>3, JudgeHolds
  <2>3. ASSUME Returned("modes"), NEW k \in DOMAIN out.modes.results,
               out.modes.results[k].mode # "hybrid"
        PROVE  out.modes.results[k].ndcg_lift = out.modes.results[k].pipeline_lift
    <3>1. r \in DataSets
      BY <2>3 DEF EvaluationInv, JobTyped, Returned
    <3>2. out.modes = CompareModes(r.samples, r.pipeline, <<"dense", "keyword", "hybrid">>)
      BY <2>3, Zenon DEF EvaluationInv, Returned, ModesReturn
    <3> HIDE DEF r
    <3>3. Piped(r.pipeline)
      BY <3>1, DataSetIs
    <3> DEFINE modes == <<"dense", "keyword", "hybrid">>
               o == out.modes
               dataset == r.samples
               p == r.pipeline
    <3>4. /\ o = CompareModes(dataset, p, modes) /\ Piped(p)
          /\ k \in DOMAIN o.results /\ o.results[k].mode # "hybrid"
      BY <2>3, <3>2, <3>3
    <3>5. modes = <<"dense", "keyword", "hybrid">>
      OBVIOUS
    <3> HIDE DEF modes, o, dataset, p
    <3>6. o.results[k].ndcg_lift = o.results[k].pipeline_lift
      BY <3>4, <3>5, ModesHold
    <3> QED BY <3>6 DEF o
  <2>4. ASSUME Returned("tasks"), out.all_passed, NEW n \in DOMAIN r.samples,
               TaskOf(r.samples[n]) \in TaskTypes
        PROVE  out.failures[TaskOf(r.samples[n])] = {}
    <3>1. out = EvaluateTasks(r.samples, r.floors, r.metrics)
      BY <2>4, Zenon DEF EvaluationInv, Returned
    <3> HIDE DEF r
    <3> QED BY <2>4, <3>1, TasksHold
  <2>5. ASSUME Returned("compare") PROVE CompareContract(r, out)
    <3>1. r \in Runs
      BY <2>5 DEF EvaluationInv, JobTyped, Returned
    <3>2. CompareReturns(r, out)
      BY <2>5, Zenon DEF EvaluationInv, Returned
    <3> HIDE DEF r
    <3>3. /\ out.report = Compare(r.rows)
          /\ out.chunking = RunComparison(r.samples, ChunkedBy(r.configs, r.documents),
                                          r.configs, 2, "absent", NoScores)
          /\ out.composite = Composite([retrieval_mrr |-> r.rows[1].score, retrieval_ndcg |-> Scale,
                                        faithfulness |-> 0])
      BY <3>2, Zenon DEF CompareReturns
    <3> QED BY <3>1, <3>3, ComparisonHolds
  <2>6. ASSUME Returned("evaluate")
        PROVE  /\ "result" \in DOMAIN out =>
                     RatesBounded(out.result.samples) /\ RetrievalScoresAgree(out.result.samples)
               /\ "gate" \in DOMAIN out =>
                     GateHolds(out.gate, out.result.metrics, out.result.p10, r.thresholds)
    <3>1. r \in DataSets /\ LayersReturn(r, out)
      BY <2>6 DEF EvaluationInv, JobTyped, Returned
    <3> HIDE DEF r
    <3> QED BY <3>1, LayersContract
  <2>7. /\ Returned("judge") =>
              /\ Len(r.contexts) = Len(r.truths) /\ r.ragas # "ok" => out.retrieval.ok
              /\ Len(r.contexts) = Len(r.truths) /\ r.ragas \in {"absent", "ok"} =>
                    out.full = out.retrieval
              /\ r.ragas = "absent" /\ out.full.ok =>
                    out.full.recall = Average(Column(out.samples, "recall"))
        /\ Returned("compare") =>
              /\ out.report.beats_all =>
                    \E k \in DOMAIN r.rows : r.rows[k].production /\ r.rows[k].name = out.report.winner
              /\ out.composite \in 0..Scale
              /\ \A k \in DOMAIN out.chunking.best : out.chunking.best[k] \in ToSet(r.configs)
    BY <2>2, <2>5, Zenon DEF JudgeContract, CompareContract
  <2> QED BY <2>1, <2>3, <2>4, <2>6, <2>7, Zenon DEF EvaluationContract, x
<1> QED BY <1>1, <1>2, <1>3, PTL DEF Spec
==============================================================================
