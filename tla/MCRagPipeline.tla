---------------------------- MODULE MCRagPipeline ----------------------------
(***************************************************************************)
(* Inputs of RagPipeline small enough to enumerate.                        *)
(***************************************************************************)
EXTENDS RagPipeline

CONSTANT MaxPieces      \* of a document

MCInstruction == <<8, 10>>
MCNegations == {1}
MCCanaryText == <<12, 14>>
MCKeywords == {14}

SeqsUpTo(set, n) == UNION {[1..k -> set] : k \in 1..n}
(* Words of one and five letters, a sentence's end, blank lines, a header, *)
(* a fence and a space; every letter of a document is another one.         *)
PieceTexts == {<<1, Sp>>, <<1, 1, 1, 1, 1, Sp>>, <<1, 1, Dot, Sp>>, Break, <<NL>>,
               <<Hash, Sp, 1, NL>>, <<Fence>>, <<Sp>>}
Numbered(t) == [i \in DOMAIN t |-> IF t[i] = 1 THEN i ELSE t[i]]
MCDocuments ==
    {[text |-> Numbered(FlattenSeq(p)), title |-> <<101, 102>>] :
        p \in {q \in SeqsUpTo(PieceTexts, MaxPieces) : Strip(FlattenSeq(q)) # <<>>}}
MCComments ==
    {[i \in 1..3 |-> [author |-> <<200 + by[i]>>,
                      body |-> [j \in 1..size[i] |-> IF j % 4 = 0 THEN Sp ELSE 20 * i + j]]] :
        by \in [1..3 -> 1..2], size \in [1..3 -> {1, 6, 11}]}
MCChunkerConfig ==
    [chunk_size |-> 7, chunk_overlap |-> 6, min_chunk_size |-> 2, max_chunk_size |-> 8,
     separators |-> <<Break, <<NL>>, <<Dot, Sp>>, <<Sp>>>>, include_section_headers |-> TRUE,
     min_sentences |-> 1, buffer_size |-> 1, similarity_threshold |-> 0]

Chunks(texts, metas, sims) ==
    [i \in DOMAIN texts |-> [id |-> i, text |-> texts[i], meta |-> metas[i], sim |-> sims[i]]]
MCCorpora ==
    {[index |-> Chunks(texts, <<"a", "b", "a", "a">>, sims),
      corpus |-> SubSeq(Chunks(texts, <<"a", "b", "a", "a">>, sims), from, 4),
      query |-> query, k |-> k, filter |-> filter] :
        texts \in [1..4 -> {<<>>, <<2>>, <<2, 4>>, <<4, 4, 6>>}],
        sims \in {<<1, 2, 3, 4>>, <<3, 3, 2, 1>>}, from \in 1..2,
        query \in {<<2>>, <<2, 4>>}, k \in {1, 3}, filter \in {NoFilter, "a"}}
MCEmbeddingConfig ==
    [dimensions |-> 2, normalize |-> TRUE, document_prefix |-> <<0>>, query_prefix |-> <<9>>]
MCBatched ==
    {[texts |-> [i \in 1..n |-> <<i>>], size |-> size, server |-> server] :
        n \in 0..5, size \in 1..3, server \in {"up", "no_model", "down"}}
(* A Latin letter, two Han, a kana, a Thai letter, a digit, a mark.        *)
MCWords == SeqsUpTo({1, 11, 12, 21, 41, 51, 61}, 4)

Configuration(strategy, tokens) ==
    [strategy |-> strategy, max_chunks |-> 2, max_tokens |-> tokens, min_chunk_tokens |-> 2,
     dedup_threshold |-> Scale \div 2, mmr_lambda |-> Scale \div 2,
     enable_compression |-> tokens = 3 /\ strategy \in {"dedup_only", "mmr", "budget"},
     per_chunk_max_tokens |-> 4]
MCCandidates ==
    {[query |-> <<2>>, config |-> Configuration(strategy, tokens),
      chunks |-> [i \in 1..4 |-> [id |-> i, text |-> texts[i], score |-> scores[i]]]] :
        strategy \in Strategies, tokens \in {3, 8},
        texts \in [1..4 -> {<<2>>, <<2, 4>>, <<2, 4, 6>>, <<2, Dot, Sp, 8, 9>>}],
        scores \in {<<40, 30, 20, 10>>, <<10, 20, 20, 30>>}}

Shown(texts) == [i \in DOMAIN texts |-> [id |-> 10 * i, text |-> texts[i], score |-> 1,
                                         rank |-> i, was_compressed |-> FALSE]]
MCReplies ==
    {[context |-> context, content |-> content, judged |-> judged] :
        context \in {Shown(<<>>), Shown(<<<<2, 4>>, <<6, 8>>>>)},
        content \in SeqsUpTo({Word(2), Word(6), Word(1), Stop, LineEnd, Cite(1), Cite(2),
                              Bare(3), Heading, Refusal[1]}, 4),
        judged \in {<<"none", "none">>, <<"SUPPORTS", "NEUTRAL">>, <<"CONTRADICTS", "odd">>}}

MCRescored ==
    {[candidates |-> Retrieved(Scored(Chunks(<<<<2>>, <<4>>, <<6>>>>, <<"a", "a", "b">>, sims),
                                      LAMBDA c : c.sim), "dense"),
      scores |-> scores, k |-> k] : sims \in {<<3, 2, 1>>}, scores \in [1..3 -> -2..2], k \in 1..3}
Servers == {"up", "no_model", "down"}
MCLookups ==
    {[chunks |-> Chunks(texts, <<"a", "a", "b">>, sim), query |-> query, sim |-> sim, k |-> k,
      first |-> first, later |-> later] :
        texts \in [1..3 -> {<<>>, <<2>>, <<2, 4>>}], sim \in {<<1, 2, 3>>, <<3, 1, 2>>},
        query \in {<<2>>, <<4, 6>>}, k \in {1, 2}, first \in Servers, later \in Servers}
MCStreams ==
    {[server |-> server, lines |-> lines] : server \in Servers,
        lines \in SeqsUpTo([json : BOOLEAN, done : BOOLEAN, content : {<<>>, <<2>>}], 3)}
MCJudged ==
    {[ragas |-> ragas, contexts |-> contexts, truths |-> truths,
      judged |-> [ok |-> TRUE, precision |-> Scale, recall |-> 0]] :
        ragas \in {"absent", "no_llm", "fails", "ok"},
        contexts \in SeqsUpTo({<<>>, <<<<2>>>>, <<<<2, 4>>, <<6>>>>}, 2),
        truths \in SeqsUpTo({<<2>>, <<4, 6>>}, 2)}
TaskSample(route, task) ==
    [route |-> route, task |-> task, resolving |-> FALSE, type |-> "", topic |-> ""]
MCTasks ==
    {[samples |-> samples, metrics |-> [t \in TaskTypes |-> [faithfulness |-> got[t]]],
      floors |-> [t \in TaskTypes |-> [faithfulness |-> 5000]]] :
        samples \in SeqsUpTo({TaskSample("incident", ""), TaskSample("async", ""),
                               TaskSample("async", "unheard"), TaskSample("", "conceptual")}, 3),
        got \in [TaskTypes -> {4000, 5000}]}
Size(size, overlap) == [chunk_size |-> size, chunk_overlap |-> overlap]
MCRuns ==
    {[rows |-> rows, configs |-> configs, tenths |-> 3, documents |-> <<<<2, 4, 6>>, <<8, 10>>>>,
      samples |-> <<[question |-> <<2>>, truth |-> <<2, 4>>]>>] :
        rows \in SeqsUpTo([name : {"a"}, production : BOOLEAN, score : {0, 5000, 5001, 9000}], 3),
        configs \in SeqsUpTo({Size(1, 0), Size(2, 2), Size(2, 1)}, 2)}

Threshold(higher) == [good |-> IF higher THEN 7 ELSE 3, warning |-> 5, higher |-> higher]
Names == {"faithfulness", "hallucination_rate"}
MCReports ==
    {[metrics |-> metrics, p10 |-> p10, baseline |-> baseline,
      thresholds |-> [m \in Names |-> Threshold(m = "faithfulness")]] :
        metrics \in [Names -> {2, 4, 6, 8}],
        p10 \in [{"faithfulness"} -> {4, 6}] \cup [Names -> {4, 6}],
        baseline \in [Names -> {3, 6}]}

Sample(question, document, references) ==
    [question |-> question, document |-> document, references |-> references, relevant |-> {}]
MCDataSets ==
    {[samples |-> samples, baseline |-> <<>>,
      thresholds |-> [m \in {"retrieval_recall"} |->
                         [good |-> Scale \div 2, warning |-> Scale \div 4, higher |-> TRUE]],
      pipeline |-> [index |-> corpus, corpus |-> corpus, mode |-> mode, top_k |-> 2, top_n |-> 3,
                    rerank_k |-> 2, context |-> Configuration("full", 8)]] :
        corpus \in {Chunks(texts, <<"a", "b", "a">>, <<1, 3, 2>>) :
                       texts \in [1..3 -> {<<>>, <<2, Sp, 4>>, <<6, Sp, 8, Sp, 4>>}]},
        mode \in {"dense", "keyword", "hybrid"},
        samples \in {<<Sample(<<2, 4>>, NoFilter, <<<<2>>>>)>>,
                     <<Sample(<<4>>, "a", <<<<8>>, <<2, 4>>>>), Sample(<<8>>, NoFilter, <<<<>>>>)>>}}
==============================================================================
