--------------------------- MODULE ContextAssembly ---------------------------
(***************************************************************************)
(* libs/rag/context: the reranked chunks are deduplicated, selected and    *)
(* packed into the token budget, and each that remains gets the label an   *)
(* answer cites it by.  A chunk is a record of id, text (of Texts, letters *)
(* being words), score; a configuration has the field names of             *)
(* ContextAssemblyConfig, its fractions in units of Scale.                 *)
(***************************************************************************)
EXTENDS Texts, Ranking

Words(t) == {t[i] : i \in {j \in DOMAIN t : t[j] > 0}}
Tokens(chunks) == MapThenSumSet(LAMBDA i : EstimateTokens(chunks[i].text), DOMAIN chunks)
SelectTopK(chunks, k) == TopK(SortedBy(chunks, LAMBDA c : c.score), k)

(* Mutant: a chunk is only compared with the one kept before it.           *)
KeepUnlikeLast(kept, c, threshold) ==
    IF kept # <<>> /\ Jaccard(Words(c.text), Words(Last(kept).text)) >= threshold
    THEN kept ELSE Append(kept, c)
KeepUnlike(kept, c, threshold) ==
    IF \E i \in DOMAIN kept : Jaccard(Words(c.text), Words(kept[i].text)) >= threshold
    THEN kept ELSE Append(kept, c)
(* deduplicate_by_similarity                                               *)
Deduplicate(chunks, threshold) ==
    LET kept == FoldLeft(LAMBDA k, c : KeepUnlike(k, c, threshold), <<>>,
                         SortedBy(chunks, LAMBDA c : c.score))
    IN  [chunks |-> kept, removed |-> Len(chunks) - Len(kept)]

(* maximal_marginal_relevance: the first of the best each time.  selected  *)
(* holds places; what remains is popped from, so it stays in its order.    *)
Marginal(chunks, query, lambda, selected, i) ==
    LET relevance == (chunks[i].score + Jaccard(Words(query), Words(chunks[i].text))) \div 2
        similar == Max({0} \cup {Jaccard(Words(chunks[i].text), Words(chunks[selected[j]].text)) :
                                    j \in DOMAIN selected})
    IN  lambda * relevance - (Scale - lambda) * similar
FirstMost(remaining, v) == CHOOSE i \in remaining : \A j \in remaining \ {i} : Before(v, i, j)
SelectDiverse(chunks, query, k, lambda) ==
    LET pick(selected, remaining) ==
            IF remaining = {} THEN selected
            ELSE Append(selected, FirstMost(remaining,
                     [i \in remaining |-> Marginal(chunks, query, lambda, selected, i)]))
        next(selected) == pick(selected, DOMAIN chunks \ ToSet(selected))
        picked[n \in 0..k] == IF n = 0 THEN <<>> ELSE next(picked[n - 1])
    IN  [n \in DOMAIN picked[k] |-> chunks[picked[k][n]]]

(* The first loop of pack_by_budget over the chunks by score per token.    *)
Pack(p, c, maxTokens) ==
    IF p.used + EstimateTokens(c.text) <= maxTokens
    THEN [p EXCEPT !.chunks = Append(@, c), !.used = @ + EstimateTokens(c.text)]
    ELSE [p EXCEPT !.dropped = @ + 1]
(* Its second loop gives what was dropped another chance.                  *)
PackAgain(p, c, maxTokens) ==
    IF Contains(p.chunks, c) \/ EstimateTokens(c.text) > maxTokens - p.used THEN p
    ELSE [Pack(p, c, maxTokens) EXCEPT !.dropped = @ - 1]
PackByBudget(chunks, maxTokens, minTokens) ==
    LET efficiency(c) == IF c.text = <<>> THEN Scale * c.score
                         ELSE (Scale * c.score) \div EstimateTokens(c.text)
        twice(order) ==
            FoldLeft(LAMBDA p, c : PackAgain(p, c, maxTokens),
                     FoldLeft(LAMBDA p, c : Pack(p, c, maxTokens),
                              [chunks |-> <<>>, used |-> 0, dropped |-> 0], order), order)
    IN  IF chunks = <<>> \/ maxTokens <= 0
        THEN [chunks |-> <<>>, used |-> 0, dropped |-> Len(chunks)]
        ELSE twice(SortedBy(Where(chunks, LAMBDA c : EstimateTokens(c.text) >= minTokens),
                            efficiency))

(* The sentences compress_extractive keeps: those with most of the query's *)
(* words, while they fit.                                                  *)
KeptSentences(sentences, query, used, maxTokens) ==
    LET tokens(i) == EstimateTokens(Strip(sentences[i]))
        take(acc, i) == IF acc.used + tokens(i) <= maxTokens
                        THEN [used |-> acc.used + tokens(i), in |-> acc.in \cup {i}] ELSE acc
        overlap(i) == Cardinality(Words(sentences[i]) \cap Words(query))
    IN  FoldLeft(take, [used |-> used, in |-> {}],
                 SortedBy([i \in DOMAIN sentences |-> i], overlap)).in
(* Its result: headers, then those sentences in their order; else a cut.   *)
Extract(t, headers, sentences, query, maxTokens) ==
    LET size == CharsForTokens(maxTokens)
        body(order) == Join([k \in DOMAIN order |-> Strip(sentences[order[k]])], <<Sp>>)
        under(text) == Strip(IF headers = <<>> THEN text ELSE headers \o <<NL>> \o text)
        of(taken) == IF taken = {} THEN Slice(t, 0, Min({size, Len(t)}))
                     ELSE under(body(Ordered(taken, Len(sentences))))
    IN  IF sentences = <<>> /\ EstimateTokens(headers) <= maxTokens THEN headers
        ELSE of(KeptSentences(sentences, query, EstimateTokens(headers), maxTokens))
Compress(t, query, maxTokens) ==
    LET header(l) == IsHeader(Strip(l))
        lines(wanted(_)) == Join(Where(Lines(t), wanted), <<NL>>)
    IN  IF EstimateTokens(t) <= maxTokens THEN t
        ELSE Extract(t, lines(header),
                     NonBlank(Sentences(lines(LAMBDA l : ~header(l)))), query, maxTokens)

(* The branches of assemble: what is selected, and its counters.           *)
Selected(query, chunks, c) ==
    LET result(list, removed, dropped) == [chunks |-> list, removed |-> removed, dropped |-> dropped]
        pack(p, removed) == result(p.chunks, removed, p.dropped)
        packed(list, removed) == pack(PackByBudget(list, c.max_tokens, c.min_chunk_tokens), removed)
        best(list, k) == SelectTopK(list, k)
        diverse(list, k) == IF k <= 0 THEN <<>>
                            ELSE SelectDiverse(list, query, k, c.mmr_lambda)
        apart(d) == CASE c.strategy = "dedup_only" -> result(best(d.chunks, c.max_chunks), d.removed, 0)
                      [] c.strategy = "mmr" -> result(diverse(d.chunks, c.max_chunks), d.removed, 0)
                      [] OTHER -> packed(diverse(d.chunks, 2 * c.max_chunks), d.removed)
    IN  CASE c.strategy = "top_k" -> result(best(chunks, c.max_chunks), 0, 0)
          [] c.strategy = "budget" -> packed(best(chunks, 2 * c.max_chunks), 0)
          [] OTHER -> apart(Deduplicate(chunks, c.dedup_threshold))
(* A chunk of the context; its label is its rank.                          *)
Shortened(chunk, rank, text, compressed) ==
    [id |-> chunk.id, text |-> text, score |-> chunk.score, rank |-> rank,
     was_compressed |-> compressed]
Context(query, chunks, s, kept) ==
    [query |-> query, chunks |-> kept, citations |-> [k \in DOMAIN kept |-> kept[k].id],
     stats |-> [chunks_in |-> Len(chunks), chunks_selected |-> Len(kept),
                duplicates_removed |-> s.removed, chunks_dropped_budget |-> s.dropped,
                tokens_in |-> Tokens(chunks), tokens_out |-> Tokens(kept)]]
(* ContextAssemblyService.assemble                                         *)
Compressing(c) == c.strategy = "full_compressed" \/ c.enable_compression
Assemble(query, chunks, c) ==
    LET long(t) == Compressing(c) /\ EstimateTokens(t) > c.per_chunk_max_tokens
        text(t) == IF Compressing(c) THEN Compress(t, query, c.per_chunk_max_tokens) ELSE t
        from(s) == Context(query, chunks, s,
            [k \in DOMAIN s.chunks |->
                Shortened(s.chunks[k], k, text(s.chunks[k].text), long(s.chunks[k].text))])
    IN  from(Selected(query, chunks, c))

(***************************************************************************)
(* What the prompt may rely on.                                            *)
(***************************************************************************)
Budgeted(c) == c.strategy \in {"budget", "full", "full_compressed"}
WithinBudget(a, c) == Budgeted(c) => a.stats.tokens_out <= c.max_tokens
(* Every chunk left out is a duplicate, over the budget, too small or past *)
(* the number of chunks asked for.                                         *)
Accounted(a, chunks, c) ==
    LET limit == IF c.strategy \in {"top_k", "dedup_only", "mmr"} THEN c.max_chunks
                 ELSE 2 * c.max_chunks
        small == IF Budgeted(c) /\ c.max_tokens > 0
                 THEN Len(Where(chunks, LAMBDA x : EstimateTokens(x.text) < c.min_chunk_tokens))
                 ELSE 0
        left == Len(chunks) - a.stats.duplicates_removed
    IN  LET kept == IF left < limit THEN left ELSE limit
        IN  /\ a.stats.chunks_selected + a.stats.chunks_dropped_budget <= kept
            /\ kept - small <= a.stats.chunks_selected + a.stats.chunks_dropped_budget
(* No two chunks of a deduplicated context are near duplicates, unless     *)
(* their texts were cut afterwards.                                        *)
Distinct(a, c) ==
    c.strategy \notin {"top_k", "budget"} /\ ~Compressing(c) =>
        \A i, j \in DOMAIN a.chunks : i # j =>
            Jaccard(Words(a.chunks[i].text), Words(a.chunks[j].text)) < c.dedup_threshold
==============================================================================
