------------------------------ MODULE Retrieval ------------------------------
(***************************************************************************)
(* libs/rag/retrieval and libs/rag/reranking.  A chunk is a record of its  *)
(* id, its text (the tokens of Tokenizer), its metadata and sim, its       *)
(* similarity to the query in the vector index (external).  Times are left *)
(* out and scores are integers in the order of the program's.              *)
(***************************************************************************)
EXTENDS Ranking

CONSTANTS NoFilter,     \* filter_metadata None
          RRFK          \* rrf_k, 60
ASSUME RRFKNatural == RRFK \in Nat

MatchesFilter(chunk, filter) == filter = NoFilter \/ chunk.meta = filter

Ids(chunks) == [k \in DOMAIN chunks |-> chunks[k].id]
(* RetrievedChunk, with its place in the list as rank.                     *)
Retrieved(s, retriever) ==
    [k \in DOMAIN s |-> [id |-> s[k].id, text |-> s[k].text, meta |-> s[k].meta,
                         score |-> s[k].score, rank |-> k, retriever |-> retriever]]
Scored(s, score(_)) ==
    [k \in DOMAIN s |-> [id |-> s[k].id, text |-> s[k].text, meta |-> s[k].meta,
                         score |-> score(s[k])]]

(***************************************************************************)
(* keyword.py.  BM25Index.__init__ leaves out chunks without tokens.  The  *)
(* logarithm of the inverse document frequency is replaced by a number     *)
(* that falls with the document frequency as it does; k1 = 3/2, b = 3/4.   *)
(***************************************************************************)
Indexed(chunks) == Where(chunks, LAMBDA c : c.text # <<>>)
DocFreq(index, term) == Cardinality({i \in DOMAIN index : term \in ToSet(index[i].text)})
BM25(index, query, doc) ==
    LET n == Len(index)
        total == MapThenSumSet(LAMBDA i : Len(index[i].text), DOMAIN index)
        tf(term) == Count(term, doc.text)
        idf(term) == 1 + n - DocFreq(index, term)
        gain(term) == IF tf(term) = 0 THEN 0
                      ELSE (idf(term) * 20 * tf(term) * total * Scale)
                            \div (8 * total * tf(term) + 3 * total + 9 * Len(doc.text) * n)
    IN  MapThenSumSet(LAMBDA i : gain(query[i]), DOMAIN query)
(* BM25Index.search without top_k: documents with a positive score.        *)
Search(chunks, query) ==
    LET index == Indexed(chunks)
        scored == Scored(index, LAMBDA c : BM25(index, query, c))
    IN  SortedBy(Where(scored, LAMBDA c : c.score > 0), LAMBDA c : c.score)
KeywordRetrieve(chunks, query, k, filter) ==
    Retrieved(TopK(Where(Search(chunks, query), LAMBDA c : MatchesFilter(c, filter)), k),
              "keyword")

(* dense.py over IndexingService.search; the index filters as it searches. *)
DenseRetrieve(chunks, k, filter) ==
    LET matching == Where(chunks, LAMBDA c : MatchesFilter(c, filter))
    IN  Retrieved(TopK(SortedBy(Scored(matching, LAMBDA c : c.sim), LAMBDA c : c.score), k),
                  "dense")

(***************************************************************************)
(* hybrid.py: reciprocal rank fusion of twice as many from each side.      *)
(***************************************************************************)
RankScore(ids, list) ==
    MapThenSumSet(LAMBDA i : Scale \div (RRFK + i), {i \in DOMAIN list : list[i].id = ids})
(* Mutant: a chunk of both lists keeps the score of the list seen last.    *)
FuseOverwriting(dense, keyword, k) ==
    LET ids == {dense[i].id : i \in DOMAIN dense}
        all == dense \o Where(keyword, LAMBDA c : c.id \notin ids)
        score(c) == IF \E i \in DOMAIN keyword : keyword[i].id = c.id
                    THEN RankScore(c.id, keyword) ELSE RankScore(c.id, dense)
    IN  Retrieved(TopK(SortedBy(Scored(all, score), LAMBDA c : c.score), k), "hybrid")
Fuse(dense, keyword, k) ==
    LET ids == {dense[i].id : i \in DOMAIN dense}
        all == dense \o Where(keyword, LAMBDA c : c.id \notin ids)
        score(c) == RankScore(c.id, dense) + RankScore(c.id, keyword)
    IN  Retrieved(TopK(SortedBy(Scored(all, score), LAMBDA c : c.score), k), "hybrid")
HybridRetrieve(index, corpus, query, k, filter) ==
    Fuse(DenseRetrieve(index, 2 * k, filter), KeywordRetrieve(corpus, query, 2 * k, filter), k)
(* RetrievalService.retrieve: the vector index and the keyword corpus are  *)
(* filled separately.                                                      *)
Retrieve(index, corpus, query, mode, k, filter) ==
    CASE mode = "dense" -> DenseRetrieve(index, k, filter)
      [] mode = "keyword" -> KeywordRetrieve(corpus, query, k, filter)
      [] OTHER -> HybridRetrieve(index, corpus, query, k, filter)

(***************************************************************************)
(* reranking: scores of the model for the candidates, in their order.      *)
(***************************************************************************)
RerankedChunk(c, score, i) ==
    [id |-> c.id, text |-> c.text, meta |-> c.meta, retriever |-> c.retriever, score |-> score,
     rank |-> i, original_rank |-> c.rank, original_score |-> c.score]
Reranked(candidates, scores, k) ==
    LET scored == [i \in DOMAIN candidates |-> [chunk |-> candidates[i], score |-> scores[i]]]
        best == TopK(SortedBy(scored, LAMBDA r : r.score), k)
    IN  [i \in DOMAIN best |-> RerankedChunk(best[i].chunk, best[i].score, i)]
(* CrossEncoderReranker.rerank: min-max normalized unless there is one.    *)
CrossEncode(candidates, scores, k, normalize) ==
    LET low == Min(ToSet(scores))
        high == Max(ToSet(scores))
        unit(s) == IF high > low THEN (Scale * (s - low)) \div (high - low) ELSE Scale
    IN  IF candidates = <<>> THEN <<>>
        ELSE Reranked(candidates,
                      IF normalize /\ Len(scores) > 1
                      THEN [i \in DOMAIN scores |-> unit(scores[i])] ELSE scores, k)
(* PassThroughReranker, and LexicalReranker for a query without tokens.    *)
PassThrough(candidates, k) ==
    LET best == TopK(candidates, k)
    IN  [i \in DOMAIN best |-> RerankedChunk(best[i], best[i].score, i)]
LexicalRerank(query, candidates, k) ==
    IF query = <<>> THEN PassThrough(candidates, k)
    ELSE Reranked(candidates, [i \in DOMAIN candidates |->
            Jaccard(ToSet(query), ToSet(candidates[i].text))], k)
(* RerankingService.retrieve_and_rerank                                    *)
RetrieveAndRerank(index, corpus, query, mode, topN, k, filter) ==
    LET candidates == Retrieve(index, corpus, query, mode, topN, filter)
        chunks == LexicalRerank(query, candidates, k)
    IN  [chunks |-> chunks, candidates_in |-> Len(candidates), candidates_out |-> Len(chunks)]

(***************************************************************************)
(* What fusion and the filter are for.                                     *)
(***************************************************************************)
PlaceOf(list, id) ==
    IF \E i \in DOMAIN list : list[i].id = id
    THEN CHOOSE i \in DOMAIN list : list[i].id = id ELSE Len(list) + 1000
(* A chunk that one of the lists places ahead of another, and the other    *)
(* list does not place behind it, comes first after fusion.                *)
FusionRespectsBoth(dense, keyword, fused) ==
    LET before(list, c, d) == PlaceOf(list, c) < PlaceOf(list, d)
        notAfter(list, c, d) == PlaceOf(list, c) <= PlaceOf(list, d)
        ahead(c, d) == \/ before(dense, c, d) /\ notAfter(keyword, c, d)
                       \/ before(keyword, c, d) /\ notAfter(dense, c, d)
    IN  /\ \A i, j \in DOMAIN fused : fused[i].id = fused[j].id => i = j
        /\ \A i \in DOMAIN fused, c \in ToSet(dense) \cup ToSet(keyword) :
              ahead(c.id, fused[i].id) => PlaceOf(fused, c.id) < i
(* A filter only removes what it excludes: the same matching chunks come   *)
(* out as without it and without a limit.                                  *)
FilterLosesNothing(got, chunks, query, k, filter) ==
    LET all == Where(Search(chunks, query), LAMBDA c : MatchesFilter(c, filter))
    IN  Ids(got) = Ids(TopK(all, k))
==============================================================================
