------------------------------ MODULE Embeddings ------------------------------
(***************************************************************************)
(* libs/rag/embeddings and libs/rag/pipeline/embedders.py.  The model is   *)
(* external: an embedding is a record of the text it stands for, prefix    *)
(* included, and its length.  server says what Ollama does:                *)
(* "up", "no_model" (reachable, model not pulled) or "down".               *)
(***************************************************************************)
EXTENDS Ranking

CONSTANT ModelDimensions        \* of the embedding model, 768 for nomic
ASSUME ModelDimensionsPositive == ModelDimensions \in Nat \ {0}

Failed == [ok |-> FALSE, vectors |-> <<>>]
(* _initialize_ollama only warns when the model is missing; _embed_ollama  *)
(* then fails on the first text.                                           *)
InitializedEmbedder(server) == server # "down"
RawEmbeddings(texts, server) ==
    IF texts # <<>> /\ server # "up" THEN Failed
    ELSE [ok |-> TRUE, vectors |-> [k \in DOMAIN texts |->
              [of |-> texts[k], dimensions |-> ModelDimensions, unit |-> FALSE]]]
(* _truncate_dimensions, then _normalize                                   *)
Finished(vectors, c) ==
    [k \in DOMAIN vectors |-> [vectors[k] EXCEPT
        !.dimensions = IF @ <= c.dimensions THEN @ ELSE c.dimensions, !.unit = c.normalize]]
Prefixed(texts, prefix) == [k \in DOMAIN texts |-> prefix \o texts[k]]
(* embed_documents and embed_queries                                       *)
Embed(texts, prefix, c, server) ==
    LET raw == RawEmbeddings(Prefixed(texts, prefix), server)
    IN  IF ~InitializedEmbedder(server) THEN Failed
        ELSE [raw EXCEPT !.vectors = Finished(@, c)]
EmbedDocuments(texts, c, server) == Embed(texts, c.document_prefix, c, server)
EmbedQueries(texts, c, server) == Embed(texts, c.query_prefix, c, server)
Batches(texts, size) ==
    [b \in 1..((Len(texts) + size - 1) \div size) |->
        SubSeq(texts, (b - 1) * size + 1, IF b * size < Len(texts) THEN b * size ELSE Len(texts))]
(* embed_batch                                                             *)
EmbedBatch(texts, size, isQuery, c, server) ==
    LET prefix == IF isQuery THEN c.query_prefix ELSE c.document_prefix
        batches == Batches(Prefixed(texts, prefix), size)
        raw == [b \in DOMAIN batches |-> RawEmbeddings(batches[b], server)]
    IN  IF ~InitializedEmbedder(server) \/ \E b \in DOMAIN raw : ~raw[b].ok THEN Failed
        ELSE [ok |-> TRUE, vectors |-> Finished(FlattenSeq([b \in DOMAIN raw |-> raw[b].vectors]), c)]

(***************************************************************************)
(* retriever.py, NomicEmbeddingRetriever over chunks [id, text] with a     *)
(* text of words; sim is the similarity of each chunk to the query.        *)
(***************************************************************************)
(* _lexical_retrieve: the positions of the chunks, by Jaccard similarity.  *)
LexicalPositions(chunks, query, k) ==
    LET words(i) == ToSet(chunks[i].text)
        worded == Where([i \in DOMAIN chunks |-> i], LAMBDA i : words(i) # {})
    IN  TopK(SortedBy(worded, LAMBDA i : Jaccard(ToSet(query), words(i))), k)
(* __init__: a failure of the embedder is only logged.                     *)
RetrieverReady(chunks, c, server) ==
    chunks # <<>> /\ EmbedDocuments([k \in DOMAIN chunks |-> chunks[k].text], c, server).ok
(* retrieve: the positions of the best chunks.  Only a retriever that was  *)
(* not ready falls back; a query that cannot be embedded is an error.      *)
NomicPositions(chunks, query, sim, k, ready, c, server) ==
    IF ~ready THEN [ok |-> TRUE, vectors |-> LexicalPositions(chunks, query, k)]
    ELSE IF ~EmbedQueries(<<query>>, c, server).ok THEN Failed
    ELSE [ok |-> TRUE, vectors |-> TopK(SortedBy([i \in DOMAIN chunks |-> i], LAMBDA i : sim[i]), k)]
(* retrieve_with_scores: the fallback numbers its results instead of       *)
(* naming the chunks.                                                      *)
RetrieveWithScores(chunks, query, sim, k, ready, c, server) ==
    LET row(i, j) == [id |-> IF ready THEN chunks[i].id ELSE j - 1, text |-> chunks[i].text,
                      score |-> IF ready THEN sim[i] ELSE 0]
        rows(found) == [found EXCEPT !.vectors = [j \in DOMAIN @ |-> row(@[j], j)]]
    IN  rows(NomicPositions(chunks, query, sim, k, ready, c, server))
(* MultiModelRetriever.compare_models: one retriever per model, kept.      *)
CompareModels(chunks, query, sims, k, ready, c, server) ==
    [model \in DOMAIN sims |->
        [NomicPositions(chunks, query, sims[model], k, ready[model], c, server)
            EXCEPT !.vectors = [j \in DOMAIN @ |-> chunks[@[j]].text]]]

(***************************************************************************)
(* embedders.py, TfidfEmbedder over texts of terms (numbers): a vector has *)
(* one bucket per term, several when there are more terms than dimensions. *)
(***************************************************************************)
Vocabulary(texts, dimensions) ==
    LET terms == UNION {ToSet(texts[k]) : k \in DOMAIN texts}
    IN  [t \in terms |-> Cardinality({u \in terms : u < t}) % dimensions]
(* The logarithm of fit's inverse document frequency falls with it.        *)
InverseFrequency(texts, t) == 1 + Len(texts) - Cardinality({k \in DOMAIN texts : t \in ToSet(texts[k])})
(* _vectorize: a term fit did not see goes into the bucket of its hash.    *)
TfidfVector(texts, text, dimensions, hash) ==
    LET vocabulary == Vocabulary(texts, dimensions)
        known(t) == t \in DOMAIN vocabulary
        bucket(t) == IF known(t) THEN vocabulary[t] ELSE hash[t] % dimensions
        weight(t) == IF known(t) THEN InverseFrequency(texts, t) ELSE 1
        count(t) == Len(Where(text, LAMBDA u : u = t))
    IN  [d \in 0..(dimensions - 1) |->
            MapThenSumSet(LAMBDA t : count(t) * weight(t), {t \in ToSet(text) : bucket(t) = d})]
==============================================================================
