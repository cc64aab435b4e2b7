--------------------------- MODULE SemanticChunker ---------------------------
(***************************************************************************)
(* libs/rag/chunking/semantic.py: sentences are grouped between the places *)
(* where neighbours are unlike.  The embedding model is external: low is   *)
(* the set of sentences (0-based) whose similarity to the next is below    *)
(* the threshold, model says whether the model could be loaded.            *)
(***************************************************************************)
EXTENDS RecursiveChunker

(* SemanticChunkerConfig.__post_init__                                     *)
SemanticConfigValid(c) == ConfigValid(c) /\ c.buffer_size >= 1
                          /\ c.similarity_threshold \in 0..1

CharAt(t, k) == IF k \in DOMAIN t THEN t[k] ELSE Hash + Dash + Tab    \* or no character
(* A line break at position i before a header or a list item.              *)
MarkFollows(t, i) ==
    CharAt(t, i + 1) = NL /\ CharAt(t, i + 2) \in {Hash, Dash} /\ IsSpace(CharAt(t, i + 3))
(* The sentence pattern at position i (0-based): where its first matching  *)
(* alternative ends, or -1.                                                *)
BoundaryEnd(t, i) ==
    LET blank == Min({k \in i..(Len(t) - 1) : ~IsSpace(t[k + 1])} \cup {Len(t)})
        newlines == {k \in i..(blank - 1) : t[k + 1] = NL}
        capital == CharAt(t, blank + 1) > 0 /\ CharAt(t, blank + 1) % 2 = 1
    IN  IF CharAt(t, i) = Dot /\ blank > i /\ capital THEN blank
        ELSE IF CharAt(t, i) = NL /\ newlines # {} THEN Max(newlines)
        ELSE IF CharAt(t, i) = Fence /\ newlines # {} THEN Max(newlines) + 1
        ELSE IF MarkFollows(t, i) THEN i + 1
        ELSE -1
Sentence(t, a, b) == [text |-> Strip(Slice(t, a, b)), start |-> a, end |-> b]
(* The loop of _split_into_sentences; where a match is empty, one that is  *)
(* not is tried as well.                                                   *)
SplitIntoSentences(t) ==
    LET piece(a, b) == IF b > a /\ Strip(Slice(t, a, b)) # <<>> THEN <<Sentence(t, a, b)>> ELSE <<>>
        from[p \in Nat \X Nat] ==
            LET i == p[1]
                lastEnd == p[2]
                end == BoundaryEnd(t, i)
            IN  IF i >= Len(t) THEN piece(lastEnd, Len(t))
                ELSE IF end = -1 THEN from[<<i + 1, lastEnd>>]
                ELSE IF end > i THEN piece(lastEnd, i) \o from[<<end, end>>]
                ELSE piece(lastEnd, i) \o from[<<i + 1, IF MarkFollows(t, i) THEN i + 1 ELSE i>>]
    IN  from[<<0, 0>>]

(* _find_semantic_breakpoints: a group has at least so many sentences.     *)
Breakpoints(n, low, minSentences) ==
    FoldLeft(LAMBDA bs, i : IF i \in low /\ i - (IF bs = <<>> THEN -1 ELSE Last(bs)) >= minSentences
                            THEN Append(bs, i) ELSE bs,
             <<>>, [k \in 1..(n - 1) |-> k - 1])

Group(ss, a, b) == Span(Join([k \in 1..(b - a + 1) |-> ss[a + k - 1].text], <<Sp>>),
                        ss[a].start, ss[b].end)
(* _create_spans_from_breakpoints: groups end after a breakpoint or at the *)
(* last sentence.                                                          *)
SpansFromBreakpoints(ss, breaks) ==
    LET ends == Ordered({b + 1 : b \in ToSet(breaks)} \cup {Len(ss)}, Len(ss))
    IN  [k \in DOMAIN ends |-> Group(ss, IF k = 1 THEN 1 ELSE ends[k - 1] + 1, ends[k])]
(* The loop of _fallback_chunk: as many sentences as the size allows.      *)
SpansBySize(ss, size) ==
    LET tokens(a, b) == MapThenSumSet(LAMBDA k : EstimateTokens(ss[k].text), a..b)
        step(acc, k) ==
            IF k > acc.from /\ tokens(acc.from, k) > size
            THEN [spans |-> Append(acc.spans, Group(ss, acc.from, k - 1)), from |-> k] ELSE acc
        all == FoldLeft(step, [spans |-> <<>>, from |-> 1], [k \in DOMAIN ss |-> k])
    IN  Append(all.spans, Group(ss, all.from, Len(ss)))

(* This chunker does not clamp the overlap, unlike the recursive one.      *)
SemanticOverlaps(spans, c) ==
    [k \in DOMAIN spans |-> OverlapText(spans[k].text, c.chunk_overlap)]
SingleChunk(t) == <<Chunk(Strip(t), EstimateTokens(t), 0, Len(t))>>
(* SemanticChunker.chunk                                                   *)
SemanticChunks(t, c, model, low) ==
    LET m == NormalizeWithMap(t)
        ss == SplitIntoSentences(m.text)
        grouped == MergeSmallSpans(
                       SpansFromBreakpoints(ss, Breakpoints(Len(ss), low, c.min_sentences)),
                       c.min_chunk_size, c.max_chunk_size, Break)
        overlapped(spans) == ChunksWithOverlap(spans, c, SemanticOverlaps(spans, c))
        chunks == IF ~model THEN overlapped(SpansBySize(ss, c.chunk_size))
                  ELSE IF Len(ss) < 3 THEN SingleChunk(m.text) ELSE overlapped(grouped)
    IN  ChunkingResult(RemapOffsets(chunks, m, Len(t)), "semantic")
==============================================================================
