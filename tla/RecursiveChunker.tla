--------------------------- MODULE RecursiveChunker ---------------------------
(***************************************************************************)
(* libs/rag/chunking/base.py and recursive.py: a document is split at the  *)
(* largest separator that occurs in it, small spans are merged, and each   *)
(* chunk opens with the end of the one before.  A configuration is a       *)
(* record of the sizes in tokens and the separators in their order.        *)
(***************************************************************************)
EXTENDS Texts

(* ChunkerConfig.__post_init__                                             *)
ConfigValid(c) ==
    /\ c.chunk_size > 0 /\ c.chunk_overlap >= 0 /\ c.chunk_overlap < c.chunk_size
    /\ c.min_chunk_size >= 0 /\ c.max_chunk_size >= c.chunk_size
ValidInput(t) == Strip(t) # <<>>            \* _validate_input

Chunk(text, tokens, start, end) ==
    [text |-> text, tokens |-> tokens, start |-> start, end |-> end]
(* BaseChunker._create_result and ChunkingResult.from_chunks               *)
ChunkingResult(chunks, strategy) ==
    [chunks |-> chunks, total_chunks |-> Len(chunks), strategy |-> strategy,
     total_tokens |-> MapThenSumSet(LAMBDA k : chunks[k].tokens, DOMAIN chunks)]

(* _split_on_separator: the separator stays with the text that follows it. *)
SplitOnSeparator(t, s) ==
    LET at == Occurrences(t, s)
    IN  Where(Pieces(t, [k \in DOMAIN at |-> <<at[k][1], at[k][1]>>]), LAMBDA p : p # <<>>)
(* _force_split: at the last space within the size, or at the size.        *)
ForceSplit(t, target, offset, iterations) ==
    LET searchStart == IF target > 50 THEN target - 50 ELSE 0
        spaces(rest) == {i \in (searchStart + 1)..(target - 1) : rest[i + 1] = Sp}
        point(rest) == IF spaces(rest) = {} THEN target ELSE Max(spaces(rest)) + 1
        spans[p \in Nat \X Nat] ==
            LET at == p[1]
                rest == Slice(t, at, Len(t))
                next == at + point(rest)
            IN  IF rest = <<>> \/ p[2] = 0 THEN <<>>
                ELSE IF Len(rest) <= target THEN <<Span(rest, offset + at, offset + Len(t))>>
                ELSE <<Span(Slice(t, at, next), offset + at, offset + next)>>
                        \o spans[<<next, p[2] - 1>>]
    IN  spans[<<0, iterations>>]

(* _recursive_split, for the separators from the k-th on.                  *)
RecursiveSplit(text, separators, target) ==
    LET spans[p \in Seq(Int) \X (Nat \ {0}) \X Nat] ==
            LET t == p[1]
                k == p[2]
                start == p[3]
                seg == SplitOnSeparator(t, separators[k])
                before(n) == MapThenSumSet(LAMBDA i : Len(seg[i]), 1..(n - 1))
            IN  IF Strip(t) = <<>> THEN <<>>
                ELSE IF Len(t) <= target THEN <<Span(t, start, start + Len(t))>>
                ELSE IF k > Len(separators)
                THEN ForceSplit(t, target, start,
                        Len(t) \div (IF target < 2 THEN 1 ELSE target \div 2) + 10)
                ELSE IF ~Occurs(t, separators[k]) THEN spans[<<t, k + 1, start>>]
                ELSE FlattenSeq([n \in DOMAIN seg |-> spans[<<seg[n], k + 1, start + before(n)>>]])
    IN  spans[<<text, 1, 0>>]

SourceOverlaps(spans, c) ==
    [k \in DOMAIN spans |-> LastChars(OverlapText(spans[k].text, c.chunk_overlap),
                                      spans[k].end - spans[k].start)]
(* _create_chunks_with_overlap: overlaps[k] is what span k hands on.       *)
ChunksWithOverlap(spans, c, overlaps) ==
    [k \in DOMAIN spans |->
        LET over == IF k = 1 \/ c.chunk_overlap = 0 THEN <<>> ELSE overlaps[k - 1]
            text == IF over = <<>> THEN spans[k].text ELSE over \o Break \o spans[k].text
        IN  Chunk(NormalizeWhitespace(text), EstimateTokens(text),
                  IF over = <<>> THEN spans[k].start ELSE spans[k - 1].end - Len(over),
                  spans[k].end)]

(* RecursiveChunker.chunk                                                  *)
RecursiveChunks(t, c) ==
    LET m == NormalizeWithMap(t)
        raw == RecursiveSplit(m.text, c.separators, CharsForTokens(c.chunk_size))
        spans == MergeSmallSpans(raw, c.min_chunk_size, c.max_chunk_size, Break)
        chunks == ChunksWithOverlap(spans, c, SourceOverlaps(spans, c))
    IN  ChunkingResult(RemapOffsets(chunks, m, Len(t)), "recursive")

(***************************************************************************)
(* What the comments of recursive.py promise of the offsets.               *)
(***************************************************************************)
InSource(ch, t) == 0 <= ch.start /\ ch.start < ch.end /\ ch.end <= Len(t)
BeforeSource(ch, t) == ch.start < 0 /\ 0 < ch.end /\ ch.end <= Len(t)
Covered(chunks, t) ==
    \A i \in Inked(t) : \E k \in DOMAIN chunks : chunks[k].start < i /\ i <= chunks[k].end
==============================================================================
