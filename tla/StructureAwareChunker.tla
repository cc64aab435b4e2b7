------------------------ MODULE StructureAwareChunker ------------------------
(***************************************************************************)
(* libs/rag/chunking/structure_aware.py: a markdown document is cut at its *)
(* headers; a section larger than the target is cut between paragraphs, a  *)
(* paragraph larger than the maximum between sentences, words and at last  *)
(* inside a word, and every chunk of it opens with the section's header.   *)
(* find_numbered_lists and find_bullet_lists are not modelled: the ranges  *)
(* they protect are computed and never looked at.                          *)
(***************************************************************************)
EXTENDS RecursiveChunker

HeaderText(header) == IF header = <<>> THEN <<>> ELSE <<Hash, Sp>> \o header \o Break
HeaderPrefix(section, c) ==
    IF c.include_section_headers THEN HeaderText(section.header) ELSE <<>>
IsHeaderLine(l) ==
    Len(l) > 2 /\ l[1] = Hash /\ IsSpace(l[2]) /\ Strip(Tail(l)) # <<>>
(* _extract_sections: the lines before the first header are one as well.   *)
Sections(t) ==
    LET lines == Lines(t)
        offset(i) == MapThenSumSet(LAMBDA j : Len(lines[j]) + 1, 1..(i - 1))
        first == Ordered({i \in DOMAIN lines : i = 1 \/ IsHeaderLine(lines[i])}, Len(lines))
        last(k) == IF k = Len(first) THEN Len(lines) ELSE first[k + 1] - 1
    IN  [k \in DOMAIN first |->
            LET headed == IsHeaderLine(lines[first[k]])
                body == SubSeq(lines, first[k] + (IF headed THEN 1 ELSE 0), last(k))
            IN  [header |-> IF headed THEN Strip(Tail(lines[first[k]])) ELSE <<>>,
                 content |-> Strip(Join(body, <<NL>>)),
                 start |-> offset(first[k]),
                 end |-> IF k = Len(first) THEN Len(t) ELSE offset(first[k + 1])]]

(* _split_into_paragraphs: code blocks stay whole.                         *)
Paragraphs(t) ==
    LET blocks == CodeBlocks(t)
        between == Pieces(t, blocks)
        stripped(ts) == [k \in DOMAIN ts |-> Strip(ts[k])]
        block(k) == IF k > Len(blocks) THEN <<>> ELSE <<Slice(t, blocks[k][1], blocks[k][2])>>
    IN  FlattenSeq([k \in DOMAIN between |->
            stripped(NonBlank(Split(between[k], Break))) \o block(k)])

(* What the splitting loops carry: the spans so far, the text being filled *)
(* and the offset it starts at.                                            *)
Filling(spans, text, start) == [spans |-> spans, text |-> text, start |-> start]
HasContent(f, prefix) == Strip(f.text) # <<>> /\ Strip(f.text) # Strip(prefix)
Flushed(f, consumed, next) ==
    Filling(Append(f.spans, Span(Strip(f.text), f.start, f.start + consumed)), next,
            f.start + consumed)

(* The innermost loop of _force_split_paragraph: words of a sentence that  *)
(* does not fit, each cut into pieces when it is too long itself.          *)
AddWord(f, word, target, prefix) ==
    LET whole == IF IsPrefix(prefix, f.text) THEN Len(prefix) ELSE 0
        room == target - Len(prefix)
        cuts == Len(word) \div room
        piece(k, start) == Span(Strip(prefix \o Slice(word, (k - 1) * room, k * room)),
                                start + (k - 1) * room, start + k * room)
        cut(g) == Filling(g.spans \o [k \in 1..cuts |-> piece(k, g.start)],
                          prefix \o Slice(word, cuts * room, Len(word)) \o <<Sp>>,
                          g.start + cuts * room)
    IN  IF Len(f.text) + Len(word) + 1 <= target
        THEN [f EXCEPT !.text = @ \o word \o <<Sp>>]
        ELSE cut(IF HasContent(f, prefix) THEN Flushed(f, Len(f.text) - whole, prefix) ELSE f)
AddSentence(f, s, target, prefix) ==
    LET short == IF Len(prefix) + 1 < target THEN prefix ELSE <<>>
        emptied(g) == IF short = <<>> THEN [g EXCEPT !.text = <<>>] ELSE g
        after(g) == IF Len(prefix) + Len(s) + 1 <= target
                    THEN [g EXCEPT !.text = prefix \o s \o <<Sp>>]
                    ELSE FoldLeft(LAMBDA h, w : AddWord(h, w, target, short), emptied(g),
                                  Split(s, <<Sp>>))
    IN  IF Len(f.text) + Len(s) + 1 <= target THEN [f EXCEPT !.text = @ \o s \o <<Sp>>]
        ELSE after(IF HasContent(f, prefix) THEN Flushed(f, Len(f.text), prefix) ELSE f)
ForceSplitParagraph(para, target, start, prefix) ==
    LET closed(f) == IF HasContent(f, prefix)
                     THEN Append(f.spans, Span(Strip(f.text), f.start, start + Len(para)))
                     ELSE f.spans
    IN  closed(FoldLeft(LAMBDA g, s : AddSentence(g, s, target, prefix),
                        Filling(<<>>, prefix, start), Sentences(para)))

(* The loop of _split_large_section.  The first span's header is the       *)
(* source's own; on later ones it is not counted as consumed.              *)
AddParagraph(f, para, target, maximum, prefix) ==
    LET next == prefix \o para \o Break
        repeated == IF f.spans = <<>> THEN 0 ELSE Len(prefix)
        after(g) == IF Len(next) > maximum
                    THEN Filling(g.spans \o ForceSplitParagraph(para, target, g.start, prefix),
                                 prefix, g.start)
                    ELSE [g EXCEPT !.text = next]
    IN  IF Len(f.text) + Len(para) + 2 <= target THEN [f EXCEPT !.text = @ \o para \o Break]
        ELSE after(IF Strip(f.text) = <<>> THEN f ELSE Flushed(f, Len(f.text) - repeated, next))
SplitLargeSection(section, c) ==
    LET prefix == HeaderPrefix(section, c)
        closed(f) == IF HasContent(f, prefix) \/ (f.spans = <<>> /\ Strip(f.text) # <<>>)
                     THEN Append(f.spans, Span(Strip(f.text), f.start, section.end)) ELSE f.spans
    IN  closed(FoldLeft(LAMBDA g, p : AddParagraph(g, p, CharsForTokens(c.chunk_size),
                                                   CharsForTokens(c.max_chunk_size), prefix),
                        Filling(<<>>, prefix, section.start), Paragraphs(section.content)))
SectionsToSpans(sections, c) ==
    FlattenSeq([k \in DOMAIN sections |->
        LET full == HeaderText(sections[k].header) \o sections[k].content
        IN  IF Len(full) <= CharsForTokens(c.chunk_size)
            THEN <<Span(full, sections[k].start, sections[k].end)>>
            ELSE SplitLargeSection(sections[k], c)])

(* _create_chunks: an overlap the text already starts with is not added.   *)
Opens(over, t) == IsPrefix(Slice(over, 0, Min({20, Len(over)})), t)
StructureChunk(span, text) ==
    [text |-> Strip(text), tokens |-> EstimateTokens(text), start |-> span.start,
     end |-> span.end, section |-> SectionHeader(span.text), has_code |-> Fence \in ToSet(span.text)]
StructureChunksOf(spans, c) ==
    LET after(over, t) == IF over = <<>> \/ Opens(over, t) THEN t ELSE over \o Break \o t
        over(k) == IF k = 1 THEN <<>> ELSE OverlapText(spans[k - 1].text, c.chunk_overlap)
    IN  [k \in DOMAIN spans |-> StructureChunk(spans[k], after(over(k), spans[k].text))]
(* StructureAwareChunker.chunk                                             *)
StructureAwareChunks(t, c) ==
    LET spans(m) == MergeSmallSpans(SectionsToSpans(Sections(m.text), c),
                                    c.min_chunk_size, c.max_chunk_size, Break)
        of(m) == RemapOffsets(StructureChunksOf(spans(m), c), m, Len(t))
    IN  ChunkingResult(of(NormalizeWithMap(t)), "structure_aware")

(* Every letter of the document is in the text of some chunk.              *)
NoLetterLost(chunks, t) ==
    \A i \in DOMAIN t : t[i] > 0 => \E k \in DOMAIN chunks : t[i] \in ToSet(chunks[k].text)
==============================================================================
