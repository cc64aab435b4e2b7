--------------------------- MODULE ChunkingService ---------------------------
(***************************************************************************)
(* libs/rag/chunking/github_chunker.py, hybrid.py, factory.py, service.py: *)
(* which chunker a document gets, and what becomes of an issue's title and *)
(* of comments.                                                            *)
(***************************************************************************)
EXTENDS StructureAwareChunker

IssueRest(first, remaining, fits) ==
    IF fits THEN remaining
    ELSE IF remaining = <<>> THEN first ELSE first \o Break \o remaining
(* chunk_issue_with_title: the title stays with the first paragraph when   *)
(* they fit.  Offsets are the ones of the pieces, not of the body.         *)
IssueChunks(title, body, c) ==
    LET heading == IF title = <<>> THEN <<>> ELSE <<Hash, Sp>> \o title
        whole == NormalizeWhitespace(body)
        first == Split(whole, Break)[1]
        remaining == Slice(whole, Len(first) + 2, Len(whole))
        summary == IF title = <<>> THEN first ELSE heading \o Break \o first
        target == CharsForTokens(c.chunk_size)
        fits == Len(summary) <= target
        cut == Slice(first, 0, target)
        opening ==
            IF Strip(body) = <<>>
            THEN Chunk(Strip(heading), EstimateTokens(heading), 0, Len(heading))
            ELSE IF fits THEN Chunk(Strip(summary), EstimateTokens(summary), 0, Len(summary))
            ELSE IF title # <<>>
            THEN Chunk(Strip(heading), EstimateTokens(heading), 0, Len(title))
            ELSE Chunk(cut, EstimateTokens(cut), 0, target)
        rest == IssueRest(first, remaining, fits)
    IN  ChunkingResult(
            IF Strip(rest) = <<>> THEN <<opening>>
            ELSE <<opening>> \o StructureAwareChunks(rest, c).chunks, "github_issue")

(* _merge_consecutive_comments: one author's comments, while they fit.     *)
MergeComments(comments, maximum) ==
    LET rule == Break \o <<Dash, Dash, Dash>> \o Break
        step(acc, n) ==
            IF acc.cur.author = n.author /\ Len(acc.cur.body) + Len(n.body) + 10 <= maximum
            THEN [acc EXCEPT !.cur.body = @ \o rule \o n.body]
            ELSE [done |-> Append(acc.done, acc.cur), cur |-> n]
        all == FoldLeft(step, [done |-> <<>>, cur |-> Head(comments)], Tail(comments))
    IN  Append(all.done, all.cur)
(* chunk_comments; an author is the text of the attribution line.          *)
CommentChunks(comments, c, mergeSameAuthor) ==
    LET merged == IF mergeSameAuthor
                  THEN MergeComments(comments, CharsForTokens(c.max_chunk_size)) ELSE comments
        formatted(m) == m.author \o Break \o m.body
        attributed(m, text) == [text |-> Strip(m.author \o Break \o text), author |-> m.author,
                                tokens |-> EstimateTokens(m.author \o Break \o text)]
        each(m, parts) == [k \in DOMAIN parts |-> attributed(m, parts[k].text)]
        chunks(m) == IF Len(formatted(m)) <= CharsForTokens(c.chunk_size)
                     THEN <<attributed(m, m.body)>>
                     ELSE each(m, StructureAwareChunks(m.body, c).chunks)
        all(list) == FlattenSeq([k \in DOMAIN list |-> chunks(list[k])])
    IN  ChunkingResult(IF comments = <<>> THEN <<>> ELSE all(merged), "github_issue")

(* _analyze_document: two headers, one per ten paragraphs, not all code.   *)
IsWellStructured(t) ==
    LET headers == Len(Where(Lines(t), IsHeaderLine))
        blocks == CodeBlocks(t)
        code == MapThenSumSet(LAMBDA k : blocks[k][2] - blocks[k][1], DOMAIN blocks)
        paragraphs == Len(NonBlank(Split(t, Break)))
    IN  headers >= 2 /\ 10 * headers > paragraphs /\ 10 * code < 7 * Len(t)
HybridChunks(t, c) ==
    IF IsWellStructured(t)
    THEN [StructureAwareChunks(t, c) EXCEPT !.strategy = "hybrid:structure_aware"]
    ELSE [RecursiveChunks(t, c) EXCEPT !.strategy = "hybrid:recursive"]

(* CHUNKER_REGISTRY, DEFAULT_CHUNKER and get_chunker                       *)
ChunkerFor(source) ==
    CASE source \in {"github_issue", "github_issue_comment"} -> "github_issue"
      [] source = "markdown_doc" -> "hybrid"
      [] OTHER -> "recursive"
ChunkWith(chunker, t, c) ==
    CASE chunker = "github_issue" -> StructureAwareChunks(t, c)
      [] chunker = "hybrid" -> HybridChunks(t, c)
      [] OTHER -> RecursiveChunks(t, c)

ChunkingFailed(error) == [success |-> FALSE, error |-> error, chunks |-> <<>>, created |-> 0]
ChunkingDone(r) ==
    [success |-> TRUE, error |-> "none", chunks |-> r.chunks, created |-> r.total_chunks]
(* ChunkingService.chunk_document: a blank body is an error, except of an  *)
(* issue with a title.                                                     *)
ChunkDocument(source, title, body, c) ==
    IF body = <<>> THEN ChunkingFailed("no body_text")
    ELSE IF source = "github_issue" /\ title # <<>> THEN ChunkingDone(IssueChunks(title, body, c))
    ELSE IF ~ValidInput(body) THEN ChunkingFailed("validation")
    ELSE ChunkingDone(ChunkWith(ChunkerFor(source), body, c))
==============================================================================
