------------------------------ MODULE Generation ------------------------------
(***************************************************************************)
(* libs/rag/generation: the prompt's sources, the clients, the mock model  *)
(* and what becomes of a model's answer.  An answer is a sequence of       *)
(* pieces: words, the ends of sentences and lines, headings ("# Title"),   *)
(* the refusal phrase, and the markers [Source n] ("cite") and [n]         *)
(* ("bare").  A question is a text of Texts, as are the chunks of the      *)
(* context.  The citation prefix is the default, "Source".                 *)
(***************************************************************************)
EXTENDS ContextAssembly

CONSTANTS MinClaim,         \* words of a claim: 10 characters
          MinSentence,      \* characters of a sentence the mock quotes: 20
          MinAnswerOverlap, \* MIN_ANSWER_OVERLAP, 0.28 of Scale
          Instruction       \* the words of the prompt's last line

PieceKinds == {"word", "cite", "bare", "stop", "nl", "head", "refusal"}
AnswerPieces == [k : PieceKinds, n : Nat]
Piece(kind, n) == [k |-> kind, n |-> n]
Word(w) == Piece("word", w)
Cite(n) == Piece("cite", n)
Bare(n) == Piece("bare", n)
Stop == Piece("stop", 0)
LineEnd == Piece("nl", 0)
Heading == Piece("head", 0)
Refusal == <<Piece("refusal", 0)>>
Refused(answer) == \E i \in DOMAIN answer : answer[i].k = "refusal"
Cited(answer) == {answer[i].n : i \in {j \in DOMAIN answer : answer[j].k = "cite"}}

(***************************************************************************)
(* citations.py                                                            *)
(***************************************************************************)
(* A line that is only a marker and a heading: a bibliography.             *)
InHeadingDump(a, i) ==
    \E j \in 1..i : /\ a[j].k = "cite" /\ (j = 1 \/ a[j - 1] = LineEnd)
                    /\ j < Len(a) /\ a[j + 1] = Heading
                    /\ \A m \in j..i : a[m] # LineEnd
(* normalize_answer_citations                                              *)
Normalize(answer) ==
    LET marked == [i \in DOMAIN answer |->
                      IF answer[i].k = "bare" THEN Cite(answer[i].n) ELSE answer[i]]
        undumped(a) == Kept(a, {i \in DOMAIN a : ~InHeadingDump(a, i)})
        thin(a) == Kept(a, {i \in DOMAIN a :
                      ~(i > 2 /\ a[i] = LineEnd /\ a[i - 1] = LineEnd /\ a[i - 2] = LineEnd)})
        within(a, inked) == IF inked = {} THEN <<>> ELSE SubSeq(a, Min(inked), Max(inked))
        stripped(a) == within(a, {i \in DOMAIN a : a[i] # LineEnd})
    IN  stripped(thin(undumped(marked)))

SourceIndex(chunks) ==
    [r \in {chunks[i].rank : i \in DOMAIN chunks} |->
        chunks[Max({i \in DOMAIN chunks : chunks[i].rank = r})]]
Citations(markers, index) ==
    [k \in DOMAIN markers |-> [source_index |-> markers[k].n, chunk_id |-> index[markers[k].n].id,
                               source_text |-> index[markers[k].n].text]]
(* parse_citations: the first marker of each source that is in the context.*)
ParseCitations(answer, chunks) ==
    LET first(m, i, known) ==
            m[i].k = "cite" /\ m[i].n \in known /\ \A j \in 1..(i - 1) : m[j] # m[i]
        parse(m, index) ==
            Citations(Kept(m, {i \in DOMAIN m : first(m, i, DOMAIN index)}), index)
    IN  parse(Normalize(answer), SourceIndex(chunks))
StripUnresolved(answer, resolved) ==
    Where(answer, LAMBDA p : p.k = "cite" => p.n \in resolved)

(* re.split(r"(?<=[.!?])\s+", answer)                                      *)
SplitAfterStops(a) ==
    LET ends == Ordered({i \in 1..(Len(a) - 1) : a[i] = Stop}, Len(a))
    IN  Pieces(a, [k \in DOMAIN ends |-> <<ends[k], ends[k]>>])
ClaimText(s) == Where(s, LAMBDA p : p.k \in {"word", "head"})
(* extract_claims: the sentences without markers, the short ones left out. *)
ExtractClaims(answer) ==
    LET cleaned == Where(answer, LAMBDA p : p.k \notin {"cite", "nl"})
        parts == SplitAfterStops(cleaned)
        claims == [k \in DOMAIN parts |-> ClaimText(parts[k])]
    IN  IF cleaned = <<>> \/ cleaned[1].k = "refusal" THEN <<>>
        ELSE Where(claims, LAMBDA c : Len(c) >= MinClaim)
(* _sentences_keeping_trailing_citations: a part of markers only goes to   *)
(* the sentence before it.                                                 *)
SentencesWithCitations(answer) ==
    LET markersOnly(s) == \A i \in DOMAIN s : s[i].k \in {"cite", "nl"}
        parts == Where(SplitAfterStops(answer), LAMBDA s : \E i \in DOMAIN s : s[i] # LineEnd)
    IN  FoldLeft(LAMBDA merged, s : IF merged # <<>> /\ markersOnly(s)
                                    THEN Append(Front(merged), Last(merged) \o s)
                                    ELSE Append(merged, s), <<>>, parts)
(* citations_for_claim: of the first sentence one of whose texts contains  *)
(* the other, every marker that resolves, repeated ones too.               *)
CitationsForClaim(answer, claim, chunks) ==
    LET matches(text) == Occurs(text, claim) \/ Occurs(claim, text)
        found(sentences) == {k \in DOMAIN sentences : matches(ClaimText(sentences[k]))}
        resolved(sentence, index) ==
            Citations(Where(sentence, LAMBDA p : p.k = "cite" /\ p.n \in DOMAIN index), index)
        of(sentences, at) == IF at = {} THEN <<>>
                             ELSE resolved(sentences[Min(at)], SourceIndex(chunks))
        first(sentences) == of(sentences, found(sentences))
    IN  first(SentencesWithCitations(answer))

(***************************************************************************)
(* ollama.py and openrouter.py: what a client returns, or raises.          *)
(***************************************************************************)
Raised == [ok |-> FALSE, content |-> <<>>]
Response(content) == [ok |-> TRUE, content |-> content]
(* OllamaClient.generate and .stream: a status other than 200, or no       *)
(* answer within timeout_seconds, raises.                                  *)
OllamaGenerate(server, content) == IF server = "up" THEN Response(content) ELSE Raised
(* A streamed line is empty, not JSON, or has content and the done flag.   *)
OllamaStream(server, lines) ==
    LET ends == {i \in DOMAIN lines : lines[i].json /\ lines[i].done}
        read == IF ends = {} THEN lines ELSE SubSeq(lines, 1, Min(ends))
        good == Where(read, LAMBDA l : l.json /\ l.content # <<>>)
    IN  IF server # "up" THEN <<>> ELSE [k \in DOMAIN good |-> good[k].content]
OpenRouterGenerate(hasKey, server, choices) ==
    IF ~hasKey \/ server # "up" THEN Raised
    ELSE Response(IF choices = <<>> THEN <<>> ELSE choices[1])

(* _extract_sources: the line after the sources that is not the question   *)
(* is read as part of the last one.                                        *)
PromptSources(chunks) ==
    [k \in DOMAIN chunks |-> IF k < Len(chunks) THEN chunks[k].text
                             ELSE chunks[k].text \o <<NL>> \o Instruction]
(* _score_overlap: the part of the question's words the text has.          *)
Overlap(question, t) ==
    IF Words(question) = {} THEN 0
    ELSE (Scale * Cardinality(Words(question) \cap Words(t))) \div Cardinality(Words(question))
(* MockLLMClient._build_context_answer                                     *)
MockAnswer(question, chunks) ==
    LET flat(t) == [i \in DOMAIN t |-> IF t[i] = NL THEN Sp ELSE t[i]]
        clean(s) == Strip(Kept(s, {i \in DOMAIN s : s[i] # Hash}))
        long(parts) == Where([k \in DOMAIN parts |-> clean(parts[k])],
                                 LAMBDA s : Len(s) >= MinSentence)
        best(list) == SortedBy(list, LAMBDA s : Overlap(question, s))[1]
        said(words, rank) == [k \in DOMAIN words |-> Word(words[k])] \o <<Stop, Cite(rank)>>
        quote(s, rank) == IF Overlap(question, s) < MinAnswerOverlap THEN Refusal
                          ELSE said(Where(s, LAMBDA c : c > 0), rank)
        from(sentences, rank) == IF sentences = <<>> THEN Refusal ELSE quote(best(sentences), rank)
        of(source, rank) == IF Overlap(question, source) < MinAnswerOverlap THEN Refusal
                            ELSE from(long(Sentences(flat(source))), rank)
        top(sources) == SortedBy([k \in DOMAIN sources |-> [text |-> sources[k],
                                                            rank |-> chunks[k].rank]],
                                 LAMBDA x : Overlap(question, x.text))[1]
        answer(source) == of(source.text, source.rank)
    IN  IF chunks = <<>> \/ question = <<>> THEN Refusal ELSE answer(top(PromptSources(chunks)))

(***************************************************************************)
(* GenerationService.generate, and the same of QueryService.stream_query,  *)
(* which adds a citation of the first chunk where there is none and leaves *)
(* the markers that name no chunk.                                         *)
(***************************************************************************)
Result(answer, citations, refused) ==
    [answer |-> answer, citations |-> citations, refused |-> refused]
(* Mutant: markers that did not resolve stay in the answer.                *)
Unstripped(answer, citations) == answer
ResolvedOnly(answer, citations) ==
    StripUnresolved(answer, {citations[k].source_index : k \in DOMAIN citations})
Answer(chunks, content) ==
    LET cited(answer, citations) == Result(ResolvedOnly(answer, citations), citations, FALSE)
        of(answer) == IF Refused(answer) THEN Result(answer, <<>>, TRUE)
                      ELSE cited(answer, ParseCitations(answer, chunks))
    IN  IF chunks = <<>> THEN Result(Refusal, <<>>, TRUE) ELSE of(Normalize(content))
StreamedAnswer(chunks, content) ==
    LET top == [source_index |-> 1, chunk_id |-> chunks[1].id, source_text |-> chunks[1].text]
        marked(answer) == IF Cited(answer) = {} THEN Append(answer, Cite(1)) ELSE answer
        cited(answer, citations) == IF citations # <<>> THEN Result(answer, citations, FALSE)
                                    ELSE Result(marked(answer), <<top>>, FALSE)
        of(answer) == IF Refused(answer) THEN Result(answer, <<>>, TRUE)
                      ELSE cited(answer, ParseCitations(answer, chunks))
    IN  IF chunks = <<>> THEN Result(Refusal, <<>>, TRUE) ELSE of(Normalize(content))

(* Every marker a reader sees opens a chunk of the context, the one that   *)
(* was shown to the model under that number, and is listed once.  A        *)
(* refusal lists none, whatever markers the model put next to it.          *)
CitationsOpen(r, chunks) ==
    /\ r.refused => r.citations = <<>>
    /\ ~r.refused =>
          Cited(r.answer) = {r.citations[k].source_index : k \in DOMAIN r.citations}
    /\ \A k \in DOMAIN r.citations : \E i \in DOMAIN chunks :
          chunks[i].rank = r.citations[k].source_index /\ chunks[i].id = r.citations[k].chunk_id
    /\ \A j, k \in DOMAIN r.citations :
          r.citations[j].source_index = r.citations[k].source_index => j = k
(* A streamed answer is the one of the plain endpoint whenever the model   *)
(* cited sources of the context and no others.                             *)
StreamAgrees(chunks, content) ==
    LET known(cited) == cited # {} /\ cited \subseteq DOMAIN SourceIndex(chunks)
        clear(answer) == Refused(answer) \/ known(Cited(answer))
    IN  clear(Normalize(content)) => StreamedAnswer(chunks, content) = Answer(chunks, content)
==============================================================================
