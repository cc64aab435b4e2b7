-------------------------------- MODULE Texts --------------------------------
(***************************************************************************)
(* libs/rag/chunking/utils.py: the text helpers every chunker uses.        *)
(* A text is a sequence of characters and a character is a number: the     *)
(* ones the code looks at have names, a positive number is a letter, odd   *)
(* for a capital.  Offsets are the program's: 0-based, end exclusive.      *)
(***************************************************************************)
EXTENDS Lists, FiniteSets, SequencesExt, FiniteSetsExt

CONSTANT CharsPerToken      \* CHARS_PER_TOKEN_ESTIMATE, 4 in the source
ASSUME CharsPerTokenPositive == CharsPerToken \in Nat \ {0}

Sp == 0
NL == -1
Dot == -2                   \* one of . ! ?
Hash == -3                  \* a run of one to six #
Fence == -4                 \* ``` or ~~~ as one character
Dash == -5                  \* the mark of a list item
Tab == -6                   \* white space that is neither a space nor a \n
Break == <<NL, NL>>

IsSpace(c) == c \in {Sp, NL, Tab}
Slice(t, a, b) == SubSeq(t, a + 1, b)                      \* t[a:b]
LastChars(t, n) == SubSeq(t, IF Len(t) > n THEN Len(t) - n + 1 ELSE 1, Len(t))
Inked(t) == {i \in DOMAIN t : ~IsSpace(t[i])}
Strip(t) == IF Inked(t) = {} THEN <<>> ELSE SubSeq(t, Min(Inked(t)), Max(Inked(t)))
LStrip(t) == IF Inked(t) = {} THEN <<>> ELSE SubSeq(t, Min(Inked(t)), Len(t))
RStrip(t) == IF Inked(t) = {} THEN <<>> ELSE SubSeq(t, 1, Max(Inked(t)))
Occurs(t, s) == \E a \in 0..(Len(t) - Len(s)) : Slice(t, a, a + Len(s)) = s
(* The pieces of t between the ranges of cuts, empty ones included.        *)
Pieces(t, cuts) ==
    LET from(k) == IF k = 1 THEN 0 ELSE cuts[k - 1][2]
        to(k) == IF k > Len(cuts) THEN Len(t) ELSE cuts[k][1]
    IN  [k \in 1..(Len(cuts) + 1) |-> Slice(t, from(k), to(k))]
(* str.split: the first occurrence, then the first that does not overlap.  *)
Occurrences(t, s) ==
    LET at(from) == {a \in from..(Len(t) - Len(s)) : Slice(t, a, a + Len(s)) = s}
        first(from) == <<Min(at(from)), Min(at(from)) + Len(s)>>
        after[from \in Nat] ==
            IF at(from) = {} THEN <<>> ELSE <<first(from)>> \o after[first(from)[2]]
    IN  after[0]
Split(t, s) == Pieces(t, Occurrences(t, s))
Lines(t) ==
    LET ends == Ordered({i \in DOMAIN t : t[i] = NL}, Len(t))
    IN  Pieces(t, [k \in DOMAIN ends |-> <<ends[k] - 1, ends[k]>>])
Join(ts, s) ==
    IF ts = <<>> THEN <<>> ELSE FoldLeft(LAMBDA all, x : all \o s \o x, Head(ts), Tail(ts))
NonBlank(ts) == Where(ts, LAMBDA x : Strip(x) # <<>>)

EstimateTokens(t) ==
    IF t = <<>> THEN 0
    ELSE IF Len(t) < CharsPerToken THEN 1 ELSE Len(t) \div CharsPerToken
CharsForTokens(n) == n * CharsPerToken

(* normalize_whitespace: runs of spaces become one, of newlines two.       *)
NormalizeWhitespace(t) ==
    Strip(Kept(t, {i \in DOMAIN t :
        /\ ~(i > 1 /\ t[i] = Sp /\ t[i - 1] = Sp)
        /\ ~(i > 2 /\ t[i] = NL /\ t[i - 1] = NL /\ t[i - 2] = NL)}))

(***************************************************************************)
(* normalize_whitespace_with_map: the same text, and checkpoints           *)
(* <<normalized index, source index>> where the two drift apart.           *)
(***************************************************************************)
RunEnd(t, i) == Min({j \in i..(Len(t) - 1) : t[j + 1] # t[i + 1]} \cup {Len(t)})
(* Mutant: runs of newlines that collapse are not recorded.                *)
CheckpointedSpacesOnly(out, checks, j, take) ==
    IF take = 2 THEN checks ELSE Append(checks, <<Len(out), j>>)
Checkpointed(out, checks, j, take) ==
    LET last == IF checks = <<>> THEN <<0, 0>> ELSE Last(checks)
    IN  IF j = last[2] + Len(out) - last[1] THEN checks
        ELSE Append(checks, <<Len(out), j>>)
(* The loop from the source index i on: what has been put out, and the     *)
(* checkpoints; a run of spaces or newlines is one round.                  *)
Normalizing(t) ==
    LET from[p \in Nat \X Seq(Int) \X Seq(Nat \X Nat)] ==
            LET i == p[1]
                out == p[2]
                checks == p[3]
                j == RunEnd(t, i)
                take == IF t[i + 1] = NL /\ j - i > 1 THEN 2 ELSE 1
                more == out \o [k \in 1..take |-> t[i + 1]]
            IN  IF i >= Len(t) THEN [text |-> RStrip(out), checks |-> checks]
                ELSE IF t[i + 1] \notin {Sp, NL}
                THEN from[<<i + 1, Append(out, t[i + 1]), checks>>]
                ELSE from[<<j, more, Checkpointed(more, checks, j, take)>>]
    IN  from
NormalizeWithMap(t) ==
    LET i == Len(t) - Len(LStrip(t))
    IN  Normalizing(t)[<<i, <<>>, IF i > 0 THEN <<<<0, i>>>> ELSE <<>>>>]

(* NormalizationMap.to_source: linear since the last checkpoint passed.    *)
ToSource(m, index, sourceLength) ==
    LET past == {k \in DOMAIN m.checks : m.checks[k][1] <= index}
    IN  IF index >= Len(m.text) THEN sourceLength
        ELSE IF past = {} THEN index
        ELSE m.checks[Max(past)][2] + index - m.checks[Max(past)][1]
RemapOffsets(chunks, m, sourceLength) ==
    [k \in DOMAIN chunks |-> [chunks[k] EXCEPT
        !.start = ToSource(m, @, sourceLength),
        !.end = IF @ > 0 THEN ToSource(m, @ - 1, sourceLength) + 1 ELSE sourceLength]]

(***************************************************************************)
(* Spans, overlaps and the patterns the structure-aware chunkers look for. *)
(***************************************************************************)
Span(text, start, end) == [text |-> text, start |-> start, end |-> end]

IsHeader(t) == LET s == LStrip(t) IN Len(s) > 1 /\ s[1] = Hash /\ IsSpace(s[2])
(* extract_section_header: the header that opens the text, if one does.    *)
SectionHeader(t) ==
    IF Len(t) > 1 /\ t[1] = Hash /\ IsSpace(t[2])
    THEN Strip(Lines(LStrip(Tail(t)))[1]) ELSE <<>>
(* find_code_blocks: a fence and the next one, left to right.              *)
CodeBlocks(t) ==
    LET f == Ordered({i \in DOMAIN t : t[i] = Fence}, Len(t))
    IN  [k \in 1..(Len(f) \div 2) |-> <<f[2 * k - 1] - 1, f[2 * k]>>]

MergeSmallSpans(spans, minTokens, maxTokens, separator) ==
    LET small(s) == EstimateTokens(s.text) < minTokens
        join(s, n) == Span(s.text \o separator \o n.text, s.start, n.end)
        step(acc, n) ==
            IF /\ EstimateTokens(join(acc.cur, n).text) <= maxTokens
               /\ small(acc.cur) \/ (small(n) /\ ~IsHeader(n.text))
            THEN [acc EXCEPT !.cur = join(@, n)]
            ELSE [done |-> Append(acc.done, acc.cur), cur |-> n]
        all == FoldLeft(step, [done |-> <<>>, cur |-> spans[1]], Tail(spans))
    IN  IF spans = <<>> THEN <<>> ELSE Append(all.done, all.cur)

(* re.split(r'(?<=[.!?])\s+', t)                                           *)
SentenceCuts(t) ==
    LET cut(a) == a < Len(t) /\ t[a] = Dot /\ IsSpace(t[a + 1])
        starts == Ordered({a \in DOMAIN t : cut(a)}, Len(t))
        end(a) == Min({i \in Inked(t) : i > a} \cup {Len(t) + 1}) - 1
    IN  [k \in DOMAIN starts |-> <<starts[k], end(starts[k])>>]
Sentences(t) == Pieces(t, SentenceCuts(t))

(* As many trailing parts as fit, the last one always, joined again.       *)
Trailing(parts, room, glue) ==
    LET size(k) == MapThenSumSet(LAMBDA i : Len(parts[i]) + 1, (k + 1)..Len(parts))
        fits(k) == k = Len(parts) \/ size(k) + Len(parts[k]) <= room
        first == Min({k \in DOMAIN parts : \A i \in k..Len(parts) : fits(i)})
    IN  Join(SubSeq(parts, first, Len(parts)), <<glue>>)
(* create_overlap_text: whole sentences, else lines, else characters from  *)
(* a word boundary in the first third.                                     *)
OverlapText(previous, overlapTokens) ==
    LET room == CharsForTokens(overlapTokens)
        end == LastChars(previous, room)
        spaces == {i \in DOMAIN end : end[i] = Sp}
        word == IF spaces = {} THEN 0 ELSE Min(spaces) - 1
        byWord == IF word > 0 /\ word < Len(end) \div 3 THEN Slice(end, word + 1, Len(end)) ELSE end
        some(parts, glue, otherwise) ==
            IF Len(parts) > 1 THEN Trailing(parts, room, glue) ELSE otherwise
        of(region) == some(Sentences(region), Sp, some(Lines(region), NL, byWord))
    IN  IF previous = <<>> \/ room <= 0 THEN <<>>
        ELSE IF Len(previous) <= room THEN previous
        ELSE of(LastChars(previous, 2 * room))
==============================================================================
