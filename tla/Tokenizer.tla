------------------------------ MODULE Tokenizer ------------------------------
(***************************************************************************)
(* libs/rag/retrieval/keyword.py, tokenize: what the keyword index and the *)
(* lexical reranker compare.  Text is already normalized and case-folded   *)
(* (unicodedata, external); a character is a number whose tens say what    *)
(* kind it is: 1-9 Latin, 11-19 Han, 21-29 kana, 31-39 Arabic, 41-49 Thai, *)
(* 51-59 digits, 61-69 combining marks, 71-79 iteration marks, 0 the rest. *)
(***************************************************************************)
EXTENDS Lists, SequencesExt

Kind(c) ==
    IF c = 0 THEN "OTHER"
    ELSE <<"LATIN", "CJK", "HIRAGANA", "ARABIC", "THAI", "DIGIT", "MARK", "INHERIT">>[c \div 10 + 1]
NGramScripts == {"CJK", "HIRAGANA", "THAI"}
JapaneseScripts == {"CJK", "HIRAGANA"}
IsMark(c) == Kind(c) = "MARK"
IsAlnum(c) == Kind(c) \notin {"OTHER", "MARK"}
NoScript == "NONE"
(* _script_of: digits, marks and iteration marks take their neighbour's.   *)
ScriptOf(c) == IF Kind(c) \in {"DIGIT", "MARK", "INHERIT"} THEN NoScript ELSE Kind(c)

(* _clusters: a mark stays with its base.                                  *)
Clusters(seg) ==
    FoldLeft(LAMBDA cs, c : IF cs # <<>> /\ IsMark(c)
                            THEN Append(Front(cs), Append(Last(cs), c)) ELSE Append(cs, <<c>>),
             <<>>, seg)

Segment(text, script) == [text |-> text, script |-> script]
(* The first loop of _emit_word: a digit is a segment of its own unless it *)
(* follows Latin letters or digits.                                        *)
AddChar(acc, c) ==
    LET cur == Last(acc)
        script == IF Kind(c) = "DIGIT" /\ cur.script \notin {"LATIN", "DIGIT"} THEN "DIGIT"
                  ELSE ScriptOf(c)
        grown(s) == Append(Front(acc), Segment(Append(cur.text, c), s))
    IN  IF script = NoScript THEN grown(cur.script)
        ELSE IF cur.script \in {NoScript, script} THEN grown(script)
        ELSE Append(acc, Segment(<<c>>, script))
Segments(word) == FoldLeft(AddChar, <<Segment(<<>>, NoScript)>>, word)
JoinJapanese(runs, s) ==
    IF runs # <<>> /\ s.script \in JapaneseScripts /\ Last(runs).script \in JapaneseScripts
    THEN Append(Front(runs), [Last(runs) EXCEPT !.text = @ \o s.text])
    ELSE Append(runs, s)
TokensOfRun(run) ==
    LET cs == Clusters(run.text)
    IN  IF run.script \notin NGramScripts THEN <<run.text>>
        ELSE Where(cs, LAMBDA c : ~(Len(c) = 1 /\ Kind(c[1]) = "INHERIT"))
                \o [k \in 1..(Len(cs) - 1) |-> cs[k] \o cs[k + 1]]
(* _emit_word                                                              *)
EmitWord(word) ==
    LET runs == FoldLeft(JoinJapanese, <<>>, Segments(word))
    IN  FlattenSeq([k \in DOMAIN runs |-> TokensOfRun(runs[k])])

(* tokenize: words start at a letter or digit; marks continue them.        *)
AddToWords(words, c) ==
    LET open == words # <<>> /\ Last(words) # <<>>
    IN  IF IsAlnum(c) \/ (open /\ IsMark(c))
        THEN IF words = <<>> THEN <<<<c>>>> ELSE Append(Front(words), Append(Last(words), c))
        ELSE IF open THEN Append(words, <<>>) ELSE words
Tokenize(text) ==
    LET words == Where(FoldLeft(AddToWords, <<>>, text), LAMBDA w : w # <<>>)
    IN  FlattenSeq([k \in DOMAIN words |-> EmitWord(words[k])])

(***************************************************************************)
(* What the comments of keyword.py want of the tokens of a text: two       *)
(* characters of one script side by side, or a kanji and a kana, are one   *)
(* token and can be searched for together; no token starts with a mark.    *)
(***************************************************************************)
Base(c) == Kind(c) \in NGramScripts
AdjacentMatch(text) ==
    \A k \in 1..(Len(text) - 1) :
        /\ Base(text[k]) /\ Base(text[k + 1])
        /\ text[k] \div 10 = text[k + 1] \div 10 \/ {Kind(text[k]), Kind(text[k + 1])} = JapaneseScripts
        /\ k + 1 = Len(text) \/ ~IsMark(text[k + 2])
        => {<<text[k], text[k + 1]>>} \cup ToSet(Tokenize(<<text[k], text[k + 1]>>))
              \subseteq ToSet(Tokenize(text))
MarksKeepTheirBase(text) ==
    \A k \in DOMAIN Tokenize(text) : ~IsMark(Tokenize(text)[k][1])
==============================================================================
