------------------------------- MODULE Ranking -------------------------------
(***************************************************************************)
(* How the retrieval, reranking and context code order lists: Python's     *)
(* stable sort, slices, and the Jaccard similarity of two sets of tokens.  *)
(* Scores are integers in the order of the program's floating point ones.  *)
(***************************************************************************)
EXTENDS Lists, FiniteSets, TLC, SequencesExt, FiniteSetsExt

CONSTANT Scale          \* the score 1.0
ASSUME ScalePositive == Scale \in Nat \ {0}

Count(x, s) == Len(Where(s, LAMBDA y : y = x))
TopK(s, k) == SubSeq(s, 1, IF k < Len(s) THEN k ELSE Len(s))
(* sorted(s, key=score, reverse=True): ties keep their order.              *)
Before(v, i, j) == v[i] > v[j] \/ (v[i] = v[j] /\ i < j)
Ranks(v) == [i \in DOMAIN v |-> Cardinality({j \in DOMAIN v : Before(v, j, i)}) + 1]
SortedBy(s, score(_)) ==
    LET at(ranks) == [k \in DOMAIN s |-> s[CHOOSE i \in DOMAIN s : ranks[i] = k]]
    IN  at(Ranks([i \in DOMAIN s |-> score(s[i])]))
Jaccard(a, b) ==
    IF a = {} \/ b = {} THEN 0
    ELSE (Scale * Cardinality(a \cap b)) \div Cardinality(a \cup b)
==============================================================================
