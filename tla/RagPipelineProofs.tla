-------------------------- MODULE RagPipelineProofs --------------------------
(***************************************************************************)
(* What the Python pipeline promises of an answer and of the context it is *)
(* made from.                                                              *)
(*                                                                         *)
(* Of an answer, for every reply of the model and every context:           *)
(* AnswersOpen, StreamsAgree and AnswersKeepTheContract.  The              *)
(* normalization leaves an answer in which a second one changes no marker; *)
(* so the citations that stay are the ones that resolve, and the claims    *)
(* the evaluation cuts the answer into are few and short enough for its    *)
(* rates to tell them apart.                                               *)
(*                                                                         *)
(* Of a context, for every strategy, every budget and every set of         *)
(* candidates: ContextsKeepToTheirBudget and ContextsKeepTheContract.      *)
(* Every strategy only takes candidates, and takes none twice; those that  *)
(* pack add up to no more than the budget; and compression makes nothing   *)
(* longer.                                                                 *)
(***************************************************************************)
EXTENDS RagPipeline, SequenceTheorems, FiniteSetTheorems, WellFoundedInduction, TLAPS

------------------------------------------------------------------------------

\* Induction, as a fact about a set of naturals.
LEMMA LeastNatural ==
    ASSUME NEW P \in SUBSET Nat, P # {}
    PROVE  \E m \in P : \A k \in P : m <= k
<1>1. PICK m \in P : \A k \in P : <<k, m>> \notin OpToRel(<, Nat)
  BY WFMin, NatLessThanWellFounded
<1>2. \A k \in P : ~(k < m)
  BY <1>1 DEF OpToRel
<1> QED BY <1>2

\* A set of naturals with 0 and with every successor is all of them.
LEMMA NaturalsBySteps ==
    ASSUME NEW P \in SUBSET Nat, 0 \in P, \A n \in P : n + 1 \in P
    PROVE  P = Nat
<1> SUFFICES ASSUME Nat \ P # {} PROVE FALSE
  OBVIOUS
<1>1. PICK m \in Nat \ P : \A k \in Nat \ P : m <= k
  BY LeastNatural
<1>2. m # 0 /\ m - 1 \in Nat
  BY <1>1
<1>3. m - 1 \in P
  BY <1>1, <1>2
<1> QED BY <1>1, <1>2, <1>3

\* The least and the greatest of a bounded set of naturals.
LEMMA MinIsLeast ==
    ASSUME NEW I \in SUBSET Nat, I # {}
    PROVE  Min(I) \in I /\ \A i \in I : Min(I) <= i
<1>1. PICK m \in I : \A i \in I : m <= i
  BY LeastNatural
<1>2. Min(I) = CHOOSE y \in I : \A i \in I : y <= i
  BY DEF Min
<1> QED BY <1>1, <1>2

\* The maximum of a set of naturals up to n is one of them, and the greatest.
LEMMA MaxIsGreatest ==
    ASSUME NEW n \in Nat, NEW I \in SUBSET (0..n), I # {}
    PROVE  Max(I) \in I /\ \A i \in I : i <= Max(I)
<1> DEFINE P == {n - i : i \in I}
<1>1. P \in SUBSET Nat /\ P # {}
  <2>1. \A i \in I : n - i \in Nat
    OBVIOUS
  <2> QED BY <2>1
<1>2. PICK m \in P : \A k \in P : m <= k
  BY <1>1, LeastNatural
<1>3. PICK j \in I : m = n - j
  OBVIOUS
<1>4. \A i \in I : i <= j
  <2>1. SUFFICES ASSUME NEW i \in I PROVE i <= j
    OBVIOUS
  <2>2. n - i \in P
    OBVIOUS
  <2>3. n - j <= n - i
    BY <1>2, <1>3, <2>2
  <2> QED BY <2>3
<1>5. Max(I) = CHOOSE y \in I : \A i \in I : i <= y
  BY DEF Max
<1> QED BY <1>3, <1>4, <1>5

------------------------------------------------------------------------------
\* Functions defined by recursion exist.

\* A loop: the values of the variable after k rounds.
Loop(f, base, step, n) ==
    /\ f[0] = base
    /\ \A k \in 1..n : f[k] = step[<<k, f[k - 1]>>]

\* A loop of n steps has a function of its states.
LEMMA LoopExists ==
    ASSUME NEW V, NEW base \in V, NEW n \in Nat, NEW step \in [(1..n) \X V -> V]
    PROVE  \E f \in [0..n -> V] : Loop(f, base, step, n)
<1> DEFINE P == {m \in Nat : m <= n => \E f \in [0..m -> V] : Loop(f, base, step, m)}
<1>1. 0 \in P
  <2>1. [k \in 0..0 |-> base] \in [0..0 -> V] /\ Loop([k \in 0..0 |-> base], base, step, 0)
    BY DEF Loop
  <2> QED BY <2>1
<1>2. ASSUME NEW m \in P PROVE m + 1 \in P
  <2>1. SUFFICES ASSUME m + 1 <= n PROVE \E f \in [0..(m + 1) -> V] : Loop(f, base, step, m + 1)
    OBVIOUS
  <2>2. m \in Nat /\ m <= n
    BY <2>1
  <2>3. PICK f \in [0..m -> V] : Loop(f, base, step, m)
    BY <2>2
  <2> DEFINE g == [k \in 0..(m + 1) |-> IF k = m + 1 THEN step[<<m + 1, f[m]>>] ELSE f[k]]
  <2>4. f[m] \in V /\ <<m + 1, f[m]>> \in (1..n) \X V
    BY <2>1, <2>2
  <2>5. g \in [0..(m + 1) -> V]
    BY <2>2, <2>4
  <2>6. g[0] = base
    BY <2>2, <2>3 DEF Loop
  <2>7. ASSUME NEW k \in 1..(m + 1) PROVE g[k] = step[<<k, g[k - 1]>>]
    <3>1. CASE k = m + 1
      <4>1. k - 1 = m /\ m \in 0..(m + 1) /\ m # m + 1 /\ k \in 0..(m + 1)
        BY <2>2, <3>1
      <4>2. g[k - 1] = f[m] /\ g[k] = step[<<m + 1, f[m]>>]
        BY <3>1, <4>1
      <4> QED BY <3>1, <4>1, <4>2
    <3>2. CASE k # m + 1
      <4>1. k \in 1..m /\ k - 1 \in 0..m /\ k \in 0..m
        BY <2>2, <3>2
      <4>2. g[k] = f[k] /\ g[k - 1] = f[k - 1]
        BY <2>2, <4>1
      <4> QED BY <2>3, <4>1, <4>2 DEF Loop
    <3> QED BY <3>1, <3>2
  <2> HIDE DEF g
  <2>8. Loop(g, base, step, m + 1)
    BY <2>6, <2>7 DEF Loop
  <2> QED BY <2>5, <2>8
<1> HIDE DEF P
<1>3. P = Nat
  <2>1. P \in SUBSET Nat
    BY DEF P
  <2> QED BY <1>1, <1>2, <2>1, NaturalsBySteps
<1> QED BY <1>3 DEF P

\* A fold over the sets of positions up to n, the last position first.
FoldSteps(f, base, step, n) ==
    \A d \in SUBSET (1..n) :
        f[d] = IF d = {} THEN base ELSE step[<<Max(d), f[d \ {Max(d)}]>>]

\* The maximum of a set of places is one of them, and the greatest.
LEMMA MaxUpTo ==
    ASSUME NEW n \in Nat, NEW d \in SUBSET (1..n), d # {}
    PROVE  Max(d) \in d /\ \A i \in d : i <= Max(d)
<1>1. d \in SUBSET (0..n)
  OBVIOUS
<1> QED BY <1>1, MaxIsGreatest

\* A fold over the places of a list has a function of the sets of places.
LEMMA FoldExists ==
    ASSUME NEW V, NEW base \in V, NEW n \in Nat, NEW step \in [(1..n) \X V -> V]
    PROVE  \E f \in [SUBSET (1..n) -> V] : FoldSteps(f, base, step, n)
<1> DEFINE P == {m \in Nat : m <= n =>
                     \E f \in [SUBSET (1..m) -> V] : FoldSteps(f, base, step, m)}
<1>1. 0 \in P
  <2> DEFINE f == [d \in SUBSET (1..0) |-> base]
  <2>1. \A d \in SUBSET (1..0) : d = {}
    OBVIOUS
  <2>2. f \in [SUBSET (1..0) -> V] /\ FoldSteps(f, base, step, 0)
    BY <2>1 DEF FoldSteps
  <2> HIDE DEF f
  <2> QED BY <2>2
<1>2. ASSUME NEW m \in P PROVE m + 1 \in P
  <2>1. SUFFICES ASSUME m + 1 <= n
                 PROVE  \E f \in [SUBSET (1..(m + 1)) -> V] : FoldSteps(f, base, step, m + 1)
    <3>1. m + 1 \in Nat
      OBVIOUS
    <3> QED BY <3>1, Zenon
  <2>2. m \in Nat /\ m <= n
    BY <2>1
  <2>3. PICK f \in [SUBSET (1..m) -> V] : FoldSteps(f, base, step, m)
    BY <2>2
  <2> DEFINE g == [d \in SUBSET (1..(m + 1)) |->
                     IF m + 1 \in d THEN step[<<m + 1, f[d \ {m + 1}]>>] ELSE f[d]]
  <2>4. ASSUME NEW d \in SUBSET (1..(m + 1))
        PROVE  /\ m + 1 \notin d => d \in SUBSET (1..m)
               /\ m + 1 \in d => /\ d \ {m + 1} \in SUBSET (1..m)
                                 /\ Max(d) = m + 1
    <3>1. \A i \in d : i # m + 1 => i \in 1..m
      BY <2>2
    <3>2. ASSUME m + 1 \in d PROVE Max(d) = m + 1
      <4>1. d # {} /\ m + 1 \in Nat
        BY <2>2, <3>2
      <4>2. Max(d) \in d /\ m + 1 <= Max(d)
        BY <3>2, <4>1, MaxUpTo
      <4>3. Max(d) \in 1..(m + 1)
        BY <4>2
      <4> HIDE DEF g, P
      <4> QED BY <2>2, <4>2, <4>3
    <3> QED BY <3>1, <3>2
  <2>5. g \in [SUBSET (1..(m + 1)) -> V]
    <3>1. ASSUME NEW d \in SUBSET (1..(m + 1))
          PROVE (IF m + 1 \in d THEN step[<<m + 1, f[d \ {m + 1}]>>] ELSE f[d]) \in V
      <4>1. m + 1 \in 1..n
        BY <2>1, <2>2
      <4> QED BY <2>4, <4>1
    <3> QED BY <3>1
  <2>6. ASSUME NEW d \in SUBSET (1..(m + 1))
        PROVE  g[d] = IF d = {} THEN base ELSE step[<<Max(d), g[d \ {Max(d)}]>>]
    <3>1. CASE m + 1 \in d
      <4>1. g[d] = step[<<m + 1, f[d \ {m + 1}]>>]
        BY <3>1
      <4>2. d \ {m + 1} \in SUBSET (1..(m + 1)) /\ m + 1 \notin d \ {m + 1}
        OBVIOUS
      <4>3. g[d \ {m + 1}] = f[d \ {m + 1}]
        BY <4>2
      <4>4. Max(d) = m + 1 /\ d # {}
        BY <2>4, <3>1
      <4> HIDE DEF g
      <4> QED BY <4>1, <4>3, <4>4
    <3>2. CASE m + 1 \notin d
      <4>1. d \in SUBSET (1..m) /\ g[d] = f[d]
        BY <2>4, <3>2
      <4>2. f[d] = IF d = {} THEN base ELSE step[<<Max(d), f[d \ {Max(d)}]>>]
        BY <2>3, <4>1 DEF FoldSteps
      <4>3. d \ {Max(d)} \in SUBSET (1..(m + 1)) /\ m + 1 \notin d \ {Max(d)}
        BY <3>2
      <4>4. g[d \ {Max(d)}] = f[d \ {Max(d)}]
        BY <4>3
      <4> HIDE DEF g
      <4> QED BY <4>1, <4>2, <4>4
    <3> QED BY <3>1, <3>2
  <2> HIDE DEF g
  <2>7. FoldSteps(g, base, step, m + 1)
    BY <2>6 DEF FoldSteps
  <2> QED BY <2>5, <2>7
<1> HIDE DEF P
<1>3. P = Nat
  <2>1. P \in SUBSET Nat
    BY DEF P
  <2> QED BY <1>1, <1>2, <2>1, NaturalsBySteps
<1>4. n \in P /\ n <= n
  BY <1>3
<1> QED BY <1>4, Zenon DEF P

\* Such a fold over the prefixes is a loop.
LEMMA FoldIsLoop ==
    ASSUME NEW base, NEW n \in Nat, NEW step, NEW f, FoldSteps(f, base, step, n)
    PROVE  Loop([k \in 0..n |-> f[1..k]], base, step, n)
<1> DEFINE h == [k \in 0..n |-> f[1..k]]
<1>1. h[0] = base
  <2>1. 1..0 = {} /\ {} \in SUBSET (1..n) /\ 0 \in 0..n
    OBVIOUS
  <2>2. f[{}] = base
    BY <2>1 DEF FoldSteps
  <2> QED BY <2>1, <2>2
<1>2. ASSUME NEW k \in 1..n PROVE h[k] = step[<<k, h[k - 1]>>]
  <2>1. 1..k \in SUBSET (1..n) /\ 1..k # {} /\ k \in 0..n /\ k - 1 \in 0..n /\ k \in 1..k
    OBVIOUS
  <2>2. Max(1..k) = k
    <3>1. Max(1..k) \in 1..k /\ k <= Max(1..k)
      BY <2>1, MaxUpTo
    <3> QED BY <3>1
  <2>3. (1..k) \ {k} = 1..(k - 1)
    OBVIOUS
  <2>4. f[1..k] = step[<<k, f[1..(k - 1)]>>]
    BY <2>1, <2>2, <2>3 DEF FoldSteps
  <2> QED BY <2>1, <2>4
<1> HIDE DEF h
<1>3. Loop(h, base, step, n)
  BY <1>1, <1>2 DEF Loop
<1> QED BY <1>3 DEF h

------------------------------------------------------------------------------
\* Comprehensions.

\* o lists the members of I up to m in their order.
Enumerates(o, I, m) ==
    /\ o \in Seq(I)
    /\ \A i \in 1..Len(o) : o[i] <= m
    /\ \A i, j \in 1..Len(o) : i < j => o[i] < o[j]
    /\ \A p \in I : p <= m => \E i \in 1..Len(o) : o[i] = p

\* Listing the members of a set up to m lists them up to m + 1 in one more step.
LEMMA EnumerationStep ==
    ASSUME NEW n \in Nat, NEW I \in SUBSET (1..n), NEW m \in Nat, NEW o, Enumerates(o, I, m)
    PROVE  Enumerates(IF m + 1 \in I THEN Append(o, m + 1) ELSE o, I, m + 1)
<1>1. o \in Seq(I) /\ Len(o) \in Nat /\ \A i \in 1..Len(o) : o[i] \in I /\ o[i] \in Nat
  <2>1. o \in Seq(I) /\ Len(o) \in Nat /\ DOMAIN o = 1..Len(o)
    BY DEF Enumerates
  <2>2. \A i \in 1..Len(o) : o[i] \in I
    BY <2>1
  <2>3. \A p \in I : p \in Nat
    OBVIOUS
  <2> QED BY <2>1, <2>2, <2>3
<1>2. CASE m + 1 \notin I
  <2>1. \A p \in I : p <= m + 1 => p <= m
    BY <1>2
  <2>2. \A i \in 1..Len(o) : o[i] <= m + 1
    BY <1>1 DEF Enumerates
  <2>3. Enumerates(o, I, m + 1)
    BY <2>1, <2>2 DEF Enumerates
  <2> QED BY <1>2, <2>3
<1>3. CASE m + 1 \in I
  <2> DEFINE w == Append(o, m + 1)
             l == Len(o)
  <2>1. /\ w \in Seq(I) /\ Len(w) = l + 1 /\ w[l + 1] = m + 1
        /\ \A i \in 1..l : w[i] = o[i]
    BY <1>1, <1>3
  <2>2. \A i \in 1..(l + 1) : i = l + 1 \/ i \in 1..l
    BY <1>1
  <2> HIDE DEF w
  <2>3. \A i \in 1..l : w[i] <= m /\ w[i] \in Nat
    BY <1>1, <2>1 DEF Enumerates
  <2>4. \A i \in 1..(l + 1) : w[i] <= m + 1
    BY <2>1, <2>2, <2>3
  <2>5. ASSUME NEW i \in 1..(l + 1), NEW j \in 1..(l + 1), i < j PROVE w[i] < w[j]
    <3>1. i \in 1..l
      BY <1>1, <2>5
    <3>2. CASE j = l + 1
      BY <2>1, <2>3, <3>1, <3>2
    <3>3. CASE j \in 1..l
      <4>1. o[i] < o[j]
        BY <2>5, <3>1, <3>3 DEF Enumerates
      <4> QED BY <4>1, <2>1, <3>1, <3>3
    <3> QED BY <2>2, <3>2, <3>3
  <2>6. ASSUME NEW p \in I, p <= m + 1 PROVE \E i \in 1..(l + 1) : w[i] = p
    <3>1. CASE p = m + 1
      BY <1>1, <2>1, <3>1
    <3>2. CASE p # m + 1
      <4>1. p <= m
        BY <2>6, <3>2
      <4>2. PICK i \in 1..l : o[i] = p
        BY <4>1 DEF Enumerates
      <4>3. i \in 1..(l + 1) /\ w[i] = p
        BY <1>1, <2>1, <4>2
      <4> QED BY <4>3
    <3> QED BY <3>1, <3>2
  <2>7. Enumerates(w, I, m + 1)
    BY <2>1, <2>4, <2>5, <2>6 DEF Enumerates
  <2> QED BY <1>3, <2>7 DEF w
<1> QED BY <1>2, <1>3

\* The values of a filter of e: at k, the elements of e at the places in I up to k.
Filters(f, e, I, n) ==
    f = [k \in 0..n |-> IF k = 0 THEN <<>>
                        ELSE IF k \in I THEN Append(f[k - 1], e[k]) ELSE f[k - 1]]

\* Every list has a filter.
LEMMA FilterExists ==
    ASSUME NEW A, NEW n \in Nat, NEW e \in [1..n -> A], NEW I \in SUBSET (1..n)
    PROVE  \E f : Filters(f, e, I, n)
<1> DEFINE V == Seq(A)
           step == [p \in (1..n) \X V |-> IF p[1] \in I THEN Append(p[2], e[p[1]]) ELSE p[2]]
<1>1. <<>> \in V
  OBVIOUS
<1>2. step \in [(1..n) \X V -> V]
  <2>1. \A p \in (1..n) \X V : (IF p[1] \in I THEN Append(p[2], e[p[1]]) ELSE p[2]) \in V
    OBVIOUS
  <2> QED BY <2>1
<1>3. PICK f \in [0..n -> V] : Loop(f, <<>>, step, n)
  <2> HIDE DEF V, step
  <2> QED BY <1>1, <1>2, LoopExists
<1>4. ASSUME NEW k \in 0..n
      PROVE  f[k] = IF k = 0 THEN <<>>
                    ELSE IF k \in I THEN Append(f[k - 1], e[k]) ELSE f[k - 1]
  <2>1. CASE k = 0
    BY <1>3, <2>1 DEF Loop
  <2>2. CASE k # 0
    <3>1. k \in 1..n /\ k - 1 \in 0..n
      BY <2>2
    <3>2. f[k] = step[<<k, f[k - 1]>>] /\ <<k, f[k - 1]>> \in (1..n) \X V
      BY <1>3, <3>1 DEF Loop
    <3> QED BY <2>2, <3>2
  <2> QED BY <2>1, <2>2
<1>5. Filters(f, e, I, n)
  BY <1>3, <1>4 DEF Filters
<1> QED BY <1>5

\* Ordered filters the places themselves.
LEMMA OrderedFilters ==
    ASSUME NEW n \in Nat, NEW I \in SUBSET (1..n)
    PROVE  \E f : Filters(f, [k \in 1..n |-> k], I, n) /\ Ordered(I, n) = f[n]
<1> DEFINE e == [k \in 1..n |-> k]
           Upto(f) == f = [k \in 0..n |-> IF k = 0 THEN <<>>
                                          ELSE IF k \in I THEN Append(f[k - 1], k) ELSE f[k - 1]]
           g == CHOOSE f : Upto(f)
<1>1. ASSUME NEW f PROVE Filters(f, e, I, n) <=> Upto(f)
  <2>1. \A k \in 0..n : (IF k = 0 THEN <<>> ELSE IF k \in I THEN Append(f[k - 1], e[k]) ELSE f[k - 1])
                        = (IF k = 0 THEN <<>> ELSE IF k \in I THEN Append(f[k - 1], k) ELSE f[k - 1])
    OBVIOUS
  <2> HIDE DEF e
  <2> QED BY <2>1 DEF Filters
<1>2. \E f : Filters(f, e, I, n)
  <2>1. e \in [1..n -> 1..n]
    OBVIOUS
  <2> HIDE DEF e
  <2> QED BY <2>1, FilterExists
<1>3. \E f : Upto(f)
  <2> HIDE DEF e, Upto
  <2> QED BY <1>1, <1>2
<1>4. Upto(g)
  <2> HIDE DEF Upto
  <2> QED BY <1>3
<1>5. Ordered(I, n) = g[n]
  BY Zenon DEF Ordered
<1> HIDE DEF g, Upto
<1>6. Filters(g, e, I, n)
  BY <1>1, <1>4
<1> QED BY <1>5, <1>6

\* Kept filters the sequence.
LEMMA KeptFilters ==
    ASSUME NEW A, NEW s \in Seq(A), NEW I \in SUBSET (1..Len(s))
    PROVE  \E f : Filters(f, s, I, Len(s)) /\ Kept(s, I) = f[Len(s)]
<1> DEFINE n == Len(s)
           g == CHOOSE f : Filters(f, s, I, n)
<1>1. n \in Nat /\ s \in [1..n -> A] /\ I \in SUBSET (1..n)
  OBVIOUS
<1>2. Kept(s, I) = g[n]
  BY Zenon DEF Kept, Filters
<1>3. \E f : Filters(f, s, I, n)
  <2> HIDE DEF n
  <2> QED BY <1>1, FilterExists
<1>4. Filters(g, s, I, n)
  BY <1>3
<1> HIDE DEF g
<1> QED BY <1>2, <1>4

\* The elements of e at the places o lists.
At(e, o) == [j \in DOMAIN o |-> e[o[j]]]

\* One element more of a filter, and of the places it is from.
LEMMA FilterStep ==
    ASSUME NEW A, NEW n \in Nat, NEW e \in [1..n -> A], NEW k \in 1..n, NEW o \in Seq(1..n)
    PROVE  Append(At(e, o), e[k]) = At(e, Append(o, k))
<1> DEFINE l == Len(o)
           w == Append(o, k)
           t == [j \in DOMAIN o |-> e[o[j]]]
           u == [j \in DOMAIN w |-> e[w[j]]]
<1>1. l \in Nat /\ DOMAIN o = 1..l /\ \A j \in 1..l : o[j] \in 1..n
  OBVIOUS
<1>2. w \in Seq(1..n) /\ DOMAIN w = 1..(l + 1) /\ w[l + 1] = k /\ \A j \in 1..l : w[j] = o[j]
  <2>1. Len(w) = l + 1 /\ w \in Seq(1..n)
    OBVIOUS
  <2>2. DOMAIN w = 1..Len(w)
    BY <2>1
  <2> QED BY <2>1, <2>2
<1>3. t \in Seq(A) /\ Len(t) = l
  BY <1>1
<1> HIDE DEF w
<1>4. u \in [1..(l + 1) -> A]
  <2>1. \A j \in 1..(l + 1) : w[j] \in 1..n
    BY <1>2
  <2> QED BY <1>2, <2>1
<1>5. \A j \in 1..l : t[j] = u[j]
  BY <1>1, <1>2
<1>6. u[l + 1] = e[k]
  BY <1>1, <1>2
<1> HIDE DEF t, u
<1>7. Append(t, e[k]) \in Seq(A) /\ Len(Append(t, e[k])) = l + 1 /\ Append(t, e[k])[l + 1] = e[k]
      /\ \A j \in 1..l : Append(t, e[k])[j] = t[j]
  BY <1>1, <1>3
<1>8. Append(t, e[k]) \in [1..(l + 1) -> A]
  <2>1. ASSUME NEW z \in Seq(A), Len(z) = l + 1 PROVE z \in [1..(l + 1) -> A]
    BY <2>1
  <2> QED BY <1>7, <2>1
<1>9. \A j \in 1..(l + 1) : j = l + 1 \/ j \in 1..l
  BY <1>1
<1>10. \A j \in 1..(l + 1) : Append(t, e[k])[j] = u[j]
  BY <1>5, <1>6, <1>7, <1>9
<1>11. Append(t, e[k]) = u
  BY <1>4, <1>8, <1>10
<1> QED BY <1>11 DEF At, t, u, w

\* A sequence over a set is one over a larger set.
LEMMA SequencesOfMore ==
    ASSUME NEW A, NEW B, A \subseteq B, NEW s \in Seq(A)
    PROVE  s \in Seq(B)
<1>1. Len(s) \in Nat /\ s \in [1..Len(s) -> B]
  <2>1. s \in [1..Len(s) -> A] /\ Len(s) \in Nat
    OBVIOUS
  <2>2. \A k \in 1..Len(s) : s[k] \in B
    BY <2>1
  <2> QED BY <2>1, <2>2
<1> QED BY <1>1

\* p is the list of the places up to n.
PlacesUpTo(p, n) == p = [k \in 1..n |-> k]

\* A filter of the places lists them, and the filter of e holds the elements there.
LEMMA FiltersAgree ==
    ASSUME NEW A, NEW n \in Nat, NEW e \in [1..n -> A], NEW I \in SUBSET (1..n),
           NEW places, PlacesUpTo(places, n),
           NEW g, Filters(g, places, I, n), NEW h, Filters(h, e, I, n)
    PROVE  Enumerates(g[n], I, n) /\ h[n] = At(e, g[n])
<1> DEFINE Along(o, t, m) == Enumerates(o, I, m) /\ t = At(e, o)
           P == {m \in Nat : m <= n => Along(g[m], h[m], m)}
<1>1. 0 \in P
  <2>1. g[0] = <<>> /\ h[0] = <<>>
    BY DEF Filters
  <2>2. Enumerates(<<>>, I, 0)
    BY DEF Enumerates
  <2>3. <<>> = At(e, <<>>)
    BY DEF At
  <2> QED BY <2>1, <2>2, <2>3
<1>2. ASSUME NEW m \in P PROVE m + 1 \in P
  <2>1. SUFFICES ASSUME m + 1 <= n PROVE Along(g[m + 1], h[m + 1], m + 1)
    OBVIOUS
  <2>2. m \in Nat /\ Along(g[m], h[m], m) /\ m + 1 \in 0..n /\ m + 1 \in 1..n /\ (m + 1) - 1 = m
    BY <2>1
  <2> HIDE DEF P
  <2>3. /\ g[m + 1] = IF m + 1 \in I THEN Append(g[m], m + 1) ELSE g[m]
        /\ h[m + 1] = IF m + 1 \in I THEN Append(h[m], e[m + 1]) ELSE h[m]
    <3>1. ASSUME NEW f, NEW b, Filters(f, b, I, n)
          PROVE  f[m + 1] = IF m + 1 \in I THEN Append(f[m], b[m + 1]) ELSE f[m]
      <4>1. f[m + 1] = IF m + 1 = 0 THEN <<>>
                       ELSE IF m + 1 \in I THEN Append(f[(m + 1) - 1], b[m + 1])
                       ELSE f[(m + 1) - 1]
        BY <2>2, <3>1 DEF Filters
      <4>2. m + 1 # 0
        BY <2>2
      <4> QED BY <2>2, <4>1, <4>2
    <3>2. places[m + 1] = m + 1
      BY <2>2 DEF PlacesUpTo
    <3> QED BY <3>1, <3>2
  <2>4. Enumerates(g[m + 1], I, m + 1)
    <3>1. Enumerates(IF m + 1 \in I THEN Append(g[m], m + 1) ELSE g[m], I, m + 1)
      BY <2>2, EnumerationStep
    <3> QED BY <2>3, <3>1
  <2>5. h[m + 1] = At(e, g[m + 1])
    <3>1. CASE m + 1 \in I
      <4>1. g[m] \in Seq(1..n)
        <5>1. g[m] \in Seq(I)
          BY <2>2 DEF Enumerates
        <5>2. I \subseteq 1..n
          OBVIOUS
        <5> QED BY <5>1, <5>2, SequencesOfMore
      <4>2. Append(At(e, g[m]), e[m + 1]) = At(e, Append(g[m], m + 1))
        <5>1. m + 1 \in 1..n
          BY <2>2
        <5> QED BY <4>1, <5>1, FilterStep
      <4> QED BY <2>2, <2>3, <3>1, <4>2
    <3>2. CASE m + 1 \notin I
      BY <2>2, <2>3, <3>2
    <3> QED BY <3>1, <3>2
  <2> QED BY <2>4, <2>5
<1> HIDE DEF P, Along
<1>3. P = Nat
  <2>1. P \in SUBSET Nat
    BY DEF P
  <2> QED BY <1>1, <1>2, <2>1, NaturalsBySteps
<1>4. Along(g[n], h[n], n)
  BY <1>3 DEF P
<1> QED BY <1>4 DEF Along

\* g filters the places up to n, and h the elements of e, both at I.
Filtering(A, n, e, I, g, h) ==
    /\ n \in Nat /\ e \in [1..n -> A] /\ I \in SUBSET (1..n)
    /\ \E places : PlacesUpTo(places, n) /\ Filters(g, places, I, n)
    /\ Filters(h, e, I, n)

\* Two such filters agree.
LEMMA FiltersMeet ==
    ASSUME NEW A, NEW n, NEW e, NEW I, NEW g, NEW h, Filtering(A, n, e, I, g, h)
    PROVE  Enumerates(g[n], I, n) /\ h[n] = At(e, g[n])
<1>1. PICK places : PlacesUpTo(places, n) /\ Filters(g, places, I, n)
  BY DEF Filtering
<1>2. n \in Nat /\ e \in [1..n -> A] /\ I \in SUBSET (1..n) /\ Filters(h, e, I, n)
  BY DEF Filtering
<1> QED BY <1>1, <1>2, FiltersAgree

\* Ordered lists the members of a set of places, in order and each once.
LEMMA OrderedEnumerates ==
    ASSUME NEW n \in Nat, NEW I \in SUBSET (1..n)
    PROVE  Enumerates(Ordered(I, n), I, n)
<1> DEFINE e == [k \in 1..n |-> k]
<1>1. e \in [1..n -> 1..n]
  OBVIOUS
<1>2. PICK f : Filters(f, e, I, n) /\ Ordered(I, n) = f[n]
  BY OrderedFilters
<1>3. Enumerates(f[n], I, n)
  <2>1. PlacesUpTo(e, n)
    BY DEF PlacesUpTo
  <2> HIDE DEF e
  <2> QED BY <1>1, <1>2, <2>1, FiltersAgree
<1> QED BY <1>2, <1>3

\* What is kept of a sequence: the elements at I, each from its own place, in order.
LEMMA KeptIs ==
    ASSUME NEW A, NEW s \in Seq(A), NEW I \in SUBSET (1..Len(s))
    PROVE  LET o == Ordered(I, Len(s))
           IN  /\ Kept(s, I) \in Seq(A) /\ Len(Kept(s, I)) = Len(o) /\ Len(o) \in Nat
               /\ \A k \in 1..Len(o) : o[k] \in I /\ Kept(s, I)[k] = s[o[k]]
               /\ \A i, j \in 1..Len(o) : i < j => o[i] < o[j]
               /\ \A p \in I : \E k \in 1..Len(o) : o[k] = p
<1> DEFINE o == Ordered(I, Len(s))
           n == Len(s)
<1>0. n \in Nat /\ s \in [1..n -> A] /\ I \in SUBSET (1..n)
  OBVIOUS
<1> HIDE DEF n
<1>1. Enumerates(o, I, n) /\ Kept(s, I) = At(s, o)
  <2>1. PICK g : Filters(g, [k \in 1..n |-> k], I, n) /\ Ordered(I, n) = g[n]
    BY <1>0, OrderedFilters DEF n
  <2>2. PICK h : Filters(h, s, I, n) /\ Kept(s, I) = h[n]
    BY KeptFilters DEF n
  <2>3. Enumerates(g[n], I, n) /\ h[n] = At(s, g[n])
    <3> DEFINE places == [k \in 1..n |-> k]
    <3>1. PlacesUpTo(places, n) /\ Filters(g, places, I, n)
      BY <2>1 DEF PlacesUpTo
    <3> HIDE DEF places
    <3>2. Filtering(A, n, s, I, g, h)
      BY <1>0, <2>2, <3>1 DEF Filtering
    <3> QED BY <3>2, FiltersMeet
  <2>4. o = Ordered(I, n)
    BY DEF n
  <2> HIDE DEF o
  <2> QED BY <2>1, <2>2, <2>3, <2>4
<1>2. o \in Seq(I) /\ DOMAIN o = 1..Len(o) /\ Len(o) \in Nat
  BY <1>1 DEF Enumerates
<1> HIDE DEF o
<1>4. \A k \in 1..Len(o) : o[k] \in I /\ s[o[k]] \in A
  <2>1. \A k \in 1..Len(o) : o[k] \in I
    BY <1>2
  <2>2. \A p \in I : s[p] \in A
    OBVIOUS
  <2> QED BY <2>1, <2>2
<1>5. Kept(s, I) \in Seq(A) /\ Len(Kept(s, I)) = Len(o)
  BY <1>1, <1>2, <1>4 DEF At
<1>6. \A p \in I : p <= n
  BY DEF n
<1> QED BY <1>1, <1>2, <1>4, <1>5, <1>6 DEF Enumerates, At, o

\* As a set.
LEMMA KeptElements ==
    ASSUME NEW A, NEW s \in Seq(A), NEW I \in SUBSET (1..Len(s))
    PROVE  /\ Kept(s, I) \in Seq(A) /\ Len(Kept(s, I)) \in Nat
           /\ DOMAIN Kept(s, I) = 1..Len(Kept(s, I))
           /\ \A k \in DOMAIN Kept(s, I) : \E p \in I : Kept(s, I)[k] = s[p]
           /\ \A p \in I : \E k \in DOMAIN Kept(s, I) : Kept(s, I)[k] = s[p]
<1> DEFINE o == Ordered(I, Len(s))
           t == Kept(s, I)
<1>1. /\ t \in Seq(A) /\ Len(t) = Len(o) /\ Len(o) \in Nat
      /\ \A k \in 1..Len(o) : o[k] \in I /\ t[k] = s[o[k]]
      /\ \A p \in I : \E k \in 1..Len(o) : o[k] = p
  BY KeptIs
<1> HIDE DEF o, t
<1>2. DOMAIN t = 1..Len(o)
  BY <1>1
<1>3. ASSUME NEW k \in DOMAIN t PROVE \E p \in I : t[k] = s[p]
  BY <1>1, <1>2
<1>4. ASSUME NEW p \in I PROVE \E k \in DOMAIN t : t[k] = s[p]
  <2>1. PICK k \in 1..Len(o) : o[k] = p
    BY <1>1
  <2> QED BY <1>1, <1>2, <2>1
<1>5. t \in Seq(A) /\ Len(t) \in Nat /\ DOMAIN t = 1..Len(t)
  BY <1>1, <1>2
<1> QED BY <1>3, <1>4, <1>5 DEF t

\* A sequence keeps all of itself.
LEMMA KeptAll ==
    ASSUME NEW A, NEW s \in Seq(A)
    PROVE  Kept(s, 1..Len(s)) = s
<1> DEFINE n == Len(s)
           o == Ordered(1..n, n)
<1>1. n \in Nat /\ DOMAIN s = 1..n
  OBVIOUS
<1>2. /\ Kept(s, 1..n) \in Seq(A) /\ Len(Kept(s, 1..n)) = Len(o) /\ Len(o) \in Nat
      /\ \A k \in 1..Len(o) : o[k] \in 1..n /\ Kept(s, 1..n)[k] = s[o[k]]
      /\ \A i, j \in 1..Len(o) : i < j => o[i] < o[j]
      /\ \A p \in 1..n : \E k \in 1..Len(o) : o[k] = p
  BY KeptIs
<1> HIDE DEF o, n
<1> DEFINE P == {m \in Nat : m <= n => m <= Len(o) /\ \A k \in 1..m : o[k] = k}
<1>3. 0 \in P
  BY <1>2
<1>4. ASSUME NEW m \in P PROVE m + 1 \in P
  <2>1. SUFFICES ASSUME m + 1 <= n PROVE m + 1 <= Len(o) /\ \A k \in 1..(m + 1) : o[k] = k
    OBVIOUS
  <2>2. m \in Nat /\ m <= Len(o) /\ \A k \in 1..m : o[k] = k
    BY <1>1, <2>1
  <2>3. PICK k \in 1..Len(o) : o[k] = m + 1
    BY <1>1, <1>2, <2>1, <2>2
  <2>4. k > m
    <3>1. k \in 1..m => o[k] = k
      BY <2>2
    <3> QED BY <2>2, <2>3, <3>1, <1>2
  <2>5. k = m + 1
    <3>1. SUFFICES ASSUME k > m + 1 PROVE FALSE
      BY <2>2, <2>4
    <3>2. m + 1 \in 1..Len(o) /\ o[m + 1] < o[k] /\ o[m + 1] \in 1..n
      BY <1>2, <2>2, <2>3, <3>1
    <3>3. o[m + 1] \in 1..m
      BY <2>2, <2>3, <3>2, <1>1
    <3>4. o[o[m + 1]] = o[m + 1] /\ o[m + 1] < m + 1
      BY <2>2, <3>3
    <3>5. o[o[m + 1]] < o[m + 1]
      BY <1>2, <2>2, <3>2, <3>3, <3>4
    <3> QED BY <3>4, <3>5, <3>3
  <2> QED BY <1>2, <2>2, <2>3, <2>5
<1> HIDE DEF P
<1>5. P = Nat
  <2>1. P \in SUBSET Nat
    BY DEF P
  <2> QED BY <1>3, <1>4, <2>1, NaturalsBySteps
<1>6. n <= Len(o) /\ \A k \in 1..n : o[k] = k
  BY <1>1, <1>5 DEF P
<1>7. Len(o) = n
  <2>1. SUFFICES ASSUME n + 1 <= Len(o) PROVE FALSE
    BY <1>1, <1>2, <1>6
  <2>2. n + 1 \in 1..Len(o)
    BY <1>1, <1>2, <2>1
  <2>3. o[n + 1] \in 1..n
    BY <1>2, <2>2
  <2>4. o[o[n + 1]] = o[n + 1] /\ o[n + 1] < n + 1 /\ o[n + 1] \in 1..Len(o)
    BY <1>1, <1>2, <1>6, <2>3
  <2>5. o[o[n + 1]] < o[n + 1]
    BY <1>2, <2>2, <2>4
  <2> QED BY <2>3, <2>4, <2>5
<1>8. \A k \in 1..n : Kept(s, 1..n)[k] = s[k]
  BY <1>2, <1>6, <1>7
<1>9. Kept(s, 1..n) \in Seq(A) /\ Len(Kept(s, 1..n)) = n
  BY <1>2, <1>7
<1>10. Kept(s, 1..n) = s
  BY <1>1, <1>8, <1>9, SeqEqual DEF n
<1> QED BY <1>10 DEF n

\* A part of a sequence.
LEMMA SubSeqElements ==
    ASSUME NEW A, NEW s \in Seq(A), NEW m \in Nat \ {0}, NEW n \in Nat, n <= Len(s)
    PROVE  /\ SubSeq(s, m, n) \in Seq(A)
           /\ Len(SubSeq(s, m, n)) = IF m <= n THEN n - m + 1 ELSE 0
           /\ \A k \in 1..Len(SubSeq(s, m, n)) : SubSeq(s, m, n)[k] = s[m + k - 1]
BY SubSeqProperties

------------------------------------------------------------------------------
\* The steps of Normalize.
Marked(a) == [i \in DOMAIN a |-> IF a[i].k = "bare" THEN Cite(a[i].n) ELSE a[i]]
Undumped(a) == Kept(a, {i \in DOMAIN a : ~InHeadingDump(a, i)})
Thin(a) == Kept(a, {i \in DOMAIN a :
               ~(i > 2 /\ a[i] = LineEnd /\ a[i - 1] = LineEnd /\ a[i - 2] = LineEnd)})
InkedPieces(a) == {i \in DOMAIN a : a[i] # LineEnd}
Stripped(a) == IF InkedPieces(a) = {} THEN <<>>
               ELSE SubSeq(a, Min(InkedPieces(a)), Max(InkedPieces(a)))

\* Normalize is its four passes, one after another.
LEMMA NormalizeSteps ==
    ASSUME NEW a
    PROVE  Normalize(a) = Stripped(Thin(Undumped(Marked(a))))
BY Zenon DEF Normalize, Stripped, Thin, Undumped, Marked, InkedPieces

\* A heading dump opens at i.
DumpOpens(a, i) == /\ i \in 1..(Len(a) - 1)
                   /\ a[i].k = "cite"
                   /\ i = 1 \/ a[i - 1] = LineEnd
                   /\ a[i + 1] = Heading
Clean(a) == \A i \in 1..Len(a) : a[i].k # "bare" /\ ~DumpOpens(a, i)
NoBare(a) == \A i \in 1..Len(a) : a[i].k # "bare"

\* Neighbours that are both kept stay neighbours.
LEMMA KeptNeighbours ==
    ASSUME NEW A, NEW s \in Seq(A), NEW I \in SUBSET (1..Len(s)),
           NEW k \in 1..Len(Kept(s, I))
    PROVE  LET o == Ordered(I, Len(s))
           IN  /\ o[k] + 1 \in I => k + 1 \in 1..Len(o) /\ o[k + 1] = o[k] + 1
               /\ o[k] - 1 \in I => k - 1 \in 1..Len(o) /\ o[k - 1] = o[k] - 1
               /\ o[k] = 1 => k = 1
<1> DEFINE o == Ordered(I, Len(s))
<1>1. /\ Len(Kept(s, I)) = Len(o) /\ Len(o) \in Nat
      /\ \A i \in 1..Len(o) : o[i] \in I
      /\ \A i, j \in 1..Len(o) : i < j => o[i] < o[j]
      /\ \A p \in I : \E i \in 1..Len(o) : o[i] = p
  BY KeptIs
<1> HIDE DEF o
<1>2. \A p \in I : p \in Nat /\ p >= 1
  OBVIOUS
<1>3. k \in 1..Len(o)
  BY <1>1
<1>4. ASSUME o[k] + 1 \in I PROVE k + 1 \in 1..Len(o) /\ o[k + 1] = o[k] + 1
  <2>1. PICK i \in 1..Len(o) : o[i] = o[k] + 1
    BY <1>1, <1>4
  <2>2. o[k] \in Nat /\ o[i] \in Nat
    BY <1>1, <1>2, <1>3
  <2>3. i > k
    <3>1. i < k => o[i] < o[k]
      BY <1>1, <1>3
    <3> QED BY <2>1, <2>2, <3>1, <1>3
  <2>4. i = k + 1
    <3>1. SUFFICES ASSUME i > k + 1 PROVE FALSE
      BY <2>3, <1>3
    <3>2. k + 1 \in 1..Len(o)
      BY <1>1, <1>3, <3>1
    <3>3. o[k] < o[k + 1] /\ o[k + 1] < o[i]
      <4>1. k < k + 1 /\ k + 1 < i
        BY <1>3, <3>1
      <4> QED BY <1>1, <1>3, <3>2, <4>1
    <3>4. o[k + 1] \in Nat
      BY <1>1, <1>2, <3>2
    <3> QED BY <2>1, <2>2, <3>3, <3>4
  <2> QED BY <2>1, <2>4
<1>5. ASSUME o[k] - 1 \in I PROVE k - 1 \in 1..Len(o) /\ o[k - 1] = o[k] - 1
  <2>1. PICK i \in 1..Len(o) : o[i] = o[k] - 1
    BY <1>1, <1>5
  <2>2. o[k] \in Nat /\ o[i] \in Nat
    BY <1>1, <1>2, <1>3
  <2>3. i < k
    <3>1. k < i => o[k] < o[i]
      BY <1>1, <1>3
    <3> QED BY <2>1, <2>2, <3>1, <1>3
  <2>4. i = k - 1
    <3>1. SUFFICES ASSUME i < k - 1 PROVE FALSE
      BY <2>3, <1>3
    <3>2. k - 1 \in 1..Len(o)
      BY <1>1, <1>3, <3>1
    <3>3. o[i] < o[k - 1] /\ o[k - 1] < o[k]
      <4>1. i < k - 1 /\ k - 1 < k
        BY <1>3, <3>1
      <4> QED BY <1>1, <1>3, <3>2, <4>1
    <3>4. o[k - 1] \in Nat
      BY <1>1, <1>2, <3>2
    <3> QED BY <2>1, <2>2, <3>3, <3>4
  <2> QED BY <2>1, <2>4
<1>6. ASSUME o[k] = 1 PROVE k = 1
  <2>1. SUFFICES ASSUME 1 < k PROVE FALSE
    BY <1>3
  <2>2. 1 \in 1..Len(o)
    BY <1>1, <1>3
  <2>3. o[1] < o[k] /\ o[1] \in Nat /\ o[1] >= 1
    BY <1>1, <1>2, <1>3, <2>1, <2>2
  <2> QED BY <1>6, <2>3
<1> QED BY <1>4, <1>5, <1>6 DEF o

\* Leaving pieces out brings no unwritten marker in.
LEMMA KeptNoBare ==
    ASSUME NEW A, NEW s \in Seq(A), NEW I \in SUBSET (1..Len(s)), NoBare(s)
    PROVE  NoBare(Kept(s, I))
<1>1. /\ DOMAIN Kept(s, I) = 1..Len(Kept(s, I))
      /\ \A k \in DOMAIN Kept(s, I) : \E p \in I : Kept(s, I)[k] = s[p]
  BY KeptElements
<1>2. \A p \in I : p \in 1..Len(s)
  OBVIOUS
<1> QED BY <1>1, <1>2 DEF NoBare

\* After the first pass every marker is written out.
LEMMA MarkedHasNoBare ==
    ASSUME NEW a \in Seq(AnswerPieces)
    PROVE  Marked(a) \in Seq(AnswerPieces) /\ NoBare(Marked(a))
<1>1. DOMAIN a = 1..Len(a) /\ Len(a) \in Nat /\ \A i \in 1..Len(a) : a[i] \in AnswerPieces
  OBVIOUS
<1>2. ASSUME NEW i \in 1..Len(a)
      PROVE  LET p == IF a[i].k = "bare" THEN Cite(a[i].n) ELSE a[i]
             IN  p \in AnswerPieces /\ p.k # "bare"
  <2>2. a[i].n \in Nat
    BY <1>1 DEF AnswerPieces
  <2>3. Cite(a[i].n) \in AnswerPieces /\ Cite(a[i].n).k = "cite"
    BY <2>2 DEF AnswerPieces, PieceKinds, Cite, Piece
  <2> QED BY <1>1, <2>3
<1> QED BY <1>1, <1>2 DEF Marked, NoBare

\* Taking the heading dumps out leaves none.
LEMMA UndumpedIsClean ==
    ASSUME NEW a \in Seq(AnswerPieces), NoBare(a)
    PROVE  Undumped(a) \in Seq(AnswerPieces) /\ Clean(Undumped(a))
<1> DEFINE I == {i \in DOMAIN a : ~InHeadingDump(a, i)}
           o == Ordered(I, Len(a))
           b == Kept(a, I)
<1>0. I \in SUBSET (1..Len(a)) /\ Len(a) \in Nat /\ DOMAIN a = 1..Len(a)
  OBVIOUS
<1>1. /\ b \in Seq(AnswerPieces) /\ Len(b) = Len(o) /\ Len(o) \in Nat
      /\ \A k \in 1..Len(o) : o[k] \in I /\ b[k] = a[o[k]]
  BY <1>0, KeptIs
<1>2. NoBare(b)
  BY <1>0, KeptNoBare
<1>3. \A k \in 1..Len(b) :
         /\ o[k] + 1 \in I => k + 1 \in 1..Len(o) /\ o[k + 1] = o[k] + 1
         /\ o[k] - 1 \in I => k - 1 \in 1..Len(o) /\ o[k - 1] = o[k] - 1
         /\ o[k] = 1 => k = 1
  BY <1>0, KeptNeighbours
<1>4. \A i \in I : i \in 1..Len(a) /\ ~InHeadingDump(a, i)
  OBVIOUS
<1>5. \A i \in 1..Len(a) : i \notin I => InHeadingDump(a, i)
  BY <1>0
<1> HIDE DEF I, o, b
<1>6. ASSUME NEW k \in 1..Len(b), DumpOpens(b, k) PROVE FALSE
  <2> DEFINE i == o[k]
  <2>1. /\ k \in 1..Len(o) /\ k + 1 \in 1..Len(o) /\ b[k].k = "cite" /\ b[k + 1] = Heading
        /\ k = 1 \/ b[k - 1] = LineEnd
    BY <1>1, <1>6 DEF DumpOpens
  <2>2. i \in 1..Len(a) /\ a[i] = b[k] /\ i \in I /\ a[i] # LineEnd
    BY <1>1, <1>4, <2>1 DEF LineEnd, Piece
  <2>3. i + 1 <= Len(a)
    <3>1. o[k + 1] \in 1..Len(a) /\ o[k] < o[k + 1]
      <4>1. \A p, q \in 1..Len(o) : p < q => o[p] < o[q]
        BY <1>0, KeptIs DEF o, I
      <4> QED BY <1>1, <1>4, <2>1, <4>1
    <3> QED BY <2>2, <3>1
  <2>4. i + 1 \in I
    <3>1. SUFFICES ASSUME InHeadingDump(a, i + 1) PROVE FALSE
      BY <1>5, <2>2, <2>3
    <3>2. PICK j \in 1..(i + 1) : /\ a[j].k = "cite" /\ (j = 1 \/ a[j - 1] = LineEnd)
                                  /\ j < Len(a) /\ a[j + 1] = Heading
                                  /\ \A m \in j..(i + 1) : a[m] # LineEnd
      BY <3>1 DEF InHeadingDump
    <3>3. CASE j = i + 1
      <4>1. j # 1 /\ j - 1 = i
        BY <2>2, <3>3
      <4> QED BY <2>2, <3>2, <4>1
    <3>4. CASE j # i + 1
      <4>1. j \in 1..i /\ \A m \in j..i : a[m] # LineEnd
        BY <2>2, <3>2, <3>4
      <4>2. InHeadingDump(a, i)
        BY <3>2, <4>1 DEF InHeadingDump
      <4> QED BY <1>4, <2>2, <4>2
    <3> QED BY <3>3, <3>4
  <2>5. a[i + 1] = Heading
    <3>1. o[k + 1] = i + 1
      BY <1>3, <2>4
    <3> QED BY <1>1, <2>1, <3>1
  <2>6. ASSUME i = 1 \/ a[i - 1] = LineEnd PROVE FALSE
    <3>1. i \in 1..i /\ i < Len(a) /\ \A m \in i..i : a[m] # LineEnd
      BY <2>2, <2>3
    <3>2. InHeadingDump(a, i)
      BY <2>1, <2>2, <2>5, <2>6, <3>1 DEF InHeadingDump
    <3> QED BY <1>4, <2>2, <3>2
  <2>7. i - 1 \in 1..Len(a)
    BY <2>2, <2>6
  <2>8. i - 1 \in I
    <3>1. SUFFICES ASSUME InHeadingDump(a, i - 1) PROVE FALSE
      BY <1>5, <2>7
    <3>2. PICK j \in 1..(i - 1) : /\ a[j].k = "cite" /\ (j = 1 \/ a[j - 1] = LineEnd)
                                  /\ j < Len(a) /\ a[j + 1] = Heading
                                  /\ \A m \in j..(i - 1) : a[m] # LineEnd
      BY <3>1 DEF InHeadingDump
    <3>3. j \in 1..i /\ \A m \in j..i : a[m] # LineEnd
      BY <2>2, <3>2
    <3>4. InHeadingDump(a, i)
      BY <3>2, <3>3 DEF InHeadingDump
    <3> QED BY <1>4, <2>2, <3>4
  <2>9. k - 1 \in 1..Len(o) /\ o[k - 1] = i - 1
    BY <1>3, <2>8
  <2>10. a[i - 1] = LineEnd
    <3>1. k # 1 /\ b[k - 1] = a[o[k - 1]]
      BY <1>1, <2>9
    <3> QED BY <2>1, <2>9, <3>1
  <2> QED BY <2>6, <2>10
<1>7. Undumped(a) = b
  BY DEF Undumped, b, I
<1> QED BY <1>1, <1>2, <1>6, <1>7 DEF Clean, NoBare

\* Thinning blank lines out makes no dump.
LEMMA ThinIsClean ==
    ASSUME NEW a \in Seq(AnswerPieces), Clean(a)
    PROVE  Thin(a) \in Seq(AnswerPieces) /\ Clean(Thin(a))
<1> DEFINE I == {i \in DOMAIN a :
               ~(i > 2 /\ a[i] = LineEnd /\ a[i - 1] = LineEnd /\ a[i - 2] = LineEnd)}
           o == Ordered(I, Len(a))
           b == Kept(a, I)
<1>0. I \in SUBSET (1..Len(a)) /\ Len(a) \in Nat /\ DOMAIN a = 1..Len(a)
  OBVIOUS
<1>1. /\ b \in Seq(AnswerPieces) /\ Len(b) = Len(o) /\ Len(o) \in Nat
      /\ \A k \in 1..Len(o) : o[k] \in I /\ b[k] = a[o[k]]
      /\ \A p, q \in 1..Len(o) : p < q => o[p] < o[q]
  BY <1>0, KeptIs
<1>2. NoBare(b)
  BY <1>0, KeptNoBare DEF Clean, NoBare
<1>4. \A i \in 1..Len(a) : i \notin I => i > 2 /\ a[i] = LineEnd /\ a[i - 1] = LineEnd
  BY <1>0
<1> HIDE DEF I
<1>3. \A k \in 1..Len(b) :
         /\ o[k] + 1 \in I => k + 1 \in 1..Len(o) /\ o[k + 1] = o[k] + 1
         /\ o[k] - 1 \in I => k - 1 \in 1..Len(o) /\ o[k - 1] = o[k] - 1
  BY <1>0, KeptNeighbours
<1> HIDE DEF o, b
<1>5. \A k \in 1..Len(o) : o[k] \in 1..Len(a)
  BY <1>0, <1>1
<1>6. ASSUME NEW k \in 1..Len(b), DumpOpens(b, k) PROVE FALSE
  <2> DEFINE i == o[k]
  <2>1. /\ k \in 1..Len(o) /\ k + 1 \in 1..Len(o) /\ b[k].k = "cite" /\ b[k + 1] = Heading
        /\ k = 1 \/ b[k - 1] = LineEnd
    BY <1>1, <1>6 DEF DumpOpens
  <2>2. i \in 1..Len(a) /\ a[i] = b[k] /\ i \in I /\ a[i] # LineEnd
    BY <1>1, <1>5, <2>1 DEF LineEnd, Piece
  <2>3. i + 1 <= Len(a)
    <3>1. o[k + 1] \in 1..Len(a) /\ o[k] < o[k + 1]
      <4>1. k < k + 1
        BY <1>1, <2>1
      <4> QED BY <1>1, <1>5, <2>1, <4>1
    <3> QED BY <2>2, <3>1
  <2>4. i + 1 \in I
    <3>1. SUFFICES ASSUME i + 1 \notin I PROVE FALSE
      OBVIOUS
    <3>2. a[(i + 1) - 1] = LineEnd /\ (i + 1) - 1 = i
      BY <1>4, <2>2, <2>3, <3>1
    <3> QED BY <2>2, <3>2
  <2>5. a[i + 1] = Heading
    <3>1. o[k + 1] = i + 1
      BY <1>3, <2>4
    <3> QED BY <1>1, <2>1, <3>1
  <2>6. i = 1 \/ a[i - 1] = LineEnd
    <3>1. SUFFICES ASSUME i # 1 PROVE a[i - 1] = LineEnd
      OBVIOUS
    <3>2. i - 1 \in 1..Len(a)
      BY <2>2, <3>1
    <3>3. CASE i - 1 \in I
      <4>1. k - 1 \in 1..Len(o) /\ o[k - 1] = i - 1 /\ k # 1
        BY <1>3, <3>3
      <4> QED BY <1>1, <2>1, <4>1
    <3>4. CASE i - 1 \notin I
      BY <1>4, <3>2, <3>4
    <3> QED BY <3>3, <3>4
  <2>7. DumpOpens(a, i)
    BY <2>1, <2>2, <2>3, <2>5, <2>6 DEF DumpOpens
  <2> QED BY <2>2, <2>7 DEF Clean
<1>7. Thin(a) = b
  BY DEF Thin, b, I
<1> QED BY <1>1, <1>2, <1>6, <1>7 DEF Clean, NoBare

\* The first and the last piece that is not a line end bound the others.
LEMMA InkedBounds ==
    ASSUME NEW a \in Seq(AnswerPieces), InkedPieces(a) # {}
    PROVE  LET lo == Min(InkedPieces(a))
               hi == Max(InkedPieces(a))
           IN  /\ lo \in 1..Len(a) /\ hi \in 1..Len(a) /\ lo <= hi
               /\ \A i \in 1..Len(a) : a[i] # LineEnd => lo <= i /\ i <= hi
<1> DEFINE I == InkedPieces(a)
<1>1. I \in SUBSET (1..Len(a)) /\ Len(a) \in Nat /\ \A i \in 1..Len(a) : a[i] # LineEnd => i \in I
  BY DEF InkedPieces
<1> HIDE DEF I
<1>2. I \in SUBSET Nat /\ I # {}
  <2>1. \A i \in I : i \in Nat
    BY <1>1
  <2> QED BY <2>1 DEF I
<1>3. Min(I) \in I /\ \A i \in I : Min(I) <= i
  BY <1>2, MinIsLeast
<1>4. Max(I) \in I /\ \A i \in I : i <= Max(I)
  BY <1>1, <1>2, MaxUpTo
<1>5. Min(I) \in 1..Len(a) /\ Max(I) \in 1..Len(a) /\ Min(I) <= Max(I)
  BY <1>1, <1>3, <1>4
<1> QED BY <1>1, <1>3, <1>4, <1>5 DEF I

\* What is left after the strip is the answer between those bounds, piece by piece.
LEMMA StrippedIs ==
    ASSUME NEW a \in Seq(AnswerPieces)
    PROVE  /\ Stripped(a) \in Seq(AnswerPieces)
           /\ InkedPieces(a) # {} =>
                LET lo == Min(InkedPieces(a))
                    hi == Max(InkedPieces(a))
                IN  /\ Len(Stripped(a)) = hi - lo + 1
                    /\ \A k \in 1..(hi - lo + 1) : Stripped(a)[k] = a[lo + k - 1]
<1>1. CASE InkedPieces(a) = {}
  BY <1>1 DEF Stripped
<1>2. CASE InkedPieces(a) # {}
  <2> DEFINE lo == Min(InkedPieces(a))
             hi == Max(InkedPieces(a))
  <2>1. lo \in 1..Len(a) /\ hi \in 1..Len(a) /\ lo <= hi
    BY <1>2, InkedBounds
  <2>2. Stripped(a) = SubSeq(a, lo, hi)
    BY <1>2 DEF Stripped
  <2> HIDE DEF lo, hi
  <2>3. lo \in Nat \ {0} /\ hi \in Nat /\ hi <= Len(a)
    BY <2>1
  <2>4. /\ SubSeq(a, lo, hi) \in Seq(AnswerPieces)
        /\ Len(SubSeq(a, lo, hi)) = hi - lo + 1
        /\ \A k \in 1..(hi - lo + 1) : SubSeq(a, lo, hi)[k] = a[lo + k - 1]
    BY <2>1, <2>3, SubSeqElements
  <2> QED BY <1>2, <2>2, <2>4 DEF lo, hi
<1> QED BY <1>1, <1>2

\* The strip leaves a clean answer clean.
LEMMA StrippedIsClean ==
    ASSUME NEW a \in Seq(AnswerPieces), Clean(a)
    PROVE  Stripped(a) \in Seq(AnswerPieces) /\ Clean(Stripped(a))
<1>1. CASE InkedPieces(a) = {}
  BY <1>1 DEF Stripped, Clean
<1>2. CASE InkedPieces(a) # {}
  <2> DEFINE lo == Min(InkedPieces(a))
             hi == Max(InkedPieces(a))
             b == Stripped(a)
  <2>1. lo \in 1..Len(a) /\ hi \in 1..Len(a) /\ \A i \in 1..Len(a) : a[i] # LineEnd => lo <= i
    BY <1>2, InkedBounds
  <2>2. b \in Seq(AnswerPieces) /\ Len(b) = hi - lo + 1 /\ \A k \in 1..(hi - lo + 1) : b[k] = a[lo + k - 1]
    BY <1>2, StrippedIs
  <2> HIDE DEF lo, hi, b
  <2>3. ASSUME NEW k \in 1..Len(b) PROVE b[k].k # "bare" /\ ~DumpOpens(b, k)
    <3> DEFINE i == lo + k - 1
    <3>1. i \in 1..Len(a) /\ b[k] = a[i]
      BY <2>1, <2>2
    <3>2. ASSUME DumpOpens(b, k) PROVE DumpOpens(a, i)
      <4>1. k \in 1..(Len(b) - 1) /\ b[k].k = "cite" /\ b[k + 1] = Heading /\ (k = 1 \/ b[k - 1] = LineEnd)
        BY <3>2 DEF DumpOpens
      <4>2. i \in 1..(Len(a) - 1) /\ b[k + 1] = a[i + 1]
        <5>1. lo + (k + 1) - 1 = i + 1 /\ k + 1 \in 1..(hi - lo + 1)
          <6>1. lo \in Int /\ hi \in Int
            BY <2>1
          <6>2. k \in 1..(hi - lo)
            <7>1. Len(b) - 1 = hi - lo
              BY <2>2, <6>1
            <7> QED BY <4>1, <7>1
          <6> QED BY <6>1, <6>2
        <5>2. b[k + 1] = a[lo + (k + 1) - 1]
          BY <2>2, <5>1
        <5>3. i \in 1..(Len(a) - 1)
          BY <2>1, <2>2, <3>1, <5>1
        <5> QED BY <5>1, <5>2, <5>3
      <4>3. i = 1 \/ a[i - 1] = LineEnd
        <5>1. CASE k = 1
          <6>1. i = lo
            BY <5>1, <2>1
          <6>2. i - 1 \in 1..Len(a) => a[i - 1] = LineEnd
            BY <2>1, <6>1
          <6> QED BY <3>1, <6>2
        <5>2. CASE k # 1
          <6>1. k - 1 \in 1..(hi - lo + 1) /\ lo + (k - 1) - 1 = i - 1
            BY <2>1, <2>2, <5>2
          <6> QED BY <2>2, <4>1, <5>2, <6>1
        <5> QED BY <5>1, <5>2
      <4> QED BY <3>1, <4>1, <4>2, <4>3 DEF DumpOpens
    <3> QED BY <3>1, <3>2 DEF Clean
  <2>4. Clean(b)
    BY <2>3 DEF Clean
  <2> QED BY <2>2, <2>4 DEF b
<1> QED BY <1>1, <1>2

\* What becomes of an answer has neither bare markers nor heading dumps.
LEMMA NormalizeCleans ==
    ASSUME NEW a \in Seq(AnswerPieces)
    PROVE  Normalize(a) \in Seq(AnswerPieces) /\ Clean(Normalize(a))
<1>1. Marked(a) \in Seq(AnswerPieces) /\ NoBare(Marked(a))
  BY MarkedHasNoBare
<1>2. Undumped(Marked(a)) \in Seq(AnswerPieces) /\ Clean(Undumped(Marked(a)))
  BY <1>1, UndumpedIsClean
<1>3. Thin(Undumped(Marked(a))) \in Seq(AnswerPieces) /\ Clean(Thin(Undumped(Marked(a))))
  BY <1>2, ThinIsClean
<1> QED BY <1>3, StrippedIsClean, NormalizeSteps

------------------------------------------------------------------------------

\* Only a heading dump takes markers away.
LEMMA UndumpedWhole ==
    ASSUME NEW a \in Seq(AnswerPieces), Clean(a)
    PROVE  Undumped(a) = a
<1>1. Len(a) \in Nat /\ DOMAIN a = 1..Len(a)
  OBVIOUS
<1>2. ASSUME NEW i \in 1..Len(a), InHeadingDump(a, i) PROVE FALSE
  <2>1. PICK j \in 1..i : /\ a[j].k = "cite" /\ (j = 1 \/ a[j - 1] = LineEnd)
                          /\ j < Len(a) /\ a[j + 1] = Heading
    BY <1>2 DEF InHeadingDump
  <2>2. j \in 1..Len(a) /\ DumpOpens(a, j)
    BY <1>1, <2>1 DEF DumpOpens
  <2> QED BY <2>2 DEF Clean
<1>3. {i \in DOMAIN a : ~InHeadingDump(a, i)} = 1..Len(a)
  BY <1>1, <1>2
<1> QED BY <1>3, KeptAll DEF Undumped

\* In a clean answer there is no marker left to write out.
LEMMA MarkedWhole ==
    ASSUME NEW a \in Seq(AnswerPieces), Clean(a)
    PROVE  Marked(a) = a
<1>1. Len(a) \in Nat /\ DOMAIN a = 1..Len(a)
  OBVIOUS
<1>2. \A i \in 1..Len(a) : (IF a[i].k = "bare" THEN Cite(a[i].n) ELSE a[i]) = a[i]
  BY DEF Clean
<1> QED BY <1>1, <1>2 DEF Marked

\* The numbers an answer cites are those of its markers.
LEMMA CitedIs ==
    ASSUME NEW a \in Seq(AnswerPieces)
    PROVE  \A v : v \in Cited(a) <=> \E i \in 1..Len(a) : a[i].k = "cite" /\ a[i].n = v
<1>1. DOMAIN a = 1..Len(a)
  OBVIOUS
<1> QED BY <1>1 DEF Cited

\* Dropping line ends takes no citation away.
LEMMA ThinCites ==
    ASSUME NEW a \in Seq(AnswerPieces)
    PROVE  Thin(a) \in Seq(AnswerPieces) /\ Cited(Thin(a)) = Cited(a)
<1> DEFINE I == {i \in DOMAIN a :
               ~(i > 2 /\ a[i] = LineEnd /\ a[i - 1] = LineEnd /\ a[i - 2] = LineEnd)}
           b == Kept(a, I)
<1>1. I \in SUBSET (1..Len(a)) /\ DOMAIN a = 1..Len(a)
  OBVIOUS
<1>2. \A i \in 1..Len(a) : a[i].k = "cite" => i \in I
  BY <1>1 DEF LineEnd, Piece
<1> HIDE DEF I
<1>3. /\ b \in Seq(AnswerPieces) /\ DOMAIN b = 1..Len(b)
      /\ \A k \in DOMAIN b : \E p \in I : b[k] = a[p]
      /\ \A p \in I : \E k \in DOMAIN b : b[k] = a[p]
  BY <1>1, KeptElements
<1> HIDE DEF b
<1>4. \A v : v \in Cited(b) <=> v \in Cited(a)
  <2>1. \A v : v \in Cited(b) <=> \E i \in 1..Len(b) : b[i].k = "cite" /\ b[i].n = v
    BY <1>3, CitedIs
  <2>2. \A v : v \in Cited(a) <=> \E i \in 1..Len(a) : a[i].k = "cite" /\ a[i].n = v
    BY CitedIs
  <2>3. ASSUME NEW v, v \in Cited(b) PROVE v \in Cited(a)
    BY <1>1, <1>3, <2>1, <2>2, <2>3
  <2>4. ASSUME NEW v, v \in Cited(a) PROVE v \in Cited(b)
    <3>1. PICK i \in 1..Len(a) : a[i].k = "cite" /\ a[i].n = v
      BY <2>2, <2>4
    <3>2. PICK k \in DOMAIN b : b[k] = a[i]
      BY <1>2, <1>3, <3>1
    <3> QED BY <1>3, <2>1, <3>1, <3>2
  <2> QED BY <2>3, <2>4
<1>5. Thin(a) = b
  BY DEF Thin, b, I
<1> QED BY <1>3, <1>4, <1>5

\* Nor does the strip.
LEMMA StrippedCites ==
    ASSUME NEW a \in Seq(AnswerPieces)
    PROVE  Stripped(a) \in Seq(AnswerPieces) /\ Cited(Stripped(a)) = Cited(a)
<1>1. DOMAIN a = 1..Len(a) /\ Len(a) \in Nat
  OBVIOUS
<1>2. \A i \in 1..Len(a) : a[i].k = "cite" => a[i] # LineEnd
  BY DEF LineEnd, Piece
<1>3. \A v : v \in Cited(a) <=> \E i \in 1..Len(a) : a[i].k = "cite" /\ a[i].n = v
  BY CitedIs
<1>4. CASE InkedPieces(a) = {}
  <2>1. Cited(a) = {}
    BY <1>1, <1>2, <1>3, <1>4 DEF InkedPieces
  <2>2. Cited(<<>>) = {}
    BY DEF Cited
  <2> QED BY <1>4, <2>1, <2>2 DEF Stripped
<1>5. CASE InkedPieces(a) # {}
  <2> DEFINE lo == Min(InkedPieces(a))
             hi == Max(InkedPieces(a))
             b == Stripped(a)
  <2>1. lo \in 1..Len(a) /\ hi \in 1..Len(a) /\ lo <= hi /\ \A i \in 1..Len(a) : a[i] # LineEnd => lo <= i /\ i <= hi
    BY <1>5, InkedBounds
  <2>2. b \in Seq(AnswerPieces) /\ Len(b) = hi - lo + 1 /\ \A k \in 1..(hi - lo + 1) : b[k] = a[lo + k - 1]
    BY <1>5, StrippedIs
  <2> HIDE DEF lo, hi, b
  <2>3. \A v : v \in Cited(b) <=> \E i \in 1..Len(b) : b[i].k = "cite" /\ b[i].n = v
    BY <2>2, CitedIs
  <2>4. ASSUME NEW v, v \in Cited(b) PROVE v \in Cited(a)
    <3>1. PICK k \in 1..Len(b) : b[k].k = "cite" /\ b[k].n = v
      BY <2>3, <2>4
    <3>2. lo + k - 1 \in 1..Len(a) /\ b[k] = a[lo + k - 1]
      BY <2>1, <2>2, <3>1
    <3> QED BY <1>3, <3>1, <3>2
  <2>5. ASSUME NEW v, v \in Cited(a) PROVE v \in Cited(b)
    <3>1. PICK i \in 1..Len(a) : a[i].k = "cite" /\ a[i].n = v
      BY <1>3, <2>5
    <3>2. lo <= i /\ i <= hi
      BY <1>2, <2>1, <3>1
    <3>3. i - lo + 1 \in 1..Len(b) /\ b[i - lo + 1] = a[i]
      <4>1. i - lo + 1 \in 1..(hi - lo + 1) /\ lo + (i - lo + 1) - 1 = i
        BY <2>1, <3>2
      <4> QED BY <2>2, <4>1
    <3> QED BY <2>3, <3>1, <3>3
  <2> QED BY <2>2, <2>4, <2>5 DEF b
<1> QED BY <1>4, <1>5

\* Normalizing a second time keeps every marker.
LEMMA CleanKeepsCites ==
    ASSUME NEW a \in Seq(AnswerPieces), Clean(a)
    PROVE  Normalize(a) \in Seq(AnswerPieces) /\ Cited(Normalize(a)) = Cited(a)
<1>1. Normalize(a) = Stripped(Thin(a))
  BY MarkedWhole, UndumpedWhole, NormalizeSteps
<1>2. Thin(a) \in Seq(AnswerPieces) /\ Cited(Thin(a)) = Cited(a)
  BY ThinCites
<1> QED BY <1>1, <1>2, StrippedCites

------------------------------------------------------------------------------
\* Citations.

\* A source is a chunk of the context, the last one of its rank.
LEMMA SourceIndexIs ==
    ASSUME NEW chunks, chunks \in Seq(ToSet(chunks))
    PROVE  \A v \in DOMAIN SourceIndex(chunks) :
              \E i \in DOMAIN chunks : chunks[i].rank = v /\ SourceIndex(chunks)[v] = chunks[i]
<1>1. DOMAIN chunks = 1..Len(chunks) /\ Len(chunks) \in Nat
  OBVIOUS
<1>2. ASSUME NEW v \in DOMAIN SourceIndex(chunks)
      PROVE  \E i \in DOMAIN chunks : chunks[i].rank = v /\ SourceIndex(chunks)[v] = chunks[i]
  <2> DEFINE I == {i \in DOMAIN chunks : chunks[i].rank = v}
  <2>1. v \in {chunks[i].rank : i \in DOMAIN chunks} /\ SourceIndex(chunks)[v] = chunks[Max(I)]
    BY <1>2, Zenon DEF SourceIndex
  <2>2. I \in SUBSET (1..Len(chunks)) /\ I # {}
    BY <1>1, <2>1
  <2>3. Max(I) \in I
    BY <1>1, <2>2, MaxUpTo
  <2> QED BY <2>1, <2>3
<1> QED BY <1>2

\* The first marker of each known source.
FirstMarkers(m, known) ==
    {i \in DOMAIN m : m[i].k = "cite" /\ m[i].n \in known /\ \A j \in 1..(i - 1) : m[j] # m[i]}

\* They resolve every known source the answer cites, each one once.
LEMMA ParsedIs ==
    ASSUME NEW a, NEW chunks, Normalize(a) \in Seq(AnswerPieces)
    PROVE  LET c == ParseCitations(a, chunks)
               index == SourceIndex(chunks)
           IN  /\ Len(c) \in Nat /\ DOMAIN c = 1..Len(c)
               /\ {c[k].source_index : k \in DOMAIN c} = Cited(Normalize(a)) \cap DOMAIN index
               /\ \A k \in DOMAIN c : c[k].chunk_id = index[c[k].source_index].id
               /\ \A j, k \in DOMAIN c : c[j].source_index = c[k].source_index => j = k
<1> DEFINE m == Normalize(a)
           index == SourceIndex(chunks)
           I == FirstMarkers(m, DOMAIN index)
           o == Ordered(I, Len(m))
           s == Kept(m, I)
           c == ParseCitations(a, chunks)
<1>1. c = Citations(s, index)
  BY Zenon DEF ParseCitations, FirstMarkers
<1> HIDE DEF m, index, c
<1>2. m \in Seq(AnswerPieces) /\ DOMAIN m = 1..Len(m) /\ Len(m) \in Nat
  BY DEF m
<1>3. I \in SUBSET (1..Len(m))
  BY <1>2 DEF FirstMarkers
<1> HIDE DEF I
<1>4. /\ s \in Seq(AnswerPieces) /\ Len(s) = Len(o) /\ Len(o) \in Nat
      /\ \A k \in 1..Len(o) : o[k] \in I /\ s[k] = m[o[k]]
      /\ \A j, k \in 1..Len(o) : j < k => o[j] < o[k]
      /\ \A p \in I : \E k \in 1..Len(o) : o[k] = p
  BY <1>2, <1>3, KeptIs
<1> HIDE DEF s, o
<1>5. DOMAIN s = 1..Len(o)
  BY <1>4
<1>6. c = [k \in 1..Len(o) |-> [source_index |-> s[k].n, chunk_id |-> index[s[k].n].id,
                                 source_text |-> index[s[k].n].text]]
  BY <1>1, <1>5 DEF Citations
<1>7. Len(c) = Len(o) /\ DOMAIN c = 1..Len(o)
  BY <1>4, <1>6
<1>8. \A k \in 1..Len(o) : c[k].source_index = m[o[k]].n /\ c[k].chunk_id = index[m[o[k]].n].id
  BY <1>4, <1>6
<1>9. \A i \in I : /\ i \in 1..Len(m) /\ m[i].k = "cite" /\ m[i].n \in DOMAIN index
                   /\ \A j \in 1..(i - 1) : m[j] # m[i]
  BY <1>2 DEF I, FirstMarkers
<1>10. \A v : v \in Cited(m) <=> \E i \in 1..Len(m) : m[i].k = "cite" /\ m[i].n = v
  BY <1>2, CitedIs
<1>11. \A i, j \in 1..Len(m) : m[i].k = "cite" /\ m[j].k = "cite" /\ m[i].n = m[j].n => m[i] = m[j]
  <2>1. \A p, q \in AnswerPieces : p.k = q.k /\ p.n = q.n => p = q
    BY DEF AnswerPieces
  <2>2. \A i \in 1..Len(m) : m[i] \in AnswerPieces
    BY <1>2
  <2> QED BY <2>1, <2>2
<1>12. ASSUME NEW k \in 1..Len(o) PROVE c[k].source_index \in Cited(m) \cap DOMAIN index
  <2>1. o[k] \in I
    BY <1>4
  <2> QED BY <1>8, <1>9, <1>10, <2>1
<1>13. ASSUME NEW v \in Cited(m) \cap DOMAIN index PROVE \E k \in 1..Len(o) : c[k].source_index = v
  <2> DEFINE J == {i \in 1..Len(m) : m[i].k = "cite" /\ m[i].n = v}
  <2>1. J \in SUBSET Nat /\ J # {}
    BY <1>10
  <2>2. PICK i \in J : \A j \in J : i <= j
    BY <2>1, LeastNatural
  <2>3. \A j \in 1..(i - 1) : m[j] # m[i]
    <3>1. SUFFICES ASSUME NEW j \in 1..(i - 1), m[j] = m[i] PROVE FALSE
      OBVIOUS
    <3>2. j \in J /\ j < i
      BY <1>2, <2>2, <3>1
    <3> QED BY <2>2, <3>2
  <2>4. i \in I
    BY <1>2, <2>2, <2>3 DEF I, FirstMarkers
  <2>5. PICK k \in 1..Len(o) : o[k] = i
    BY <1>4, <2>4
  <2> QED BY <1>8, <2>2, <2>5
<1>14. ASSUME NEW j \in 1..Len(o), NEW k \in 1..Len(o), j < k,
              c[j].source_index = c[k].source_index
       PROVE  FALSE
  <2>1. o[j] \in I /\ o[k] \in I /\ o[j] < o[k]
    BY <1>4, <1>14
  <2>2. m[o[j]] = m[o[k]]
    <3>1. m[o[j]].n = m[o[k]].n
      BY <1>8, <1>14
    <3> QED BY <1>9, <1>11, <2>1, <3>1
  <2>3. o[j] \in 1..(o[k] - 1)
    BY <1>2, <1>9, <2>1
  <2> QED BY <1>9, <2>1, <2>2, <2>3
<1>15. \A k \in 1..Len(o) : c[k].chunk_id = index[c[k].source_index].id
  BY <1>8
<1>16. \A j, k \in 1..Len(o) : c[j].source_index = c[k].source_index => j = k
  <2>1. \A j, k \in 1..Len(o) : j < k \/ k < j \/ j = k
    BY <1>4
  <2> QED BY <1>14, <2>1
<1>17. {c[k].source_index : k \in 1..Len(o)} = Cited(m) \cap DOMAIN index
  BY <1>12, <1>13
<1>18. Len(c) \in Nat
  BY <1>4, <1>7
<1> QED BY <1>7, <1>15, <1>16, <1>17, <1>18 DEF c, m, index

------------------------------------------------------------------------------

\* Of the markers, those that resolve are left, and the answer is untouched when all do.
LEMMA StripUnresolvedIs ==
    ASSUME NEW a \in Seq(AnswerPieces), NEW R
    PROVE  /\ StripUnresolved(a, R) \in Seq(AnswerPieces)
           /\ Cited(StripUnresolved(a, R)) = Cited(a) \cap R
           /\ Cited(a) \subseteq R => StripUnresolved(a, R) = a
<1> DEFINE I == {i \in DOMAIN a : a[i].k = "cite" => a[i].n \in R}
           b == Kept(a, I)
<1>1. StripUnresolved(a, R) = b
  BY Zenon DEF StripUnresolved, Where
<1>2. DOMAIN a = 1..Len(a) /\ I \in SUBSET (1..Len(a))
  OBVIOUS
<1>3. \A i \in 1..Len(a) : i \in I <=> (a[i].k = "cite" => a[i].n \in R)
  BY <1>2
<1> HIDE DEF I
<1>4. /\ b \in Seq(AnswerPieces) /\ DOMAIN b = 1..Len(b)
      /\ \A k \in DOMAIN b : \E p \in I : b[k] = a[p]
      /\ \A p \in I : \E k \in DOMAIN b : b[k] = a[p]
  BY <1>2, KeptElements
<1>5. \A v : v \in Cited(a) <=> \E i \in 1..Len(a) : a[i].k = "cite" /\ a[i].n = v
  BY CitedIs
<1>6. ASSUME Cited(a) \subseteq R PROVE b = a
  <2>1. I = 1..Len(a)
    BY <1>2, <1>3, <1>5, <1>6
  <2> QED BY <2>1, KeptAll
<1> HIDE DEF b
<1>7. \A v : v \in Cited(b) <=> \E i \in 1..Len(b) : b[i].k = "cite" /\ b[i].n = v
  BY <1>4, CitedIs
<1>8. ASSUME NEW v, v \in Cited(b) PROVE v \in Cited(a) /\ v \in R
  <2>1. PICK k \in DOMAIN b : b[k].k = "cite" /\ b[k].n = v
    BY <1>4, <1>7, <1>8
  <2>2. PICK p \in I : b[k] = a[p]
    BY <1>4, <2>1
  <2> QED BY <1>2, <1>3, <1>5, <2>1, <2>2
<1>9. ASSUME NEW v, v \in Cited(a), v \in R PROVE v \in Cited(b)
  <2>1. PICK p \in 1..Len(a) : a[p].k = "cite" /\ a[p].n = v
    BY <1>5, <1>9
  <2>2. PICK k \in DOMAIN b : b[k] = a[p]
    BY <1>3, <1>4, <1>9, <2>1
  <2> QED BY <1>4, <1>7, <2>1, <2>2
<1> QED BY <1>1, <1>4, <1>6, <1>8, <1>9

\* What GenerationService.generate returns.
LEMMA AnswerIs ==
    ASSUME NEW chunks, NEW content
    PROVE  Answer(chunks, content) =
              LET a == Normalize(content)
                  c == ParseCitations(a, chunks)
              IN  IF chunks = <<>> THEN Result(Refusal, <<>>, TRUE)
                  ELSE IF Refused(a) THEN Result(a, <<>>, TRUE)
                  ELSE Result(StripUnresolved(a, {c[k].source_index : k \in DOMAIN c}), c, FALSE)
BY Zenon DEF Answer, ResolvedOnly

\* What stream_query ends with.
LEMMA StreamedAnswerIs ==
    ASSUME NEW chunks, NEW content, chunks # <<>>
    PROVE  LET a == Normalize(content)
               c == ParseCitations(a, chunks)
           IN  /\ Refused(a) => StreamedAnswer(chunks, content) = Result(a, <<>>, TRUE)
               /\ ~Refused(a) /\ c # <<>> => StreamedAnswer(chunks, content) = Result(a, c, FALSE)
BY Zenon DEF StreamedAnswer

\* Every marker of an answer opens the chunk the model saw under it.
THEOREM AnswersOpen ==
    ASSUME NEW chunks, chunks \in Seq(ToSet(chunks)), NEW content \in Seq(AnswerPieces)
    PROVE  CitationsOpen(Answer(chunks, content), chunks)
<1> DEFINE a == Normalize(content)
           c == ParseCitations(a, chunks)
           R == {c[k].source_index : k \in DOMAIN c}
           r == Answer(chunks, content)
<1>1. a \in Seq(AnswerPieces) /\ Clean(a)
  BY NormalizeCleans
<1>2. CASE chunks = <<>> \/ Refused(a)
  <2>1. r.refused /\ r.citations = <<>>
    BY <1>2, AnswerIs DEF Result
  <2> HIDE DEF r
  <2>2. CitationsOpen(r, chunks)
    BY <2>1 DEF CitationsOpen
  <2> QED BY <2>2 DEF r
<1>3. CASE chunks # <<>> /\ ~Refused(a)
  <2>1. r = Result(StripUnresolved(a, R), c, FALSE)
    BY <1>3, AnswerIs
  <2>2. Normalize(a) \in Seq(AnswerPieces) /\ Cited(Normalize(a)) = Cited(a)
    BY <1>1, CleanKeepsCites
  <2>3. /\ R = Cited(Normalize(a)) \cap DOMAIN SourceIndex(chunks)
        /\ \A k \in DOMAIN c : c[k].chunk_id = SourceIndex(chunks)[c[k].source_index].id
        /\ \A j, k \in DOMAIN c : c[j].source_index = c[k].source_index => j = k
    BY <2>2, ParsedIs
  <2> HIDE DEF a, c
  <2>4. Cited(StripUnresolved(a, R)) = Cited(a) \cap R
    BY <1>1, StripUnresolvedIs
  <2>5. Cited(StripUnresolved(a, R)) = R
    BY <2>2, <2>3, <2>4
  <2>6. ASSUME NEW k \in DOMAIN c
        PROVE  \E i \in DOMAIN chunks :
                  chunks[i].rank = c[k].source_index /\ chunks[i].id = c[k].chunk_id
    <3>1. c[k].source_index \in DOMAIN SourceIndex(chunks)
      BY <2>3
    <3>2. PICK i \in DOMAIN chunks : /\ chunks[i].rank = c[k].source_index
                                     /\ SourceIndex(chunks)[c[k].source_index] = chunks[i]
      BY <3>1, SourceIndexIs
    <3> QED BY <2>3, <3>2
  <2>7. r.answer = StripUnresolved(a, R) /\ r.citations = c /\ ~r.refused
    BY <2>1 DEF Result
  <2>8. Cited(r.answer) = {r.citations[k].source_index : k \in DOMAIN r.citations}
    BY <2>5, <2>7
  <2> HIDE DEF r, R
  <2>9. CitationsOpen(r, chunks)
    BY <2>3, <2>6, <2>7, <2>8 DEF CitationsOpen
  <2> QED BY <2>9 DEF r
<1> QED BY <1>2, <1>3

\* A streamed answer is the plain one when the model cited sources of the context only.
THEOREM StreamsAgree ==
    ASSUME NEW chunks, chunks \in Seq(ToSet(chunks)), NEW content \in Seq(AnswerPieces)
    PROVE  StreamAgrees(chunks, content)
<1> DEFINE a == Normalize(content)
           c == ParseCitations(a, chunks)
           R == {c[k].source_index : k \in DOMAIN c}
           known == Cited(a) # {} /\ Cited(a) \subseteq DOMAIN SourceIndex(chunks)
<1>1. a \in Seq(AnswerPieces) /\ Clean(a)
  BY NormalizeCleans
<1>2. SUFFICES ASSUME Refused(a) \/ known
               PROVE  StreamedAnswer(chunks, content) = Answer(chunks, content)
  BY Zenon DEF StreamAgrees
<1>3. CASE chunks = <<>>
  BY <1>3, Zenon DEF StreamedAnswer, Answer
<1>4. CASE chunks # <<>> /\ Refused(a)
  <2>1. StreamedAnswer(chunks, content) = Result(a, <<>>, TRUE)
    BY <1>4, StreamedAnswerIs
  <2> QED BY <1>4, <2>1, AnswerIs
<1>5. CASE chunks # <<>> /\ ~Refused(a)
  <2>1. Normalize(a) \in Seq(AnswerPieces) /\ Cited(Normalize(a)) = Cited(a)
    BY <1>1, CleanKeepsCites
  <2>2. R = Cited(Normalize(a)) \cap DOMAIN SourceIndex(chunks)
    BY <2>1, ParsedIs
  <2>3. Answer(chunks, content) = Result(StripUnresolved(a, R), c, FALSE)
    BY <1>5, AnswerIs
  <2>4. c # <<>> => StreamedAnswer(chunks, content) = Result(a, c, FALSE)
    BY <1>5, StreamedAnswerIs
  <2> HIDE DEF a, c
  <2>5. Cited(a) # {} /\ Cited(a) \subseteq R
    BY <1>2, <1>5, <2>1, <2>2
  <2>6. c # <<>>
    <3>1. c = <<>> => R = {}
      OBVIOUS
    <3> QED BY <2>5, <3>1
  <2>7. StripUnresolved(a, R) = a
    <3> HIDE DEF R
    <3> QED BY <1>1, <2>5, StripUnresolvedIs
  <2> QED BY <2>3, <2>4, <2>6, <2>7
<1> QED BY <1>3, <1>4, <1>5

------------------------------------------------------------------------------
\* Counting.

\* The places of a list are finite, and as many as its length.
LEMMA UpToIsFinite ==
    ASSUME NEW n \in Nat
    PROVE  IsFiniteSet(1..n) /\ Cardinality(1..n) = n
<1>1. IsFiniteSet(1..n) /\ Cardinality(1..n) = IF 1 > n THEN 0 ELSE n - 1 + 1
  <2>1. 1 \in Int /\ n \in Int
    OBVIOUS
  <2> QED BY <2>1, FS_Interval
<1> QED BY <1>1

\* Two finite sets without a common member count together.
LEMMA DisjointUnion ==
    ASSUME NEW a, NEW b, IsFiniteSet(a), IsFiniteSet(b), a \cap b = {}
    PROVE  /\ IsFiniteSet(a \cup b)
           /\ Cardinality(a \cup b) = Cardinality(a) + Cardinality(b)
<1>1. Cardinality(a) \in Nat /\ Cardinality(b) \in Nat
  BY FS_CardinalityType
<1>2. /\ IsFiniteSet(a \cup b)
      /\ Cardinality(a \cup b) = Cardinality(a) + Cardinality(b) - Cardinality(a \cap b)
  BY FS_Union
<1>3. Cardinality(a \cap b) = 0
  BY FS_EmptySet
<1> QED BY <1>1, <1>2, <1>3

\* As many are kept as there are positions, no more than there were.
LEMMA KeptCount ==
    ASSUME NEW A, NEW s \in Seq(A), NEW I \in SUBSET (1..Len(s))
    PROVE  /\ Len(Kept(s, I)) \in Nat /\ Len(Kept(s, I)) = Cardinality(I)
           /\ Len(Kept(s, I)) <= Len(s)
<1> DEFINE n == Len(s)
           o == Ordered(I, n)
<1>1. /\ Len(Kept(s, I)) = Len(o) /\ Len(o) \in Nat
      /\ \A k \in 1..Len(o) : o[k] \in I
      /\ \A j, k \in 1..Len(o) : j < k => o[j] < o[k]
      /\ \A p \in I : \E k \in 1..Len(o) : o[k] = p
  BY KeptIs
<1>2. n \in Nat /\ \A p \in I : p \in Nat
  OBVIOUS
<1> HIDE DEF o, n
<1> DEFINE f == [k \in 1..Len(o) |-> o[k]]
<1>3. f \in Bijection(1..Len(o), I)
  <2>1. f \in [1..Len(o) -> I]
    BY <1>1
  <2>2. \A j, k \in 1..Len(o) : f[j] = f[k] => j = k
    <3>1. SUFFICES ASSUME NEW j \in 1..Len(o), NEW k \in 1..Len(o), o[j] = o[k] PROVE j = k
      OBVIOUS
    <3>2. j < k \/ k < j \/ j = k
      BY <1>1
    <3>3. o[j] \in Nat /\ o[k] \in Nat
      BY <1>1, <1>2
    <3>4. (j < k => o[j] < o[k]) /\ (k < j => o[k] < o[j])
      BY <1>1
    <3> QED BY <3>1, <3>2, <3>3, <3>4
  <2>3. \A p \in I : \E k \in 1..Len(o) : f[k] = p
    BY <1>1
  <2> HIDE DEF f
  <2>4. f \in Injection(1..Len(o), I)
    BY <2>1, <2>2 DEF Injection, IsInjective
  <2>5. f \in Surjection(1..Len(o), I)
    BY <2>1, <2>3 DEF Surjection
  <2> QED BY <2>4, <2>5 DEF Bijection
<1>4. IsFiniteSet(1..Len(o)) /\ Cardinality(1..Len(o)) = Len(o)
  BY <1>1, UpToIsFinite
<1>5. ExistsBijection(1..Len(o), I)
  BY <1>3 DEF ExistsBijection
<1>6. Cardinality(I) = Len(o)
  BY <1>4, <1>5, FS_Bijection
<1>7. IsFiniteSet(1..n) /\ Cardinality(1..n) = n
  BY <1>2, UpToIsFinite
<1>8. I \in SUBSET (1..n)
  BY DEF n
<1>9. Cardinality(I) <= n
  BY <1>7, <1>8, FS_Subset
<1> QED BY <1>1, <1>6, <1>9 DEF n

\* Four sets part the positions up to n.
Parted(a, b, c, d, n) ==
    /\ a \cup b \cup c \cup d = 1..n
    /\ a \cap b = {} /\ a \cap c = {} /\ a \cap d = {}
    /\ b \cap c = {} /\ b \cap d = {} /\ c \cap d = {}

\* The sizes of four parts of the places of a list add up to its length.
LEMMA FourParts ==
    ASSUME NEW n \in Nat, NEW a, NEW b, NEW c, NEW d, Parted(a, b, c, d, n)
    PROVE  /\ Cardinality(a) \in Nat /\ Cardinality(b) \in Nat
           /\ Cardinality(c) \in Nat /\ Cardinality(d) \in Nat
           /\ Cardinality(a) + Cardinality(b) + Cardinality(c) + Cardinality(d) = n
<1>1. IsFiniteSet(1..n) /\ Cardinality(1..n) = n
  BY FS_Interval
<1>2. a \in SUBSET (1..n) /\ b \in SUBSET (1..n) /\ c \in SUBSET (1..n) /\ d \in SUBSET (1..n)
  BY DEF Parted
<1>3. IsFiniteSet(a) /\ IsFiniteSet(b) /\ IsFiniteSet(c) /\ IsFiniteSet(d)
  BY <1>1, <1>2, FS_Subset
<1>4. /\ Cardinality(a) \in Nat /\ Cardinality(b) \in Nat
      /\ Cardinality(c) \in Nat /\ Cardinality(d) \in Nat
  BY <1>3, FS_CardinalityType
<1>5. IsFiniteSet(a \cup b) /\ Cardinality(a \cup b) = Cardinality(a) + Cardinality(b)
  BY <1>3, DisjointUnion DEF Parted
<1>6. (a \cup b) \cap c = {} /\ (a \cup b \cup c) \cap d = {}
  BY DEF Parted
<1>7. /\ IsFiniteSet(a \cup b \cup c)
      /\ Cardinality(a \cup b \cup c) = Cardinality(a \cup b) + Cardinality(c)
  BY <1>3, <1>5, <1>6, DisjointUnion
<1>8. Cardinality(a \cup b \cup c \cup d) = Cardinality(a \cup b \cup c) + Cardinality(d)
  BY <1>3, <1>6, <1>7, DisjointUnion
<1>9. a \cup b \cup c \cup d = 1..n
  BY DEF Parted
<1> QED BY <1>1, <1>4, <1>5, <1>7, <1>8, <1>9

------------------------------------------------------------------------------

\* Rates.
LEMMA TimesKeepsOrder ==
    ASSUME NEW d \in Int, NEW e \in Int, d <= e, NEW t \in Nat
    PROVE  d * t \in Int /\ e * t \in Int /\ d * t <= e * t
<1>1. e - d \in Nat /\ (e - d) * t \in Nat
  <2>1. e - d \in Nat
    OBVIOUS
  <2>2. \A p, q \in Nat : p * q \in Nat
    OBVIOUS
  <2> QED BY <2>1, <2>2
<1>2. (e - d) * t = e * t - d * t
  OBVIOUS
<1>3. d * t \in Int /\ e * t \in Int
  OBVIOUS
<1> QED BY <1>1, <1>2, <1>3

\* What division leaves out is less than the divisor.
LEMMA Quotient ==
    ASSUME NEW m \in Nat, NEW t \in Nat \ {0}
    PROVE  /\ m \div t \in Nat
           /\ (m \div t) * t <= m /\ m < (m \div t) * t + t
BY Z3

\* The greatest multiple below.
LEMMA QuotientBounds ==
    ASSUME NEW m \in Nat, NEW t \in Nat \ {0}, NEW q \in Nat
    PROVE  q * t <= m <=> q <= m \div t
<1> DEFINE r == m \div t
<1>1. r \in Nat /\ r * t <= m /\ m < r * t + t
  BY Quotient
<1> HIDE DEF r
<1>2. ASSUME q <= r PROVE q * t <= m
  <2>1. q * t <= r * t /\ q * t \in Int /\ r * t \in Int
    BY <1>1, <1>2, TimesKeepsOrder
  <2> QED BY <1>1, <2>1
<1>3. ASSUME q > r PROVE q * t > m
  <2>1. r + 1 <= q /\ r + 1 \in Int
    BY <1>1, <1>3
  <2>2. (r + 1) * t <= q * t /\ q * t \in Int /\ (r + 1) * t \in Int
    BY <2>1, TimesKeepsOrder
  <2>3. (r + 1) * t = r * t + t /\ r * t \in Int
    BY <1>1
  <2> QED BY <1>1, <2>2, <2>3
<1>4. q * t \in Int
  OBVIOUS
<1> QED BY <1>1, <1>2, <1>3, <1>4 DEF r

\* A rate is a natural number.
LEMMA RateType ==
    ASSUME NEW m \in Nat, NEW t \in Nat
    PROVE  Rate(m, t) \in Nat
<1>1. Scale * m \in Nat
  BY ScalePositive
<1>2. CASE t = 0
  BY <1>2 DEF Rate
<1>3. CASE t # 0
  BY <1>1, <1>3, Quotient DEF Rate
<1> QED BY <1>2, <1>3

\* A rate grows with what it counts.
LEMMA RatesGrow ==
    ASSUME NEW m \in Nat, NEW p \in Nat, m <= p, NEW t \in Nat
    PROVE  Rate(m, t) <= Rate(p, t)
<1>1. CASE t = 0
  BY <1>1 DEF Rate
<1>2. CASE t # 0
  <2> DEFINE c == Scale * m
             d == Scale * p
  <2>1. c \in Nat /\ d \in Nat /\ c <= d
    <3>1. m * Scale <= p * Scale /\ m * Scale = c /\ p * Scale = d
      BY ScalePositive, TimesKeepsOrder
    <3> QED BY <3>1, ScalePositive
  <2>2. Rate(m, t) = c \div t /\ Rate(p, t) = d \div t
    BY <1>2 DEF Rate
  <2> HIDE DEF c, d
  <2>3. c \div t \in Nat /\ (c \div t) * t <= c
    BY <1>2, <2>1, Quotient
  <2>4. (c \div t) * t \in Int
    BY <2>3
  <2>5. (c \div t) * t <= d
    BY <2>1, <2>3, <2>4
  <2>6. c \div t <= d \div t
    BY <1>2, <2>1, <2>3, <2>5, QuotientBounds
  <2> QED BY <2>2, <2>6
<1> QED BY <1>1, <1>2

\* Two rates of one whole lose no more than one together.
LEMMA RatesAddUp ==
    ASSUME NEW m \in Nat, NEW p \in Nat, m + p > 0
    PROVE  Rate(m, m + p) + Rate(p, m + p) \in (Scale - 1)..Scale
<1> DEFINE t == m + p
           c == Scale * m
           d == Scale * p
           u == c \div t
           v == d \div t
<1>1. t \in Nat \ {0} /\ c \in Nat /\ d \in Nat /\ c + d = Scale * t
  BY ScalePositive
<1>2. Rate(m, t) = u /\ Rate(p, t) = v
  BY <1>1 DEF Rate
<1>3. u \in Nat /\ u * t <= c /\ c < u * t + t
  <2> HIDE DEF t, c, d
  <2> QED BY <1>1, Quotient
<1>4. v \in Nat /\ v * t <= d /\ d < v * t + t
  <2> HIDE DEF t, c, d
  <2> QED BY <1>1, Quotient
<1> HIDE DEF t, c, d, u, v
<1> DEFINE w == u + v
<1>5. w * t = u * t + v * t /\ u * t \in Int /\ v * t \in Int /\ w \in Nat
  BY <1>1, <1>3, <1>4
<1> HIDE DEF w
<1>6. w * t <= Scale * t /\ Scale * t < w * t + t + t
  BY <1>1, <1>3, <1>4, <1>5
<1>7. w <= Scale
  <2>1. SUFFICES ASSUME Scale + 1 <= w PROVE FALSE
    BY <1>5, ScalePositive
  <2>2. (Scale + 1) * t <= w * t
    BY <2>1, <1>1, <1>5, ScalePositive, TimesKeepsOrder
  <2>3. (Scale + 1) * t = Scale * t + t /\ Scale * t \in Int
    BY <1>1, ScalePositive
  <2> QED BY <1>1, <1>5, <1>6, <2>2, <2>3
<1>8. Scale - 1 <= w
  <2>1. SUFFICES ASSUME w + 2 <= Scale PROVE FALSE
    BY <1>5, ScalePositive
  <2>2. (w + 2) * t <= Scale * t
    BY <2>1, <1>1, <1>5, ScalePositive, TimesKeepsOrder
  <2>3. (w + 2) * t = w * t + t + t /\ w * t \in Int /\ Scale * t \in Int
    BY <1>1, <1>5, ScalePositive
  <2> QED BY <1>1, <1>6, <2>2, <2>3
<1>9. w \in (Scale - 1)..Scale
  BY <1>5, <1>7, <1>8, ScalePositive
<1> QED BY <1>2, <1>9 DEF w, t

\* A rate of something is not rounded to nothing while the scale resolves the whole.
LEMMA RateSeen ==
    ASSUME NEW m \in Nat, NEW t \in Nat, t <= Scale, m > 0 => t > 0
    PROVE  Rate(m, t) > 0 <=> m > 0
<1>1. CASE m = 0
  <2>1. Scale * m = 0
    BY <1>1, ScalePositive
  <2>2. CASE t = 0
    BY <1>1, <2>2 DEF Rate
  <2>3. CASE t # 0
    <3>1. 0 \div t = 0
      BY <2>3
    <3> QED BY <1>1, <2>1, <2>3, <3>1 DEF Rate
  <2> QED BY <2>2, <2>3
<1>2. CASE m # 0
  <2> DEFINE c == Scale * m
  <2>1. t # 0
    BY <1>2
  <2>2. Rate(m, t) = c \div t
    BY <2>1 DEF Rate
  <2>3. c \in Nat /\ t <= c
    <3>1. 1 * Scale <= m * Scale /\ m * Scale = c /\ 1 * Scale = Scale
      BY <1>2, ScalePositive, TimesKeepsOrder
    <3> QED BY <3>1, ScalePositive
  <2> HIDE DEF c
  <2>4. 1 * t <= c
    BY <2>3
  <2>5. 1 <= c \div t
    BY <2>1, <2>3, <2>4, QuotientBounds
  <2>6. c \div t \in Nat
    BY <2>1, <2>3, Quotient
  <2> QED BY <1>2, <2>2, <2>5, <2>6
<1> QED BY <1>1, <1>2

------------------------------------------------------------------------------
\* The citations of claims, counted.
CitationCount(claims) == MapThenSumSet(LAMBDA k : Len(claims[k].citations), DOMAIN claims)
Some(d) == CHOOSE p \in d : TRUE
Sums(f, claims, n) ==
    f = [d \in SUBSET (1..n) |->
            IF d = {} THEN 0 ELSE Len(claims[Some(d)].citations) + f[d \ {Some(d)}]]

\* The citations of a list of claims are counted by a fold over the claims.
LEMMA CitationCountIs ==
    ASSUME NEW claims, NEW n, DOMAIN claims = 1..n
    PROVE  CitationCount(claims) = (CHOOSE f : Sums(f, claims, n))[1..n]
BY Zenon DEF CitationCount, MapThenSumSet, MapThenFoldSet, Sums, Some

\* A claim taken from a set of claims leaves one less.
LEMMA SomeIsOne ==
    ASSUME NEW n \in Nat, NEW d \in SUBSET (1..n), d # {}
    PROVE  /\ Some(d) \in d /\ d \ {Some(d)} \in SUBSET (1..n)
           /\ IsFiniteSet(d) /\ Cardinality(d) \in Nat
           /\ Cardinality(d \ {Some(d)}) = Cardinality(d) - 1
<1>1. Some(d) \in d
  BY DEF Some
<1>2. IsFiniteSet(d) /\ Cardinality(d) \in Nat
  <2>1. IsFiniteSet(1..n)
    BY UpToIsFinite
  <2>2. IsFiniteSet(d)
    BY <2>1, FS_Subset
  <2> QED BY <2>2, FS_CardinalityType
<1>3. Cardinality(d \ {Some(d)}) = Cardinality(d) - 1
  BY <1>1, <1>2, FS_RemoveElement
<1> QED BY <1>1, <1>2, <1>3

\* There is such a function: the number of pairs of a claim and a place in its list.
LEMMA SumsExist ==
    ASSUME NEW claims, NEW n \in Nat, \A k \in 1..n : Len(claims[k].citations) \in Nat
    PROVE  \E f : Sums(f, claims, n)
<1> DEFINE v(k) == Len(claims[k].citations)
           pairs(d) == UNION {{k} \X (1..v(k)) : k \in d}
           f == [d \in SUBSET (1..n) |-> Cardinality(pairs(d))]
<1>1. ASSUME NEW k \in 1..n
      PROVE  IsFiniteSet({k} \X (1..v(k))) /\ Cardinality({k} \X (1..v(k))) = v(k)
  <2>1. v(k) \in Nat /\ IsFiniteSet(1..v(k)) /\ Cardinality(1..v(k)) = v(k)
    BY UpToIsFinite
  <2>2. IsFiniteSet({k}) /\ Cardinality({k}) = 1
    BY FS_Singleton
  <2> HIDE DEF v
  <2>3. IsFiniteSet({k} \X (1..v(k))) /\ Cardinality({k} \X (1..v(k))) = 1 * v(k)
    BY <2>1, <2>2, FS_Product
  <2> QED BY <2>1, <2>3
<1> HIDE DEF v
<1>2. ASSUME NEW d \in SUBSET (1..n) PROVE IsFiniteSet(pairs(d))
  <2>1. IsFiniteSet(d)
    <3>1. IsFiniteSet(1..n)
      BY UpToIsFinite
    <3> QED BY <3>1, FS_Subset
  <2>2. IsFiniteSet({{k} \X (1..v(k)) : k \in d})
    <3> DEFINE t == {{k} \X (1..v(k)) : k \in d}
               h == [k \in d |-> {k} \X (1..v(k))]
    <3>1. h \in [d -> t] /\ \A e \in t : \E k \in d : h[k] = e
      OBVIOUS
    <3> HIDE DEF h, t
    <3>2. h \in Surjection(d, t)
      BY <3>1 DEF Surjection
    <3>3. IsFiniteSet(t)
      BY <2>1, <3>2, FS_Surjection
    <3> QED BY <3>3 DEF t
  <2>3. \A e \in {{k} \X (1..v(k)) : k \in d} : IsFiniteSet(e)
    BY <1>1
  <2> QED BY <2>2, <2>3, FS_UNION
<1>3. ASSUME NEW d \in SUBSET (1..n), d # {}
      PROVE  f[d] = v(Some(d)) + f[d \ {Some(d)}]
  <2> DEFINE p == Some(d)
             e == d \ {p}
  <2>1. p \in d /\ e \in SUBSET (1..n) /\ p \in 1..n
    BY <1>3, SomeIsOne
  <2>2. pairs(d) = pairs(e) \cup ({p} \X (1..v(p)))
    BY <2>1
  <2>3. pairs(e) \cap ({p} \X (1..v(p))) = {}
    OBVIOUS
  <2>4. IsFiniteSet(pairs(e)) /\ IsFiniteSet({p} \X (1..v(p))) /\ Cardinality({p} \X (1..v(p))) = v(p)
    BY <1>1, <1>2, <2>1
  <2> HIDE DEF pairs, p, e
  <2>5. Cardinality(pairs(d)) = Cardinality(pairs(e)) + v(p)
    BY <2>2, <2>3, <2>4, DisjointUnion
  <2>6. Cardinality(pairs(e)) \in Nat /\ v(p) \in Nat
    BY <2>1, <2>4, FS_CardinalityType DEF v
  <2>7. f[d] = Cardinality(pairs(d)) /\ f[e] = Cardinality(pairs(e))
    BY <2>1
  <2> QED BY <2>5, <2>6, <2>7 DEF p, e
<1>4. f[{}] = 0
  <2>1. pairs({}) = {} /\ {} \in SUBSET (1..n)
    OBVIOUS
  <2>2. Cardinality({}) = 0
    BY FS_EmptySet
  <2> QED BY <2>1, <2>2
<1>5. f = [d \in SUBSET (1..n) |-> IF d = {} THEN 0 ELSE v(Some(d)) + f[d \ {Some(d)}]]
  <2> DEFINE g == [d \in SUBSET (1..n) |-> IF d = {} THEN 0 ELSE v(Some(d)) + f[d \ {Some(d)}]]
  <2>1. ASSUME NEW d \in SUBSET (1..n) PROVE f[d] = g[d]
    <3>1. g[d] = IF d = {} THEN 0 ELSE v(Some(d)) + f[d \ {Some(d)}]
      OBVIOUS
    <3> HIDE DEF f, g
    <3> QED BY <1>3, <1>4, <3>1
  <2>2. f = [d \in SUBSET (1..n) |-> f[d]] /\ g = [d \in SUBSET (1..n) |-> g[d]]
    OBVIOUS
  <2> HIDE DEF f, g
  <2>3. f = g
    BY <2>1, <2>2, Zenon
  <2> QED BY <2>3 DEF g
<1> HIDE DEF f
<1>6. Sums(f, claims, n)
  BY <1>5, Zenon DEF Sums, v
<1> QED BY <1>6

\* The count is at least the citations of each claim, and at most n times the most of any.
LEMMA CitationCountBounds ==
    ASSUME NEW claims, NEW n \in Nat, DOMAIN claims = 1..n, NEW b \in Nat,
           \A k \in 1..n : Len(claims[k].citations) \in Nat /\ Len(claims[k].citations) <= b
    PROVE  /\ CitationCount(claims) \in Nat
           /\ CitationCount(claims) <= n * b
           /\ \A k \in 1..n : Len(claims[k].citations) <= CitationCount(claims)
<1> DEFINE g == CHOOSE f : Sums(f, claims, n)
           v(k) == Len(claims[k].citations)
           Fine(d, m) == /\ g[d] \in Nat /\ g[d] <= m * b
                         /\ \A k \in d : v(k) <= g[d]
           P == {m \in Nat : \A d \in SUBSET (1..n) : Cardinality(d) = m => Fine(d, m)}
<1>1. Sums(g, claims, n)
  <2>1. \E f : Sums(f, claims, n)
    BY SumsExist
  <2> QED BY <2>1, Zenon
<1>2. CitationCount(claims) = g[1..n]
  BY CitationCountIs
<1> HIDE DEF g
<1>3. \A d \in SUBSET (1..n) : g[d] = IF d = {} THEN 0 ELSE v(Some(d)) + g[d \ {Some(d)}]
  BY <1>1, Zenon DEF Sums
<1>4. \A k \in 1..n : v(k) \in Nat /\ v(k) <= b
  OBVIOUS
<1> HIDE DEF v
<1>5. 0 \in P
  <2>1. ASSUME NEW d \in SUBSET (1..n), Cardinality(d) = 0 PROVE Fine(d, 0)
    <3>1. d = {}
      <4>1. d # {} => IsFiniteSet(d)
        BY SomeIsOne
      <4> QED BY <2>1, <4>1, FS_EmptySet
    <3>2. g[d] = 0
      BY <1>3, <3>1
    <3> QED BY <3>1, <3>2
  <2> QED BY <2>1
<1>6. ASSUME NEW m \in P PROVE m + 1 \in P
  <2>1. m \in Nat /\ \A d \in SUBSET (1..n) : Cardinality(d) = m => Fine(d, m)
    OBVIOUS
  <2>2. ASSUME NEW d \in SUBSET (1..n), Cardinality(d) = m + 1 PROVE Fine(d, m + 1)
    <3> DEFINE p == Some(d)
               e == d \ {p}
    <3>1. d # {}
      <4>1. Cardinality({}) = 0
        BY FS_EmptySet
      <4>2. m + 1 # 0
        BY <2>1
      <4> HIDE DEF P, Fine
      <4> QED BY <2>2, <4>1, <4>2
    <3>2. p \in d /\ p \in 1..n /\ e \in SUBSET (1..n) /\ Cardinality(e) = m
      <4>1. p \in d /\ e \in SUBSET (1..n) /\ Cardinality(e) = Cardinality(d) - 1
        BY <3>1, SomeIsOne
      <4>2. (m + 1) - 1 = m
        BY <2>1
      <4> HIDE DEF P, Fine, p, e
      <4> QED BY <2>2, <4>1, <4>2
    <3>3. g[d] = v(p) + g[e]
      BY <1>3, <3>1
    <3> HIDE DEF p
    <3>4. Fine(e, m)
      BY <2>1, <3>2
    <3>5. v(p) \in Nat /\ v(p) <= b /\ g[e] \in Nat /\ g[e] <= m * b
      BY <1>4, <3>2, <3>4
    <3>6. (m + 1) * b = m * b + b /\ m * b \in Nat
      BY <2>1
    <3>7. g[d] \in Nat /\ g[d] <= (m + 1) * b
      <4> HIDE DEF e
      <4> QED BY <3>3, <3>5, <3>6
    <3>8. ASSUME NEW k \in d PROVE v(k) <= g[d]
      <4>1. CASE k = p
        <5> HIDE DEF e
        <5> QED BY <3>3, <3>5, <4>1
      <4>2. CASE k # p
        <5>1. k \in e /\ v(k) \in Nat
          BY <1>4, <4>2
        <5>2. v(k) <= g[e]
          BY <3>4, <5>1
        <5> HIDE DEF e
        <5> QED BY <3>3, <3>5, <5>1, <5>2
      <4> QED BY <4>1, <4>2
    <3> QED BY <3>7, <3>8
  <2> HIDE DEF Fine
  <2> QED BY <2>1, <2>2
<1>7. P = Nat
  <2>1. P \in SUBSET Nat
    OBVIOUS
  <2> HIDE DEF P
  <2> QED BY <1>5, <1>6, <2>1, NaturalsBySteps
<1>8. Fine(1..n, n)
  <2>1. Cardinality(1..n) = n
    BY UpToIsFinite
  <2> HIDE DEF Fine, P
  <2>2. n \in P
    BY <1>7
  <2> QED BY <2>1, <2>2 DEF P
<1> QED BY <1>2, <1>8 DEF v

------------------------------------------------------------------------------

\* Sentences.
LEMMA SeqOfItself ==
    ASSUME NEW n \in Nat, NEW f, f = [k \in 1..n |-> f[k]]
    PROVE  f \in Seq(ToSet(f)) /\ Len(f) = n /\ DOMAIN f = 1..n
<1>1. DOMAIN f = 1..n
  OBVIOUS
<1>2. f \in [1..n -> ToSet(f)]
  BY <1>1 DEF ToSet
<1> QED BY <1>1, <1>2

\* Splitting after the stops yields at most one part more than the answer has pieces, none longer than it.
LEMMA SplitParts ==
    ASSUME NEW A, NEW a \in Seq(A)
    PROVE  /\ SplitAfterStops(a) \in Seq(Seq(A))
           /\ Len(SplitAfterStops(a)) \in Nat /\ Len(SplitAfterStops(a)) <= Len(a) + 1
           /\ \A k \in 1..Len(SplitAfterStops(a)) : Len(SplitAfterStops(a)[k]) <= Len(a)
<1> DEFINE I == {i \in 1..(Len(a) - 1) : a[i] = Stop}
           ends == Ordered(I, Len(a))
           cuts == [k \in DOMAIN ends |-> <<ends[k], ends[k]>>]
           from(k) == IF k = 1 THEN 0 ELSE cuts[k - 1][2]
           to(k) == IF k > Len(cuts) THEN Len(a) ELSE cuts[k][1]
           part(k) == SubSeq(a, from(k) + 1, to(k))
           s == SplitAfterStops(a)
<1>1. s = [k \in 1..(Len(cuts) + 1) |-> part(k)]
  BY Zenon DEF SplitAfterStops, Pieces, Slice
<1>2. Len(a) \in Nat /\ I \in SUBSET (1..Len(a))
  OBVIOUS
<1> HIDE DEF I
<1>3. /\ Len(ends) \in Nat /\ \A k \in 1..Len(ends) : ends[k] \in I
      /\ Len(ends) = Len(Kept(a, I)) /\ Len(Kept(a, I)) <= Len(a)
  BY <1>2, KeptIs, KeptCount
<1>4. DOMAIN ends = 1..Len(ends)
  BY <1>2, OrderedEnumerates DEF Enumerates
<1> HIDE DEF ends
<1>5. Len(cuts) = Len(ends) /\ \A k \in 1..Len(ends) : cuts[k][1] \in 1..Len(a) /\ cuts[k][2] \in 1..Len(a)
  <2>1. \A k \in 1..Len(ends) : ends[k] \in 1..Len(a)
    BY <1>2, <1>3
  <2>2. cuts = [k \in 1..Len(ends) |-> <<ends[k], ends[k]>>]
    BY <1>4
  <2> HIDE DEF cuts
  <2>3. Len(cuts) = Len(ends)
    BY <1>3, <2>2
  <2>4. \A k \in 1..Len(ends) : cuts[k] = <<ends[k], ends[k]>>
    BY <2>2
  <2> QED BY <2>1, <2>3, <2>4
<1> HIDE DEF cuts
<1>6. ASSUME NEW k \in 1..(Len(cuts) + 1)
      PROVE  part(k) \in Seq(A) /\ Len(part(k)) <= Len(a)
  <2>1. from(k) \in Nat
    BY <1>2, <1>3, <1>5
  <2>2. to(k) \in Nat /\ to(k) <= Len(a)
    BY <1>2, <1>3, <1>5
  <2> DEFINE lo == from(k) + 1
             hi == to(k)
  <2>3. lo \in Nat \ {0} /\ hi \in Nat /\ hi <= Len(a)
    BY <2>1, <2>2
  <2> HIDE DEF lo, hi, from, to
  <2>4. SubSeq(a, lo, hi) \in Seq(A) /\ Len(SubSeq(a, lo, hi)) = IF lo <= hi THEN hi - lo + 1 ELSE 0
    BY <2>3, SubSeqElements
  <2>5. Len(SubSeq(a, lo, hi)) <= Len(a)
    BY <1>2, <2>3, <2>4
  <2> QED BY <2>4, <2>5 DEF lo, hi
<1> HIDE DEF part
<1>7. Len(cuts) + 1 \in Nat /\ Len(cuts) + 1 <= Len(a) + 1
  BY <1>2, <1>3, <1>5
<1>8. s \in Seq(Seq(A)) /\ Len(s) = Len(cuts) + 1
  BY <1>1, <1>6, <1>7
<1>9. \A k \in 1..Len(s) : Len(s[k]) <= Len(a)
  BY <1>1, <1>6, <1>8
<1> QED BY <1>7, <1>8, <1>9

\* What is put together of parts no longer than n has so many times that length at most.
SentencesUpTo(h, A, n, k) ==
    /\ h \in Seq(Seq(A))
    /\ \A i \in 1..Len(h) : Len(h[i]) <= k * n

MarkersOnly(s) == \A i \in DOMAIN s : s[i].k \in {"cite", "nl"}
Merge(merged, s) == IF merged # <<>> /\ MarkersOnly(s)
                    THEN Append(Front(merged), Last(merged) \o s)
                    ELSE Append(merged, s)

\* A part more, merged or not, is one step of the sentences.
LEMMA MergeStep ==
    ASSUME NEW A, NEW n \in Nat, NEW k \in Nat, NEW h, SentencesUpTo(h, A, n, k),
           NEW s \in Seq(A), Len(s) <= n
    PROVE  SentencesUpTo(Merge(h, s), A, n, k + 1)
<1>1. h \in Seq(Seq(A)) /\ Len(h) \in Nat /\ \A i \in 1..Len(h) : h[i] \in Seq(A) /\ Len(h[i]) \in Nat /\ Len(h[i]) <= k * n
  BY DEF SentencesUpTo
<1>2. (k + 1) * n = k * n + n /\ k * n \in Nat /\ Len(s) \in Nat
  OBVIOUS
<1>5. Len(s) <= (k + 1) * n /\ \A i \in 1..Len(h) : Len(h[i]) <= (k + 1) * n
  <2> DEFINE u == k * n
             v == (k + 1) * n
  <2>1. v = u + n /\ u \in Nat /\ \A i \in 1..Len(h) : Len(h[i]) \in Nat /\ Len(h[i]) <= u
    BY <1>1, <1>2
  <2> HIDE DEF u, v
  <2>2. Len(s) <= v /\ \A i \in 1..Len(h) : Len(h[i]) <= v
    BY <1>2, <2>1
  <2> QED BY <2>2 DEF v
<1>3. CASE h # <<>> /\ MarkersOnly(s)
  <2> DEFINE w == Append(Front(h), Last(h) \o s)
             m == Len(h) - 1
  <2>1. m \in Nat /\ m + 1 = Len(h) /\ m <= Len(h)
    BY <1>1, <1>3
  <2>2. /\ Front(h) \in Seq(Seq(A)) /\ Len(Front(h)) = m
        /\ \A i \in 1..m : Front(h)[i] = h[i]
    <3>1. /\ SubSeq(h, 1, m) \in Seq(Seq(A))
          /\ Len(SubSeq(h, 1, m)) = IF 1 <= m THEN m - 1 + 1 ELSE 0
          /\ \A i \in 1..Len(SubSeq(h, 1, m)) : SubSeq(h, 1, m)[i] = h[1 + i - 1]
      <4>1. 1 \in Nat \ {0}
        OBVIOUS
      <4> HIDE DEF m
      <4> QED BY <1>1, <2>1, <4>1, SubSeqElements
    <3>2. Front(h) = SubSeq(h, 1, m)
      BY DEF Front
    <3>3. Len(Front(h)) = m
      BY <2>1, <3>1, <3>2
    <3>4. \A i \in 1..m : 1 + i - 1 = i
      BY <2>1
    <3> HIDE DEF m
    <3> QED BY <3>1, <3>2, <3>3, <3>4
  <2>3. Last(h) \in Seq(A) /\ Len(Last(h)) <= k * n /\ Len(Last(h)) \in Nat
    <3>1. Len(h) \in 1..Len(h)
      BY <1>1, <2>1
    <3> QED BY <1>1, <3>1 DEF Last
  <2>4. Last(h) \o s \in Seq(A) /\ Len(Last(h) \o s) <= (k + 1) * n
    <3>1. Len(Last(h) \o s) = Len(Last(h)) + Len(s) /\ Last(h) \o s \in Seq(A)
      BY <2>3
    <3> QED BY <1>2, <2>3, <3>1
  <2> DEFINE f == Front(h)
             e == Last(h) \o s
  <2> HIDE DEF f, e, m
  <2>5. w = Append(f, e)
    BY DEF f, e
  <2>6. f \in Seq(Seq(A)) /\ Len(f) = m /\ e \in Seq(A) /\ Len(e) <= (k + 1) * n
    BY <2>2, <2>4 DEF f, e
  <2> HIDE DEF w
  <2>7. w \in Seq(Seq(A)) /\ Len(w) = m + 1 /\ w[m + 1] = e /\ \A i \in 1..m : w[i] = f[i]
    BY <2>1, <2>5, <2>6
  <2>8. ASSUME NEW i \in 1..(m + 1) PROVE Len(w[i]) <= (k + 1) * n
    <3>1. CASE i = m + 1
      BY <2>6, <2>7, <3>1
    <3>2. CASE i # m + 1
      <4>1. i \in 1..m /\ i \in 1..Len(h)
        BY <2>1, <3>2
      <4>2. w[i] = h[i]
        BY <2>2, <2>7, <4>1 DEF f
      <4> QED BY <1>1, <1>2, <4>1, <4>2
    <3> QED BY <3>1, <3>2
  <2>9. SentencesUpTo(w, A, n, k + 1)
    BY <2>7, <2>8 DEF SentencesUpTo
  <2> QED BY <1>3, <2>9 DEF Merge, w
<1>4. CASE ~(h # <<>> /\ MarkersOnly(s))
  <2> DEFINE w == Append(h, s)
  <2>1. w \in Seq(Seq(A)) /\ Len(w) = Len(h) + 1 /\ w[Len(h) + 1] = s /\ \A i \in 1..Len(h) : w[i] = h[i]
    BY <1>1
  <2> HIDE DEF w
  <2>2. ASSUME NEW i \in 1..(Len(h) + 1) PROVE Len(w[i]) <= (k + 1) * n
    <3>1. CASE i = Len(h) + 1
      BY <1>5, <2>1, <3>1
    <3>2. CASE i # Len(h) + 1
      <4>1. i \in 1..Len(h)
        BY <1>1, <3>2
      <4>2. w[i] = h[i]
        BY <2>1, <4>1
      <4> QED BY <1>5, <4>1, <4>2
    <3> QED BY <3>1, <3>2
  <2>3. SentencesUpTo(w, A, n, k + 1)
    BY <2>1, <2>2 DEF SentencesUpTo
  <2> QED BY <1>4, <2>3 DEF Merge, w
<1> QED BY <1>3, <1>4

------------------------------------------------------------------------------
\* The sentences of an answer before their markers are put to them.
PartsOf(a) == Kept(SplitAfterStops(a), {k \in DOMAIN SplitAfterStops(a) :
                 \E i \in DOMAIN SplitAfterStops(a)[k] : SplitAfterStops(a)[k][i] # LineEnd})
Merges(f, parts) ==
    f = [d \in SUBSET DOMAIN parts |->
            IF d = {} THEN <<>> ELSE Merge(f[d \ {Max(d)}], parts[Max(d)])]

\* The sentences are the fold of Merge over the parts.
LEMMA SentencesAre ==
    ASSUME NEW a
    PROVE  SentencesWithCitations(a) =
              (CHOOSE f : Merges(f, PartsOf(a)))[DOMAIN PartsOf(a)]
BY Zenon DEF SentencesWithCitations, PartsOf, Merges, Merge, MarkersOnly, FoldLeft,
             MapThenFoldSet, Where

\* The parts of an answer, their number and their lengths.
LEMMA PartsAre ==
    ASSUME NEW A, NEW a \in Seq(A)
    PROVE  /\ PartsOf(a) \in Seq(Seq(A)) /\ DOMAIN PartsOf(a) = 1..Len(PartsOf(a))
           /\ Len(PartsOf(a)) \in Nat /\ Len(PartsOf(a)) <= Len(a) + 1
           /\ \A k \in 1..Len(PartsOf(a)) : Len(PartsOf(a)[k]) <= Len(a)
<1> DEFINE s == SplitAfterStops(a)
           I == {k \in DOMAIN s : \E i \in DOMAIN s[k] : s[k][i] # LineEnd}
           t == PartsOf(a)
<1>1. /\ s \in Seq(Seq(A)) /\ Len(s) \in Nat /\ Len(s) <= Len(a) + 1
      /\ \A k \in 1..Len(s) : Len(s[k]) <= Len(a)
  BY SplitParts
<1>2. I \in SUBSET (1..Len(s))
  BY <1>1
<1>3. t = Kept(s, I)
  BY Zenon DEF PartsOf
<1> HIDE DEF s, I, t
<1>4. /\ t \in Seq(Seq(A)) /\ DOMAIN t = 1..Len(t) /\ Len(t) \in Nat
      /\ \A k \in DOMAIN t : \E p \in I : t[k] = s[p]
  BY <1>1, <1>2, <1>3, KeptElements
<1>5. Len(t) <= Len(s)
  BY <1>1, <1>2, <1>3, KeptCount
<1>6. \A k \in 1..Len(t) : Len(t[k]) <= Len(a)
  BY <1>1, <1>2, <1>4
<1>7. Len(t) <= Len(a) + 1
  <2>1. Len(a) \in Nat
    OBVIOUS
  <2> QED BY <1>1, <1>4, <1>5, <2>1
<1> QED BY <1>4, <1>6, <1>7 DEF t

\* Merging keeps a list of sentences one.
LEMMA MergeType ==
    ASSUME NEW A, NEW h \in Seq(Seq(A)), NEW s \in Seq(A)
    PROVE  Merge(h, s) \in Seq(Seq(A))
<1>1. CASE h # <<>> /\ MarkersOnly(s)
  <2> DEFINE m == Len(h) - 1
  <2>1. m \in Nat /\ m <= Len(h) /\ Len(h) \in 1..Len(h)
    BY <1>1
  <2>2. SubSeq(h, 1, m) \in Seq(Seq(A))
    <3> HIDE DEF m
    <3>1. 1 \in Nat \ {0}
      OBVIOUS
    <3> QED BY <2>1, <3>1, SubSeqElements
  <2>3. Last(h) \o s \in Seq(A)
    BY <2>1 DEF Last
  <2>4. Append(SubSeq(h, 1, m), Last(h) \o s) \in Seq(Seq(A))
    BY <2>2, <2>3
  <2> QED BY <1>1, <2>4 DEF Merge, Front
<1>2. CASE ~(h # <<>> /\ MarkersOnly(s))
  BY <1>2 DEF Merge
<1> QED BY <1>1, <1>2

\* The fold of Merge has a function.
LEMMA MergesExist ==
    ASSUME NEW A, NEW parts \in Seq(Seq(A))
    PROVE  \E f : Merges(f, parts)
<1> DEFINE n == Len(parts)
           V == Seq(Seq(A))
           step == [p \in (1..n) \X V |-> Merge(p[2], parts[p[1]])]
<1>1. n \in Nat /\ DOMAIN parts = 1..n /\ \A k \in 1..n : parts[k] \in Seq(A)
  OBVIOUS
<1>2. step \in [(1..n) \X V -> V]
  <2>1. ASSUME NEW p \in (1..n) \X V PROVE Merge(p[2], parts[p[1]]) \in V
    <3>1. p[1] \in 1..n /\ p[2] \in V
      OBVIOUS
    <3> HIDE DEF n
    <3> QED BY <1>1, <3>1, MergeType
  <2> QED BY <2>1
<1>3. <<>> \in V
  OBVIOUS
<1>4. PICK f \in [SUBSET (1..n) -> V] : FoldSteps(f, <<>>, step, n)
  <2> HIDE DEF V, step, n
  <2> QED BY <1>1, <1>2, <1>3, FoldExists
<1> HIDE DEF n
<1>5. ASSUME NEW d \in SUBSET (1..n), d # {}
      PROVE  f[d] = Merge(f[d \ {Max(d)}], parts[Max(d)])
  <2>1. Max(d) \in 1..n /\ d \ {Max(d)} \in SUBSET (1..n)
    BY <1>1, <1>5, MaxUpTo
  <2> DEFINE m == Max(d)
             e == d \ {m}
  <2>2. f[d] = step[<<m, f[e]>>]
    BY <1>4, <1>5 DEF FoldSteps
  <2>3. <<m, f[e]>> \in (1..n) \X V
    <3>1. f[e] \in V /\ m \in 1..n
      BY <1>4, <2>1
    <3> QED BY <3>1
  <2> HIDE DEF m, e
  <2>4. f[d] = Merge(f[e], parts[m])
    BY <2>2, <2>3
  <2> QED BY <2>4 DEF m, e
<1>6. f[{}] = <<>>
  BY <1>4 DEF FoldSteps
<1> DEFINE g == [d \in SUBSET (1..n) |->
                   IF d = {} THEN <<>> ELSE Merge(f[d \ {Max(d)}], parts[Max(d)])]
<1>7. f = g
  <2>1. ASSUME NEW d \in SUBSET (1..n) PROVE f[d] = g[d]
    <3>1. g[d] = IF d = {} THEN <<>> ELSE Merge(f[d \ {Max(d)}], parts[Max(d)])
      OBVIOUS
    <3> HIDE DEF g
    <3> QED BY <1>5, <1>6, <3>1
  <2>2. f = [d \in SUBSET (1..n) |-> f[d]] /\ g = [d \in SUBSET (1..n) |-> g[d]]
    OBVIOUS
  <2> HIDE DEF g
  <2> QED BY <2>1, <2>2, Zenon
<1>8. Merges(f, parts)
  BY <1>1, <1>7, Zenon DEF Merges
<1> QED BY <1>8

\* A sentence with its markers is made of the answer, and not much longer.
LEMMA SentencesWithCitationsAre ==
    ASSUME NEW A, NEW a \in Seq(A)
    PROVE  /\ SentencesWithCitations(a) \in Seq(Seq(A))
           /\ \A i \in DOMAIN SentencesWithCitations(a) :
                 Len(SentencesWithCitations(a)[i]) <= (Len(a) + 1) * Len(a)
<1> DEFINE parts == PartsOf(a)
           n == Len(parts)
           l == Len(a)
           g == CHOOSE f : Merges(f, parts)
<1>1. /\ parts \in Seq(Seq(A)) /\ DOMAIN parts = 1..n /\ n \in Nat /\ n <= l + 1 /\ l \in Nat
      /\ \A k \in 1..n : parts[k] \in Seq(A) /\ Len(parts[k]) <= l
  <2>1. /\ parts \in Seq(Seq(A)) /\ DOMAIN parts = 1..n /\ n \in Nat /\ n <= l + 1
        /\ \A k \in 1..n : Len(parts[k]) <= l
    BY PartsAre
  <2> HIDE DEF parts
  <2> QED BY <2>1
<1>2. SentencesWithCitations(a) = g[1..n]
  BY <1>1, SentencesAre
<1> HIDE DEF parts, n, l
<1>3. Merges(g, parts)
  <2>1. \E f : Merges(f, parts)
    BY <1>1, MergesExist
  <2> QED BY <2>1, Zenon
<1> HIDE DEF g
<1>4. \A d \in SUBSET (1..n) :
         g[d] = IF d = {} THEN <<>> ELSE Merge(g[d \ {Max(d)}], parts[Max(d)])
  BY <1>1, <1>3, Zenon DEF Merges
<1> DEFINE P == {k \in Nat : k <= n => SentencesUpTo(g[1..k], A, l, k)}
<1>5. 0 \in P
  <2>1. 1..0 = {} /\ {} \in SUBSET (1..n)
    OBVIOUS
  <2>2. g[1..0] = <<>>
    BY <1>4, <2>1
  <2>3. SentencesUpTo(<<>>, A, l, 0)
    BY DEF SentencesUpTo
  <2> QED BY <2>2, <2>3
<1>6. ASSUME NEW k \in P PROVE k + 1 \in P
  <2>1. SUFFICES ASSUME k + 1 <= n PROVE SentencesUpTo(g[1..(k + 1)], A, l, k + 1)
    OBVIOUS
  <2>2. k \in Nat /\ SentencesUpTo(g[1..k], A, l, k)
    BY <1>1, <2>1
  <2> HIDE DEF P
  <2> DEFINE d == 1..(k + 1)
  <2>3. d \in SUBSET (1..n) /\ d # {} /\ k + 1 \in d /\ d \ {k + 1} = 1..k /\ k + 1 \in 1..n
    <3>1. k \in Nat /\ n \in Nat /\ k + 1 <= n
      BY <1>1, <2>1, <2>2
    <3>2. \A i \in d : i \in 1..n
      BY <3>1
    <3>5. k + 1 \in d
      BY <3>1
    <3>3. d # {} /\ k + 1 \in d /\ k + 1 \in 1..n
      <4> HIDE DEF d
      <4> QED BY <3>1, <3>5
    <3>4. d \ {k + 1} = 1..k
      BY <3>1
    <3> HIDE DEF d
    <3> QED BY <3>2, <3>3, <3>4
  <2>4. Max(d) = k + 1
    <3>1. Max(d) \in d /\ k + 1 <= Max(d)
      BY <1>1, <2>3, MaxUpTo
    <3> QED BY <2>2, <3>1
  <2> HIDE DEF d
  <2>5. g[d] = Merge(g[1..k], parts[k + 1])
    BY <1>4, <2>3, <2>4
  <2>6. SentencesUpTo(Merge(g[1..k], parts[k + 1]), A, l, k + 1)
    BY <1>1, <2>2, <2>3, MergeStep
  <2> QED BY <2>5, <2>6 DEF d
<1> HIDE DEF P
<1>7. P = Nat
  <2>1. P \in SUBSET Nat
    BY DEF P
  <2> QED BY <1>5, <1>6, <2>1, NaturalsBySteps
<1>8. SentencesUpTo(g[1..n], A, l, n)
  <2>1. n \in P /\ n <= n
    BY <1>1, <1>7
  <2> QED BY <2>1, Zenon DEF P
<1> DEFINE h == g[1..n]
<1> HIDE DEF h
<1>9. h \in Seq(Seq(A)) /\ \A i \in 1..Len(h) : Len(h[i]) <= n * l
  BY <1>8 DEF SentencesUpTo, h
<1>10. n * l <= (l + 1) * l /\ n * l \in Int /\ (l + 1) * l \in Int
  BY <1>1, TimesKeepsOrder
<1>11. \A i \in DOMAIN h : Len(h[i]) <= (l + 1) * l
  <2>1. ASSUME NEW i \in DOMAIN h PROVE Len(h[i]) <= (l + 1) * l
    <3>1. Len(h[i]) <= n * l /\ Len(h[i]) \in Nat
      <4>1. i \in 1..Len(h) /\ h[i] \in Seq(A)
        BY <1>9
      <4> QED BY <1>9, <4>1
    <3> DEFINE u == n * l
               v == (l + 1) * l
    <3> HIDE DEF u, v
    <3>2. Len(h[i]) <= u /\ u <= v /\ u \in Int /\ v \in Int
      BY <1>10, <3>1 DEF u, v
    <3>3. Len(h[i]) <= v
      BY <3>1, <3>2
    <3> QED BY <3>3 DEF v
  <2> QED BY <2>1
<1>12. SentencesWithCitations(a) = h
  BY <1>2 DEF h
<1> QED BY <1>9, <1>11, <1>12 DEF l

------------------------------------------------------------------------------

\* Claims.
LEMMA ExtractClaimsIs ==
    ASSUME NEW a \in Seq(AnswerPieces)
    PROVE  /\ ExtractClaims(a) \in Seq(Seq(AnswerPieces))
           /\ Len(ExtractClaims(a)) \in Nat /\ Len(ExtractClaims(a)) <= Len(a) + 1
<1> DEFINE I == {i \in DOMAIN a : a[i].k \notin {"cite", "nl"}}
           b == Kept(a, I)
           parts == SplitAfterStops(b)
           J(s) == {i \in DOMAIN s : s[i].k \in {"word", "head"}}
           claims == [k \in DOMAIN parts |-> Kept(parts[k], J(parts[k]))]
           K == {k \in DOMAIN claims : Len(claims[k]) >= MinClaim}
           e == Kept(claims, K)
<1>1. ExtractClaims(a) = IF b = <<>> \/ b[1].k = "refusal" THEN <<>> ELSE e
  BY Zenon DEF ExtractClaims, ClaimText, Where
<1>2. I \in SUBSET (1..Len(a)) /\ Len(a) \in Nat
  OBVIOUS
<1> HIDE DEF I
<1>3. b \in Seq(AnswerPieces) /\ Len(b) \in Nat /\ Len(b) <= Len(a)
  BY <1>2, KeptElements, KeptCount
<1> HIDE DEF b
<1>4. parts \in Seq(Seq(AnswerPieces)) /\ Len(parts) \in Nat /\ Len(parts) <= Len(b) + 1
  BY <1>3, SplitParts
<1> HIDE DEF parts
<1>5. DOMAIN parts = 1..Len(parts) /\ \A k \in 1..Len(parts) : parts[k] \in Seq(AnswerPieces)
  BY <1>4
<1>6. ASSUME NEW k \in 1..Len(parts) PROVE Kept(parts[k], J(parts[k])) \in Seq(AnswerPieces)
  <2> DEFINE s == parts[k]
  <2>1. s \in Seq(AnswerPieces)
    BY <1>5
  <2> HIDE DEF s
  <2>2. J(s) \in SUBSET (1..Len(s))
    BY <2>1
  <2> HIDE DEF J
  <2>3. Kept(s, J(s)) \in Seq(AnswerPieces)
    BY <2>1, <2>2, KeptElements
  <2> QED BY <2>3 DEF s
<1> HIDE DEF J
<1>7. claims \in Seq(Seq(AnswerPieces)) /\ Len(claims) = Len(parts) /\ DOMAIN claims = 1..Len(parts)
  BY <1>4, <1>5, <1>6
<1> HIDE DEF claims
<1>8. K \in SUBSET (1..Len(claims))
  BY <1>7
<1> HIDE DEF K
<1>9. e \in Seq(Seq(AnswerPieces)) /\ Len(e) \in Nat /\ Len(e) <= Len(claims)
  BY <1>7, <1>8, KeptElements, KeptCount
<1> HIDE DEF e
<1>10. CASE b = <<>> \/ b[1].k = "refusal"
  <2>1. ExtractClaims(a) = <<>>
    BY <1>1, <1>10
  <2>2. <<>> \in Seq(Seq(AnswerPieces)) /\ Len(<<>>) = 0
    OBVIOUS
  <2> QED BY <1>2, <2>1, <2>2
<1>11. CASE ~(b = <<>> \/ b[1].k = "refusal")
  <2>1. ExtractClaims(a) = e
    BY <1>1, <1>11
  <2>2. Len(e) <= Len(a) + 1
    BY <1>2, <1>3, <1>4, <1>7, <1>9
  <2> QED BY <1>9, <2>1, <2>2
<1> QED BY <1>10, <1>11

\* The citations of a claim: markers of the answer that resolve.
LEMMA CitationsForClaimAre ==
    ASSUME NEW a \in Seq(AnswerPieces), NEW claim, NEW chunks
    PROVE  LET c == CitationsForClaim(a, claim, chunks)
           IN  /\ Len(c) \in Nat /\ DOMAIN c = 1..Len(c) /\ (Len(c) = 0 <=> c = <<>>)
               /\ Len(c) <= (Len(a) + 1) * Len(a)
               /\ \A k \in 1..Len(c) :
                     /\ c[k].source_index \in Cited(a)
                     /\ c[k].source_text = SourceIndex(chunks)[c[k].source_index].text
<1> DEFINE index == SourceIndex(chunks)
           A == {p \in AnswerPieces : p.k = "cite" => p.n \in Cited(a)}
           h == SentencesWithCitations(a)
           matches(k) == Occurs(ClaimText(h[k]), claim) \/ Occurs(claim, ClaimText(h[k]))
           found == {k \in DOMAIN h : matches(k)}
           s == h[Min(found)]
           I == {i \in DOMAIN s : s[i].k = "cite" /\ s[i].n \in DOMAIN index}
           t == Kept(s, I)
           c == CitationsForClaim(a, claim, chunks)
<1>1. c = IF found = {} THEN <<>> ELSE Citations(t, index)
  BY Zenon DEF CitationsForClaim, Where
<1>2. a \in Seq(A)
  <2>1. Len(a) \in Nat /\ DOMAIN a = 1..Len(a) /\ \A i \in 1..Len(a) : a[i] \in AnswerPieces
    OBVIOUS
  <2>2. \A i \in 1..Len(a) : a[i].k = "cite" => a[i].n \in Cited(a)
    BY CitedIs
  <2>3. \A i \in 1..Len(a) : a[i] \in A
    BY <2>1, <2>2
  <2> HIDE DEF A
  <2>4. a = [i \in 1..Len(a) |-> a[i]]
    BY <2>1
  <2> QED BY <2>1, <2>3, <2>4
<1>3. \A p \in A : p.k = "cite" => p.n \in Cited(a)
  OBVIOUS
<1> HIDE DEF A, index, c
<1>4. h \in Seq(Seq(A)) /\ \A i \in DOMAIN h : Len(h[i]) <= (Len(a) + 1) * Len(a)
  BY <1>2, SentencesWithCitationsAre
<1>5. Len(a) \in Nat
  OBVIOUS
<1> HIDE DEF h
<1>6. CASE found = {}
  <2>1. c = <<>>
    BY <1>1, <1>6
  <2>2. 0 <= (Len(a) + 1) * Len(a)
    BY <1>5
  <2> QED BY <2>1, <2>2 DEF c
<1>7. CASE found # {}
  <2>1. found \in SUBSET Nat /\ \A k \in found : k \in DOMAIN h
    <3>1. DOMAIN h = 1..Len(h)
      BY <1>4
    <3>2. \A k \in found : k \in DOMAIN h
      OBVIOUS
    <3> HIDE DEF found
    <3>3. \A k \in found : k \in Nat
      BY <3>1, <3>2
    <3> QED BY <3>2, <3>3
  <2> HIDE DEF found
  <2>2. Min(found) \in DOMAIN h
    BY <1>7, <2>1, MinIsLeast
  <2>3. s \in Seq(A) /\ Len(s) <= (Len(a) + 1) * Len(a) /\ Len(s) \in Nat
    BY <1>4, <2>2
  <2> HIDE DEF s
  <2>4. I \in SUBSET (1..Len(s)) /\ \A i \in I : s[i].k = "cite" /\ s[i] \in A
    BY <2>3
  <2> HIDE DEF I
  <2>5. /\ t \in Seq(A) /\ Len(t) \in Nat /\ DOMAIN t = 1..Len(t)
        /\ \A k \in DOMAIN t : \E p \in I : t[k] = s[p]
    BY <2>3, <2>4, KeptElements
  <2>6. Len(t) <= Len(s)
    BY <2>3, <2>4, KeptCount
  <2> HIDE DEF t
  <2>7. c = [k \in 1..Len(t) |-> [source_index |-> t[k].n, chunk_id |-> index[t[k].n].id,
                                   source_text |-> index[t[k].n].text]]
    BY <1>1, <1>7, <2>5 DEF Citations
  <2>8. Len(c) = Len(t) /\ DOMAIN c = 1..Len(t) /\ (Len(c) = 0 <=> c = <<>>)
    BY <2>5, <2>7
  <2>9. Len(c) <= (Len(a) + 1) * Len(a)
    <3> DEFINE v == (Len(a) + 1) * Len(a)
    <3>1. v \in Nat
      BY <1>5
    <3> HIDE DEF v
    <3>2. Len(c) <= v
      BY <2>3, <2>5, <2>6, <2>8, <3>1 DEF v
    <3> QED BY <3>2 DEF v
  <2>10. ASSUME NEW k \in 1..Len(t)
         PROVE  /\ c[k].source_index \in Cited(a)
                /\ c[k].source_text = index[c[k].source_index].text
    <3>1. c[k].source_index = t[k].n /\ c[k].source_text = index[t[k].n].text
      BY <2>7
    <3>2. PICK p \in I : t[k] = s[p]
      BY <2>5
    <3>3. t[k].n \in Cited(a)
      BY <1>3, <2>4, <3>2
    <3> QED BY <3>1, <3>3
  <2>11. Len(c) \in Nat
    BY <2>5, <2>8
  <2> QED BY <2>8, <2>9, <2>10, <2>11 DEF c, index
<1> QED BY <1>6, <1>7

------------------------------------------------------------------------------

\* Verdicts.
LEMMA JudgedIs ==
    ASSUME NEW reply, NEW claim, NEW source
    PROVE  Judged(reply, claim, source).label \in Labels
<1>1. LexicalLabel(claim, source) \in Labels
  <2>1. LexicalLabel(claim, source) \in {"NEUTRAL", "CONTRADICTS", "SUPPORTS"}
    BY Zenon DEF LexicalLabel
  <2> QED BY <2>1 DEF Labels
<1> DEFINE l == LexicalLabel(claim, source)
<1> HIDE DEF l
<1>2. Judged(reply, claim, source)
        = IF reply = "none" THEN Verdict(l, "lexical")
          ELSE IF reply \in Labels THEN Verdict(reply, "llm") ELSE Verdict(l, "llm-fallback-lexical")
  BY Zenon DEF Judged, ModelVerdict, l
<1>3. l \in Labels
  BY <1>1 DEF l
<1>4. \A q, j : Verdict(q, j).label = q
  BY DEF Verdict
<1> HIDE DEF Labels
<1> QED BY <1>2, <1>3, <1>4

\* A support wins, then a contradiction.
LEMMA BestIs ==
    ASSUME NEW n \in Nat \ {0}, NEW v, DOMAIN v = 1..n, Len(v) = n,
           \A k \in 1..n : v[k].label \in Labels
    PROVE  /\ Best(v).label \in Labels
           /\ (\E k \in 1..n : v[k].label = "SUPPORTS") <=> Best(v).label = "SUPPORTS"
           /\ (\E k \in 1..n : v[k].label = "CONTRADICTS") /\ (\A k \in 1..n : v[k].label # "SUPPORTS")
                 => Best(v).label = "CONTRADICTS"
<1> DEFINE at(l) == {k \in DOMAIN v : v[k].label = l}
<1>1. Best(v) = IF at("SUPPORTS") # {} THEN v[Min(at("SUPPORTS"))]
                ELSE IF at("CONTRADICTS") # {} THEN v[Max(at("CONTRADICTS"))]
                ELSE IF at("NO_CITATION") # {} THEN v[Min(at("NO_CITATION"))] ELSE v[Len(v)]
  BY Zenon DEF Best
<1>2. ASSUME NEW l PROVE at(l) \in SUBSET (1..n) /\ at(l) \in SUBSET Nat
  <2>1. \A k \in at(l) : k \in 1..n /\ k \in Nat
    OBVIOUS
  <2> QED BY <2>1
<1>3. ASSUME NEW l PROVE \A k \in 1..n : k \in at(l) <=> v[k].label = l
  OBVIOUS
<1> HIDE DEF at
<1>4. ASSUME NEW l, at(l) # {} PROVE /\ v[Min(at(l))].label = l /\ v[Max(at(l))].label = l
                                      /\ Min(at(l)) \in 1..n /\ Max(at(l)) \in 1..n
  <2>1. Min(at(l)) \in at(l)
    BY <1>2, <1>4, MinIsLeast
  <2>2. Max(at(l)) \in at(l)
    BY <1>2, <1>4, MaxUpTo
  <2>3. Min(at(l)) \in 1..n /\ Max(at(l)) \in 1..n
    BY <1>2, <2>1, <2>2
  <2> QED BY <1>3, <2>1, <2>2, <2>3
<1>5. n \in 1..n
  OBVIOUS
<1>6. \A l : at(l) = {} <=> \A k \in 1..n : v[k].label # l
  BY <1>2, <1>3
<1>7. CASE at("SUPPORTS") # {}
  <2>1. Best(v).label = "SUPPORTS"
    BY <1>1, <1>4, <1>7
  <2>2. "SUPPORTS" \in Labels
    BY DEF Labels
  <2> QED BY <1>6, <1>7, <2>1, <2>2
<1>8. CASE at("SUPPORTS") = {} /\ at("CONTRADICTS") # {}
  <2>1. Best(v).label = "CONTRADICTS"
    BY <1>1, <1>4, <1>8
  <2>2. "CONTRADICTS" \in Labels
    BY DEF Labels
  <2> QED BY <1>6, <1>8, <2>1, <2>2
<1>9. CASE at("SUPPORTS") = {} /\ at("CONTRADICTS") = {}
  <2>1. \E k \in 1..n : Best(v) = v[k]
    BY <1>1, <1>4, <1>5, <1>9
  <2> QED BY <1>6, <1>9, <2>1
<1> QED BY <1>7, <1>8, <1>9

\* What is said of a claim.
ClaimJudged(c, claim, a, chunks, reply) ==
    /\ c.claim = claim
    /\ c.label \in Labels
    /\ Len(c.citations) \in Nat /\ Len(c.citations) <= (Len(a) + 1) * Len(a)
    /\ ToSet(c.citations) \subseteq Cited(a)
    /\ c.label = "SUPPORTS" => Len(c.citations) > 0
    /\ LET labels == {Judged(reply[n], claim, SourceIndex(chunks)[n].text).label :
                         n \in ToSet(c.citations)}
       IN  /\ "SUPPORTS" \in labels <=> c.label = "SUPPORTS"
           /\ "CONTRADICTS" \in labels /\ "SUPPORTS" \notin labels => c.label = "CONTRADICTS"

\* evaluate_claim judges the claim, in each of its branches, as ClaimJudged says.
LEMMA EvaluateClaimIs ==
    ASSUME NEW a \in Seq(AnswerPieces), NEW claim, NEW chunks, NEW reply
    PROVE  ClaimJudged(EvaluateClaim(a, claim, chunks, reply), claim, a, chunks, reply)
<1> DEFINE cited == CitationsForClaim(a, claim, chunks)
           n == Len(cited)
           label(i) == Judged(reply[i], claim, SourceIndex(chunks)[i].text).label
           v == [k \in DOMAIN cited |->
                    Judged(reply[cited[k].source_index], claim, cited[k].source_text)]
           r == EvaluateClaim(a, claim, chunks, reply)
           none == Verdict("NO_CITATION", "none")
<1>1. /\ cited = <<>> => /\ r.claim = claim /\ r.citations = <<>> /\ r.label = "NO_CITATION"
      /\ cited # <<>> => /\ r.claim = claim /\ r.label = Best(v).label
                         /\ r.citations = [k \in DOMAIN cited |-> cited[k].source_index]
  <2>1. CASE cited = <<>>
    <3>1. r = [claim |-> claim, citations |-> <<>>, fallback |-> FALSE,
               label |-> none.label, judge |-> none.judge]
      BY <2>1, Zenon DEF EvaluateClaim
    <3>2. none.label = "NO_CITATION"
      BY DEF Verdict
    <3> HIDE DEF none, r
    <3> QED BY <2>1, <3>1, <3>2
  <2>2. CASE cited # <<>>
    <3>1. r = [claim |-> claim, citations |-> [k \in DOMAIN cited |-> cited[k].source_index],
               fallback |-> \E w \in ToSet(AskedFor(v)) : w.judge = "llm-fallback-lexical",
               label |-> Best(v).label, judge |-> Best(v).judge]
      BY <2>2, Zenon DEF EvaluateClaim
    <3> HIDE DEF v, r
    <3> QED BY <2>2, <3>1
  <2> QED BY <2>1, <2>2
<1>2. /\ n \in Nat /\ DOMAIN cited = 1..n /\ (n = 0 <=> cited = <<>>)
      /\ n <= (Len(a) + 1) * Len(a)
      /\ \A k \in 1..n : /\ cited[k].source_index \in Cited(a)
                         /\ cited[k].source_text = SourceIndex(chunks)[cited[k].source_index].text
  BY CitationsForClaimAre
<1> HIDE DEF cited, n, r
<1>3. CASE cited = <<>>
  <2>1. r.citations = <<>> /\ r.label = "NO_CITATION" /\ r.claim = claim /\ ToSet(<<>>) = {} /\ Len(<<>>) = 0
    BY <1>1, <1>3 DEF ToSet
  <2>2. 0 <= (Len(a) + 1) * Len(a)
    BY <1>2, <1>3
  <2>3. ClaimJudged(r, claim, a, chunks, reply)
    BY <2>1, <2>2 DEF ClaimJudged, Labels
  <2> QED BY <2>3 DEF r
<1>4. CASE cited # <<>>
  <2> DEFINE f == r.citations
  <2>1. f = [k \in 1..n |-> cited[k].source_index]
    BY <1>1, <1>2, <1>4
  <2> HIDE DEF f
  <2>2. Len(f) = n /\ DOMAIN f = 1..n
    BY <1>2, <2>1
  <2>3. \A i : i \in ToSet(f) <=> \E k \in 1..n : cited[k].source_index = i
    BY <2>1, <2>2 DEF ToSet
  <2>4. \A k \in 1..n : v[k].label = label(cited[k].source_index)
    BY <1>2
  <2>5. \A k \in 1..n : v[k].label \in Labels
    BY <2>4, JudgedIs
  <2>6. DOMAIN v = 1..n /\ Len(v) = n
    BY <1>2
  <2> HIDE DEF v
  <2>7. /\ Best(v).label \in Labels
        /\ (\E k \in 1..n : v[k].label = "SUPPORTS") <=> Best(v).label = "SUPPORTS"
        /\ (\E k \in 1..n : v[k].label = "CONTRADICTS") /\ (\A k \in 1..n : v[k].label # "SUPPORTS")
              => Best(v).label = "CONTRADICTS"
    <3>1. n \in Nat \ {0}
      BY <1>2, <1>4
    <3> QED BY <2>5, <2>6, <3>1, BestIs
  <2> DEFINE labels == {label(i) : i \in ToSet(f)}
  <2> HIDE DEF label
  <2>8. \A l : l \in labels <=> \E k \in 1..n : v[k].label = l
    BY <2>3, <2>4
  <2> HIDE DEF labels
  <2>9. /\ "SUPPORTS" \in labels <=> r.label = "SUPPORTS"
        /\ "CONTRADICTS" \in labels /\ "SUPPORTS" \notin labels => r.label = "CONTRADICTS"
        /\ r.label \in Labels
    BY <1>1, <1>4, <2>7, <2>8
  <2>10. ToSet(f) \subseteq Cited(a)
    BY <1>2, <2>3
  <2>11. r.claim = claim /\ Len(f) \in Nat /\ Len(f) <= (Len(a) + 1) * Len(a) /\ Len(f) > 0
    BY <1>1, <1>2, <1>4, <2>2
  <2>12. ClaimJudged(r, claim, a, chunks, reply)
    BY <2>9, <2>10, <2>11, Zenon DEF ClaimJudged, labels, label, f
  <2> QED BY <2>12 DEF r
<1> QED BY <1>3, <1>4

------------------------------------------------------------------------------

\* Nothing makes an answer longer.
LEMMA NormalizeShorter ==
    ASSUME NEW a \in Seq(AnswerPieces)
    PROVE  Len(Normalize(a)) \in Nat /\ Len(Normalize(a)) <= Len(a)
<1> DEFINE m == Marked(a)
           u == Undumped(m)
           t == Thin(u)
           s == Stripped(t)
<1>1. m \in Seq(AnswerPieces) /\ NoBare(m)
  BY MarkedHasNoBare
<1>2. Len(m) = Len(a) /\ Len(a) \in Nat
  BY DEF Marked
<1>3. u \in Seq(AnswerPieces) /\ Clean(u)
  BY <1>1, UndumpedIsClean
<1>4. t \in Seq(AnswerPieces) /\ Clean(t)
  BY <1>3, ThinIsClean
<1>5. s \in Seq(AnswerPieces)
  BY <1>4, StrippedIsClean
<1>6. Len(u) <= Len(m)
  <2> DEFINE I == {i \in DOMAIN m : ~InHeadingDump(m, i)}
  <2>1. I \in SUBSET (1..Len(m)) /\ u = Kept(m, I)
    BY <1>1 DEF Undumped
  <2> HIDE DEF I, m, u
  <2> QED BY <1>1, <2>1, KeptCount
<1>7. Len(t) <= Len(u)
  <2> DEFINE I == {i \in DOMAIN u :
               ~(i > 2 /\ u[i] = LineEnd /\ u[i - 1] = LineEnd /\ u[i - 2] = LineEnd)}
  <2>1. I \in SUBSET (1..Len(u)) /\ t = Kept(u, I)
    BY <1>3 DEF Thin
  <2> HIDE DEF I, u, t
  <2> QED BY <1>3, <2>1, KeptCount
<1>8. Len(s) <= Len(t)
  <2> HIDE DEF t
  <2>1. CASE InkedPieces(t) = {}
    BY <1>4, <2>1 DEF Stripped
  <2>2. CASE InkedPieces(t) # {}
    <3> DEFINE lo == Min(InkedPieces(t))
               hi == Max(InkedPieces(t))
    <3>1. lo \in 1..Len(t) /\ hi \in 1..Len(t) /\ lo <= hi
      BY <1>4, <2>2, InkedBounds
    <3>2. Len(s) = hi - lo + 1
      BY <1>4, <2>2, StrippedIs
    <3> HIDE DEF lo, hi, s
    <3> QED BY <3>1, <3>2
  <2> QED BY <2>1, <2>2
<1>9. Normalize(a) = s
  BY NormalizeSteps
<1>10. Len(m) \in Nat /\ Len(u) \in Nat /\ Len(t) \in Nat /\ Len(s) \in Nat
  <2> HIDE DEF m, u, t, s
  <2> QED BY <1>1, <1>3, <1>4, <1>5
<1> HIDE DEF m, u, t, s
<1> QED BY <1>2, <1>6, <1>7, <1>8, <1>9, <1>10

\* An answer that is no refusal.
LEMMA AnswerShape ==
    ASSUME NEW chunks, chunks \in Seq(ToSet(chunks)), NEW content \in Seq(AnswerPieces),
           ~Answer(chunks, content).refused
    PROVE  /\ Answer(chunks, content).answer \in Seq(AnswerPieces)
           /\ Len(Answer(chunks, content).answer) \in Nat
           /\ Len(Answer(chunks, content).answer) <= Len(content)
<1> DEFINE a == Normalize(content)
           c == ParseCitations(a, chunks)
           R == {c[k].source_index : k \in DOMAIN c}
           r == Answer(chunks, content)
           b == StripUnresolved(a, R)
           I == {i \in DOMAIN a : a[i].k = "cite" => a[i].n \in R}
<1>1. a \in Seq(AnswerPieces)
  BY NormalizeCleans
<1>2. Len(a) \in Nat /\ Len(a) <= Len(content) /\ Len(content) \in Nat
  BY NormalizeShorter
<1>3. chunks # <<>> /\ ~Refused(a)
  BY AnswerIs DEF Result
<1>4. r.answer = b
  <2>1. r = Result(b, c, FALSE)
    BY <1>3, AnswerIs
  <2> HIDE DEF r
  <2> QED BY <2>1 DEF Result
<1>5. b = Kept(a, I)
  BY Zenon DEF StripUnresolved, Where
<1> HIDE DEF a, R, r, b
<1>6. I \in SUBSET (1..Len(a))
  BY <1>1
<1> HIDE DEF I
<1>7. b \in Seq(AnswerPieces) /\ Len(b) \in Nat /\ Len(b) <= Len(a)
  BY <1>1, <1>5, <1>6, KeptElements, KeptCount
<1>8. Len(b) <= Len(content)
  BY <1>2, <1>7
<1> QED BY <1>4, <1>7, <1>8 DEF r

------------------------------------------------------------------------------
\* Scores.
CountOf(claims, l) == Len(Kept(claims, {i \in DOMAIN claims : claims[i].label = l}))
Fallbacks(claims) == Len(Kept(claims, {i \in DOMAIN claims : claims[i].fallback}))

\* The fields of the scores that the contract is about.
LEMMA ScoresAre ==
    ASSUME NEW claims, NEW refused, NEW empty, NEW relevancy
    PROVE  LET e == Scores(claims, refused, empty, relevancy)
               rest == CountOf(claims, "NO_CITATION") + CountOf(claims, "NEUTRAL")
                         + CountOf(claims, "CONTRADICTS")
           IN  /\ e.claims = claims /\ e.refused = refused /\ e.total_claims = Len(claims)
               /\ e.supported_claims = CountOf(claims, "SUPPORTS")
               /\ e.judge_fallbacks = Fallbacks(claims)
               /\ e.citation_coverage = Rate(Len(claims) - CountOf(claims, "NO_CITATION"), Len(claims))
               /\ ~refused => /\ e.faithfulness = Rate(CountOf(claims, "SUPPORTS"), Len(claims))
                              /\ e.citation_precision = Rate(CountOf(claims, "SUPPORTS"),
                                                             CitationCount(claims))
                              /\ Len(claims) # 0 => e.hallucination_rate = Rate(rest, Len(claims))
<1> DEFINE e == Scores(claims, refused, empty, relevancy)
           total == Len(claims)
           count(l) == CountOf(claims, l)
           unbacked == count("NO_CITATION") + count("NEUTRAL")
<1>1. e = [claims |-> claims, refused |-> refused, total_claims |-> total,
           supported_claims |-> count("SUPPORTS"),
           faithfulness |-> IF refused THEN Scale ELSE Rate(count("SUPPORTS"), total),
           citation_recall |-> IF refused THEN Scale ELSE Rate(count("SUPPORTS"), total),
           citation_precision |-> IF refused THEN Scale
                                  ELSE Rate(count("SUPPORTS"), CitationCount(claims)),
           hallucination_rate |-> IF refused THEN 0
               ELSE IF total = 0 THEN (IF empty THEN 0 ELSE Scale)
               ELSE Rate(unbacked + count("CONTRADICTS"), total),
           unsupported_claim_rate |-> Rate(unbacked, total),
           citation_coverage |-> Rate(total - count("NO_CITATION"), total),
           answer_relevancy |-> IF refused THEN 0 ELSE relevancy,
           judge_fallbacks |-> Fallbacks(claims)]
  BY Zenon DEF Scores, Where, CitationCount, CountOf, Fallbacks
<1> HIDE DEF e, total, count
<1>2. /\ e.claims = claims /\ e.refused = refused /\ e.total_claims = total
      /\ e.supported_claims = count("SUPPORTS")
      /\ e.judge_fallbacks = Fallbacks(claims)
      /\ e.citation_coverage = Rate(total - count("NO_CITATION"), total)
      /\ ~refused => /\ e.faithfulness = Rate(count("SUPPORTS"), total)
                     /\ e.citation_precision = Rate(count("SUPPORTS"), CitationCount(claims))
                     /\ total # 0 => e.hallucination_rate = Rate(unbacked + count("CONTRADICTS"), total)
  BY <1>1
<1> QED BY <1>2 DEF e, total, count

\* CountOf counts the claims of a label.
LEMMA CountOfIs ==
    ASSUME NEW claims, claims \in Seq(ToSet(claims)), NEW l
    PROVE  /\ CountOf(claims, l) = Cardinality({i \in 1..Len(claims) : claims[i].label = l})
           /\ CountOf(claims, l) \in Nat
<1> DEFINE I == {i \in DOMAIN claims : claims[i].label = l}
<1>1. DOMAIN claims = 1..Len(claims) /\ I \in SUBSET (1..Len(claims))
  OBVIOUS
<1>2. I = {i \in 1..Len(claims) : claims[i].label = l}
  BY <1>1
<1>3. CountOf(claims, l) = Len(Kept(claims, I))
  BY DEF CountOf
<1> HIDE DEF I
<1>4. Len(Kept(claims, I)) \in Nat /\ Len(Kept(claims, I)) = Cardinality(I)
  BY <1>1, KeptCount
<1> QED BY <1>2, <1>3, <1>4

\* There are at most as many fallbacks as claims.
LEMMA FallbacksAre ==
    ASSUME NEW claims, claims \in Seq(ToSet(claims))
    PROVE  Fallbacks(claims) <= Len(claims)
<1> DEFINE I == {i \in DOMAIN claims : claims[i].fallback}
<1>1. I \in SUBSET (1..Len(claims))
  <2>1. DOMAIN claims = 1..Len(claims)
    OBVIOUS
  <2> QED BY <2>1
<1>2. Fallbacks(claims) = Len(Kept(claims, I))
  BY DEF Fallbacks
<1> HIDE DEF I
<1> QED BY <1>1, <1>2, KeptCount

\* Every claim has one of four labels.
LEMMA LabelsCount ==
    ASSUME NEW claims, claims \in Seq(ToSet(claims)),
           \A k \in 1..Len(claims) : claims[k].label \in Labels
    PROVE  CountOf(claims, "SUPPORTS") + CountOf(claims, "CONTRADICTS")
              + CountOf(claims, "NEUTRAL") + CountOf(claims, "NO_CITATION") = Len(claims)
<1> DEFINE n == Len(claims)
           of(l) == {i \in 1..n : claims[i].label = l}
<1>1. n \in Nat
  OBVIOUS
<1>2. of("SUPPORTS") \cup of("CONTRADICTS") \cup of("NEUTRAL") \cup of("NO_CITATION") = 1..n
  BY DEF Labels
<1>3. /\ of("SUPPORTS") \cap of("CONTRADICTS") = {} /\ of("SUPPORTS") \cap of("NEUTRAL") = {}
      /\ of("SUPPORTS") \cap of("NO_CITATION") = {} /\ of("CONTRADICTS") \cap of("NEUTRAL") = {}
      /\ of("CONTRADICTS") \cap of("NO_CITATION") = {}
      /\ of("NEUTRAL") \cap of("NO_CITATION") = {}
  OBVIOUS
<1>4. \A l : CountOf(claims, l) = Cardinality(of(l))
  BY CountOfIs
<1> HIDE DEF of, n
<1>5. Cardinality(of("SUPPORTS")) + Cardinality(of("CONTRADICTS"))
        + Cardinality(of("NEUTRAL")) + Cardinality(of("NO_CITATION")) = n
  <2> DEFINE a == of("SUPPORTS")
             b == of("CONTRADICTS")
             c == of("NEUTRAL")
             d == of("NO_CITATION")
  <2>1. Parted(a, b, c, d, n)
    BY <1>2, <1>3 DEF Parted
  <2> HIDE DEF a, b, c, d
  <2>3. Cardinality(a) + Cardinality(b) + Cardinality(c) + Cardinality(d) = n
    BY <1>1, <2>1, FourParts
  <2> QED BY <2>3 DEF a, b, c, d
<1> QED BY <1>4, <1>5 DEF n
------------------------------------------------------------------------------

\* What an evaluated answer's claims are.
LEMMA EvaluatedIs ==
    ASSUME NEW query, NEW r, NEW chunks, NEW reply
    PROVE  LET texts == ExtractClaims(r.answer)
               claims == IF r.refused THEN <<>>
                         ELSE [k \in DOMAIN texts |-> EvaluateClaim(r.answer, texts[k], chunks, reply)]
           IN  EvaluateAnswer(query, r, chunks, reply)
                  = Scores(claims, r.refused, r.answer = <<>>, AnswerRelevancy(query, r.answer))
BY Zenon DEF EvaluateAnswer

\* The scores of a refusal.
LEMMA RefusedScores ==
    ASSUME NEW query, NEW r, NEW chunks, NEW reply, r.refused = TRUE
    PROVE  LET e == EvaluateAnswer(query, r, chunks, reply)
           IN  ScoresHonest(e, r, chunks) /\ JudgedFairly(e, chunks, reply)
<1> DEFINE e == EvaluateAnswer(query, r, chunks, reply)
           none == <<>>
           empty == r.answer = <<>>
<1>1. e = Scores(none, r.refused, empty, AnswerRelevancy(query, r.answer))
  BY EvaluatedIs
<1> HIDE DEF e, empty
<1>2. e.claims = none /\ e.refused = TRUE /\ e.total_claims = Len(none) /\ e.judge_fallbacks = Fallbacks(none)
  BY <1>1, ScoresAre
<1>3. none \in Seq(ToSet(none)) /\ Len(none) = 0 /\ DOMAIN none = {}
  OBVIOUS
<1>4. Fallbacks(none) <= Len(none)
  BY <1>3, FallbacksAre
<1> HIDE DEF none
<1>5. ScoresHonest(e, r, chunks)
  BY <1>2, <1>3, <1>4 DEF ScoresHonest
<1>6. JudgedFairly(e, chunks, reply)
  BY <1>2, <1>3 DEF JudgedFairly
<1> QED BY <1>5, <1>6 DEF e

\* The scores of an answer whose markers all resolve.
LEMMA AnswerScores ==
    ASSUME NEW query, NEW r, NEW chunks, NEW reply, r.refused = FALSE,
           r.answer \in Seq(AnswerPieces),
           Cited(r.answer) = {r.citations[k].source_index : k \in DOMAIN r.citations},
           (Len(r.answer) + 1) * ((Len(r.answer) + 1) * Len(r.answer)) <= Scale
    PROVE  LET e == EvaluateAnswer(query, r, chunks, reply)
           IN  ScoresHonest(e, r, chunks) /\ JudgedFairly(e, chunks, reply)
<1> DEFINE a == r.answer
           l == Len(a)
           b == (l + 1) * l
           e == EvaluateAnswer(query, r, chunks, reply)
           empty == a = <<>>
           texts == ExtractClaims(a)
           n == Len(texts)
           claims == [k \in DOMAIN texts |-> EvaluateClaim(a, texts[k], chunks, reply)]
           count(label) == CountOf(claims, label)
           rest == count("NO_CITATION") + count("NEUTRAL") + count("CONTRADICTS")
<1>1. e = Scores(claims, r.refused, empty, AnswerRelevancy(query, a))
  BY EvaluatedIs
<1> HIDE DEF e, empty
<1>2. texts \in Seq(Seq(AnswerPieces)) /\ n \in Nat /\ n <= l + 1 /\ l \in Nat
  BY ExtractClaimsIs
<1>3. DOMAIN texts = 1..n
  BY <1>2
<1> HIDE DEF texts, n, a
<1>4. claims \in Seq(ToSet(claims)) /\ Len(claims) = n /\ DOMAIN claims = 1..n
  <2>1. claims = [k \in 1..n |-> claims[k]]
    BY <1>3
  <2> HIDE DEF claims
  <2> QED BY <1>2, <2>1, SeqOfItself
<1>5. \A k \in 1..n : ClaimJudged(claims[k], texts[k], a, chunks, reply)
  <2>1. a \in Seq(AnswerPieces)
    BY DEF a
  <2> QED BY <1>3, <2>1, EvaluateClaimIs
<1> HIDE DEF claims
<1>6. \A k \in 1..n : claims[k].label \in Labels
  BY <1>5 DEF ClaimJudged
<1>7. /\ e.claims = claims /\ e.refused = FALSE /\ e.total_claims = n
      /\ e.supported_claims = count("SUPPORTS") /\ e.judge_fallbacks = Fallbacks(claims)
      /\ e.citation_coverage = Rate(n - count("NO_CITATION"), n)
      /\ e.faithfulness = Rate(count("SUPPORTS"), n)
      /\ e.citation_precision = Rate(count("SUPPORTS"), CitationCount(claims))
      /\ n # 0 => e.hallucination_rate = Rate(rest, n)
  <2> HIDE DEF count, rest
  <2>1. /\ e.claims = claims /\ e.refused = r.refused /\ e.total_claims = Len(claims)
        /\ e.supported_claims = CountOf(claims, "SUPPORTS")
        /\ e.judge_fallbacks = Fallbacks(claims)
        /\ e.citation_coverage = Rate(Len(claims) - CountOf(claims, "NO_CITATION"), Len(claims))
        /\ ~r.refused => /\ e.faithfulness = Rate(CountOf(claims, "SUPPORTS"), Len(claims))
                         /\ e.citation_precision = Rate(CountOf(claims, "SUPPORTS"),
                                                        CitationCount(claims))
                         /\ Len(claims) # 0 => e.hallucination_rate =
                              Rate(CountOf(claims, "NO_CITATION") + CountOf(claims, "NEUTRAL")
                                     + CountOf(claims, "CONTRADICTS"), Len(claims))
    BY <1>1, ScoresAre
  <2> QED BY <1>4, <2>1 DEF count, rest
<1>8. /\ count("SUPPORTS") \in Nat /\ count("NO_CITATION") \in Nat
      /\ count("NEUTRAL") \in Nat /\ count("CONTRADICTS") \in Nat
  BY <1>4, CountOfIs
<1>9. count("SUPPORTS") + count("CONTRADICTS") + count("NEUTRAL") + count("NO_CITATION") = n
  BY <1>4, <1>6, LabelsCount
<1>10. /\ CitationCount(claims) \in Nat /\ CitationCount(claims) <= n * b
       /\ \A k \in 1..n : Len(claims[k].citations) <= CitationCount(claims)
  <2>1. b \in Nat
    BY <1>2
  <2>2. \A k \in 1..n : Len(claims[k].citations) \in Nat /\ Len(claims[k].citations) <= b
    BY <1>5 DEF ClaimJudged
  <2> HIDE DEF b
  <2> QED BY <1>2, <1>4, <2>1, <2>2, CitationCountBounds
<1>11. CitationCount(claims) <= Scale
  <2>1. b \in Nat
    BY <1>2
  <2> HIDE DEF b
  <2>2. n * b <= (l + 1) * b /\ n * b \in Int /\ (l + 1) * b \in Int
    BY <1>2, <2>1, TimesKeepsOrder
  <2>3. (l + 1) * b <= Scale
    BY DEF b, a
  <2> DEFINE u == n * b
             v == (l + 1) * b
  <2>4. CitationCount(claims) \in Nat /\ CitationCount(claims) <= u /\ u \in Int /\ v \in Int
        /\ u <= v /\ v <= Scale
    BY <1>10, <2>2, <2>3
  <2> HIDE DEF u, v
  <2> QED BY <2>4, ScalePositive
<1>12. count("SUPPORTS") > 0 => CitationCount(claims) > 0
  <2>1. SUFFICES ASSUME count("SUPPORTS") > 0 PROVE CitationCount(claims) > 0
    OBVIOUS
  <2> DEFINE I == {i \in 1..n : claims[i].label = "SUPPORTS"}
  <2>2. count("SUPPORTS") = Cardinality(I)
    BY <1>4, CountOfIs
  <2>3. I # {}
    <3>1. Cardinality({}) = 0
      BY FS_EmptySet
    <3>2. SUFFICES ASSUME I = {} PROVE FALSE
      OBVIOUS
    <3>3. Cardinality(I) = 0
      BY <3>1, <3>2
    <3> HIDE DEF I, count
    <3> QED BY <2>1, <2>2, <3>3
  <2>4. PICK k \in 1..n : claims[k].label = "SUPPORTS"
    BY <2>3
  <2>5. Len(claims[k].citations) \in Nat /\ Len(claims[k].citations) > 0
    BY <1>5, <2>4 DEF ClaimJudged
  <2> QED BY <1>10, <2>5
<1>13. e.citation_precision > 0 <=> e.supported_claims > 0
  <2> HIDE DEF count
  <2> QED BY <1>7, <1>8, <1>10, <1>11, <1>12, RateSeen
<1>14. ASSUME n > 0 PROVE e.faithfulness + e.hallucination_rate \in (Scale - 1)..Scale
  <2> DEFINE p == count("SUPPORTS")
  <2>1. p \in Nat /\ rest \in Nat /\ n = p + rest
    BY <1>8, <1>9
  <2>2. e.faithfulness = Rate(p, n) /\ e.hallucination_rate = Rate(rest, n)
    BY <1>7, <1>14
  <2> HIDE DEF p, rest
  <2>3. Rate(p, p + rest) + Rate(rest, p + rest) \in (Scale - 1)..Scale
    BY <1>14, <2>1, RatesAddUp
  <2> QED BY <2>1, <2>2, <2>3
<1>15. e.faithfulness <= e.citation_coverage
  <2> DEFINE p == count("SUPPORTS")
             q == n - count("NO_CITATION")
  <2>1. p \in Nat /\ q \in Nat /\ p <= q
    BY <1>2, <1>8, <1>9
  <2>2. e.faithfulness = Rate(p, n) /\ e.citation_coverage = Rate(q, n)
    BY <1>7
  <2> HIDE DEF p, q
  <2> QED BY <1>2, <2>1, <2>2, RatesGrow
<1>16. e.judge_fallbacks <= e.total_claims
  BY <1>4, <1>7, FallbacksAre
<1>17. \A k \in DOMAIN e.claims :
          ToSet(e.claims[k].citations) \subseteq {r.citations[j].source_index : j \in DOMAIN r.citations}
  BY <1>4, <1>5, <1>7 DEF ClaimJudged, a
<1>18. ScoresHonest(e, r, chunks)
  <2> HIDE DEF count, rest
  <2> QED BY <1>7, <1>13, <1>14, <1>15, <1>16, <1>17 DEF ScoresHonest
<1>19. JudgedFairly(e, chunks, reply)
  <2>1. ASSUME NEW k \in DOMAIN e.claims
        PROVE  LET c == e.claims[k]
                   labels == {Judged(reply[i], c.claim, SourceIndex(chunks)[i].text).label :
                                 i \in ToSet(c.citations)}
               IN  /\ "SUPPORTS" \in labels <=> c.label = "SUPPORTS"
                   /\ "CONTRADICTS" \in labels /\ "SUPPORTS" \notin labels => c.label = "CONTRADICTS"
    <3>1. e.claims[k] = claims[k] /\ k \in 1..n
      BY <1>4, <1>7
    <3>2. ClaimJudged(claims[k], texts[k], a, chunks, reply) /\ claims[k].claim = texts[k]
      BY <1>5, <3>1 DEF ClaimJudged
    <3>3. ClaimJudged(e.claims[k], e.claims[k].claim, a, chunks, reply)
      BY <3>1, <3>2
    <3> QED BY <3>3, Zenon DEF ClaimJudged
  <2> QED BY <2>1, Zenon DEF JudgedFairly
<1> QED BY <1>18, <1>19 DEF e

------------------------------------------------------------------------------

\* Answers, in the specification.
LEMMA JobsAre ==
    ASSUME NEW j, NEW c, NEW inputs, j \in Jobs(c, inputs)
    PROVE  j.call = c /\ j.of \in inputs
BY DEF Jobs

\* Nothing has been returned at first, and a job's arguments are ones of its call.
JobTyped ==
    /\ job.call = "answer" => job.of \in Replies
    /\ job.call = "assemble" => job.of \in Candidates
    /\ job.call = "search" => job.of \in Corpora
    /\ job.call = "embed" => job.of \in Batched
    /\ job.call = "tokenize" => job.of \in Words_
    /\ job.call = "rescore" => job.of \in Rescored
    /\ job.call = "lookup" => job.of \in Lookups
    /\ job.call = "compare" => job.of \in Runs
    /\ job.call \in {"modes", "evaluate"} => job.of \in DataSets

\* The job chosen at the start is well typed and nothing has been computed yet.
LEMMA InitialJob == Init => out = None /\ JobTyped
<1> SUFFICES ASSUME Init PROVE out = None /\ JobTyped
  OBVIOUS
<1>1. out = None
  BY DEF Init
<1>2. \/ job \in Jobs("document", Documents)
      \/ job \in Jobs("recursive", Documents)
      \/ job \in Jobs("semantic", Documents)
      \/ job \in Jobs("fallback", Documents)
      \/ job \in Jobs("comments", Comments)
      \/ job \in Jobs("search", Corpora)
      \/ job \in Jobs("embed", Batched)
      \/ job \in Jobs("tokenize", Words_)
      \/ job \in Jobs("assemble", Candidates)
      \/ job \in Jobs("answer", Replies)
      \/ job \in Jobs("rescore", Rescored)
      \/ job \in Jobs("lookup", Lookups)
      \/ job \in Jobs("stream", Streams)
      \/ job \in Jobs("judge", Judged_)
      \/ job \in Jobs("tasks", Tasks)
      \/ job \in Jobs("compare", Runs)
      \/ job \in Jobs("modes", DataSets)
      \/ job \in Jobs("gate", Reports)
      \/ job \in Jobs("evaluate", DataSets)
  BY Zenon DEF Init
<1>3. CASE job \in Jobs("answer", Replies)
  <2>1. job.call = "answer" /\ job.of \in Replies
    BY <1>3, JobsAre
  <2> QED BY <1>1, <2>1 DEF JobTyped
<1>4. CASE job \in Jobs("assemble", Candidates)
  <2>1. job.call = "assemble" /\ job.of \in Candidates
    BY <1>4, JobsAre
  <2> QED BY <1>1, <2>1 DEF JobTyped
<1>5. CASE job \in Jobs("search", Corpora)
  <2>1. job.call = "search" /\ job.of \in Corpora
    BY <1>5, JobsAre
  <2> QED BY <1>1, <2>1 DEF JobTyped
<1>6. CASE job \in Jobs("embed", Batched)
  <2>1. job.call = "embed" /\ job.of \in Batched
    BY <1>6, JobsAre
  <2> QED BY <1>1, <2>1 DEF JobTyped
<1>7. CASE job \in Jobs("tokenize", Words_)
  <2>1. job.call = "tokenize" /\ job.of \in Words_
    BY <1>7, JobsAre
  <2> QED BY <1>1, <2>1 DEF JobTyped
<1>8. CASE job \in Jobs("rescore", Rescored)
  <2>1. job.call = "rescore" /\ job.of \in Rescored
    BY <1>8, JobsAre
  <2> QED BY <1>1, <2>1 DEF JobTyped
<1>9. CASE job \in Jobs("lookup", Lookups)
  <2>1. job.call = "lookup" /\ job.of \in Lookups
    BY <1>9, JobsAre
  <2> QED BY <1>1, <2>1 DEF JobTyped
<1>10. CASE job \in Jobs("compare", Runs)
  <2>1. job.call = "compare" /\ job.of \in Runs
    BY <1>10, JobsAre
  <2> QED BY <1>1, <2>1 DEF JobTyped
<1>11. CASE job \in Jobs("modes", DataSets) \/ job \in Jobs("evaluate", DataSets)
  <2>1. job.call \in {"modes", "evaluate"} /\ job.of \in DataSets
    BY <1>11, JobsAre
  <2> QED BY <1>1, <2>1 DEF JobTyped
<1>12. CASE job \in Jobs("document", Documents)
          \/ job \in Jobs("recursive", Documents)
          \/ job \in Jobs("semantic", Documents)
          \/ job \in Jobs("fallback", Documents)
          \/ job \in Jobs("comments", Comments)
          \/ job \in Jobs("stream", Streams)
          \/ job \in Jobs("judge", Judged_)
          \/ job \in Jobs("tasks", Tasks)
          \/ job \in Jobs("gate", Reports)
  <2>1. job.call \in {"document", "recursive", "semantic", "fallback", "comments", "stream",
                     "judge", "tasks", "gate"}
    BY <1>12, JobsAre
  <2> QED BY <1>1, <2>1 DEF JobTyped
<1> QED BY <1>2, <1>3, <1>4, <1>5, <1>6, <1>7, <1>8, <1>9, <1>10, <1>11, <1>12

\* What a job to answer returned.
AnswerInv ==
    job.call = "answer" =>
        /\ job.of \in Replies
        /\ out # None =>
              /\ out.result = Answer(job.of.context, job.of.content)
              /\ out.scores = EvaluateAnswer(<<2>>, Answer(job.of.context, job.of.content),
                                             job.of.context, job.of.judged)

\* A call returns once, and what its job asks for.
ReturnsItsCall ==
    /\ job.call = "answer" => AnswerSome
    /\ job.call = "assemble" => AssembleSome
    /\ job.call = "search" => Find
    /\ job.call = "embed" => EmbedSome
    /\ job.call = "tokenize" => TokenizeSome
    /\ job.call = "rescore" => Rescore
    /\ job.call = "lookup" => LookUp
    /\ job.call = "judge" => JudgeSome
    /\ job.call = "tasks" => RunTasks
    /\ job.call = "compare" => CompareRuns
    /\ job.call = "modes" => CompareSettings
    /\ job.call = "gate" => GateSome
    /\ job.call = "evaluate" => \/ RunRetrieval \/ RunRerank \/ RunContext \/ RunAnswers
                               \/ RunProbes \/ Report \/ GateReport

\* Every action keeps the job and leaves the result of the call the job names.
LEMMA CallsReturn == Next => job' = job /\ ReturnsItsCall
<1> SUFFICES ASSUME Next PROVE job' = job /\ ReturnsItsCall
  OBVIOUS
<1>1. CASE ChunkADocument
  BY <1>1 DEF ReturnsItsCall, ChunkADocument, Return
<1>2. CASE ChunkRecursively
  BY <1>2 DEF ReturnsItsCall, ChunkRecursively, Return
<1>3. CASE ChunkSemantically
  BY <1>3 DEF ReturnsItsCall, ChunkSemantically, Return
<1>4. CASE ChunkWithoutModel
  BY <1>4 DEF ReturnsItsCall, ChunkWithoutModel, Return
<1>5. CASE ChunkSomeComments
  BY <1>5 DEF ReturnsItsCall, ChunkSomeComments, Return
<1>6. CASE Find
  BY <1>6 DEF ReturnsItsCall, Find, Return
<1>7. CASE EmbedSome
  BY <1>7 DEF ReturnsItsCall, EmbedSome, Return
<1>8. CASE TokenizeSome
  BY <1>8 DEF ReturnsItsCall, TokenizeSome, Return
<1>9. CASE AssembleSome
  BY <1>9 DEF ReturnsItsCall, AssembleSome, Return
<1>10. CASE AnswerSome
  BY <1>10 DEF ReturnsItsCall, AnswerSome, Return
<1>11. CASE Rescore
  BY <1>11 DEF ReturnsItsCall, Rescore, Return
<1>12. CASE LookUp
  BY <1>12 DEF ReturnsItsCall, LookUp, Return
<1>13. CASE StreamSome
  BY <1>13 DEF ReturnsItsCall, StreamSome, Return
<1>14. CASE JudgeSome
  BY <1>14 DEF ReturnsItsCall, JudgeSome, Return
<1>15. CASE RunTasks
  BY <1>15 DEF ReturnsItsCall, RunTasks, Return
<1>16. CASE CompareRuns
  BY <1>16 DEF ReturnsItsCall, CompareRuns, Return
<1>17. CASE CompareSettings
  BY <1>17 DEF ReturnsItsCall, CompareSettings, Return
<1>18. CASE GateSome
  BY <1>18 DEF ReturnsItsCall, GateSome, Return
<1>19. CASE RunRetrieval \/ RunRerank \/ RunContext \/ RunAnswers \/ RunProbes
  BY <1>19 DEF ReturnsItsCall, RunRetrieval, RunRerank, RunContext, RunAnswers, RunProbes, Layer
<1>20. CASE Report \/ GateReport
  BY <1>20 DEF ReturnsItsCall, Report, GateReport, Layer
<1> QED BY <1>1, <1>2, <1>3, <1>4, <1>5, <1>6, <1>7, <1>8, <1>9, <1>10, <1>11, <1>12, <1>13,
           <1>14, <1>15, <1>16, <1>17, <1>18, <1>19, <1>20 DEF Next

\* Whatever a model replies, the contract of answers holds of it.
LEMMA ReplyContract ==
    ASSUME NEW reply \in Replies
    PROVE  LET r == Answer(reply.context, reply.content)
               e == EvaluateAnswer(<<2>>, r, reply.context, reply.judged)
           IN  /\ CitationsOpen(r, reply.context)
               /\ StreamAgrees(reply.context, reply.content)
               /\ ScoresHonest(e, r, reply.context)
               /\ JudgedFairly(e, reply.context, reply.judged)
<1> DEFINE chunks == reply.context
           content == reply.content
           r == Answer(chunks, content)
           l == Len(content)
<1>1. chunks \in Seq(ToSet(chunks)) /\ content \in Seq(AnswerPieces) /\ (l + 1) * ((l + 1) * l) <= Scale
  BY RepliesAreAnswers
<1> HIDE DEF chunks, content
<1>2. CitationsOpen(r, chunks)
  BY <1>1, AnswersOpen
<1>3. StreamAgrees(chunks, content)
  BY <1>1, StreamsAgree
<1>4. r.refused = TRUE \/ r.refused = FALSE
  <2>1. \/ r = Result(Refusal, <<>>, TRUE)
        \/ \E w : r = Result(w, <<>>, TRUE)
        \/ \E w, c : r = Result(w, c, FALSE)
    <3> HIDE DEF r
    <3>1. r = LET a == Normalize(content)
                  c == ParseCitations(a, chunks)
              IN  IF chunks = <<>> THEN Result(Refusal, <<>>, TRUE)
                  ELSE IF Refused(a) THEN Result(a, <<>>, TRUE)
                  ELSE Result(StripUnresolved(a, {c[k].source_index : k \in DOMAIN c}), c, FALSE)
      BY AnswerIs DEF r
    <3> QED BY <3>1, Zenon
  <2> HIDE DEF r
  <2> QED BY <2>1 DEF Result
<1>5. CASE r.refused = TRUE
  <2>1. LET e == EvaluateAnswer(<<2>>, r, chunks, reply.judged)
        IN  ScoresHonest(e, r, chunks) /\ JudgedFairly(e, chunks, reply.judged)
    <3> HIDE DEF r
    <3> QED BY <1>5, RefusedScores
  <2> QED BY <1>2, <1>3, <2>1 DEF chunks, content
<1>6. CASE r.refused = FALSE
  <2> DEFINE m == Len(r.answer)
  <2>1. r.answer \in Seq(AnswerPieces) /\ m \in Nat /\ m <= l /\ l \in Nat
    <3>1. l \in Nat
      BY <1>1
    <3> QED BY <1>1, <1>6, <3>1, AnswerShape
  <2>2. Cited(r.answer) = {r.citations[k].source_index : k \in DOMAIN r.citations}
    <3> HIDE DEF r
    <3> QED BY <1>2, <1>6 DEF CitationsOpen
  <2>3. (m + 1) * ((m + 1) * m) <= Scale
    <3> HIDE DEF m, l
    <3>1. (m + 1) * m <= (l + 1) * m /\ (m + 1) * m \in Nat /\ (l + 1) * m \in Nat
      BY <2>1, TimesKeepsOrder
    <3>2. (l + 1) * m <= (l + 1) * l /\ (l + 1) * l \in Nat
      <4>1. m * (l + 1) <= l * (l + 1) /\ m * (l + 1) = (l + 1) * m /\ l * (l + 1) = (l + 1) * l
        BY <2>1, TimesKeepsOrder
      <4>2. (l + 1) * l \in Nat
        BY <2>1
      <4> QED BY <4>1, <4>2
    <3> DEFINE u == (m + 1) * m
               v == (l + 1) * l
    <3>3. u <= v /\ u \in Nat /\ v \in Nat
      <4> DEFINE w == (l + 1) * m
      <4>1. u <= w /\ w <= v /\ u \in Nat /\ v \in Nat /\ w \in Nat
        BY <3>1, <3>2
      <4> HIDE DEF u, v, w
      <4> QED BY <4>1
    <3> HIDE DEF u, v
    <3>4. (m + 1) * u <= (l + 1) * u /\ (m + 1) * u \in Int /\ (l + 1) * u \in Int
      BY <2>1, <3>3, TimesKeepsOrder
    <3>5. u * (l + 1) <= v * (l + 1) /\ u * (l + 1) = (l + 1) * u /\ v * (l + 1) = (l + 1) * v
      BY <2>1, <3>3, TimesKeepsOrder
    <3>6. (l + 1) * v <= Scale /\ (l + 1) * v \in Int
      <4>1. (l + 1) * v <= Scale
        BY <1>1 DEF v, l
      <4> QED BY <2>1, <3>3, <4>1
    <3>7. (m + 1) * u <= Scale
      <4> DEFINE p == (m + 1) * u
                 q == (l + 1) * u
                 w == (l + 1) * v
      <4>1. p <= q /\ q <= w /\ w <= Scale /\ p \in Int /\ q \in Int /\ w \in Int
        BY <3>4, <3>5, <3>6
      <4> HIDE DEF p, q, w
      <4>2. p <= Scale
        BY <4>1, ScalePositive
      <4> QED BY <4>2 DEF p
    <3> QED BY <3>7 DEF u
  <2>4. LET e == EvaluateAnswer(<<2>>, r, chunks, reply.judged)
        IN  ScoresHonest(e, r, chunks) /\ JudgedFairly(e, chunks, reply.judged)
    <3> HIDE DEF r
    <3> QED BY <1>6, <2>1, <2>2, <2>3, AnswerScores DEF m
  <2> QED BY <1>2, <1>3, <2>4 DEF chunks, content
<1> QED BY <1>4, <1>5, <1>6

\* The contract of answers holds whatever the documents, questions and models are.
THEOREM AnswersKeepTheContract == Spec => []AnswerContract
<1>1. Init => AnswerInv
  BY InitialJob DEF AnswerInv, JobTyped
<1>2. AnswerInv /\ [Next]_vars => AnswerInv'
  <2> SUFFICES ASSUME AnswerInv, [Next]_vars PROVE AnswerInv'
    OBVIOUS
  <2>1. CASE Next
    <3>1. job' = job /\ (job.call = "answer" => AnswerSome)
      BY <2>1, CallsReturn DEF ReturnsItsCall
    <3>2. SUFFICES ASSUME job.call = "answer" PROVE AnswerInv'
      BY <3>1 DEF AnswerInv
    <3>3. out' = [result |-> Answer(job.of.context, job.of.content),
                  scores |-> EvaluateAnswer(<<2>>, Answer(job.of.context, job.of.content),
                                            job.of.context, job.of.judged)]
      BY <3>1, <3>2, Zenon DEF AnswerSome, Return, x
    <3>4. /\ out'.result = Answer(job.of.context, job.of.content)
          /\ out'.scores = EvaluateAnswer(<<2>>, Answer(job.of.context, job.of.content),
                                          job.of.context, job.of.judged)
      BY <3>3
    <3> QED BY <3>1, <3>2, <3>4 DEF AnswerInv
  <2>2. CASE UNCHANGED vars
    BY <2>2 DEF vars, AnswerInv
  <2> QED BY <2>1, <2>2
<1>3. AnswerInv => AnswerContract
  <2> SUFFICES ASSUME AnswerInv, Returned("answer") PROVE AnswerContract
    BY DEF AnswerContract
  <2>1. /\ job.of \in Replies
        /\ out.result = Answer(job.of.context, job.of.content)
        /\ out.scores = EvaluateAnswer(<<2>>, Answer(job.of.context, job.of.content),
                                       job.of.context, job.of.judged)
    BY DEF AnswerInv, Returned
  <2> DEFINE reply == job.of
             r == out.result
             e == out.scores
  <2> HIDE DEF reply, r, e
  <2>2. /\ reply \in Replies /\ r = Answer(reply.context, reply.content)
        /\ e = EvaluateAnswer(<<2>>, r, reply.context, reply.judged)
    BY <2>1 DEF reply, r, e
  <2>3. /\ CitationsOpen(r, reply.context)
        /\ StreamAgrees(reply.context, reply.content)
        /\ ScoresHonest(e, r, reply.context)
        /\ JudgedFairly(e, reply.context, reply.judged)
    BY <2>2, ReplyContract
  <2> QED BY <2>3 DEF AnswerContract, reply, r, e, x
<1> QED BY <1>1, <1>2, <1>3, PTL DEF Spec


------------------------------------------------------------------------------
\* Sums of natural numbers, as numbers of pairs.

\* The pairs of a place in I and a number up to its weight.
Pairs(w, I) == UNION {{i} \X (1..w[i]) : i \in I}
Weight(w, I) == Cardinality(Pairs(w, I))

\* Such a pair is there.
LEMMA PairIn ==
    ASSUME NEW w, NEW I, NEW i \in I, NEW j \in 1..w[i]
    PROVE  <<i, j>> \in Pairs(w, I)
BY DEF Pairs

\* There are finitely many pairs.
LEMMA PairsFinite ==
    ASSUME NEW n \in Nat, NEW w \in [1..n -> Nat], NEW I \in SUBSET (1..n)
    PROVE  IsFiniteSet(Pairs(w, I)) /\ Weight(w, I) \in Nat
<1>1. ASSUME NEW i \in 1..n PROVE IsFiniteSet({i} \X (1..w[i]))
  <2>1. IsFiniteSet({i}) /\ IsFiniteSet(1..w[i])
    BY FS_Singleton, UpToIsFinite
  <2> QED BY <2>1, FS_Product
<1>2. IsFiniteSet(I)
  <2>1. IsFiniteSet(1..n)
    BY UpToIsFinite
  <2> QED BY <2>1, FS_Subset
<1>3. IsFiniteSet({{i} \X (1..w[i]) : i \in I})
  <2> DEFINE t == {{i} \X (1..w[i]) : i \in I}
             h == [i \in I |-> {i} \X (1..w[i])]
  <2>1. h \in [I -> t] /\ \A e \in t : \E i \in I : h[i] = e
    OBVIOUS
  <2> HIDE DEF h, t
  <2>2. h \in Surjection(I, t)
    BY <2>1 DEF Surjection
  <2>3. IsFiniteSet(t)
    BY <1>2, <2>2, FS_Surjection
  <2> QED BY <2>3 DEF t
<1>4. \A e \in {{i} \X (1..w[i]) : i \in I} : IsFiniteSet(e)
  BY <1>1
<1>5. IsFiniteSet(Pairs(w, I))
  BY <1>3, <1>4, FS_UNION DEF Pairs
<1> QED BY <1>5, FS_CardinalityType DEF Weight

\* The weight of one place.
LEMMA WeightOfOne ==
    ASSUME NEW n \in Nat, NEW w \in [1..n -> Nat], NEW p \in 1..n
    PROVE  Weight(w, {p}) = w[p]
<1>1. Pairs(w, {p}) = {p} \X (1..w[p])
  BY DEF Pairs
<1>2. IsFiniteSet({p}) /\ Cardinality({p}) = 1
  BY FS_Singleton
<1>3. w[p] \in Nat /\ IsFiniteSet(1..w[p]) /\ Cardinality(1..w[p]) = w[p]
  BY UpToIsFinite
<1>4. Cardinality({p} \X (1..w[p])) = 1 * w[p]
  BY <1>2, <1>3, FS_Product
<1>5. 1 * w[p] = w[p]
  BY <1>3
<1>6. Weight(w, {p}) = Cardinality({p} \X (1..w[p]))
  BY <1>1, Zenon DEF Weight
<1> QED BY <1>4, <1>5, <1>6, Zenon

\* Weights of disjoint sets add up.
LEMMA WeightDisjoint ==
    ASSUME NEW n \in Nat, NEW w \in [1..n -> Nat], NEW I \in SUBSET (1..n),
           NEW J \in SUBSET (1..n), I \cap J = {}
    PROVE  Weight(w, I \cup J) = Weight(w, I) + Weight(w, J)
<1>1. Pairs(w, I \cup J) = Pairs(w, I) \cup Pairs(w, J)
  BY DEF Pairs
<1>2. Pairs(w, I) \cap Pairs(w, J) = {}
  <2>1. SUFFICES ASSUME NEW p \in Pairs(w, I), p \in Pairs(w, J) PROVE FALSE
    OBVIOUS
  <2>2. PICK i \in I : \E k \in 1..w[i] : p = <<i, k>>
    BY DEF Pairs
  <2>3. PICK j \in J : \E k \in 1..w[j] : p = <<j, k>>
    BY <2>1 DEF Pairs
  <2> QED BY <2>2, <2>3
<1>3. IsFiniteSet(Pairs(w, I)) /\ IsFiniteSet(Pairs(w, J))
  BY PairsFinite
<1> QED BY <1>1, <1>2, <1>3, DisjointUnion DEF Weight

\* A place more adds its weight.
LEMMA WeightStep ==
    ASSUME NEW n \in Nat, NEW w \in [1..n -> Nat], NEW I \in SUBSET (1..n), NEW p \in I
    PROVE  /\ Weight(w, I) = w[p] + Weight(w, I \ {p})
           /\ w[p] \in Nat /\ Weight(w, I \ {p}) \in Nat
<1>1. {p} \in SUBSET (1..n) /\ I \ {p} \in SUBSET (1..n) /\ p \in 1..n /\ w[p] \in Nat
  OBVIOUS
<1>2. {p} \cap (I \ {p}) = {} /\ {p} \cup (I \ {p}) = I
  OBVIOUS
<1>3. Weight(w, {p} \cup (I \ {p})) = Weight(w, {p}) + Weight(w, I \ {p})
  BY <1>1, <1>2, WeightDisjoint
<1>4. Weight(w, {p}) = w[p]
  BY <1>1, WeightOfOne
<1>5. Weight(w, I \ {p}) \in Nat
  BY <1>1, PairsFinite
<1> QED BY <1>1, <1>2, <1>3, <1>4, <1>5

\* f takes I one to one into J, to places of at least the weight.
Heavier(f, v, I, w, J) ==
    /\ f \in [I -> J]
    /\ \A i, j \in I : f[i] = f[j] => i = j
    /\ \A i \in I : v[i] <= w[f[i]]

\* What goes one to one into heavier places weighs no more.
LEMMA WeightByInjection ==
    ASSUME NEW m \in Nat, NEW v \in [1..m -> Nat], NEW I \in SUBSET (1..m),
           NEW n \in Nat, NEW w \in [1..n -> Nat], NEW J \in SUBSET (1..n),
           NEW f, Heavier(f, v, I, w, J)
    PROVE  Weight(v, I) <= Weight(w, J)
<1> DEFINE P == Pairs(v, I)
           Q == Pairs(w, J)
           h == [p \in P |-> <<f[p[1]], p[2]>>]
<1>1. ASSUME NEW p \in P PROVE p[1] \in I /\ p[2] \in 1..v[p[1]] /\ p = <<p[1], p[2]>>
  <2>1. PICK i \in I : \E j \in 1..v[i] : p = <<i, j>>
    BY DEF Pairs
  <2>2. PICK j \in 1..v[i] : p = <<i, j>>
    BY <2>1
  <2> QED BY <2>2
<1>2. ASSUME NEW p \in P PROVE <<f[p[1]], p[2]>> \in Q
  <2>1. f[p[1]] \in J /\ v[p[1]] <= w[f[p[1]]] /\ v[p[1]] \in Nat /\ w[f[p[1]]] \in Nat
    BY <1>1 DEF Heavier
  <2>2. p[2] \in 1..w[f[p[1]]]
    BY <1>1, <2>1
  <2> QED BY <2>1, <2>2, PairIn
<1>3. h \in [P -> Q]
  <2> HIDE DEF P, Q
  <2> QED BY <1>2
<1>4. ASSUME NEW p \in P, NEW q \in P, h[p] = h[q] PROVE p = q
  <2>1. h[p] = <<f[p[1]], p[2]>> /\ h[q] = <<f[q[1]], q[2]>>
    OBVIOUS
  <2> DEFINE a == f[p[1]]
             b == f[q[1]]
             c == p[2]
             d == q[2]
  <2>5. <<a, c>> = <<b, d>>
    BY <1>4, <2>1, Zenon
  <2> HIDE DEF h, a, b, c, d
  <2>6. a = b /\ c = d
    BY <2>5
  <2>2. f[p[1]] = f[q[1]] /\ p[2] = q[2]
    BY <2>6, Zenon DEF a, b, c, d
  <2>3. p[1] \in I /\ q[1] \in I
    BY <1>1
  <2>4. p[1] = q[1]
    BY <2>2, <2>3 DEF Heavier
  <2> QED BY <1>1, <2>2, <2>4
<1> HIDE DEF h, P, Q
<1>5. h \in Injection(P, Q)
  BY <1>3, <1>4 DEF Injection, IsInjective
<1>6. IsFiniteSet(Q)
  BY PairsFinite DEF Q
<1>7. Cardinality(P) <= Cardinality(Q)
  BY <1>5, <1>6, FS_Injection
<1> QED BY <1>7 DEF Weight, P, Q


\* A sum over the places up to n, taken one by one.
SumsOf(f, w, n) ==
    f = [d \in SUBSET (1..n) |-> IF d = {} THEN 0 ELSE w[Some(d)] + f[d \ {Some(d)}]]

\* There is such a function.
LEMMA SumsAreWeights ==
    ASSUME NEW n \in Nat, NEW w \in [1..n -> Nat]
    PROVE  \E f : SumsOf(f, w, n)
<1> DEFINE f == [d \in SUBSET (1..n) |-> Weight(w, d)]
           g == [d \in SUBSET (1..n) |-> IF d = {} THEN 0 ELSE w[Some(d)] + f[d \ {Some(d)}]]
<1>1. ASSUME NEW d \in SUBSET (1..n) PROVE f[d] = g[d]
  <2>1. CASE d = {}
    <3>1. Pairs(w, {}) = {}
      BY DEF Pairs
    <3>2. Weight(w, {}) = 0
      BY <3>1, FS_EmptySet DEF Weight
    <3> QED BY <2>1, <3>2
  <2>2. CASE d # {}
    <3> DEFINE p == Some(d)
    <3>1. p \in d /\ d \ {p} \in SUBSET (1..n)
      BY <2>2, SomeIsOne
    <3>2. f[d] = Weight(w, d) /\ f[d \ {p}] = Weight(w, d \ {p}) /\ g[d] = w[p] + f[d \ {p}]
      BY <2>2, <3>1
    <3> HIDE DEF p, f, g
    <3>3. Weight(w, d) = w[p] + Weight(w, d \ {p})
      BY <3>1, WeightStep
    <3> QED BY <3>2, <3>3
  <2> QED BY <2>1, <2>2
<1>2. f = [d \in SUBSET (1..n) |-> f[d]] /\ g = [d \in SUBSET (1..n) |-> g[d]]
  OBVIOUS
<1> HIDE DEF f, g
<1>3. f = g
  BY <1>1, <1>2, Zenon
<1>4. SumsOf(f, w, n)
  BY <1>3, Zenon DEF SumsOf, g
<1> QED BY <1>4

\* Every such function sums up to the weight.
LEMMA SumsWeigh ==
    ASSUME NEW n \in Nat, NEW w \in [1..n -> Nat], NEW f, SumsOf(f, w, n)
    PROVE  f[1..n] = Weight(w, 1..n)
<1> DEFINE P == {m \in Nat : \A d \in SUBSET (1..n) : Cardinality(d) = m => f[d] = Weight(w, d)}
<1>1. \A d \in SUBSET (1..n) : f[d] = IF d = {} THEN 0 ELSE w[Some(d)] + f[d \ {Some(d)}]
  BY Zenon DEF SumsOf
<1>2. 0 \in P
  <2>1. ASSUME NEW d \in SUBSET (1..n), Cardinality(d) = 0 PROVE f[d] = Weight(w, d)
    <3>1. d = {}
      <4>1. d # {} => IsFiniteSet(d)
        BY SomeIsOne
      <4> QED BY <2>1, <4>1, FS_EmptySet
    <3>2. Pairs(w, {}) = {}
      BY DEF Pairs
    <3>3. Weight(w, {}) = 0
      BY <3>2, FS_EmptySet DEF Weight
    <3> QED BY <1>1, <3>1, <3>3
  <2> QED BY <2>1
<1>3. ASSUME NEW m \in P PROVE m + 1 \in P
  <2>1. m \in Nat /\ \A d \in SUBSET (1..n) : Cardinality(d) = m => f[d] = Weight(w, d)
    OBVIOUS
  <2>2. ASSUME NEW d \in SUBSET (1..n), Cardinality(d) = m + 1 PROVE f[d] = Weight(w, d)
    <3> DEFINE p == Some(d)
               e == d \ {p}
    <3>1. d # {}
      <4>1. Cardinality({}) = 0 /\ m + 1 # 0
        BY <2>1, FS_EmptySet
      <4> HIDE DEF P
      <4> QED BY <2>2, <4>1
    <3>2. p \in d /\ e \in SUBSET (1..n) /\ Cardinality(e) = m
      <4>1. p \in d /\ e \in SUBSET (1..n) /\ Cardinality(e) = Cardinality(d) - 1
        BY <3>1, SomeIsOne
      <4>2. (m + 1) - 1 = m
        BY <2>1
      <4> HIDE DEF P, p, e
      <4> QED BY <2>2, <4>1, <4>2
    <3>3. f[d] = w[p] + f[e]
      BY <1>1, <3>1
    <3>4. f[e] = Weight(w, e)
      BY <2>1, <3>2
    <3> HIDE DEF p
    <3>5. Weight(w, d) = w[p] + Weight(w, e)
      BY <3>2, WeightStep
    <3> HIDE DEF e
    <3> QED BY <3>3, <3>4, <3>5
  <2> QED BY <2>1, <2>2
<1>4. P = Nat
  <2>1. P \in SUBSET Nat
    OBVIOUS
  <2> HIDE DEF P
  <2> QED BY <1>2, <1>3, <2>1, NaturalsBySteps
<1>5. Cardinality(1..n) = n
  BY UpToIsFinite
<1> HIDE DEF P
<1>6. n \in P
  BY <1>4
<1> QED BY <1>5, <1>6 DEF P

\* More weight at every place is more in all.
LEMMA WeightGrows ==
    ASSUME NEW n \in Nat, NEW v \in [1..n -> Nat], NEW w \in [1..n -> Nat],
           \A i \in 1..n : v[i] <= w[i]
    PROVE  Weight(v, 1..n) <= Weight(w, 1..n)
<1> DEFINE f == [i \in 1..n |-> i]
<1>1. Heavier(f, v, 1..n, w, 1..n)
  BY DEF Heavier
<1> HIDE DEF f
<1>2. 1..n \in SUBSET (1..n)
  OBVIOUS
<1> QED BY <1>1, <1>2, WeightByInjection

\* The weight of places depends on their own weights only.
LEMMA WeightAgrees ==
    ASSUME NEW v, NEW w, NEW I, \A i \in I : v[i] = w[i]
    PROVE  Weight(v, I) = Weight(w, I)
<1>1. Pairs(v, I) = Pairs(w, I)
  BY DEF Pairs
<1> QED BY <1>1 DEF Weight

------------------------------------------------------------------------------
\* The tokens of a list of chunks.

\* A chunk with a text and a score.
Rated(c) == c.text \in Seq(Int) /\ c.score \in Int

\* An estimate is a natural number, none for the empty text only.
LEMMA EstimateType ==
    ASSUME NEW t \in Seq(Int)
    PROVE  EstimateTokens(t) \in Nat /\ (t # <<>> => EstimateTokens(t) > 0)
<1>1. Len(t) \in Nat /\ (t # <<>> => Len(t) > 0)
  OBVIOUS
<1>2. CASE t # <<>> /\ Len(t) >= CharsPerToken
  <2>1. Len(t) \div CharsPerToken \in Nat /\ 1 * CharsPerToken <= Len(t) /\ 1 \in Nat
    BY <1>1, <1>2, CharsPerTokenPositive, Quotient
  <2>2. 1 <= Len(t) \div CharsPerToken
    BY <1>1, <2>1, CharsPerTokenPositive, QuotientBounds
  <2>3. EstimateTokens(t) = Len(t) \div CharsPerToken
    BY <1>1, <1>2, CharsPerTokenPositive DEF EstimateTokens
  <2> QED BY <2>1, <2>2, <2>3
<1>3. CASE ~(t # <<>> /\ Len(t) >= CharsPerToken)
  BY <1>1, <1>3, CharsPerTokenPositive DEF EstimateTokens
<1> QED BY <1>2, <1>3

\* A text no longer than another is estimated to have no more tokens.
LEMMA EstimateGrows ==
    ASSUME NEW s \in Seq(Int), NEW t \in Seq(Int), Len(s) <= Len(t)
    PROVE  EstimateTokens(s) <= EstimateTokens(t)
<1>1. EstimateTokens(s) \in Nat /\ EstimateTokens(t) \in Nat /\ (t # <<>> => EstimateTokens(t) > 0)
  BY EstimateType
<1>2. Len(s) \in Nat /\ Len(t) \in Nat /\ (t = <<>> => s = <<>>)
  OBVIOUS
<1>3. CASE s = <<>>
  BY <1>1, <1>3 DEF EstimateTokens
<1>4. CASE s # <<>> /\ Len(s) < CharsPerToken
  BY <1>1, <1>2, <1>4 DEF EstimateTokens
<1>5. CASE s # <<>> /\ ~(Len(s) < CharsPerToken)
  <2> DEFINE a == Len(s)
             b == Len(t)
             q == a \div CharsPerToken
  <2>1. t # <<>> /\ ~(b < CharsPerToken)
    BY <1>2, <1>5, CharsPerTokenPositive
  <2>2. EstimateTokens(s) = q /\ EstimateTokens(t) = b \div CharsPerToken
    BY <1>5, <2>1 DEF EstimateTokens
  <2>3. a \in Nat /\ b \in Nat /\ a <= b
    BY <1>2
  <2> HIDE DEF a, b
  <2>4. q \in Nat /\ q * CharsPerToken <= a
    BY <2>3, CharsPerTokenPositive, Quotient
  <2> HIDE DEF q
  <2>5. q * CharsPerToken <= b
    <3>1. q * CharsPerToken \in Nat
      BY <2>4, CharsPerTokenPositive
    <3> QED BY <2>3, <2>4, <3>1
  <2>6. q <= b \div CharsPerToken
    BY <2>3, <2>4, <2>5, CharsPerTokenPositive, QuotientBounds
  <2> QED BY <2>2, <2>6
<1> QED BY <1>3, <1>4, <1>5


\* The token counts of a list.
Sizes(s) == [i \in DOMAIN s |-> EstimateTokens(s[i].text)]
TokenSums(f, s, n) ==
    f = [d \in SUBSET (1..n) |->
            IF d = {} THEN 0 ELSE EstimateTokens(s[Some(d)].text) + f[d \ {Some(d)}]]

\* The tokens of a list are a sum over it.
LEMMA TokensAre ==
    ASSUME NEW s, NEW n, DOMAIN s = 1..n
    PROVE  Tokens(s) = (CHOOSE f : TokenSums(f, s, n))[1..n]
BY Zenon DEF Tokens, MapThenSumSet, MapThenFoldSet, TokenSums, Some

\* Such a sum is one of the list's token counts.
LEMMA TokenSumsAre ==
    ASSUME NEW s, NEW n \in Nat, DOMAIN s = 1..n, NEW f
    PROVE  TokenSums(f, s, n) <=> SumsOf(f, Sizes(s), n)
<1> DEFINE g == [d \in SUBSET (1..n) |->
                    IF d = {} THEN 0 ELSE EstimateTokens(s[Some(d)].text) + f[d \ {Some(d)}]]
           h == [d \in SUBSET (1..n) |-> IF d = {} THEN 0 ELSE Sizes(s)[Some(d)] + f[d \ {Some(d)}]]
<1>1. ASSUME NEW d \in SUBSET (1..n) PROVE g[d] = h[d]
  <2>1. CASE d = {}
    BY <2>1
  <2>2. CASE d # {}
    <3>1. Some(d) \in 1..n
      BY <2>2, SomeIsOne
    <3>2. Sizes(s)[Some(d)] = EstimateTokens(s[Some(d)].text)
      BY <3>1 DEF Sizes
    <3> QED BY <2>2, <3>2
  <2> QED BY <2>1, <2>2
<1>2. g = [d \in SUBSET (1..n) |-> g[d]] /\ h = [d \in SUBSET (1..n) |-> h[d]]
  OBVIOUS
<1> HIDE DEF g, h
<1>3. g = h
  BY <1>1, <1>2, Zenon
<1> QED BY <1>3, Zenon DEF TokenSums, SumsOf, g, h

\* The tokens of a list are the weight of its token counts.
LEMMA TokensWeigh ==
    ASSUME NEW s, NEW n \in Nat, DOMAIN s = 1..n, \A i \in 1..n : s[i].text \in Seq(Int)
    PROVE  /\ Sizes(s) \in [1..n -> Nat]
           /\ Tokens(s) \in Nat /\ Tokens(s) = Weight(Sizes(s), 1..n)
<1>1. Sizes(s) \in [1..n -> Nat]
  <2>1. \A i \in 1..n : EstimateTokens(s[i].text) \in Nat
    BY EstimateType
  <2> QED BY <2>1 DEF Sizes
<1> DEFINE g == CHOOSE f : TokenSums(f, s, n)
<1>2. TokenSums(g, s, n)
  <2>1. PICK f : SumsOf(f, Sizes(s), n)
    BY <1>1, SumsAreWeights
  <2>2. TokenSums(f, s, n)
    BY <2>1, TokenSumsAre
  <2> QED BY <2>2, Zenon
<1>3. Tokens(s) = g[1..n]
  BY TokensAre
<1> HIDE DEF g
<1>4. SumsOf(g, Sizes(s), n)
  BY <1>2, TokenSumsAre
<1>5. g[1..n] = Weight(Sizes(s), 1..n)
  BY <1>1, <1>4, SumsWeigh
<1>6. Weight(Sizes(s), 1..n) \in Nat
  <2>1. 1..n \in SUBSET (1..n)
    OBVIOUS
  <2> QED BY <1>1, <2>1, PairsFinite
<1> QED BY <1>1, <1>3, <1>5, <1>6

\* A list of as many chunks, none with more tokens, has no more in all.
LEMMA TokensGrow ==
    ASSUME NEW s, NEW t, NEW n \in Nat, DOMAIN s = 1..n, DOMAIN t = 1..n,
           \A i \in 1..n : s[i].text \in Seq(Int) /\ t[i].text \in Seq(Int),
           \A i \in 1..n : EstimateTokens(s[i].text) <= EstimateTokens(t[i].text)
    PROVE  Tokens(s) \in Nat /\ Tokens(t) \in Nat /\ Tokens(s) <= Tokens(t)
<1>1. /\ Sizes(s) \in [1..n -> Nat] /\ Tokens(s) \in Nat /\ Tokens(s) = Weight(Sizes(s), 1..n)
  BY TokensWeigh
<1>2. /\ Sizes(t) \in [1..n -> Nat] /\ Tokens(t) \in Nat /\ Tokens(t) = Weight(Sizes(t), 1..n)
  BY TokensWeigh
<1>3. \A i \in 1..n : Sizes(s)[i] <= Sizes(t)[i]
  BY DEF Sizes
<1>4. Weight(Sizes(s), 1..n) <= Weight(Sizes(t), 1..n)
  BY <1>1, <1>2, <1>3, WeightGrows
<1> QED BY <1>1, <1>2, <1>4

\* A chunk more adds its tokens; no chunk has none.
LEMMA TokensOfMore ==
    ASSUME NEW C, \A c \in C : Rated(c), NEW s \in Seq(C), NEW c \in C
    PROVE  /\ Tokens(s) \in Nat /\ EstimateTokens(c.text) \in Nat
           /\ Tokens(Append(s, c)) = Tokens(s) + EstimateTokens(c.text)
<1> DEFINE n == Len(s)
           t == Append(s, c)
           w == Sizes(t)
<1>1. /\ n \in Nat /\ DOMAIN s = 1..n /\ DOMAIN t = 1..(n + 1) /\ t[n + 1] = c
      /\ \A i \in 1..n : t[i] = s[i]
      /\ \A i \in 1..n : s[i] \in C
      /\ n + 1 \in Nat
  OBVIOUS
<1>2. \A i \in 1..(n + 1) : t[i] \in C
  <2>1. \A i \in 1..(n + 1) : i = n + 1 \/ i \in 1..n
    BY <1>1
  <2> HIDE DEF t, n
  <2> QED BY <1>1, <2>1
<1> HIDE DEF t, n
<1>3. Sizes(s) \in [1..n -> Nat] /\ Tokens(s) \in Nat /\ Tokens(s) = Weight(Sizes(s), 1..n)
  <2>1. \A i \in 1..n : s[i].text \in Seq(Int)
    BY <1>1 DEF Rated
  <2> QED BY <1>1, <2>1, TokensWeigh
<1>4. w \in [1..(n + 1) -> Nat] /\ Tokens(t) = Weight(w, 1..(n + 1))
  <2>1. \A i \in 1..(n + 1) : t[i].text \in Seq(Int)
    BY <1>2 DEF Rated
  <2> QED BY <1>1, <2>1, TokensWeigh
<1>5. w[n + 1] = EstimateTokens(c.text) /\ \A i \in 1..n : Sizes(s)[i] = w[i]
  <2>1. n + 1 \in DOMAIN t /\ \A i \in 1..n : i \in DOMAIN t /\ i \in DOMAIN s
    BY <1>1
  <2> QED BY <1>1, <2>1 DEF Sizes
<1>6. Weight(Sizes(s), 1..n) = Weight(w, 1..n)
  <2> HIDE DEF w
  <2> QED BY <1>5, WeightAgrees
<1> HIDE DEF w
<1>7. Weight(w, 1..(n + 1)) = w[n + 1] + Weight(w, 1..n) /\ w[n + 1] \in Nat
  <2> DEFINE q == n + 1
             I == 1..q
  <2>1. q \in Nat /\ q \in I /\ I \in SUBSET (1..q) /\ I \ {q} = 1..n /\ w \in [1..q -> Nat]
    BY <1>1, <1>4
  <2> HIDE DEF q, I
  <2>2. Weight(w, I) = w[q] + Weight(w, I \ {q}) /\ w[q] \in Nat
    BY <2>1, WeightStep
  <2> QED BY <2>1, <2>2 DEF q, I
<1>8. EstimateTokens(c.text) \in Nat
  BY <1>5, <1>7
<1>9. Tokens(t) = w[n + 1] + Tokens(s)
  BY <1>3, <1>4, <1>6, <1>7, Zenon
<1> QED BY <1>3, <1>5, <1>7, <1>8, <1>9 DEF t

\* No chunks have no tokens.
LEMMA TokensOfNone == Tokens(<<>>) = 0
<1>1. DOMAIN <<>> = 1..0 /\ 0 \in Nat /\ \A i \in 1..0 : <<>>[i].text \in Seq(Int)
  OBVIOUS
<1>2. Tokens(<<>>) = Weight(Sizes(<<>>), 1..0)
  BY <1>1, TokensWeigh
<1>3. Pairs(Sizes(<<>>), 1..0) = {}
  BY DEF Pairs
<1> QED BY <1>2, <1>3, FS_EmptySet DEF Weight


------------------------------------------------------------------------------
\* Lists taken from lists.

\* The elements of t are elements of s at different places up to k.
Taken(t, s, k) ==
    \E p \in [1..Len(t) -> 1..k] :
        /\ \A i, j \in 1..Len(t) : p[i] = p[j] => i = j
        /\ \A i \in 1..Len(t) : t[i] = s[p[i]]
Takes(t, s) == Taken(t, s, Len(s))

\* A list takes itself, and nothing more than a list that takes it.
LEMMA TakesItself ==
    ASSUME NEW A, NEW s \in Seq(A)
    PROVE  Takes(s, s)
<1> DEFINE p == [i \in 1..Len(s) |-> i]
<1>1. /\ p \in [1..Len(s) -> 1..Len(s)]
      /\ \A i, j \in 1..Len(s) : p[i] = p[j] => i = j
      /\ \A i \in 1..Len(s) : s[i] = s[p[i]]
  OBVIOUS
<1> HIDE DEF p
<1> QED BY <1>1 DEF Takes, Taken

\* A selection from a selection of a sequence is a selection from the sequence.
LEMMA TakesFromTaken ==
    ASSUME NEW A, NEW r \in Seq(A), NEW s \in Seq(A), NEW t \in Seq(A), Takes(r, s), Takes(s, t)
    PROVE  Takes(r, t)
<1>1. PICK p \in [1..Len(r) -> 1..Len(s)] :
        /\ \A i, j \in 1..Len(r) : p[i] = p[j] => i = j
        /\ \A i \in 1..Len(r) : r[i] = s[p[i]]
  BY DEF Takes, Taken
<1>2. PICK q \in [1..Len(s) -> 1..Len(t)] :
        /\ \A i, j \in 1..Len(s) : q[i] = q[j] => i = j
        /\ \A i \in 1..Len(s) : s[i] = t[q[i]]
  BY DEF Takes, Taken
<1> DEFINE h == [i \in 1..Len(r) |-> q[p[i]]]
<1>3. h \in [1..Len(r) -> 1..Len(t)] /\ \A i \in 1..Len(r) : h[i] = q[p[i]] /\ p[i] \in 1..Len(s)
  BY <1>1, <1>2
<1> HIDE DEF h
<1>4. ASSUME NEW i \in 1..Len(r), NEW j \in 1..Len(r), h[i] = h[j] PROVE i = j
  BY <1>1, <1>2, <1>3, <1>4
<1>5. \A i \in 1..Len(r) : r[i] = t[h[i]]
  BY <1>1, <1>2, <1>3
<1> QED BY <1>3, <1>4, <1>5 DEF Takes, Taken

\* A list is no longer than one it is taken from.
LEMMA TakesNoMore ==
    ASSUME NEW A, NEW s \in Seq(A), NEW t \in Seq(A), NEW k \in Nat, Taken(t, s, k)
    PROVE  Len(t) <= k
<1>1. PICK p \in [1..Len(t) -> 1..k] : \A i, j \in 1..Len(t) : p[i] = p[j] => i = j
  BY DEF Taken
<1>2. p \in Injection(1..Len(t), 1..k)
  BY <1>1 DEF Injection, IsInjective
<1>3. /\ IsFiniteSet(1..k) /\ Cardinality(1..k) = k
      /\ Cardinality(1..Len(t)) = Len(t) /\ Len(t) \in Nat
  BY UpToIsFinite
<1>4. Cardinality(1..Len(t)) <= Cardinality(1..k)
  BY <1>2, <1>3, FS_Injection
<1> QED BY <1>3, <1>4

\* One place further, what was taken still is, and so is the element there.
LEMMA TakenStep ==
    ASSUME NEW A, NEW s \in Seq(A), NEW t \in Seq(A), NEW k \in Nat, k < Len(s), Taken(t, s, k)
    PROVE  Taken(t, s, k + 1) /\ Taken(Append(t, s[k + 1]), s, k + 1)
<1> DEFINE l == Len(t)
           u == Append(t, s[k + 1])
<1>1. PICK p \in [1..l -> 1..k] :
        /\ \A i, j \in 1..l : p[i] = p[j] => i = j
        /\ \A i \in 1..l : t[i] = s[p[i]]
  BY DEF Taken
<1>2. p \in [1..l -> 1..(k + 1)]
  BY <1>1
<1>3. Taken(t, s, k + 1)
  BY <1>1, <1>2 DEF Taken
<1>4. Len(u) = l + 1 /\ u[l + 1] = s[k + 1] /\ \A i \in 1..l : u[i] = t[i]
  OBVIOUS
<1> DEFINE q == [i \in 1..(l + 1) |-> IF i = l + 1 THEN k + 1 ELSE p[i]]
<1>5. l \in Nat /\ \A i \in 1..(l + 1) : i = l + 1 \/ i \in 1..l
  OBVIOUS
<1>6. \A i \in 1..l : i # l + 1 /\ i \in 1..(l + 1) /\ q[i] = p[i] /\ p[i] # k + 1 /\ p[i] \in 1..k
  BY <1>1, <1>5
<1>7. q[l + 1] = k + 1 /\ l + 1 \in 1..(l + 1) /\ k + 1 \in 1..(k + 1)
  BY <1>5
<1>8. q \in [1..(l + 1) -> 1..(k + 1)]
  <2>1. \A i \in 1..(l + 1) : (IF i = l + 1 THEN k + 1 ELSE p[i]) \in 1..(k + 1)
    BY <1>5, <1>6, <1>7
  <2> QED BY <2>1
<1> HIDE DEF q, u, l
<1>9. \A i, j \in 1..(l + 1) : q[i] = q[j] => i = j
  <2>1. \A i, j \in 1..l : p[i] = p[j] => i = j
    BY <1>1
  <2> QED BY <1>5, <1>6, <1>7, <2>1, Zenon
<1>10. \A i \in 1..(l + 1) : u[i] = s[q[i]]
  BY <1>1, <1>4, <1>5, <1>6, <1>7
<1>11. Taken(u, s, k + 1)
  <2>1. /\ q \in [1..Len(u) -> 1..(k + 1)]
        /\ \A i, j \in 1..Len(u) : q[i] = q[j] => i = j
        /\ \A i \in 1..Len(u) : u[i] = s[q[i]]
    BY <1>4, <1>8, <1>9, <1>10, Zenon
  <2> QED BY <2>1, Zenon DEF Taken
<1> QED BY <1>3, <1>11 DEF u

\* The first k, and those a condition lets through, are taken.
LEMMA TopKIs ==
    ASSUME NEW A, NEW s \in Seq(A), NEW k \in Nat
    PROVE  /\ TopK(s, k) \in Seq(A) /\ Takes(TopK(s, k), s)
           /\ Len(TopK(s, k)) = IF k < Len(s) THEN k ELSE Len(s)
<1> DEFINE m == IF k < Len(s) THEN k ELSE Len(s)
           t == SubSeq(s, 1, m)
<1>1. m \in Nat /\ m <= Len(s) /\ 1 \in Nat \ {0} /\ TopK(s, k) = t
  BY DEF TopK
<1> HIDE DEF m
<1>2. /\ t \in Seq(A) /\ Len(t) = IF 1 <= m THEN m - 1 + 1 ELSE 0
      /\ \A i \in 1..Len(t) : t[i] = s[1 + i - 1]
  BY <1>1, SubSeqElements
<1> HIDE DEF t
<1>3. Len(t) = m /\ \A i \in 1..m : t[i] = s[i]
  BY <1>1, <1>2
<1> DEFINE p == [i \in 1..m |-> i]
<1>4. p \in [1..m -> 1..Len(s)] /\ \A i \in 1..m : p[i] = i
  BY <1>1
<1> HIDE DEF p
<1>5. Takes(t, s)
  BY <1>3, <1>4 DEF Takes, Taken
<1> QED BY <1>1, <1>2, <1>3, <1>5 DEF m

\* The elements kept at a set of positions are a selection from the sequence.
LEMMA KeptTakes ==
    ASSUME NEW A, NEW s \in Seq(A), NEW I \in SUBSET (1..Len(s))
    PROVE  Kept(s, I) \in Seq(A) /\ Takes(Kept(s, I), s)
<1> DEFINE o == Ordered(I, Len(s))
           t == Kept(s, I)
<1>1. /\ t \in Seq(A) /\ Len(t) = Len(o) /\ Len(o) \in Nat
      /\ \A k \in 1..Len(o) : o[k] \in I /\ t[k] = s[o[k]]
      /\ \A i, j \in 1..Len(o) : i < j => o[i] < o[j]
  BY KeptIs
<1> HIDE DEF o, t
<1> DEFINE p == [k \in 1..Len(t) |-> o[k]]
<1>2. \A k \in 1..Len(t) : o[k] \in 1..Len(s) /\ o[k] \in Nat
  <2>1. \A i \in I : i \in 1..Len(s) /\ i \in Nat
    OBVIOUS
  <2> QED BY <1>1, <2>1
<1>3. p \in [1..Len(t) -> 1..Len(s)] /\ \A k \in 1..Len(t) : p[k] = o[k]
  BY <1>2
<1> HIDE DEF p
<1>4. ASSUME NEW i \in 1..Len(t), NEW j \in 1..Len(t), p[i] = p[j] PROVE i = j
  <2>1. ~(i < j) /\ ~(j < i)
    BY <1>1, <1>2, <1>3, <1>4
  <2> QED BY <2>1
<1>5. \A k \in 1..Len(t) : t[k] = s[p[k]]
  BY <1>1, <1>3
<1> QED BY <1>1, <1>3, <1>4, <1>5 DEF Takes, Taken, t


------------------------------------------------------------------------------
\* The order of sorted lists.

\* Before is a strict order of places.
LEMMA BeforeIs ==
    ASSUME NEW d, d \in SUBSET Nat, NEW v \in [d -> Int]
    PROVE  /\ \A i \in d : ~Before(v, i, i)
           /\ \A i, j \in d : i = j \/ Before(v, i, j) \/ Before(v, j, i)
           /\ \A i, j, k \in d : Before(v, i, j) /\ Before(v, j, k) => Before(v, i, k)
<1>1. \A i \in d : v[i] \in Int /\ i \in Nat
  OBVIOUS
<1>2. \A i \in d : ~Before(v, i, i)
  BY <1>1 DEF Before
<1>3. \A i, j \in d : i = j \/ Before(v, i, j) \/ Before(v, j, i)
  BY <1>1 DEF Before
<1>4. ASSUME NEW i \in d, NEW j \in d, NEW k \in d, Before(v, i, j), Before(v, j, k)
      PROVE  Before(v, i, k)
  BY <1>1, <1>4 DEF Before
<1> QED BY <1>2, <1>3, <1>4

\* What is before a place is fewer than before a later one, so that the ranks

\* are the places again.
LEMMA RanksAre ==
    ASSUME NEW n \in Nat, NEW v \in [1..n -> Int]
    PROVE  /\ \A k \in 1..n : \E i \in 1..n : Ranks(v)[i] = k
           /\ Ranks(v) \in [1..n -> 1..n]
           /\ \A i, j \in 1..n : Ranks(v)[i] = Ranks(v)[j] => i = j
           /\ \A i, j \in 1..n : Before(v, i, j) => Ranks(v)[i] < Ranks(v)[j]
<1> DEFINE d == 1..n
           ahead(i) == {j \in d : Before(v, j, i)}
           r == Ranks(v)
<1>1. r = [i \in d |-> Cardinality(ahead(i)) + 1]
  <2>1. DOMAIN v = d
    OBVIOUS
  <2> QED BY <2>1, Zenon DEF Ranks
<1>2. /\ \A i \in d : ~Before(v, i, i)
      /\ \A i, j \in d : i = j \/ Before(v, i, j) \/ Before(v, j, i)
      /\ \A i, j, k \in d : Before(v, i, j) /\ Before(v, j, k) => Before(v, i, k)
  <2>1. d \in SUBSET Nat /\ v \in [d -> Int]
    OBVIOUS
  <2> HIDE DEF d
  <2> QED BY <2>1, BeforeIs
<1>3. IsFiniteSet(d) /\ Cardinality(d) = n
  BY UpToIsFinite
<1> HIDE DEF r
<1>4. ASSUME NEW i \in d
      PROVE  /\ IsFiniteSet(ahead(i)) /\ Cardinality(ahead(i)) \in Nat
             /\ Cardinality(ahead(i)) < n
  <2>1. ahead(i) \in SUBSET (d \ {i})
    BY <1>2
  <2>2. IsFiniteSet(d \ {i}) /\ Cardinality(d \ {i}) = n - 1
    BY <1>3, FS_RemoveElement
  <2> HIDE DEF d, ahead
  <2>3. IsFiniteSet(ahead(i)) /\ Cardinality(ahead(i)) <= n - 1 /\ Cardinality(ahead(i)) \in Nat
    <3>1. IsFiniteSet(ahead(i)) /\ Cardinality(ahead(i)) <= Cardinality(d \ {i})
      BY <2>1, <2>2, FS_Subset
    <3> QED BY <2>2, <3>1, FS_CardinalityType
  <2> QED BY <2>3
<1>5. ASSUME NEW i \in d, NEW j \in d, Before(v, i, j)
      PROVE  Cardinality(ahead(i)) < Cardinality(ahead(j))
  <2>1. ahead(i) \cup {i} \in SUBSET ahead(j) /\ i \notin ahead(i)
    BY <1>2, <1>5
  <2>2. IsFiniteSet(ahead(i)) /\ IsFiniteSet(ahead(j)) /\ Cardinality(ahead(i)) \in Nat
    BY <1>4
  <2> DEFINE a == ahead(i)
             b == ahead(j)
  <2> HIDE DEF a, b
  <2>3. a \cup {i} \in SUBSET b /\ i \notin a /\ IsFiniteSet(a) /\ IsFiniteSet(b) /\ Cardinality(a) \in Nat
    BY <2>1, <2>2 DEF a, b
  <2>4. Cardinality(a \cup {i}) = Cardinality(a) + 1
    BY <2>3, FS_AddElement
  <2>5. Cardinality(a \cup {i}) <= Cardinality(b) /\ Cardinality(b) \in Nat
    BY <2>3, FS_Subset, FS_CardinalityType
  <2>6. Cardinality(a) < Cardinality(b)
    BY <2>3, <2>4, <2>5
  <2> QED BY <2>6 DEF a, b
<1>6. ASSUME NEW i \in d, NEW j \in d, r[i] = r[j] PROVE i = j
  <2> HIDE DEF d, ahead
  <2>1. /\ r[i] = Cardinality(ahead(i)) + 1 /\ r[j] = Cardinality(ahead(j)) + 1
        /\ Cardinality(ahead(i)) \in Nat /\ Cardinality(ahead(j)) \in Nat
    BY <1>1, <1>4
  <2>2. ~Before(v, i, j) /\ ~Before(v, j, i)
    <3>1. Cardinality(ahead(i)) = Cardinality(ahead(j))
      <4> DEFINE a == Cardinality(ahead(i))
                 b == Cardinality(ahead(j))
      <4>1. a + 1 = b + 1 /\ a \in Nat /\ b \in Nat
        BY <1>6, <2>1, Zenon
      <4> HIDE DEF a, b
      <4>2. a = b
        BY <4>1
      <4> QED BY <4>2 DEF a, b
    <3>2. Before(v, i, j) => Cardinality(ahead(i)) < Cardinality(ahead(j))
      BY <1>5
    <3>3. Before(v, j, i) => Cardinality(ahead(j)) < Cardinality(ahead(i))
      BY <1>5
    <3> QED BY <2>1, <3>1, <3>2, <3>3
  <2> QED BY <1>2, <2>2
<1>7. r \in [d -> d]
  <2>1. \A i \in d : Cardinality(ahead(i)) + 1 \in d
    <3> HIDE DEF ahead
    <3> QED BY <1>4
  <2> HIDE DEF d, ahead
  <2> QED BY <1>1, <2>1
<1> HIDE DEF d
<1>8. r \in Injection(d, d)
  BY <1>6, <1>7 DEF Injection, IsInjective
<1>9. r \in Surjection(d, d)
  BY <1>3, <1>8, FS_Injection
<1>10. ASSUME NEW i \in d, NEW j \in d, Before(v, i, j) PROVE r[i] < r[j]
  <2> DEFINE a == Cardinality(ahead(i))
             b == Cardinality(ahead(j))
  <2>1. a < b /\ a \in Nat /\ b \in Nat /\ r[i] = a + 1 /\ r[j] = b + 1
    <3> HIDE DEF ahead
    <3> QED BY <1>1, <1>4, <1>5, <1>10
  <2> HIDE DEF a, b
  <2> QED BY <2>1
<1> QED BY <1>6, <1>7, <1>9, <1>10 DEF Surjection, d, r

\* The elements of s by the ranks of their scores.
Placed(s, r) == [k \in DOMAIN s |-> s[CHOOSE i \in DOMAIN s : r[i] = k]]

\* A sorted list has the elements of the list, each once.
LEMMA PlacedIs ==
    ASSUME NEW A, NEW s \in Seq(A), NEW v \in [1..Len(s) -> Int]
    PROVE  /\ Placed(s, Ranks(v)) \in Seq(A)
           /\ Len(Placed(s, Ranks(v))) = Len(s)
           /\ Takes(Placed(s, Ranks(v)), s)
<1> DEFINE n == Len(s)
           r == Ranks(v)
           p == [k \in DOMAIN s |-> CHOOSE i \in DOMAIN s : r[i] = k]
           t == [k \in DOMAIN s |-> s[p[k]]]
<1>1. n \in Nat /\ DOMAIN s = 1..n /\ \A i \in 1..n : s[i] \in A
  OBVIOUS
<1>2. \A k \in 1..n : \E i \in 1..n : r[i] = k
  <2> HIDE DEF n
  <2> QED BY <1>1, RanksAre DEF n
<1> HIDE DEF n, r
<1>3. \A k \in 1..n : p[k] \in 1..n /\ r[p[k]] = k
  <2>1. \A k \in DOMAIN s : \E i \in DOMAIN s : r[i] = k
    BY <1>1, <1>2
  <2>2. \A k \in DOMAIN s : p[k] \in DOMAIN s /\ r[p[k]] = k
    BY <2>1, Zenon
  <2> HIDE DEF p
  <2> QED BY <1>1, <2>2
<1>4. p \in [1..n -> 1..n]
  <2>1. p = [k \in DOMAIN s |-> p[k]]
    OBVIOUS
  <2> HIDE DEF p
  <2> QED BY <1>1, <1>3, <2>1
<1>5. Placed(s, r) = t
  <2>1. \A k \in DOMAIN s : s[CHOOSE i \in DOMAIN s : r[i] = k] = s[p[k]]
    OBVIOUS
  <2>2. Placed(s, r) = [k \in DOMAIN s |-> s[CHOOSE i \in DOMAIN s : r[i] = k]]
    BY Zenon DEF Placed
  <2> QED BY <2>1, <2>2
<1> HIDE DEF p
<1>6. t \in [1..n -> A]
  BY <1>1, <1>3
<1>7. t \in Seq(A) /\ Len(t) = n /\ \A k \in 1..n : t[k] = s[p[k]]
  BY <1>1, <1>6
<1>8. \A i, j \in 1..n : p[i] = p[j] => i = j
  BY <1>3, Zenon
<1> HIDE DEF t
<1>9. Takes(t, s)
  BY <1>4, <1>7, <1>8 DEF Takes, Taken, n
<1> QED BY <1>5, <1>7, <1>9 DEF n, r

\* The first of the best is among those that remain.
LEMMA FirstMostIs ==
    ASSUME NEW n \in Nat, NEW d \in SUBSET (1..n), d # {}, NEW v \in [d -> Int]
    PROVE  FirstMost(d, v) \in d
<1> DEFINE Leads(b, e) == b \in e /\ \A j \in e \ {b} : Before(v, b, j)
           P == {m \in Nat : \A e \in SUBSET (d \cap (1..m)) : e # {} => \E b : Leads(b, e)}
<1>1. /\ \A i, j \in d : i = j \/ Before(v, i, j) \/ Before(v, j, i)
      /\ \A i, j, k \in d : Before(v, i, j) /\ Before(v, j, k) => Before(v, i, k)
  <2>1. d \in SUBSET Nat
    OBVIOUS
  <2> QED BY <2>1, BeforeIs
<1>2. 0 \in P
  OBVIOUS
<1>3. ASSUME NEW m \in P PROVE m + 1 \in P
  <2>1. m \in Nat
    OBVIOUS
  <2>2. ASSUME NEW e \in SUBSET (d \cap (1..(m + 1))), e # {} PROVE \E b : Leads(b, e)
    <3> DEFINE l == m + 1
               f == e \ {l}
    <3>1. f \in SUBSET (d \cap (1..m)) /\ e \in SUBSET d
      BY <2>1
    <3>2. f # {} => \E b : Leads(b, f)
      BY <3>1
    <3> HIDE DEF P
    <3>3. CASE l \notin e
      <4>1. f = e
        BY <3>3
      <4> QED BY <2>2, <3>2, <4>1
    <3>4. CASE l \in e /\ f = {}
      <4>1. Leads(l, e)
        BY <3>4
      <4> HIDE DEF Leads
      <4> QED BY <4>1
    <3>5. CASE l \in e /\ f # {}
      <4>1. PICK b : Leads(b, f)
        BY <3>2, <3>5
      <4> HIDE DEF l
      <4>2. b \in d /\ l \in d /\ b # l /\ b \in e
        BY <3>1, <3>5, <4>1
      <4>3. CASE Before(v, b, l)
        <5>1. Leads(b, e)
          BY <4>1, <4>2, <4>3
        <5> HIDE DEF Leads
        <5> QED BY <5>1
      <4>4. CASE Before(v, l, b)
        <5>1. \A j \in e \ {l} : j = b \/ Before(v, b, j)
          BY <4>1
        <5>2. \A j \in e \ {l} : Before(v, l, j)
          BY <1>1, <3>1, <4>2, <4>4, <5>1
        <5>3. Leads(l, e)
          BY <3>5, <5>2
        <5> HIDE DEF Leads
        <5> QED BY <5>3
      <4> QED BY <1>1, <4>2, <4>3, <4>4
    <3> QED BY <3>3, <3>4, <3>5
  <2> HIDE DEF Leads
  <2> QED BY <2>1, <2>2
<1>4. P = Nat
  <2>1. P \in SUBSET Nat
    OBVIOUS
  <2> HIDE DEF P
  <2> QED BY <1>2, <1>3, <2>1, NaturalsBySteps
<1>5. \E b : Leads(b, d)
  <2>1. n \in P /\ d \in SUBSET (d \cap (1..n))
    BY <1>4
  <2> HIDE DEF Leads
  <2> QED BY <2>1
<1> QED BY <1>5 DEF FirstMost


------------------------------------------------------------------------------
\* Selection.

\* A sorted list is one placed by the ranks of its scores; TopK takes the first.
LEMMA SelectTopKIs ==
    ASSUME NEW C, \A c \in C : Rated(c), NEW s \in Seq(C), NEW k \in Nat
    PROVE  /\ SelectTopK(s, k) \in Seq(C) /\ Takes(SelectTopK(s, k), s)
           /\ Len(SelectTopK(s, k)) = IF k < Len(s) THEN k ELSE Len(s)
<1> DEFINE v == [i \in DOMAIN s |-> s[i].score]
           t == Placed(s, Ranks(v))
<1>1. SelectTopK(s, k) = TopK(t, k)
  BY Zenon DEF SelectTopK, SortedBy, Placed
<1>2. v \in [1..Len(s) -> Int]
  BY DEF Rated
<1> HIDE DEF v
<1>3. t \in Seq(C) /\ Len(t) = Len(s) /\ Takes(t, s)
  BY <1>2, PlacedIs
<1> HIDE DEF t
<1>4. /\ TopK(t, k) \in Seq(C) /\ Takes(TopK(t, k), t)
      /\ Len(TopK(t, k)) = IF k < Len(t) THEN k ELSE Len(t)
  BY <1>3, TopKIs
<1>5. Takes(TopK(t, k), s)
  BY <1>3, <1>4, TakesFromTaken
<1> QED BY <1>1, <1>3, <1>4, <1>5

\* A text has finitely many words.
LEMMA WordsFinite ==
    ASSUME NEW t \in Seq(Int)
    PROVE  IsFiniteSet(Words(t))
<1> DEFINE I == {j \in DOMAIN t : t[j] > 0}
           h == [i \in I |-> t[i]]
<1>1. IsFiniteSet(I)
  <2>1. IsFiniteSet(1..Len(t)) /\ I \in SUBSET (1..Len(t))
    BY UpToIsFinite
  <2> QED BY <2>1, FS_Subset
<1>2. Words(t) = {t[i] : i \in I}
  BY DEF Words
<1> HIDE DEF I
<1>3. h \in [I -> Words(t)] /\ \A e \in Words(t) : \E i \in I : h[i] = e
  BY <1>2
<1> HIDE DEF h
<1>4. h \in Surjection(I, Words(t))
  BY <1>3 DEF Surjection
<1> QED BY <1>1, <1>4, FS_Surjection

\* The Jaccard similarity is a part of the scale, the same in both directions.
LEMMA JaccardIs ==
    ASSUME NEW a, NEW b, IsFiniteSet(a), IsFiniteSet(b)
    PROVE  Jaccard(a, b) \in 0..Scale
<1>1. CASE a = {} \/ b = {}
  BY <1>1, ScalePositive DEF Jaccard
<1>2. CASE ~(a = {} \/ b = {})
  <2> DEFINE m == Cardinality(a \cap b)
             n == Cardinality(a \cup b)
  <2>1. IsFiniteSet(a \cup b)
    BY FS_Union
  <2>2. a \cap b \in SUBSET (a \cup b) /\ a \cup b # {}
    BY <1>2
  <2>3. m \in Nat /\ n \in Nat /\ m <= n
    BY <2>1, <2>2, FS_Subset, FS_CardinalityType
  <2>4. n # 0
    BY <2>1, <2>2, FS_EmptySet
  <2>5. Jaccard(a, b) = (Scale * m) \div n
    BY <1>2, Zenon DEF Jaccard
  <2> HIDE DEF m, n
  <2> DEFINE e == Scale * m
             q == e \div n
  <2>6. e \in Nat /\ e <= Scale * n /\ Scale * n \in Nat
    <3>1. m * Scale <= n * Scale
      BY <2>3, ScalePositive, TimesKeepsOrder
    <3>2. m * Scale = Scale * m /\ n * Scale = Scale * n /\ Scale * m \in Nat /\ Scale * n \in Nat
      BY <2>3, ScalePositive
    <3> QED BY <3>1, <3>2
  <2> HIDE DEF e
  <2>7. q \in Nat /\ q * n <= e
    BY <2>3, <2>4, <2>6, Quotient
  <2> HIDE DEF q
  <2>8. q <= Scale
    <3>1. SUFFICES ASSUME Scale + 1 <= q PROVE FALSE
      BY <2>7, ScalePositive
    <3>2. (Scale + 1) * n <= q * n
      BY <2>3, <2>7, <3>1, ScalePositive, TimesKeepsOrder
    <3>3. (Scale + 1) * n = Scale * n + n /\ q * n \in Nat
      BY <2>3, <2>7, ScalePositive
    <3> QED BY <2>3, <2>4, <2>6, <2>7, <3>2, <3>3
  <2> QED BY <2>5, <2>7, <2>8, ScalePositive DEF q, e
<1> QED BY <1>1, <1>2

\* The similarity that finds near duplicates does not depend on the order of the two texts.
LEMMA JaccardSame == \A a, b : Jaccard(a, b) = Jaccard(b, a)
<1>1. ASSUME NEW a, NEW b PROVE Jaccard(a, b) = Jaccard(b, a)
  <2>1. a \cap b = b \cap a /\ a \cup b = b \cup a
    OBVIOUS
  <2>2. CASE a = {} \/ b = {}
    BY <2>2 DEF Jaccard
  <2>3. CASE ~(a = {} \/ b = {})
    <3>1. Jaccard(a, b) = (Scale * Cardinality(a \cap b)) \div Cardinality(a \cup b)
      BY <2>3, Zenon DEF Jaccard
    <3>2. Jaccard(b, a) = (Scale * Cardinality(b \cap a)) \div Cardinality(b \cup a)
      BY <2>3, Zenon DEF Jaccard
    <3> QED BY <2>1, <3>1, <3>2, Zenon
  <2> QED BY <2>2, <2>3
<1> QED BY <1>1, Zenon

\* What picking a chunk next is worth.
LEMMA MarginalType ==
    ASSUME NEW C, \A c \in C : Rated(c), NEW s \in Seq(C), NEW query \in Seq(Int),
           NEW lambda \in Int, NEW selected \in Seq(1..Len(s)), NEW i \in 1..Len(s)
    PROVE  Marginal(s, query, lambda, selected, i) \in Int
<1> DEFINE sim(j) == Jaccard(Words(s[i].text), Words(s[selected[j]].text))
           relevance == (s[i].score + Jaccard(Words(query), Words(s[i].text))) \div 2
           sims == {0} \cup {sim(j) : j \in DOMAIN selected}
<1>1. \A l \in 1..Len(s) : s[l].text \in Seq(Int) /\ s[l].score \in Int
  BY DEF Rated
<1>2. \A l \in 1..Len(s) : IsFiniteSet(Words(s[l].text))
  BY <1>1, WordsFinite
<1>3. sims \in SUBSET (0..Scale) /\ sims # {}
  <2>1. ASSUME NEW j \in DOMAIN selected PROVE sim(j) \in 0..Scale
    <3>1. selected[j] \in 1..Len(s)
      OBVIOUS
    <3> QED BY <1>2, <3>1, JaccardIs
  <2>2. 0 \in 0..Scale
    BY ScalePositive
  <2> HIDE DEF sim
  <2> QED BY <2>1, <2>2
<1>4. Max(sims) \in Int
  <2>1. Scale \in Nat
    BY ScalePositive
  <2> HIDE DEF sims
  <2>2. Max(sims) \in sims
    BY <1>3, <2>1, MaxIsGreatest
  <2>3. \A e \in 0..Scale : e \in Int
    BY <2>1
  <2> QED BY <1>3, <2>2, <2>3
<1>5. relevance \in Int
  <2>1. Jaccard(Words(query), Words(s[i].text)) \in 0..Scale
    BY <1>2, WordsFinite, JaccardIs
  <2>2. Jaccard(Words(query), Words(s[i].text)) \in Int
    BY <2>1, ScalePositive
  <2> QED BY <1>1, <2>2
<1>6. Marginal(s, query, lambda, selected, i) = lambda * relevance - (Scale - lambda) * Max(sims)
  BY Zenon DEF Marginal
<1> HIDE DEF relevance, sims
<1> QED BY <1>4, <1>5, <1>6, ScalePositive


\* The places picked so far, and the next.
NextPick(s, query, lambda, selected, remaining) ==
    IF remaining = {} THEN selected
    ELSE Append(selected, FirstMost(remaining,
             [i \in remaining |-> Marginal(s, query, lambda, selected, i)]))
Picking(s, query, lambda, selected) ==
    NextPick(s, query, lambda, selected, DOMAIN s \ ToSet(selected))
Picks(f, s, query, lambda, k) ==
    f = [n \in 0..k |-> IF n = 0 THEN <<>> ELSE Picking(s, query, lambda, f[n - 1])]
\* Different places among the first n, as many as asked for or all.
Picked(p, n, k) ==
    /\ p \in Seq(1..n)
    /\ \A i, j \in 1..Len(p) : p[i] = p[j] => i = j
    /\ Len(p) <= k
    /\ Len(p) = k \/ ToSet(p) = 1..n

\* A place more, one of those that remain, if there are.
OneMore(p, q, r) == (r = {} /\ q = p) \/ \E i \in r : q = Append(p, i)

\* A pick is a place that remains.
LEMMA PickingStep ==
    ASSUME NEW C, \A c \in C : Rated(c), NEW s \in Seq(C), NEW query \in Seq(Int),
           NEW lambda \in Int, NEW p \in Seq(1..Len(s))
    PROVE  OneMore(p, Picking(s, query, lambda, p), DOMAIN s \ ToSet(p))
<1> DEFINE r == DOMAIN s \ ToSet(p)
           v == [i \in r |-> Marginal(s, query, lambda, p, i)]
<1>1. Picking(s, query, lambda, p) = IF r = {} THEN p ELSE Append(p, FirstMost(r, v))
  BY Zenon DEF Picking, NextPick
<1>2. r \in SUBSET (1..Len(s)) /\ Len(s) \in Nat
  OBVIOUS
<1>3. v \in [r -> Int]
  <2>1. \A i \in r : Marginal(s, query, lambda, p, i) \in Int
    <3> HIDE DEF r
    <3> QED BY <1>2, MarginalType
  <2> HIDE DEF r
  <2> QED BY <2>1
<1> HIDE DEF r, v
<1>4. r # {} => FirstMost(r, v) \in r
  BY <1>2, <1>3, FirstMostIs
<1>5. r # {} => \E i \in r : Picking(s, query, lambda, p) = Append(p, i)
  BY <1>1, <1>4
<1>6. OneMore(p, Picking(s, query, lambda, p), r)
  BY <1>1, <1>5 DEF OneMore
<1> QED BY <1>6 DEF r

\* One pick more keeps the places different.
LEMMA PickedStep ==
    ASSUME NEW n \in Nat, NEW k \in Nat, NEW p, Picked(p, n, k), NEW q,
           OneMore(p, q, (1..n) \ ToSet(p))
    PROVE  Picked(q, n, k + 1)
<1> DEFINE l == Len(p)
<1>1. /\ p \in Seq(1..n) /\ l \in Nat /\ l <= k /\ DOMAIN p = 1..l
      /\ \A i \in 1..l : p[i] \in 1..n /\ p[i] \in ToSet(p)
      /\ \A i, j \in 1..l : p[i] = p[j] => i = j
      /\ l = k \/ ToSet(p) = 1..n
  <2>1. p \in Seq(1..n)
    BY DEF Picked
  <2> QED BY <2>1 DEF Picked, ToSet
<1> HIDE DEF l
<1>2. CASE (1..n) \ ToSet(p) = {}
  <2>1. \A e \in ToSet(p) : e \in 1..n
    BY <1>1 DEF ToSet
  <2>2. ToSet(p) = 1..n
    BY <1>2, <2>1
  <2>3. l <= k + 1
    BY <1>1
  <2>4. q = p
    BY <1>2 DEF OneMore
  <2> QED BY <1>1, <2>2, <2>3, <2>4 DEF Picked, l
<1>3. CASE (1..n) \ ToSet(p) # {}
  <2>1. PICK e \in (1..n) \ ToSet(p) : q = Append(p, e)
    BY <1>3 DEF OneMore
  <2>2. /\ q \in Seq(1..n) /\ Len(q) = l + 1 /\ q[l + 1] = e
        /\ \A i \in 1..l : q[i] = p[i]
    <3>1. p \in Seq(1..n) /\ e \in 1..n /\ q = Append(p, e)
      BY <1>1, <2>1
    <3> QED BY <3>1 DEF l
  <2>3. \A i \in 1..(l + 1) : i = l + 1 \/ i \in 1..l
    BY <1>1
  <2>4. \A i \in 1..l : p[i] # e
    BY <1>1, <2>1
  <2>5. ASSUME NEW i \in 1..(l + 1), NEW j \in 1..(l + 1), q[i] = q[j] PROVE i = j
    BY <1>1, <2>2, <2>3, <2>4, <2>5
  <2>6. l = k
    BY <1>1, <1>3
  <2> QED BY <2>2, <2>5, <2>6 DEF Picked
<1> QED BY <1>2, <1>3

\* A ranking of k of n positions: distinct positions, and all n when fewer than k are listed.
LEMMA PickedIs ==
    ASSUME NEW n \in Nat, NEW k \in Nat, NEW p, Picked(p, n, k)
    PROVE  /\ p \in Seq(1..n) /\ Len(p) \in Nat /\ DOMAIN p = 1..Len(p) /\ Len(p) <= k
           /\ p \in [1..Len(p) -> 1..n]
           /\ \A i, j \in 1..Len(p) : p[i] = p[j] => i = j
           /\ Len(p) = k \/ ToSet(p) = 1..n
<1>1. p \in Seq(1..n)
  BY DEF Picked
<1>2. Len(p) \in Nat /\ DOMAIN p = 1..Len(p) /\ p \in [1..Len(p) -> 1..n]
  BY <1>1
<1>3. Len(p) <= k
  BY Zenon DEF Picked
<1> QED BY <1>1, <1>2, <1>3 DEF Picked

\* The picks have a function of their number.
LEMMA PicksExist ==
    ASSUME NEW C, \A c \in C : Rated(c), NEW s \in Seq(C), NEW query \in Seq(Int),
           NEW lambda \in Int, NEW k \in Nat
    PROVE  \E f : Picks(f, s, query, lambda, k)
<1> DEFINE V == Seq(1..Len(s))
           step == [e \in (1..k) \X V |-> Picking(s, query, lambda, e[2])]
<1>1. step \in [(1..k) \X V -> V]
  <2>1. ASSUME NEW p \in V PROVE Picking(s, query, lambda, p) \in V
    <3>1. OneMore(p, Picking(s, query, lambda, p), DOMAIN s \ ToSet(p))
      BY PickingStep
    <3>2. \A i \in DOMAIN s : Append(p, i) \in V
      OBVIOUS
    <3> HIDE DEF V
    <3> QED BY <3>1, <3>2 DEF OneMore
  <2> HIDE DEF V
  <2> QED BY <2>1
<1>2. <<>> \in V
  OBVIOUS
<1> HIDE DEF V
<1>3. PICK f \in [0..k -> V] : Loop(f, <<>>, step, k)
  <2> HIDE DEF step
  <2> QED BY <1>1, <1>2, LoopExists
<1> DEFINE g == [n \in 0..k |-> IF n = 0 THEN <<>> ELSE Picking(s, query, lambda, f[n - 1])]
<1>4. ASSUME NEW n \in 0..k PROVE f[n] = g[n]
  <2>1. CASE n = 0
    BY <1>3, <2>1 DEF Loop
  <2>2. CASE n # 0
    <3>1. n \in 1..k /\ n - 1 \in 0..k
      BY <2>2
    <3>2. <<n, f[n - 1]>> \in (1..k) \X V
      BY <1>3, <3>1
    <3>3. f[n] = step[<<n, f[n - 1]>>]
      BY <1>3, <3>1 DEF Loop
    <3>4. step[<<n, f[n - 1]>>] = Picking(s, query, lambda, f[n - 1])
      BY <3>2
    <3> QED BY <2>2, <3>3, <3>4
  <2> QED BY <2>1, <2>2
<1>5. f = [n \in 0..k |-> f[n]] /\ g = [n \in 0..k |-> g[n]]
  OBVIOUS
<1> HIDE DEF g
<1>6. f = g
  BY <1>4, <1>5, Zenon
<1>7. Picks(f, s, query, lambda, k)
  BY <1>6, Zenon DEF Picks, g
<1> QED BY <1>7

\* The diverse selection is that of the k-th.
LEMMA SelectDiversePicks ==
    ASSUME NEW s, NEW query, NEW k, NEW lambda
    PROVE  LET p == (CHOOSE f : Picks(f, s, query, lambda, k))[k]
           IN  SelectDiverse(s, query, k, lambda) = [n \in DOMAIN p |-> s[p[n]]]
BY Zenon DEF SelectDiverse, Picks, Picking, NextPick

\* It has as many chunks as are asked for and there are, each one once.
LEMMA SelectDiverseIs ==
    ASSUME NEW C, \A c \in C : Rated(c), NEW s \in Seq(C), NEW query \in Seq(Int),
           NEW lambda \in Int, NEW k \in Nat
    PROVE  LET t == SelectDiverse(s, query, k, lambda)
           IN  t \in Seq(C) /\ Takes(t, s) /\ Len(t) = IF k < Len(s) THEN k ELSE Len(s)
<1> DEFINE N == Len(s)
           g == CHOOSE f : Picks(f, s, query, lambda, k)
           p == g[k]
           P == {n \in Nat : n <= k => Picked(g[n], N, n)}
<1>1. N \in Nat /\ DOMAIN s = 1..N /\ \A i \in 1..N : s[i] \in C
  OBVIOUS
<1>2. Picks(g, s, query, lambda, k)
  <2>1. \E f : Picks(f, s, query, lambda, k)
    BY PicksExist
  <2> QED BY <2>1, Zenon
<1>3. SelectDiverse(s, query, k, lambda) = [n \in DOMAIN p |-> s[p[n]]]
  BY SelectDiversePicks
<1> HIDE DEF g
<1>4. \A n \in 0..k : g[n] = IF n = 0 THEN <<>> ELSE Picking(s, query, lambda, g[n - 1])
  BY <1>2, Zenon DEF Picks
<1>5. 0 \in P
  <2>1. g[0] = <<>>
    BY <1>4
  <2>2. Picked(<<>>, N, 0)
    BY DEF Picked
  <2> QED BY <2>1, <2>2
<1>6. ASSUME NEW n \in P PROVE n + 1 \in P
  <2>1. SUFFICES ASSUME n + 1 <= k PROVE Picked(g[n + 1], N, n + 1)
    OBVIOUS
  <2>2. n \in Nat /\ n <= k
    BY <2>1
  <2>3. Picked(g[n], N, n)
    BY <2>2
  <2>4. g[n + 1] = Picking(s, query, lambda, g[n])
    <3>1. n + 1 \in 0..k /\ n + 1 # 0 /\ (n + 1) - 1 = n
      BY <2>1, <2>2
    <3> HIDE DEF P
    <3> QED BY <1>4, <3>1
  <2>5. g[n] \in Seq(1..Len(s))
    BY <2>3 DEF Picked
  <2> HIDE DEF P
  <2> DEFINE a == g[n]
             b == g[n + 1]
  <2> HIDE DEF a, b
  <2>6. a \in Seq(1..Len(s)) /\ b = Picking(s, query, lambda, a) /\ Picked(a, N, n)
    BY <2>3, <2>4, <2>5 DEF a, b
  <2>7. OneMore(a, b, DOMAIN s \ ToSet(a))
    BY <2>6, PickingStep
  <2> HIDE DEF N
  <2>8. Picked(b, N, n + 1)
    BY <1>1, <2>2, <2>6, <2>7, PickedStep
  <2> QED BY <2>8 DEF b
<1>7. Picked(p, N, k)
  <2>1. P \in SUBSET Nat
    OBVIOUS
  <2> HIDE DEF P
  <2>2. P = Nat
    BY <1>5, <1>6, <2>1, NaturalsBySteps
  <2>3. k \in P
    BY <2>2
  <2> QED BY <2>3 DEF P
<1> DEFINE l == Len(p)
           t == [n \in DOMAIN p |-> s[p[n]]]
<1> HIDE DEF p, P, N
<1>8. /\ p \in Seq(1..N) /\ l \in Nat /\ DOMAIN p = 1..l /\ l <= k
      /\ p \in [1..l -> 1..N]
      /\ \A i, j \in 1..l : p[i] = p[j] => i = j
      /\ l = k \/ ToSet(p) = 1..N
  <2> HIDE DEF t
  <2> QED BY <1>1, <1>7, PickedIs
<1> HIDE DEF l
<1>9. t \in [1..l -> C]
  BY <1>1, <1>8
<1>10. t \in Seq(C) /\ Len(t) = l /\ \A n \in 1..l : t[n] = s[p[n]]
  BY <1>8, <1>9
<1> HIDE DEF t
<1>11. Takes(t, s)
  BY <1>8, <1>10 DEF Takes, Taken, N
<1>12. l <= N
  <2>1. Len(t) <= Len(s)
    BY <1>1, <1>10, <1>11, TakesNoMore DEF Takes, N
  <2> QED BY <1>10, <2>1 DEF N
<1>13. l = k \/ l = N
  <2>1. SUFFICES ASSUME ToSet(p) = 1..N PROVE l = N
    BY <1>8
  <2>2. p \in Surjection(1..l, 1..N)
    BY <1>8, <2>1 DEF Surjection, ToSet
  <2>3. /\ IsFiniteSet(1..l) /\ Cardinality(1..l) = l /\ Cardinality(1..N) = N
    BY <1>1, <1>8, UpToIsFinite
  <2>4. N <= l
    BY <2>2, <2>3, FS_Surjection
  <2> QED BY <1>1, <1>8, <1>12, <2>4
<1>14. Len(t) = IF k < N THEN k ELSE N
  BY <1>1, <1>8, <1>10, <1>12, <1>13
<1> QED BY <1>3, <1>10, <1>11, <1>14 DEF t, N


------------------------------------------------------------------------------
\* Deduplication.

\* A prefix of the places is the one before it and its last place.
LEMMA PrefixIs ==
    ASSUME NEW n \in Nat, NEW k \in Nat, k < n
    PROVE  /\ 1..(k + 1) \in SUBSET (1..n) /\ 1..(k + 1) # {}
           /\ Max(1..(k + 1)) = k + 1 /\ (1..(k + 1)) \ {k + 1} = 1..k
           /\ k + 1 \in 1..n
<1>1. 1..(k + 1) \in SUBSET (1..n) /\ 1..(k + 1) # {} /\ k + 1 \in 1..(k + 1) /\ k + 1 \in 1..n
  OBVIOUS
<1>2. Max(1..(k + 1)) \in 1..(k + 1) /\ k + 1 <= Max(1..(k + 1))
  BY <1>1, MaxUpTo
<1>3. Max(1..(k + 1)) = k + 1
  BY <1>2
<1>4. (1..(k + 1)) \ {k + 1} = 1..k
  OBVIOUS
<1> QED BY <1>1, <1>3, <1>4

\* The chunks kept of those at the places in a set.
UnlikeSteps(f, s, threshold) ==
    f = [d \in SUBSET DOMAIN s |->
            IF d = {} THEN <<>> ELSE KeepUnlike(f[d \ {Max(d)}], s[Max(d)], threshold)]
Unlike(s, threshold) == (CHOOSE f : UnlikeSteps(f, s, threshold))[DOMAIN s]

\* What is kept is what is kept of the chunks by score.
LEMMA DeduplicateIs ==
    ASSUME NEW chunks, NEW threshold
    PROVE  LET v == [i \in DOMAIN chunks |-> chunks[i].score]
               kept == Unlike(Placed(chunks, Ranks(v)), threshold)
           IN  Deduplicate(chunks, threshold)
                  = [chunks |-> kept, removed |-> Len(chunks) - Len(kept)]
BY Zenon DEF Deduplicate, SortedBy, Placed, Unlike, UnlikeSteps, FoldLeft, MapThenFoldSet

\* A chunk is kept or not.
LEMMA KeepUnlikeType ==
    ASSUME NEW C, NEW h \in Seq(C), NEW c \in C, NEW threshold
    PROVE  KeepUnlike(h, c, threshold) = h \/ KeepUnlike(h, c, threshold) = Append(h, c)
BY DEF KeepUnlike

\* The function of the fold exists.
LEMMA UnlikeExists ==
    ASSUME NEW C, NEW s \in Seq(C), NEW threshold
    PROVE  \E f : UnlikeSteps(f, s, threshold)
<1> DEFINE n == Len(s)
           V == Seq(C)
           step == [p \in (1..n) \X V |-> KeepUnlike(p[2], s[p[1]], threshold)]
<1>1. n \in Nat /\ DOMAIN s = 1..n /\ \A k \in 1..n : s[k] \in C
  OBVIOUS
<1>2. step \in [(1..n) \X V -> V]
  <2>1. ASSUME NEW k \in 1..n, NEW h \in V PROVE KeepUnlike(h, s[k], threshold) \in V
    <3>1. Append(h, s[k]) \in V
      BY <1>1
    <3> HIDE DEF n
    <3> QED BY <1>1, <3>1, KeepUnlikeType
  <2> HIDE DEF n, V
  <2> QED BY <2>1
<1>3. <<>> \in V
  OBVIOUS
<1>4. PICK f \in [SUBSET (1..n) -> V] : FoldSteps(f, <<>>, step, n)
  <2> HIDE DEF V, step, n
  <2> QED BY <1>1, <1>2, <1>3, FoldExists
<1> HIDE DEF n, V
<1>5. ASSUME NEW d \in SUBSET (1..n), d # {}
      PROVE  f[d] = KeepUnlike(f[d \ {Max(d)}], s[Max(d)], threshold)
  <2> DEFINE m == Max(d)
             e == d \ {m}
  <2>1. m \in 1..n /\ e \in SUBSET (1..n)
    BY <1>1, <1>5, MaxUpTo
  <2>2. f[d] = step[<<m, f[e]>>]
    BY <1>4, <1>5 DEF FoldSteps
  <2>3. f[e] \in V
    BY <1>4, <2>1
  <2> HIDE DEF m, e
  <2>4. step[<<m, f[e]>>] = KeepUnlike(f[e], s[m], threshold)
    BY <2>1, <2>3
  <2> QED BY <2>2, <2>4 DEF m, e
<1>6. f[{}] = <<>>
  BY <1>4 DEF FoldSteps
<1> DEFINE g == [d \in SUBSET (1..n) |->
                   IF d = {} THEN <<>> ELSE KeepUnlike(f[d \ {Max(d)}], s[Max(d)], threshold)]
<1>7. f = g
  <2>1. ASSUME NEW d \in SUBSET (1..n) PROVE f[d] = g[d]
    <3>1. g[d] = IF d = {} THEN <<>> ELSE KeepUnlike(f[d \ {Max(d)}], s[Max(d)], threshold)
      OBVIOUS
    <3> HIDE DEF g
    <3> QED BY <1>5, <1>6, <3>1
  <2>2. f = [d \in SUBSET (1..n) |-> f[d]] /\ g = [d \in SUBSET (1..n) |-> g[d]]
    OBVIOUS
  <2> HIDE DEF g
  <2> QED BY <2>1, <2>2, Zenon
<1>8. UnlikeSteps(f, s, threshold)
  BY <1>1, <1>7, Zenon DEF UnlikeSteps
<1> QED BY <1>8

\* A list of chunks of which no two are near duplicates.
Apart(s, threshold) ==
    \A i, j \in 1..Len(s) : i # j => Jaccard(Words(s[i].text), Words(s[j].text)) < threshold

\* A chunk that is kept is unlike those before it.
LEMMA KeepUnlikeApart ==
    ASSUME NEW C, \A c \in C : Rated(c), NEW h \in Seq(C), NEW c \in C, NEW threshold \in Int,
           Apart(h, threshold)
    PROVE  Apart(KeepUnlike(h, c, threshold), threshold)
<1> DEFINE l == Len(h)
           u == Append(h, c)
           like(a, b) == Jaccard(Words(a.text), Words(b.text))
<1>1. l \in Nat /\ DOMAIN h = 1..l /\ \A i \in 1..l : h[i] \in C
  OBVIOUS
<1>2. CASE \E i \in DOMAIN h : like(c, h[i]) >= threshold
  BY <1>2 DEF KeepUnlike
<1>3. CASE ~\E i \in DOMAIN h : like(c, h[i]) >= threshold
  <2>1. KeepUnlike(h, c, threshold) = u
    BY <1>3 DEF KeepUnlike
  <2>2. ASSUME NEW a \in C, NEW b \in C PROVE like(a, b) \in Int /\ like(a, b) = like(b, a)
    <3>1. IsFiniteSet(Words(a.text)) /\ IsFiniteSet(Words(b.text))
      BY WordsFinite DEF Rated
    <3>2. like(a, b) \in 0..Scale
      BY <3>1, JaccardIs
    <3>3. like(a, b) \in Int
      BY <3>2, ScalePositive
    <3> QED BY <3>3, JaccardSame
  <2>3. \A i \in 1..l : like(c, h[i]) < threshold /\ like(h[i], c) < threshold
    <3> HIDE DEF like, l
    <3>1. ASSUME NEW i \in 1..l PROVE like(c, h[i]) < threshold /\ like(h[i], c) < threshold
      <4>1. like(c, h[i]) \in Int /\ like(c, h[i]) = like(h[i], c) /\ ~(like(c, h[i]) >= threshold)
        BY <1>1, <1>3, <2>2
      <4> QED BY <4>1
    <3> QED BY <3>1
  <2>4. \A i, j \in 1..l : i # j => like(h[i], h[j]) < threshold
    BY Zenon DEF Apart
  <2>5. Len(u) = l + 1 /\ u[l + 1] = c /\ \A i \in 1..l : u[i] = h[i]
    OBVIOUS
  <2>6. \A i \in 1..(l + 1) : i = l + 1 \/ i \in 1..l
    BY <1>1
  <2> HIDE DEF u, l, like
  <2>7. ASSUME NEW i \in 1..Len(u), NEW j \in 1..Len(u), i # j PROVE like(u[i], u[j]) < threshold
    <3>1. (i = l + 1 /\ u[i] = c) \/ (i \in 1..l /\ u[i] = h[i])
      BY <2>5, <2>6
    <3>2. (j = l + 1 /\ u[j] = c) \/ (j \in 1..l /\ u[j] = h[j])
      BY <2>5, <2>6
    <3> QED BY <2>3, <2>4, <2>7, <3>1, <3>2
  <2>8. Apart(u, threshold)
    BY <2>7, Zenon DEF Apart, like
  <2> QED BY <2>1, <2>8
<1> QED BY <1>2, <1>3

\* What is kept is taken from the list and apart.
LEMMA UnlikeIs ==
    ASSUME NEW C, \A c \in C : Rated(c), NEW s \in Seq(C), NEW threshold \in Int
    PROVE  LET t == Unlike(s, threshold)
           IN  t \in Seq(C) /\ Takes(t, s) /\ Apart(t, threshold)
<1> DEFINE n == Len(s)
           g == CHOOSE f : UnlikeSteps(f, s, threshold)
           Fine(h, k) == h \in Seq(C) /\ Taken(h, s, k) /\ Apart(h, threshold)
           P == {k \in Nat : k <= n => Fine(g[1..k], k)}
<1>1. n \in Nat /\ DOMAIN s = 1..n /\ \A k \in 1..n : s[k] \in C
  OBVIOUS
<1>2. UnlikeSteps(g, s, threshold)
  <2>1. \E f : UnlikeSteps(f, s, threshold)
    BY UnlikeExists
  <2> QED BY <2>1, Zenon
<1>3. Unlike(s, threshold) = g[DOMAIN s]
  BY DEF Unlike
<1> HIDE DEF g
<1>4. \A d \in SUBSET DOMAIN s :
        g[d] = IF d = {} THEN <<>> ELSE KeepUnlike(g[d \ {Max(d)}], s[Max(d)], threshold)
  BY <1>2, Zenon DEF UnlikeSteps
<1> HIDE DEF n
<1>5. 0 \in P
  <2>1. 1..0 = {} /\ {} \in SUBSET DOMAIN s
    OBVIOUS
  <2>2. g[{}] = <<>>
    BY <1>4, <2>1
  <2>3. <<>> \in Seq(C) /\ Len(<<>>) = 0
    OBVIOUS
  <2>4. Taken(<<>>, s, 0)
    <3> DEFINE p == [i \in 1..0 |-> i]
    <3>1. p \in [1..Len(<<>>) -> 1..0]
      OBVIOUS
    <3> HIDE DEF p
    <3>2. \A i \in 1..Len(<<>>) : FALSE
      OBVIOUS
    <3> QED BY <3>1, <3>2 DEF Taken
  <2>5. Apart(<<>>, threshold)
    BY DEF Apart
  <2>6. Fine(g[1..0], 0)
    BY <2>1, <2>2, <2>3, <2>4, <2>5
  <2> HIDE DEF Fine
  <2> QED BY <2>6
<1>6. ASSUME NEW k \in P PROVE k + 1 \in P
  <2>1. SUFFICES ASSUME k + 1 <= n PROVE Fine(g[1..(k + 1)], k + 1)
    OBVIOUS
  <2>2. k \in Nat /\ k < n
    BY <1>1, <2>1
  <2> DEFINE h == g[1..k]
             c == s[k + 1]
  <2>3. Fine(h, k)
    BY <1>1, <2>2
  <2>4. g[1..(k + 1)] = KeepUnlike(h, c, threshold)
    <3>1. /\ 1..(k + 1) \in SUBSET (1..n) /\ 1..(k + 1) # {}
          /\ Max(1..(k + 1)) = k + 1 /\ (1..(k + 1)) \ {k + 1} = 1..k
      BY <1>1, <2>2, PrefixIs
    <3> HIDE DEF P, Fine
    <3> QED BY <1>1, <1>4, <3>1
  <2>5. c \in C /\ k < Len(s)
    BY <1>1, <2>2 DEF n
  <2> HIDE DEF P, h
  <2>6. Taken(h, s, k + 1) /\ Taken(Append(h, c), s, k + 1)
    BY <2>2, <2>3, <2>5, TakenStep
  <2>7. Apart(KeepUnlike(h, c, threshold), threshold)
    BY <2>3, <2>5, KeepUnlikeApart
  <2>8. KeepUnlike(h, c, threshold) = h \/ KeepUnlike(h, c, threshold) = Append(h, c)
    BY <2>3, <2>5, KeepUnlikeType
  <2>9. Append(h, c) \in Seq(C)
    BY <2>3, <2>5
  <2> HIDE DEF c
  <2> QED BY <2>3, <2>4, <2>6, <2>7, <2>8, <2>9
<1>7. Fine(g[1..n], n)
  <2>1. P \in SUBSET Nat
    OBVIOUS
  <2> HIDE DEF P
  <2>2. n \in P
    BY <1>1, <1>5, <1>6, <2>1, NaturalsBySteps
  <2> QED BY <1>1, <2>2 DEF P
<1> QED BY <1>1, <1>3, <1>7 DEF Takes, n

\* Deduplication takes chunks that are apart, and counts the others.
LEMMA DeduplicateTakes ==
    ASSUME NEW C, \A c \in C : Rated(c), NEW s \in Seq(C), NEW threshold \in Int
    PROVE  LET d == Deduplicate(s, threshold)
           IN  /\ d.chunks \in Seq(C) /\ Takes(d.chunks, s) /\ Apart(d.chunks, threshold)
               /\ d.removed = Len(s) - Len(d.chunks)
<1> DEFINE v == [i \in DOMAIN s |-> s[i].score]
           t == Placed(s, Ranks(v))
           kept == Unlike(t, threshold)
<1>1. Deduplicate(s, threshold) = [chunks |-> kept, removed |-> Len(s) - Len(kept)]
  BY DeduplicateIs
<1>2. v \in [1..Len(s) -> Int]
  BY DEF Rated
<1> HIDE DEF v
<1>3. t \in Seq(C) /\ Len(t) = Len(s) /\ Takes(t, s)
  BY <1>2, PlacedIs
<1> HIDE DEF t
<1>4. kept \in Seq(C) /\ Takes(kept, t) /\ Apart(kept, threshold)
  BY <1>3, UnlikeIs
<1> HIDE DEF kept
<1>5. Takes(kept, s)
  BY <1>3, <1>4, TakesFromTaken
<1> QED BY <1>1, <1>4, <1>5

\* What is taken from chunks that are apart is apart.
LEMMA ApartTaken ==
    ASSUME NEW C, NEW s \in Seq(C), NEW t \in Seq(C), Takes(t, s), NEW threshold,
           Apart(s, threshold)
    PROVE  Apart(t, threshold)
<1>1. PICK p \in [1..Len(t) -> 1..Len(s)] :
        /\ \A i, j \in 1..Len(t) : p[i] = p[j] => i = j
        /\ \A i \in 1..Len(t) : t[i] = s[p[i]]
  BY DEF Takes, Taken
<1>2. ASSUME NEW i \in 1..Len(t), NEW j \in 1..Len(t), i # j
      PROVE  Jaccard(Words(t[i].text), Words(t[j].text)) < threshold
  <2>1. p[i] \in 1..Len(s) /\ p[j] \in 1..Len(s) /\ p[i] # p[j]
    BY <1>1, <1>2
  <2>2. Jaccard(Words(s[p[i]].text), Words(s[p[j]].text)) < threshold
    BY <2>1 DEF Apart
  <2> QED BY <1>1, <2>2
<1> QED BY <1>2 DEF Apart


------------------------------------------------------------------------------
\* Packing.

Packings(C) == [chunks : Seq(C), used : Nat, dropped : Nat]
NothingPacked == [chunks |-> <<>>, used |-> 0, dropped |-> 0]

\* The two loops, as functions of the places whose chunks have been looked at.
PackSteps(f, s, m) ==
    f = [d \in SUBSET DOMAIN s |->
            IF d = {} THEN NothingPacked ELSE Pack(f[d \ {Max(d)}], s[Max(d)], m)]
AgainSteps(f, p, s, m) ==
    f = [d \in SUBSET DOMAIN s |->
            IF d = {} THEN p ELSE PackAgain(f[d \ {Max(d)}], s[Max(d)], m)]
PackedOnce(s, m) == (CHOOSE f : PackSteps(f, s, m))[DOMAIN s]
PackedTwice(s, m) == (CHOOSE f : AgainSteps(f, PackedOnce(s, m), s, m))[DOMAIN s]

\* Score for each token; and the chunks that are not too small to pack.
Efficiency(c) ==
    IF c.text = <<>> THEN Scale * c.score ELSE (Scale * c.score) \div EstimateTokens(c.text)
Packable(chunks, minTokens) ==
    Kept(chunks, {i \in DOMAIN chunks : EstimateTokens(chunks[i].text) >= minTokens})

\* What is packed is packed of those in the order of their efficiency.
LEMMA PackByBudgetIs ==
    ASSUME NEW chunks, NEW maxTokens, NEW minTokens
    PROVE  LET w == Packable(chunks, minTokens)
               v == [i \in DOMAIN w |-> Efficiency(w[i])]
           IN  PackByBudget(chunks, maxTokens, minTokens)
                  = IF chunks = <<>> \/ maxTokens <= 0
                    THEN [chunks |-> <<>>, used |-> 0, dropped |-> Len(chunks)]
                    ELSE PackedTwice(Placed(w, Ranks(v)), maxTokens)
BY Zenon DEF PackByBudget, SortedBy, Placed, Where, Packable, Efficiency, PackedTwice, PackedOnce,
             PackSteps, AgainSteps, NothingPacked, FoldLeft, MapThenFoldSet

\* A chunk is packed when it fits, and dropped otherwise.
LEMMA PackIs ==
    ASSUME NEW C, \A c \in C : Rated(c), NEW p \in Packings(C), NEW c \in C, NEW m \in Nat
    PROVE  LET q == Pack(p, c, m)
               e == EstimateTokens(c.text)
           IN  /\ q \in Packings(C) /\ e \in Nat
               /\ \/ /\ p.used + e <= m
                     /\ q.chunks = Append(p.chunks, c) /\ q.used = p.used + e
                     /\ q.dropped = p.dropped
                  \/ /\ p.used + e > m
                     /\ q.chunks = p.chunks /\ q.used = p.used /\ q.dropped = p.dropped + 1
<1> DEFINE e == EstimateTokens(c.text)
<1>1. e \in Nat
  BY EstimateType DEF Rated
<1>2. /\ p.chunks \in Seq(C) /\ p.used \in Nat /\ p.dropped \in Nat
      /\ p = [chunks |-> p.chunks, used |-> p.used, dropped |-> p.dropped]
  BY DEF Packings
<1>3. Append(p.chunks, c) \in Seq(C)
  BY <1>2
<1>4. CASE p.used + e <= m
  <2>1. Pack(p, c, m) = [p EXCEPT !.chunks = Append(@, c), !.used = @ + e]
    BY <1>4 DEF Pack
  <2>2. Pack(p, c, m) = [chunks |-> Append(p.chunks, c), used |-> p.used + e, dropped |-> p.dropped]
    BY <1>2, <2>1
  <2> HIDE DEF e
  <2>3. p.used + e \in Nat
    BY <1>1, <1>2
  <2> QED BY <1>1, <1>2, <1>3, <1>4, <2>2, <2>3 DEF Packings, e
<1>5. CASE ~(p.used + e <= m)
  <2>1. Pack(p, c, m) = [p EXCEPT !.dropped = @ + 1]
    BY <1>5 DEF Pack
  <2>2. Pack(p, c, m) = [chunks |-> p.chunks, used |-> p.used, dropped |-> p.dropped + 1]
    BY <1>2, <2>1
  <2>3. p.dropped + 1 \in Nat /\ p.used + e > m
    BY <1>1, <1>2, <1>5
  <2> QED BY <1>1, <1>2, <2>2, <2>3 DEF Packings
<1> QED BY <1>4, <1>5

\* The function of the first loop exists.
LEMMA PackExists ==
    ASSUME NEW C, \A c \in C : Rated(c), NEW s \in Seq(C), NEW m \in Nat
    PROVE  \E f : PackSteps(f, s, m)
<1> DEFINE n == Len(s)
           V == Packings(C)
           step == [p \in (1..n) \X V |-> Pack(p[2], s[p[1]], m)]
<1>1. n \in Nat /\ DOMAIN s = 1..n /\ \A k \in 1..n : s[k] \in C
  OBVIOUS
<1>2. step \in [(1..n) \X V -> V]
  <2>1. ASSUME NEW k \in 1..n, NEW h \in V PROVE Pack(h, s[k], m) \in V
    <3> HIDE DEF n
    <3> QED BY <1>1, PackIs
  <2> HIDE DEF n, V
  <2> QED BY <2>1
<1>3. NothingPacked \in V
  BY DEF NothingPacked, Packings
<1>4. PICK f \in [SUBSET (1..n) -> V] : FoldSteps(f, NothingPacked, step, n)
  <2> HIDE DEF V, step, n
  <2> QED BY <1>1, <1>2, <1>3, FoldExists
<1> HIDE DEF n, V
<1>5. ASSUME NEW d \in SUBSET (1..n), d # {}
      PROVE  f[d] = Pack(f[d \ {Max(d)}], s[Max(d)], m)
  <2> DEFINE l == Max(d)
             e == d \ {l}
  <2>1. l \in 1..n /\ e \in SUBSET (1..n)
    BY <1>1, <1>5, MaxUpTo
  <2>2. f[d] = step[<<l, f[e]>>]
    BY <1>4, <1>5 DEF FoldSteps
  <2>3. f[e] \in V
    BY <1>4, <2>1
  <2> HIDE DEF l, e
  <2>4. step[<<l, f[e]>>] = Pack(f[e], s[l], m)
    BY <2>1, <2>3
  <2> QED BY <2>2, <2>4 DEF l, e
<1>6. f[{}] = NothingPacked
  BY <1>4 DEF FoldSteps
<1> DEFINE g == [d \in SUBSET (1..n) |->
                   IF d = {} THEN NothingPacked ELSE Pack(f[d \ {Max(d)}], s[Max(d)], m)]
<1>7. f = g
  <2>1. ASSUME NEW d \in SUBSET (1..n) PROVE f[d] = g[d]
    <3>1. g[d] = IF d = {} THEN NothingPacked ELSE Pack(f[d \ {Max(d)}], s[Max(d)], m)
      OBVIOUS
    <3> HIDE DEF g
    <3> QED BY <1>5, <1>6, <3>1
  <2>2. f = [d \in SUBSET (1..n) |-> f[d]] /\ g = [d \in SUBSET (1..n) |-> g[d]]
    OBVIOUS
  <2> HIDE DEF g
  <2> QED BY <2>1, <2>2, Zenon
<1>8. PackSteps(f, s, m)
  BY <1>1, <1>7, Zenon DEF PackSteps
<1> QED BY <1>8

\* What the loop has of the first k chunks: of each the tokens fit or do not.
Packs(p, C, s, k, m) ==
    /\ p \in Packings(C)
    /\ Taken(p.chunks, s, k)
    /\ p.used = Tokens(p.chunks) /\ p.used <= m
    /\ Len(p.chunks) + p.dropped = k
    /\ \A i \in 1..k : Contains(p.chunks, s[i]) \/ p.used + EstimateTokens(s[i].text) > m

\* A step of the first loop.
LEMMA PacksStep ==
    ASSUME NEW C, \A c \in C : Rated(c), NEW s \in Seq(C), NEW m \in Nat, NEW k \in Nat,
           k < Len(s), NEW p, Packs(p, C, s, k, m)
    PROVE  Packs(Pack(p, s[k + 1], m), C, s, k + 1, m)
<1> DEFINE c == s[k + 1]
           q == Pack(p, c, m)
           e == EstimateTokens(c.text)
           l == Len(p.chunks)
           size(i) == EstimateTokens(s[i].text)
<1>1. /\ p \in Packings(C) /\ c \in C
      /\ p.chunks \in Seq(C) /\ p.used \in Nat /\ p.dropped \in Nat /\ l \in Nat
      /\ l + p.dropped = k /\ p.used = Tokens(p.chunks) /\ p.used <= m
  <2>1. p \in Packings(C) /\ c \in C
    BY DEF Packs
  <2> QED BY <2>1 DEF Packs, Packings
<1>2. /\ q \in Packings(C) /\ e \in Nat
      /\ \/ /\ p.used + e <= m
            /\ q.chunks = Append(p.chunks, c) /\ q.used = p.used + e
            /\ q.dropped = p.dropped
         \/ /\ p.used + e > m
            /\ q.chunks = p.chunks /\ q.used = p.used /\ q.dropped = p.dropped + 1
  <2> HIDE DEF c
  <2> QED BY <1>1, PackIs
<1>3. /\ Taken(p.chunks, s, k + 1) /\ Taken(Append(p.chunks, c), s, k + 1)
  BY <1>1, TakenStep DEF Packs
<1>4. Tokens(Append(p.chunks, c)) = Tokens(p.chunks) + e
  <2> HIDE DEF c
  <2> QED BY <1>1, TokensOfMore
<1>5. \A i \in 1..k : Contains(p.chunks, s[i]) \/ p.used + size(i) > m
  BY DEF Packs
<1>6. ASSUME NEW i \in 1..(k + 1) PROVE size(i) \in Nat
  <2>1. s[i] \in C
    OBVIOUS
  <2> QED BY <2>1, EstimateType DEF Rated
<1>7. \A i \in 1..(k + 1) : i = k + 1 \/ i \in 1..k
  OBVIOUS
<1>8. CASE p.used + e <= m
  <2>1. q.chunks = Append(p.chunks, c) /\ q.used = p.used + e /\ q.dropped = p.dropped
    <3> HIDE DEF c, e, q
    <3> QED BY <1>1, <1>2, <1>8
  <2>2. Len(q.chunks) = l + 1 /\ q.chunks[l + 1] = c /\ \A i \in 1..l : q.chunks[i] = p.chunks[i]
    <3> HIDE DEF q, c
    <3> QED BY <1>1, <2>1
  <2>3. Contains(q.chunks, c) /\ \A b : Contains(p.chunks, b) => Contains(q.chunks, b)
    <3>1. l + 1 \in 1..(l + 1) /\ \A i \in 1..l : i \in 1..(l + 1)
      BY <1>1
    <3> HIDE DEF q, c
    <3> QED BY <2>2, <3>1 DEF Contains
  <2>4. ASSUME NEW i \in 1..(k + 1) PROVE Contains(q.chunks, s[i]) \/ q.used + size(i) > m
    <3>1. CASE i = k + 1
      BY <2>3, <3>1
    <3>2. CASE i \in 1..k
      <4>1. CASE Contains(p.chunks, s[i])
        BY <2>3, <4>1
      <4>2. CASE p.used + size(i) > m
        <5> HIDE DEF size, q, e
        <5> QED BY <1>1, <1>2, <1>6, <2>1, <4>2
      <4> QED BY <1>5, <3>2, <4>1, <4>2
    <3> QED BY <1>7, <3>1, <3>2
  <2>5. q.used = Tokens(q.chunks) /\ q.used <= m
    <3> HIDE DEF q, e, c
    <3> QED BY <1>1, <1>4, <1>8, <2>1
  <2>6. Len(q.chunks) + q.dropped = k + 1
    <3>1. Len(q.chunks) = l + 1 /\ q.dropped = p.dropped
      BY <2>1, <2>2
    <3> HIDE DEF q, l
    <3> QED BY <1>1, <3>1
  <2> HIDE DEF q
  <2>7. Taken(q.chunks, s, k + 1)
    BY <1>3, <2>1
  <2>8. Packs(q, C, s, k + 1, m)
    BY <1>2, <2>4, <2>5, <2>6, <2>7 DEF Packs
  <2> QED BY <2>8 DEF q
<1>9. CASE ~(p.used + e <= m)
  <2>1. /\ q.chunks = p.chunks /\ q.used = p.used /\ q.dropped = p.dropped + 1
        /\ p.used + e > m
    <3> HIDE DEF c, e, q
    <3> QED BY <1>1, <1>2, <1>9
  <2> HIDE DEF q
  <2>2. \A i \in 1..(k + 1) : Contains(q.chunks, s[i]) \/ q.used + size(i) > m
    BY <1>5, <1>7, <2>1
  <2>3. Len(q.chunks) + q.dropped = k + 1
    BY <1>1, <2>1
  <2>4. q.used = Tokens(q.chunks) /\ q.used <= m /\ Taken(q.chunks, s, k + 1)
    BY <1>1, <1>3, <2>1
  <2>5. Packs(q, C, s, k + 1, m)
    BY <1>2, <2>2, <2>3, <2>4 DEF Packs
  <2> QED BY <2>5 DEF q
<1> QED BY <1>8, <1>9

\* The first loop over all chunks.
LEMMA PackedOnceIs ==
    ASSUME NEW C, \A c \in C : Rated(c), NEW s \in Seq(C), NEW m \in Nat
    PROVE  Packs(PackedOnce(s, m), C, s, Len(s), m)
<1> DEFINE n == Len(s)
           g == CHOOSE f : PackSteps(f, s, m)
           P == {k \in Nat : k <= n => Packs(g[1..k], C, s, k, m)}
<1>1. n \in Nat /\ DOMAIN s = 1..n /\ \A k \in 1..n : s[k] \in C
  OBVIOUS
<1>2. PackSteps(g, s, m)
  <2>1. \E f : PackSteps(f, s, m)
    BY PackExists
  <2> QED BY <2>1, Zenon
<1>3. PackedOnce(s, m) = g[DOMAIN s]
  BY DEF PackedOnce
<1> HIDE DEF g
<1>4. \A d \in SUBSET DOMAIN s :
        g[d] = IF d = {} THEN NothingPacked ELSE Pack(g[d \ {Max(d)}], s[Max(d)], m)
  BY <1>2, Zenon DEF PackSteps
<1> HIDE DEF n
<1>5. 0 \in P
  <2>1. 1..0 = {} /\ {} \in SUBSET DOMAIN s
    OBVIOUS
  <2>2. g[{}] = NothingPacked
    BY <1>4, <2>1
  <2>3. Taken(<<>>, s, 0)
    <3> DEFINE p == [i \in 1..0 |-> i]
    <3>1. p \in [1..Len(<<>>) -> 1..0]
      OBVIOUS
    <3> HIDE DEF p
    <3>2. \A i \in 1..Len(<<>>) : FALSE
      OBVIOUS
    <3> QED BY <3>1, <3>2 DEF Taken
  <2>4. /\ NothingPacked \in Packings(C) /\ NothingPacked.chunks = <<>>
        /\ NothingPacked.used = 0 /\ NothingPacked.dropped = 0
    BY DEF NothingPacked, Packings
  <2>5. Len(<<>>) = 0 /\ \A i \in 1..0 : FALSE
    OBVIOUS
  <2>6. Packs(NothingPacked, C, s, 0, m)
    BY <2>3, <2>4, <2>5, TokensOfNone DEF Packs
  <2> QED BY <2>1, <2>2, <2>6
<1>6. ASSUME NEW k \in P PROVE k + 1 \in P
  <2>1. SUFFICES ASSUME k + 1 <= n PROVE Packs(g[1..(k + 1)], C, s, k + 1, m)
    OBVIOUS
  <2>2. k \in Nat /\ k < n
    BY <1>1, <2>1
  <2>3. Packs(g[1..k], C, s, k, m)
    BY <1>1, <2>2
  <2>4. g[1..(k + 1)] = Pack(g[1..k], s[k + 1], m)
    <3>1. /\ 1..(k + 1) \in SUBSET (1..n) /\ 1..(k + 1) # {}
          /\ Max(1..(k + 1)) = k + 1 /\ (1..(k + 1)) \ {k + 1} = 1..k
      BY <1>1, <2>2, PrefixIs
    <3> HIDE DEF P
    <3> QED BY <1>1, <1>4, <3>1
  <2> HIDE DEF P
  <2> DEFINE h == g[1..k]
  <2> HIDE DEF h
  <2>5. Packs(Pack(h, s[k + 1], m), C, s, k + 1, m)
    <3>1. Packs(h, C, s, k, m) /\ k < Len(s)
      BY <2>2, <2>3 DEF h, n
    <3> QED BY <2>2, <3>1, PacksStep
  <2> QED BY <2>4, <2>5 DEF h
<1>7. Packs(g[1..n], C, s, n, m)
  <2>1. P \in SUBSET Nat
    OBVIOUS
  <2> HIDE DEF P
  <2>2. n \in P
    BY <1>1, <1>5, <1>6, <2>1, NaturalsBySteps
  <2> QED BY <1>1, <2>2 DEF P
<1> QED BY <1>1, <1>3, <1>7 DEF n

\* What the first loop dropped does not fit after it either, so that the second

\* packs nothing.
LEMMA PackedTwiceIs ==
    ASSUME NEW C, \A c \in C : Rated(c), NEW s \in Seq(C), NEW m \in Nat
    PROVE  PackedTwice(s, m) = PackedOnce(s, m)
<1> DEFINE n == Len(s)
           p == PackedOnce(s, m)
           g == CHOOSE f : AgainSteps(f, p, s, m)
           P == {k \in Nat : k <= n => g[1..k] = p}
           h == [d \in SUBSET DOMAIN s |-> p]
<1>1. n \in Nat /\ DOMAIN s = 1..n /\ \A k \in 1..n : s[k] \in C
  OBVIOUS
<1>2. Packs(p, C, s, n, m)
  BY PackedOnceIs
<1>3. PackedTwice(s, m) = g[DOMAIN s]
  BY DEF PackedTwice
<1> HIDE DEF n, p
<1>4. ASSUME NEW k \in 1..n PROVE PackAgain(p, s[k], m) = p
  <2>1. Contains(p.chunks, s[k]) \/ p.used + EstimateTokens(s[k].text) > m
    BY <1>2 DEF Packs
  <2>2. EstimateTokens(s[k].text) \in Nat /\ p.used \in Nat
    <3>1. s[k] \in C /\ p \in Packings(C)
      BY <1>1, <1>2 DEF Packs
    <3> QED BY <3>1, EstimateType DEF Rated, Packings
  <2>3. Contains(p.chunks, s[k]) \/ EstimateTokens(s[k].text) > m - p.used
    BY <2>1, <2>2
  <2> QED BY <2>3 DEF PackAgain
<1>5. AgainSteps(h, p, s, m)
  <2> DEFINE u == [d \in SUBSET DOMAIN s |->
                     IF d = {} THEN p ELSE PackAgain(h[d \ {Max(d)}], s[Max(d)], m)]
  <2>1. ASSUME NEW d \in SUBSET DOMAIN s PROVE h[d] = u[d]
    <3>1. CASE d = {}
      BY <3>1
    <3>2. CASE d # {}
      <4>1. Max(d) \in 1..n /\ d \ {Max(d)} \in SUBSET DOMAIN s
        BY <1>1, <3>2, MaxUpTo
      <4>2. h[d \ {Max(d)}] = p /\ h[d] = p
        BY <4>1
      <4>3. u[d] = PackAgain(h[d \ {Max(d)}], s[Max(d)], m)
        BY <3>2
      <4> HIDE DEF u, h
      <4> QED BY <1>4, <4>1, <4>2, <4>3
    <3> QED BY <3>1, <3>2
  <2>2. h = [d \in SUBSET DOMAIN s |-> h[d]] /\ u = [d \in SUBSET DOMAIN s |-> u[d]]
    OBVIOUS
  <2> HIDE DEF h, u
  <2>3. h = u
    BY <2>1, <2>2, Zenon
  <2> QED BY <2>3, Zenon DEF AgainSteps, u
<1>6. AgainSteps(g, p, s, m)
  BY <1>5, Zenon
<1> HIDE DEF g
<1>7. \A d \in SUBSET DOMAIN s :
        g[d] = IF d = {} THEN p ELSE PackAgain(g[d \ {Max(d)}], s[Max(d)], m)
  BY <1>6, Zenon DEF AgainSteps
<1>8. 0 \in P
  <2>1. 1..0 = {} /\ {} \in SUBSET DOMAIN s
    OBVIOUS
  <2> QED BY <1>7, <2>1
<1>9. ASSUME NEW k \in P PROVE k + 1 \in P
  <2>1. SUFFICES ASSUME k + 1 <= n PROVE g[1..(k + 1)] = p
    OBVIOUS
  <2>2. k \in Nat /\ k < n /\ g[1..k] = p
    BY <1>1, <2>1
  <2> HIDE DEF P
  <2>3. /\ 1..(k + 1) \in SUBSET (1..n) /\ 1..(k + 1) # {}
        /\ Max(1..(k + 1)) = k + 1 /\ (1..(k + 1)) \ {k + 1} = 1..k /\ k + 1 \in 1..n
    BY <1>1, <2>2, PrefixIs
  <2>4. g[1..(k + 1)] = PackAgain(g[1..k], s[k + 1], m)
    BY <1>1, <1>7, <2>3
  <2> QED BY <1>4, <2>2, <2>3, <2>4
<1>10. g[1..n] = p
  <2>1. P \in SUBSET Nat
    OBVIOUS
  <2> HIDE DEF P
  <2>2. n \in P
    BY <1>1, <1>8, <1>9, <2>1, NaturalsBySteps
  <2> QED BY <1>1, <2>2 DEF P
<1> QED BY <1>1, <1>3, <1>10 DEF p


\* Score for each token is a number.
LEMMA EfficiencyType ==
    ASSUME NEW c, Rated(c)
    PROVE  Efficiency(c) \in Int
<1>1. c.score \in Int /\ c.text \in Seq(Int)
  BY DEF Rated
<1> DEFINE e == Scale * c.score
           n == EstimateTokens(c.text)
<1>2. e \in Int
  BY <1>1, ScalePositive
<1>3. n \in Nat /\ (c.text # <<>> => n > 0)
  BY <1>1, EstimateType
<1>4. Efficiency(c) = IF c.text = <<>> THEN e ELSE e \div n
  BY DEF Efficiency
<1> HIDE DEF e, n
<1> QED BY <1>2, <1>3, <1>4

\* The chunks too small to be packed.
SmallOnes(s, minTokens) == {i \in 1..Len(s) : EstimateTokens(s[i].text) < minTokens}

\* A list has no more of them than one it is taken from.
LEMMA SmallTaken ==
    ASSUME NEW C, NEW s \in Seq(C), NEW t \in Seq(C), Takes(t, s), NEW least
    PROVE  /\ Cardinality(SmallOnes(t, least)) \in Nat
           /\ Cardinality(SmallOnes(s, least)) \in Nat
           /\ Cardinality(SmallOnes(t, least)) <= Cardinality(SmallOnes(s, least))
<1> DEFINE I == SmallOnes(t, least)
           J == SmallOnes(s, least)
<1>1. PICK p \in [1..Len(t) -> 1..Len(s)] :
        /\ \A i, j \in 1..Len(t) : p[i] = p[j] => i = j
        /\ \A i \in 1..Len(t) : t[i] = s[p[i]]
  BY DEF Takes, Taken
<1> DEFINE h == [i \in I |-> p[i]]
<1>2. h \in [I -> J] /\ \A i, j \in I : h[i] = h[j] => i = j
  BY <1>1 DEF SmallOnes
<1> HIDE DEF h
<1>3. h \in Injection(I, J)
  BY <1>2 DEF Injection, IsInjective
<1>4. IsFiniteSet(I) /\ IsFiniteSet(J)
  <2>1. IsFiniteSet(1..Len(t)) /\ IsFiniteSet(1..Len(s))
    BY UpToIsFinite
  <2>2. I \in SUBSET (1..Len(t)) /\ J \in SUBSET (1..Len(s))
    BY DEF SmallOnes
  <2> QED BY <2>1, <2>2, FS_Subset
<1> HIDE DEF I, J
<1>5. Cardinality(I) \in Nat /\ Cardinality(J) \in Nat /\ Cardinality(I) <= Cardinality(J)
  BY <1>3, <1>4, FS_Injection, FS_CardinalityType
<1> QED BY <1>5 DEF I, J

\* What packing the chunks of s into m tokens comes to.
PackedWell(p, C, s, m, least) ==
    /\ p.chunks \in Seq(C) /\ Takes(p.chunks, s)
    /\ Tokens(p.chunks) \in Nat /\ Tokens(p.chunks) <= m
    /\ p.dropped \in Nat
    /\ Len(p.chunks) + p.dropped =
          IF s = <<>> \/ m <= 0 THEN Len(s) ELSE Len(s) - Cardinality(SmallOnes(s, least))

\* All but those are packed or dropped, and what is packed fits.
LEMMA PackByBudgetTakes ==
    ASSUME NEW C, \A c \in C : Rated(c), NEW s \in Seq(C), NEW m \in Nat, NEW least \in Nat
    PROVE  PackedWell(PackByBudget(s, m, least), C, s, m, least)
<1> DEFINE w == Packable(s, least)
           v == [i \in DOMAIN w |-> Efficiency(w[i])]
           t == Placed(w, Ranks(v))
           p == PackByBudget(s, m, least)
           n == Len(s)
<1>1. p = IF s = <<>> \/ m <= 0 THEN [chunks |-> <<>>, used |-> 0, dropped |-> Len(s)]
          ELSE PackedTwice(t, m)
  BY PackByBudgetIs
<1>2. n \in Nat /\ DOMAIN s = 1..n /\ \A i \in 1..n : s[i] \in C
  OBVIOUS
<1> HIDE DEF p
<1>3. CASE s = <<>> \/ m <= 0
  <2>1. p = [chunks |-> <<>>, used |-> 0, dropped |-> n]
    BY <1>1, <1>3
  <2>2. p.chunks = <<>> /\ p.dropped = n
    BY <2>1
  <2>3. <<>> \in Seq(C) /\ Len(<<>>) = 0
    OBVIOUS
  <2>4. Takes(<<>>, s)
    <3> DEFINE q == [i \in 1..0 |-> i]
    <3>1. q \in [1..Len(<<>>) -> 1..Len(s)]
      OBVIOUS
    <3> HIDE DEF q
    <3>2. \A i \in 1..Len(<<>>) : FALSE
      OBVIOUS
    <3> QED BY <3>1, <3>2 DEF Takes, Taken
  <2>5. 0 + n = n
    BY <1>2
  <2> HIDE DEF n
  <2> QED BY <1>2, <1>3, <2>2, <2>3, <2>4, <2>5, TokensOfNone DEF p, n, PackedWell
<1>4. CASE ~(s = <<>> \/ m <= 0)
  <2> DEFINE I == {i \in DOMAIN s : EstimateTokens(s[i].text) >= least}
             J == SmallOnes(s, least)
  <2>1. p = PackedTwice(t, m)
    BY <1>1, <1>4
  <2>2. w = Kept(s, I) /\ I \in SUBSET (1..Len(s))
    BY <1>2, Zenon DEF Packable
  <2> HIDE DEF w
  <2>3. w \in Seq(C) /\ Takes(w, s)
    <3> HIDE DEF I
    <3> QED BY <2>2, KeptTakes
  <2>4. v \in [1..Len(w) -> Int]
    <3>1. \A i \in 1..Len(w) : w[i] \in C /\ Efficiency(w[i]) \in Int
      BY <2>3, EfficiencyType
    <3> QED BY <2>3, <3>1
  <2> HIDE DEF v
  <2>5. t \in Seq(C) /\ Len(t) = Len(w) /\ Takes(t, w)
    BY <2>3, <2>4, PlacedIs
  <2> HIDE DEF t
  <2>6. p = PackedOnce(t, m)
    BY <2>1, <2>5, PackedTwiceIs
  <2>7. Packs(p, C, t, Len(t), m)
    BY <2>5, <2>6, PackedOnceIs
  <2>8. /\ p.chunks \in Seq(C) /\ p.dropped \in Nat /\ p.used \in Nat
        /\ Takes(p.chunks, t)
        /\ Tokens(p.chunks) = p.used /\ p.used <= m
        /\ Len(p.chunks) + p.dropped = Len(t)
    <3>1. p \in Packings(C)
      BY <2>7 DEF Packs
    <3> QED BY <2>7, <3>1 DEF Packs, Packings, Takes
  <2>9. Takes(p.chunks, s)
    <3>1. Takes(t, s)
      BY <2>3, <2>5, TakesFromTaken
    <3> QED BY <2>5, <2>8, <3>1, TakesFromTaken
  <2>10. Len(t) = n - Cardinality(J)
    <3>1. Len(w) = Cardinality(I)
      <4> HIDE DEF I
      <4> QED BY <2>2, KeptCount
    <3>2. I \cup J = 1..n /\ I \cap J = {} /\ J \in SUBSET (1..n)
      <4>1. \A i \in 1..n : EstimateTokens(s[i].text) \in Nat
        BY <1>2, EstimateType DEF Rated
      <4> QED BY <1>2, <4>1 DEF SmallOnes
    <3>3. IsFiniteSet(I) /\ IsFiniteSet(J) /\ Cardinality(1..n) = n
      <4>1. IsFiniteSet(1..n) /\ Cardinality(1..n) = n
        BY <1>2, UpToIsFinite
      <4> HIDE DEF I, J
      <4> QED BY <1>2, <2>2, <3>2, <4>1, FS_Subset
    <3> HIDE DEF I, J, n
    <3>4. Cardinality(1..n) = Cardinality(I) + Cardinality(J)
      BY <3>2, <3>3, DisjointUnion
    <3>5. Cardinality(I) \in Nat /\ Cardinality(J) \in Nat
      BY <3>3, FS_CardinalityType
    <3> QED BY <1>2, <2>5, <3>1, <3>3, <3>4, <3>5
  <2> QED BY <1>4, <2>8, <2>9, <2>10 DEF p, PackedWell
<1> QED BY <1>3, <1>4

------------------------------------------------------------------------------
\* What assemble selects.

\* A configuration as CandidatesAreTyped has it.
Configured(c) ==
    /\ c.strategy \in Strategies
    /\ c.max_chunks \in Nat /\ c.max_tokens \in Nat
    /\ c.per_chunk_max_tokens \in Nat /\ c.min_chunk_tokens \in Nat
    /\ c.dedup_threshold \in Int /\ c.mmr_lambda \in Int /\ c.enable_compression \in BOOLEAN
LimitOf(c) ==
    IF c.strategy \in {"top_k", "dedup_only", "mmr"} THEN c.max_chunks ELSE 2 * c.max_chunks
SmallOf(s, c) ==
    IF Budgeted(c) /\ c.max_tokens > 0 THEN Cardinality(SmallOnes(s, c.min_chunk_tokens)) ELSE 0
Fewer(n, m) == IF n < m THEN n ELSE m

\* What holds of a selection before its texts are cut.
SelectedWell(r, C, s, c) ==
    /\ r.chunks \in Seq(C)
    /\ Budgeted(c) => Tokens(r.chunks) <= c.max_tokens
    /\ LET kept == Fewer(Len(s) - r.removed, LimitOf(c))
       IN  /\ Len(r.chunks) + r.dropped <= kept
           /\ kept - SmallOf(s, c) <= Len(r.chunks) + r.dropped
    /\ c.strategy \notin {"top_k", "budget"} => Apart(r.chunks, c.dedup_threshold)

\* A selection of as many chunks as asked for, with none dropped.
LEMMA SelectionCounts ==
    ASSUME NEW C, \A b \in C : Rated(b), NEW s \in Seq(C), NEW c, Configured(c),
           c.strategy \in {"top_k", "dedup_only", "mmr"},
           NEW d \in Seq(C), NEW t \in Seq(C), Takes(t, d), Len(t) = Fewer(Len(d), LimitOf(c)),
           c.strategy # "top_k" => Apart(d, c.dedup_threshold),
           NEW r, r.chunks = t, r.removed = Len(s) - Len(d), r.dropped = 0
    PROVE  SelectedWell(r, C, s, c)
<1>1. ~Budgeted(c) /\ SmallOf(s, c) = 0
  BY DEF Budgeted, SmallOf
<1>2. Len(s) \in Nat /\ Len(d) \in Nat /\ Len(t) \in Nat /\ LimitOf(c) \in Nat
  BY DEF Configured, LimitOf
<1>3. Fewer(Len(s) - r.removed, LimitOf(c)) = Len(t)
  <2>1. Len(s) - r.removed = Len(d)
    BY <1>2
  <2> QED BY <2>1
<1>4. c.strategy # "top_k" => Apart(r.chunks, c.dedup_threshold)
  BY ApartTaken
<1> QED BY <1>1, <1>2, <1>3, <1>4 DEF SelectedWell

\* A selection that is packed into the budget.
LEMMA PackingCounts ==
    ASSUME NEW C, \A b \in C : Rated(b), NEW s \in Seq(C), NEW c, Configured(c), Budgeted(c),
           NEW d \in Seq(C), Takes(d, s),
           NEW t \in Seq(C), Takes(t, d), Len(t) = Fewer(Len(d), LimitOf(c)),
           c.strategy # "budget" => Apart(d, c.dedup_threshold),
           NEW p, p = PackByBudget(t, c.max_tokens, c.min_chunk_tokens),
           NEW r, r.chunks = p.chunks, r.removed = Len(s) - Len(d), r.dropped = p.dropped
    PROVE  SelectedWell(r, C, s, c)
<1> DEFINE m == c.max_tokens
           least == c.min_chunk_tokens
           few == Cardinality(SmallOnes(t, least))
           many == Cardinality(SmallOnes(s, least))
<1>1. m \in Nat /\ least \in Nat /\ LimitOf(c) \in Nat
  BY DEF Configured, LimitOf
<1>2. /\ p.chunks \in Seq(C) /\ Takes(p.chunks, t)
      /\ Tokens(p.chunks) \in Nat /\ Tokens(p.chunks) <= m
      /\ p.dropped \in Nat
      /\ Len(p.chunks) + p.dropped = IF t = <<>> \/ m <= 0 THEN Len(t) ELSE Len(t) - few
  <2> HIDE DEF m, least
  <2>1. PackedWell(PackByBudget(t, m, least), C, t, m, least)
    BY <1>1, PackByBudgetTakes
  <2> QED BY <2>1 DEF PackedWell, m, least
<1>3. few \in Nat /\ many \in Nat /\ few <= many
  <2>1. Takes(t, s)
    BY TakesFromTaken
  <2> QED BY <2>1, SmallTaken
<1>4. Len(s) \in Nat /\ Len(d) \in Nat /\ Len(t) \in Nat /\ (t = <<>> => Len(t) = 0)
  OBVIOUS
<1>5. Fewer(Len(s) - r.removed, LimitOf(c)) = Len(t)
  <2>1. Len(s) - r.removed = Len(d)
    BY <1>4
  <2> QED BY <2>1
<1>6. SmallOf(s, c) = IF m > 0 THEN many ELSE 0
  BY DEF SmallOf
<1> HIDE DEF few, many, m
<1>7. /\ Len(r.chunks) + r.dropped <= Len(t)
      /\ Len(t) - SmallOf(s, c) <= Len(r.chunks) + r.dropped
  BY <1>1, <1>2, <1>3, <1>4, <1>6
<1>8. c.strategy # "budget" => Apart(r.chunks, c.dedup_threshold)
  <2>1. Takes(p.chunks, d)
    BY <1>2, TakesFromTaken
  <2> QED BY <1>2, <2>1, ApartTaken
<1> QED BY <1>2, <1>5, <1>7, <1>8 DEF SelectedWell, m


\* The records assemble selects.
Chosen(t, removed, dropped) == [chunks |-> t, removed |-> removed, dropped |-> dropped]
PackedFrom(t, removed, c) ==
    LET p == PackByBudget(t, c.max_tokens, c.min_chunk_tokens)
    IN  Chosen(p.chunks, removed, p.dropped)
Diverse(s, query, k, c) == IF k <= 0 THEN <<>> ELSE SelectDiverse(s, query, k, c.mmr_lambda)

\* Each strategy's branch.
LEMMA SelectedIs ==
    ASSUME NEW query, NEW chunks, NEW c, c.strategy \in Strategies
    PROVE  LET d == Deduplicate(chunks, c.dedup_threshold)
               r == Selected(query, chunks, c)
           IN  /\ c.strategy = "top_k" => r = Chosen(SelectTopK(chunks, c.max_chunks), 0, 0)
               /\ c.strategy = "dedup_only" =>
                     r = Chosen(SelectTopK(d.chunks, c.max_chunks), d.removed, 0)
               /\ c.strategy = "mmr" =>
                     r = Chosen(Diverse(d.chunks, query, c.max_chunks, c), d.removed, 0)
               /\ c.strategy = "budget" =>
                     r = PackedFrom(SelectTopK(chunks, 2 * c.max_chunks), 0, c)
               /\ c.strategy \in {"full", "full_compressed"} =>
                     r = PackedFrom(Diverse(d.chunks, query, 2 * c.max_chunks, c), d.removed, c)
BY DEF Selected, Chosen, PackedFrom, Diverse, Strategies

\* A diverse selection has as many chunks as asked for.
LEMMA DiverseIs ==
    ASSUME NEW C, \A b \in C : Rated(b), NEW s \in Seq(C), NEW query \in Seq(Int), NEW c,
           Configured(c), NEW k \in Nat
    PROVE  /\ Diverse(s, query, k, c) \in Seq(C) /\ Takes(Diverse(s, query, k, c), s)
           /\ Len(Diverse(s, query, k, c)) = Fewer(Len(s), k)
<1> DEFINE t == SelectDiverse(s, query, k, c.mmr_lambda)
<1>1. t \in Seq(C) /\ Takes(t, s) /\ Len(t) = (IF k < Len(s) THEN k ELSE Len(s))
  BY SelectDiverseIs DEF Configured
<1>2. Len(s) \in Nat
  OBVIOUS
<1>3. CASE k <= 0
  <2>1. k = 0
    BY <1>3
  <2>2. Diverse(s, query, k, c) = <<>> /\ <<>> \in Seq(C) /\ Len(<<>>) = 0
    BY <1>3 DEF Diverse
  <2>3. Takes(<<>>, s)
    <3> DEFINE q == [i \in 1..0 |-> i]
    <3>1. q \in [1..Len(<<>>) -> 1..Len(s)]
      OBVIOUS
    <3> HIDE DEF q
    <3>2. \A i \in 1..Len(<<>>) : FALSE
      OBVIOUS
    <3> QED BY <3>1, <3>2 DEF Takes, Taken
  <2>4. Fewer(Len(s), k) = 0
    BY <1>2, <2>1 DEF Fewer
  <2> HIDE DEF t
  <2> QED BY <2>2, <2>3, <2>4
<1>4. CASE ~(k <= 0)
  <2>1. Diverse(s, query, k, c) = t
    BY <1>4 DEF Diverse
  <2> HIDE DEF t
  <2>2. Fewer(Len(s), k) = IF k < Len(s) THEN k ELSE Len(s)
    BY <1>2 DEF Fewer
  <2> QED BY <1>1, <2>1, <2>2
<1> QED BY <1>3, <1>4

\* SelectTopK returns min(k, length) of the chunks, in the order given.
LEMMA TopKFewer ==
    ASSUME NEW C, \A b \in C : Rated(b), NEW s \in Seq(C), NEW k \in Nat
    PROVE  /\ SelectTopK(s, k) \in Seq(C) /\ Takes(SelectTopK(s, k), s)
           /\ Len(SelectTopK(s, k)) = Fewer(Len(s), k)
<1>1. Len(s) \in Nat
  OBVIOUS
<1>2. Fewer(Len(s), k) = IF k < Len(s) THEN k ELSE Len(s)
  BY <1>1 DEF Fewer
<1> QED BY <1>2, SelectTopKIs

\* Whatever the strategy, the selection is what its branch says.
LEMMA SelectedHolds ==
    ASSUME NEW C, \A b \in C : Rated(b), NEW s \in Seq(C), NEW query \in Seq(Int),
           NEW c, Configured(c)
    PROVE  SelectedWell(Selected(query, s, c), C, s, c)
<1> DEFINE r == Selected(query, s, c)
           d == Deduplicate(s, c.dedup_threshold)
           k == LimitOf(c)
<1>1. /\ c.strategy \in Strategies /\ c.max_chunks \in Nat /\ k \in Nat /\ 2 * c.max_chunks \in Nat
      /\ c.dedup_threshold \in Int /\ c.mmr_lambda \in Int
  BY DEF Configured, LimitOf
<1>2. /\ d.chunks \in Seq(C) /\ Takes(d.chunks, s) /\ Apart(d.chunks, c.dedup_threshold)
      /\ d.removed = Len(s) - Len(d.chunks)
  BY <1>1, DeduplicateTakes
<1>3. Takes(s, s) /\ 0 = Len(s) - Len(s)
  BY TakesItself
<1>4. /\ c.strategy = "top_k" => r = Chosen(SelectTopK(s, c.max_chunks), 0, 0)
      /\ c.strategy = "dedup_only" => r = Chosen(SelectTopK(d.chunks, c.max_chunks), d.removed, 0)
      /\ c.strategy = "mmr" => r = Chosen(Diverse(d.chunks, query, c.max_chunks, c), d.removed, 0)
      /\ c.strategy = "budget" => r = PackedFrom(SelectTopK(s, 2 * c.max_chunks), 0, c)
      /\ c.strategy \in {"full", "full_compressed"} =>
             r = PackedFrom(Diverse(d.chunks, query, 2 * c.max_chunks, c), d.removed, c)
  BY <1>1, SelectedIs
<1> DEFINE e == d.chunks
           n == c.max_chunks
           m == 2 * c.max_chunks
<1>10. e \in Seq(C) /\ n \in Nat /\ m \in Nat
  BY <1>1, <1>2
<1> HIDE DEF d, r, e, n, m
<1>5. CASE c.strategy = "top_k"
  <2> DEFINE t == SelectTopK(s, n)
  <2>1. k = n
    BY <1>5 DEF LimitOf, n
  <2>2. t \in Seq(C) /\ Takes(t, s) /\ Len(t) = Fewer(Len(s), k)
    BY <1>10, <2>1, TopKFewer
  <2>3. r.chunks = t /\ r.removed = 0 /\ r.dropped = 0
    BY <1>4, <1>5 DEF Chosen, e, n, m
  <2> HIDE DEF t
  <2> QED BY <1>3, <1>5, <2>2, <2>3, SelectionCounts DEF r, e
<1>6. CASE c.strategy = "dedup_only"
  <2> DEFINE t == SelectTopK(e, n)
  <2>1. k = n
    BY <1>6 DEF LimitOf, n
  <2>2. t \in Seq(C) /\ Takes(t, e) /\ Len(t) = Fewer(Len(e), k)
    BY <1>10, <2>1, TopKFewer
  <2>3. r.chunks = t /\ r.removed = Len(s) - Len(e) /\ r.dropped = 0
    BY <1>2, <1>4, <1>6 DEF Chosen, e, n, m
  <2> HIDE DEF t
  <2> QED BY <1>2, <1>6, <1>10, <2>2, <2>3, SelectionCounts DEF r, e
<1>7. CASE c.strategy = "mmr"
  <2> DEFINE t == Diverse(e, query, n, c)
  <2>1. k = n
    BY <1>7 DEF LimitOf, n
  <2>2. t \in Seq(C) /\ Takes(t, e) /\ Len(t) = Fewer(Len(e), k)
    BY <1>10, <2>1, DiverseIs
  <2>3. r.chunks = t /\ r.removed = Len(s) - Len(e) /\ r.dropped = 0
    BY <1>2, <1>4, <1>7 DEF Chosen, e, n, m
  <2> HIDE DEF t
  <2> QED BY <1>2, <1>7, <1>10, <2>2, <2>3, SelectionCounts DEF r, e
<1>8. CASE c.strategy = "budget"
  <2> DEFINE t == SelectTopK(s, m)
             p == PackByBudget(t, c.max_tokens, c.min_chunk_tokens)
  <2>1. k = m /\ Budgeted(c)
    BY <1>8 DEF LimitOf, Budgeted, m
  <2>2. t \in Seq(C) /\ Takes(t, s) /\ Len(t) = Fewer(Len(s), k)
    BY <1>10, <2>1, TopKFewer
  <2>3. r.chunks = p.chunks /\ r.removed = Len(s) - Len(s) /\ r.dropped = p.dropped
    BY <1>3, <1>4, <1>8 DEF Chosen, e, n, m, PackedFrom
  <2> HIDE DEF t
  <2> QED BY <1>3, <1>8, <2>1, <2>2, <2>3, PackingCounts DEF r, e
<1>9. CASE c.strategy \in {"full", "full_compressed"}
  <2> DEFINE t == Diverse(e, query, m, c)
             p == PackByBudget(t, c.max_tokens, c.min_chunk_tokens)
  <2>1. k = m /\ Budgeted(c)
    BY <1>9 DEF LimitOf, Budgeted, m
  <2>2. t \in Seq(C) /\ Takes(t, e) /\ Len(t) = Fewer(Len(e), k)
    BY <1>10, <2>1, DiverseIs
  <2>3. r.chunks = p.chunks /\ r.removed = Len(s) - Len(e) /\ r.dropped = p.dropped
    BY <1>2, <1>4, <1>9 DEF Chosen, e, m, PackedFrom
  <2> HIDE DEF t
  <2> QED BY <1>2, <1>9, <1>10, <2>1, <2>2, <2>3, PackingCounts DEF r, e
<1> QED BY <1>1, <1>5, <1>6, <1>7, <1>8, <1>9 DEF Strategies, r


------------------------------------------------------------------------------
\* How long texts are.

\* The lengths of texts, each with a character that parts it from the next.
Lengths(ts) == [i \in 1..Len(ts) |-> Len(ts[i]) + 1]
Bulk(ts) == Weight(Lengths(ts), 1..Len(ts))

\* The lengths by which texts are weighed, each with the blank that follows it.
LEMMA LengthsType ==
    ASSUME NEW ts \in Seq(Seq(Int))
    PROVE  /\ Len(ts) \in Nat /\ DOMAIN ts = 1..Len(ts)
           /\ \A i \in 1..Len(ts) : ts[i] \in Seq(Int) /\ Len(ts[i]) \in Nat
           /\ Lengths(ts) \in [1..Len(ts) -> Nat]
           /\ \A i \in 1..Len(ts) : Lengths(ts)[i] = Len(ts[i]) + 1
           /\ Bulk(ts) \in Nat
<1>1. Len(ts) \in Nat /\ DOMAIN ts = 1..Len(ts)
  OBVIOUS
<1>2. \A i \in 1..Len(ts) : ts[i] \in Seq(Int) /\ Len(ts[i]) \in Nat
  OBVIOUS
<1>3. Lengths(ts) \in [1..Len(ts) -> Nat]
  <2>1. \A i \in 1..Len(ts) : Len(ts[i]) + 1 \in Nat
    BY <1>2
  <2> QED BY <2>1 DEF Lengths
<1>4. \A i \in 1..Len(ts) : Lengths(ts)[i] = Len(ts[i]) + 1
  BY DEF Lengths
<1>5. Bulk(ts) \in Nat
  <2>1. 1..Len(ts) \in SUBSET (1..Len(ts))
    OBVIOUS
  <2> QED BY <1>1, <1>3, <2>1, PairsFinite DEF Bulk
<1> QED BY <1>1, <1>2, <1>3, <1>4, <1>5

\* Ranges of a text that lie one after the other, with a character between.
Spaced(a, b, n, m) ==
    /\ a \in [1..m -> Nat] /\ b \in [1..m -> Nat]
    /\ \A k \in 1..m : a[k] <= b[k] /\ b[k] <= n
    /\ \A k, l \in 1..m : k < l => b[k] + 1 <= a[l]

\* They are no longer than the text and one character more.
LEMMA SpacedFit ==
    ASSUME NEW n \in Nat, NEW m \in Nat, NEW a, NEW b, Spaced(a, b, n, m),
           NEW w \in [1..m -> Nat], \A k \in 1..m : w[k] = b[k] - a[k] + 1
    PROVE  Weight(w, 1..m) <= n + 1
<1> DEFINE D == Pairs(w, 1..m)
           h == [p \in D |-> a[p[1]] + p[2]]
<1>1. \A p \in D : p[1] \in 1..m /\ p[2] \in 1..w[p[1]]
  BY DEF Pairs
<1>2. \A p, q \in D : p[1] = q[1] /\ p[2] = q[2] => p = q
  BY DEF Pairs
<1>3. IsFiniteSet(D) /\ IsFiniteSet(1..(n + 1)) /\ Cardinality(1..(n + 1)) = n + 1
  <2>1. 1..m \in SUBSET (1..m) /\ n + 1 \in Nat
    OBVIOUS
  <2> QED BY <2>1, PairsFinite, UpToIsFinite
<1> HIDE DEF D
<1>4. \A k \in 1..m : a[k] \in Nat /\ b[k] \in Nat /\ a[k] <= b[k] /\ b[k] <= n
  BY DEF Spaced
<1>5. \A p \in D : a[p[1]] + p[2] \in 1..(n + 1) /\ a[p[1]] < a[p[1]] + p[2]
                   /\ a[p[1]] + p[2] <= b[p[1]] + 1
  <2> TAKE p \in D
  <2> DEFINE k == p[1]
             j == p[2]
  <2>1. k \in 1..m /\ j \in 1..w[k] /\ w[k] = b[k] - a[k] + 1
    BY <1>1
  <2> HIDE DEF k, j
  <2>2. a[k] \in Nat /\ b[k] \in Nat /\ a[k] <= b[k] /\ b[k] <= n
    BY <1>4, <2>1
  <2>3. a[k] + j \in 1..(n + 1) /\ a[k] < a[k] + j /\ a[k] + j <= b[k] + 1
    <3> DEFINE u == a[k]
               v == b[k]
    <3>1. u \in Nat /\ v \in Nat /\ u <= v /\ v <= n /\ j \in 1..(v - u + 1)
      BY <2>1, <2>2
    <3> HIDE DEF u, v
    <3>2. u + j \in 1..(n + 1) /\ u < u + j /\ u + j <= v + 1
      BY <3>1
    <3> QED BY <3>2 DEF u, v
  <2> QED BY <2>3 DEF k, j
<1>6. h \in [D -> 1..(n + 1)] /\ \A p \in D : h[p] = a[p[1]] + p[2]
  BY <1>5
<1> HIDE DEF h
<1>7. ASSUME NEW p \in D, NEW q \in D, h[p] = h[q] PROVE p = q
  <2> DEFINE k == p[1]
             l == q[1]
             i == p[2]
             j == q[2]
  <2>1. k \in 1..m /\ l \in 1..m /\ i \in Nat /\ j \in Nat
    <3>1. k \in 1..m /\ l \in 1..m /\ i \in 1..w[k] /\ j \in 1..w[l]
      BY <1>1
    <3> HIDE DEF k, l, i, j
    <3> QED BY <3>1
  <2>2. /\ a[k] + i = a[l] + j
        /\ a[k] < a[k] + i /\ a[k] + i <= b[k] + 1
        /\ a[l] < a[l] + j /\ a[l] + j <= b[l] + 1
    BY <1>5, <1>6, <1>7
  <2> HIDE DEF k, l, i, j
  <2>3. a[k] \in Nat /\ b[k] \in Nat /\ a[l] \in Nat /\ b[l] \in Nat
    BY <1>4, <2>1
  <2>4. /\ k < l => b[k] + 1 <= a[l]
        /\ l < k => b[l] + 1 <= a[k]
        /\ k = l => a[k] = a[l]
    BY <2>1 DEF Spaced
  <2> DEFINE u == a[k]
             v == b[k]
             y == a[l]
             z == b[l]
  <2>5. /\ u \in Nat /\ v \in Nat /\ y \in Nat /\ z \in Nat
        /\ u + i = y + j /\ u < u + i /\ u + i <= v + 1 /\ y < y + j /\ y + j <= z + 1
        /\ (k < l => v + 1 <= y) /\ (l < k => z + 1 <= u) /\ (k = l => u = y)
    BY <2>2, <2>3, <2>4
  <2> HIDE DEF u, v, y, z
  <2>6. k = l
    BY <2>1, <2>5
  <2>7. i = j
    BY <2>1, <2>5, <2>6
  <2> QED BY <1>2, <2>6, <2>7 DEF k, l, i, j
<1>8. h \in Injection(D, 1..(n + 1))
  BY <1>6, <1>7 DEF Injection, IsInjective
<1>9. Cardinality(D) <= n + 1
  BY <1>3, <1>8, FS_Injection
<1> QED BY <1>9 DEF Weight, D

\* Cuts out of a text of n characters, in order and none of them empty.
WellCut(cuts, n) ==
    /\ Len(cuts) \in Nat /\ DOMAIN cuts = 1..Len(cuts)
    /\ \A k \in 1..Len(cuts) :
          /\ cuts[k][1] \in Nat /\ cuts[k][2] \in Nat
          /\ cuts[k][1] < cuts[k][2] /\ cuts[k][2] <= n
    /\ \A k, l \in 1..Len(cuts) : k < l => cuts[k][2] <= cuts[l][1]
From(cuts) == [k \in 1..(Len(cuts) + 1) |-> IF k = 1 THEN 0 ELSE cuts[k - 1][2]]
To(cuts, n) == [k \in 1..(Len(cuts) + 1) |-> IF k > Len(cuts) THEN n ELSE cuts[k][1]]

\* The positions where sentences are cut divide a text into consecutive pieces.
LEMMA CutsAreSpaced ==
    ASSUME NEW n \in Nat, NEW cuts, WellCut(cuts, n)
    PROVE  Spaced(From(cuts), To(cuts, n), n, Len(cuts) + 1)
<1> DEFINE c == Len(cuts)
           m == c + 1
           a == From(cuts)
           b == To(cuts, n)
<1>1. c \in Nat
  BY DEF WellCut
<1>2. \A k \in 1..m : a[k] = (IF k = 1 THEN 0 ELSE cuts[k - 1][2]) /\ b[k] = (IF k > c THEN n ELSE cuts[k][1])
  BY DEF From, To
<1>3. a = [k \in 1..m |-> a[k]] /\ b = [k \in 1..m |-> b[k]]
  BY DEF From, To
<1> HIDE DEF a, b
<1>4. \A k \in 1..c : /\ cuts[k][1] \in Nat /\ cuts[k][2] \in Nat
                      /\ cuts[k][1] < cuts[k][2] /\ cuts[k][2] <= n
  BY DEF WellCut
<1>5. \A k, l \in 1..c : k < l => cuts[k][2] <= cuts[l][1]
  BY DEF WellCut
<1> HIDE DEF c
<1>6. ASSUME NEW k \in 1..m
      PROVE  a[k] \in Nat /\ b[k] \in Nat /\ a[k] <= b[k] /\ b[k] <= n
  <2>1. (k = 1 /\ a[k] = 0) \/ (k - 1 \in 1..c /\ a[k] = cuts[k - 1][2])
    BY <1>1, <1>2
  <2>2. (k = m /\ b[k] = n) \/ (k \in 1..c /\ b[k] = cuts[k][1])
    BY <1>1, <1>2
  <2>3. k - 1 \in 1..c /\ k \in 1..c => cuts[k - 1][2] <= cuts[k][1]
    <3>1. k - 1 < k
      OBVIOUS
    <3> QED BY <1>5, <3>1
  <2> QED BY <1>4, <2>1, <2>2, <2>3
<1>7. ASSUME NEW k \in 1..m, NEW l \in 1..m, k < l PROVE b[k] + 1 <= a[l]
  <2>1. k \in 1..c /\ l - 1 \in 1..c /\ k <= l - 1
    BY <1>1, <1>7
  <2>2. b[k] = cuts[k][1] /\ a[l] = cuts[l - 1][2]
    BY <1>1, <1>2, <1>7, <2>1
  <2>3. k = l - 1 \/ (k < l - 1 /\ cuts[k][2] <= cuts[l - 1][1])
    BY <1>5, <2>1
  <2> QED BY <1>4, <2>1, <2>2, <2>3
<1>8. a \in [1..m -> Nat] /\ b \in [1..m -> Nat]
  BY <1>3, <1>6
<1>9. Spaced(a, b, n, m)
  BY <1>6, <1>7, <1>8 DEF Spaced
<1> QED BY <1>9 DEF a, b, m, c

\* The pieces between the cuts, each with a character more, are no longer

\* than the text with one.
LEMMA PiecesFit ==
    ASSUME NEW t \in Seq(Int), NEW cuts, WellCut(cuts, Len(t))
    PROVE  /\ Pieces(t, cuts) \in Seq(Seq(Int)) /\ Len(Pieces(t, cuts)) = Len(cuts) + 1
           /\ Bulk(Pieces(t, cuts)) <= Len(t) + 1
           /\ \A k \in 1..Len(Pieces(t, cuts)) : Len(Pieces(t, cuts)[k]) <= Len(t)
<1> DEFINE n == Len(t)
           m == Len(cuts) + 1
           a == From(cuts)
           b == To(cuts, n)
           p == Pieces(t, cuts)
<1>1. p = [k \in 1..m |-> SubSeq(t, a[k] + 1, b[k])]
  BY Zenon DEF Pieces, Slice, From, To
<1>2. n \in Nat /\ m \in Nat
  BY DEF WellCut
<1>3. Spaced(a, b, n, m)
  BY <1>2, CutsAreSpaced
<1> HIDE DEF a, b, p, m
<1>4. ASSUME NEW k \in 1..m
      PROVE  /\ SubSeq(t, a[k] + 1, b[k]) \in Seq(Int)
             /\ Len(SubSeq(t, a[k] + 1, b[k])) = b[k] - a[k]
  <2> DEFINE lo == a[k] + 1
             hi == b[k]
  <2>1. a[k] \in Nat /\ b[k] \in Nat /\ a[k] <= b[k] /\ b[k] <= n
    BY <1>3 DEF Spaced
  <2>2. lo \in Nat \ {0} /\ hi \in Nat /\ hi <= Len(t)
    BY <2>1
  <2>3. (IF lo <= hi THEN hi - lo + 1 ELSE 0) = b[k] - a[k]
    <3> DEFINE u == a[k]
               v == b[k]
    <3>1. u \in Nat /\ v \in Nat /\ u <= v
      BY <2>1
    <3> HIDE DEF u, v
    <3>2. (IF u + 1 <= v THEN v - (u + 1) + 1 ELSE 0) = v - u
      BY <3>1
    <3> QED BY <3>2 DEF u, v
  <2> HIDE DEF lo, hi
  <2>4. SubSeq(t, lo, hi) \in Seq(Int) /\ Len(SubSeq(t, lo, hi)) = IF lo <= hi THEN hi - lo + 1 ELSE 0
    BY <2>2, SubSeqElements
  <2> QED BY <2>3, <2>4 DEF lo, hi
<1>5. p \in [1..m -> Seq(Int)] /\ \A k \in 1..m : Len(p[k]) = b[k] - a[k]
  BY <1>1, <1>4
<1>6. p \in Seq(Seq(Int)) /\ Len(p) = m
  BY <1>2, <1>5
<1>7. Lengths(p) \in [1..m -> Nat] /\ \A k \in 1..m : Lengths(p)[k] = b[k] - a[k] + 1
  BY <1>5, <1>6, LengthsType
<1>8. Weight(Lengths(p), 1..m) <= n + 1
  <2> DEFINE w == Lengths(p)
  <2> HIDE DEF w, n
  <2>1. w \in [1..m -> Nat] /\ \A k \in 1..m : w[k] = b[k] - a[k] + 1
    BY <1>7 DEF w
  <2> QED BY <1>2, <1>3, <2>1, SpacedFit DEF w
<1>9. ASSUME NEW k \in 1..m PROVE Len(p[k]) <= n
  <2> DEFINE u == a[k]
             v == b[k]
  <2>1. u \in Nat /\ v \in Nat /\ v <= n /\ Len(p[k]) = v - u
    BY <1>3, <1>5 DEF Spaced
  <2> HIDE DEF u, v
  <2> QED BY <1>2, <2>1
<1> QED BY <1>6, <1>8, <1>9 DEF Bulk, p, m


\* The texts joined up to each place.
JoinSteps(f, rest, first, s) ==
    f = [d \in SUBSET DOMAIN rest |->
            IF d = {} THEN first ELSE f[d \ {Max(d)}] \o s \o rest[Max(d)]]

\* Joining, as the value of its steps on the texts after the first.
LEMMA JoinIs ==
    ASSUME NEW ts, NEW s, ts # <<>>
    PROVE  Join(ts, s) = (CHOOSE f : JoinSteps(f, Tail(ts), Head(ts), s))[DOMAIN Tail(ts)]
BY Zenon DEF Join, JoinSteps, FoldLeft, MapThenFoldSet

\* The steps of joining have a value on every sequence of texts.
LEMMA JoinsExist ==
    ASSUME NEW rest \in Seq(Seq(Int)), NEW first \in Seq(Int), NEW s \in Seq(Int)
    PROVE  \E f : JoinSteps(f, rest, first, s)
<1> DEFINE n == Len(rest)
           V == Seq(Int)
           step == [p \in (1..n) \X V |-> p[2] \o s \o rest[p[1]]]
<1>1. n \in Nat /\ DOMAIN rest = 1..n /\ \A k \in 1..n : rest[k] \in V
  OBVIOUS
<1>2. step \in [(1..n) \X V -> V]
  <2>1. ASSUME NEW k \in 1..n, NEW h \in V PROVE h \o s \o rest[k] \in V
    <3>1. rest[k] \in V
      BY <1>1
    <3> DEFINE r == rest[k]
    <3> HIDE DEF r
    <3>2. h \o s \in V
      OBVIOUS
    <3> DEFINE q == h \o s
    <3> HIDE DEF q
    <3>3. q \o r \in V
      BY <3>1, <3>2 DEF q, r
    <3> QED BY <3>3 DEF q, r
  <2> HIDE DEF n, V
  <2> QED BY <2>1
<1>3. first \in V
  OBVIOUS
<1>4. PICK f \in [SUBSET (1..n) -> V] : FoldSteps(f, first, step, n)
  <2> HIDE DEF V, step, n
  <2> QED BY <1>1, <1>2, <1>3, FoldExists
<1> HIDE DEF n, V
<1>5. ASSUME NEW d \in SUBSET (1..n), d # {}
      PROVE  f[d] = f[d \ {Max(d)}] \o s \o rest[Max(d)]
  <2> DEFINE m == Max(d)
             e == d \ {m}
  <2>1. m \in 1..n /\ e \in SUBSET (1..n)
    BY <1>1, <1>5, MaxUpTo
  <2>2. f[d] = step[<<m, f[e]>>]
    BY <1>4, <1>5 DEF FoldSteps
  <2>3. f[e] \in V
    BY <1>4, <2>1
  <2> HIDE DEF m, e
  <2>4. step[<<m, f[e]>>] = f[e] \o s \o rest[m]
    BY <2>1, <2>3
  <2> QED BY <2>2, <2>4 DEF m, e
<1>6. f[{}] = first
  BY <1>4 DEF FoldSteps
<1> DEFINE g == [d \in SUBSET (1..n) |->
                   IF d = {} THEN first ELSE f[d \ {Max(d)}] \o s \o rest[Max(d)]]
<1>7. f = g
  <2>1. ASSUME NEW d \in SUBSET (1..n) PROVE f[d] = g[d]
    <3>1. g[d] = IF d = {} THEN first ELSE f[d \ {Max(d)}] \o s \o rest[Max(d)]
      OBVIOUS
    <3> HIDE DEF g
    <3> QED BY <1>5, <1>6, <3>1
  <2>2. f = [d \in SUBSET (1..n) |-> f[d]] /\ g = [d \in SUBSET (1..n) |-> g[d]]
    OBVIOUS
  <2> HIDE DEF g
  <2> QED BY <2>1, <2>2, Zenon
<1>8. JoinSteps(f, rest, first, s)
  BY <1>1, <1>7, Zenon DEF JoinSteps
<1> QED BY <1>8

\* The weight up to a place is the weight before it and its own.
LEMMA WeightUpTo ==
    ASSUME NEW n \in Nat, NEW w \in [1..n -> Nat], NEW k \in Nat, k < n
    PROVE  /\ Weight(w, 1..(k + 1)) = w[k + 1] + Weight(w, 1..k)
           /\ Weight(w, 1..k) \in Nat
<1> DEFINE I == {k + 1}
           J == 1..k
<1>1. k + 1 \in 1..n /\ I \in SUBSET (1..n) /\ J \in SUBSET (1..n) /\ I \cap J = {}
  OBVIOUS
<1>2. I \cup J = 1..(k + 1)
  OBVIOUS
<1>3. Weight(w, I) = w[k + 1]
  BY <1>1, WeightOfOne
<1> HIDE DEF I, J
<1>4. Weight(w, I \cup J) = Weight(w, I) + Weight(w, J)
  BY <1>1, WeightDisjoint
<1>5. Weight(w, J) \in Nat
  BY <1>1, PairsFinite
<1> QED BY <1>2, <1>3, <1>4, <1>5 DEF J

\* The lengths of three texts put together.
LEMMA LengthOfThree ==
    ASSUME NEW h \in Seq(Int), NEW c \in Int, NEW r \in Seq(Int)
    PROVE  h \o <<c>> \o r \in Seq(Int) /\ Len(h \o <<c>> \o r) = Len(h) + 1 + Len(r)
<1> DEFINE q == h \o <<c>>
<1>1. q \in Seq(Int) /\ Len(q) = Len(h) + 1
  OBVIOUS
<1> HIDE DEF q
<1>2. q \o r \in Seq(Int) /\ Len(q \o r) = Len(q) + Len(r)
  BY <1>1, ConcatProperties
<1>3. Len(q \o r) = Len(h) + 1 + Len(r)
  BY <1>1, <1>2
<1> QED BY <1>2, <1>3, Zenon DEF q

\* Texts joined by a character have their lengths and one character between

\* each two.
LEMMA JoinFits ==
    ASSUME NEW ts \in Seq(Seq(Int)), NEW c \in Int
    PROVE  /\ Join(ts, <<c>>) \in Seq(Int)
           /\ ts = <<>> => Join(ts, <<c>>) = <<>>
           /\ ts # <<>> => Len(Join(ts, <<c>>)) + 1 = Bulk(ts)
<1>1. CASE ts = <<>>
  <2>1. Join(ts, <<c>>) = <<>>
    BY <1>1, Zenon DEF Join
  <2>2. <<>> \in Seq(Int)
    OBVIOUS
  <2> QED BY <1>1, <2>1, <2>2
<1>2. CASE ts # <<>>
  <2> DEFINE n == Len(Tail(ts))
             rest == Tail(ts)
             first == Head(ts)
             w == Lengths(ts)
             g == CHOOSE f : JoinSteps(f, rest, first, <<c>>)
             Fine(h, k) == h \in Seq(Int) /\ Len(h) + 1 = Weight(w, 1..(k + 1))
             P == {k \in Nat : k <= n => Fine(g[1..k], k)}
  <2>1. /\ n \in Nat /\ Len(ts) = n + 1 /\ rest \in Seq(Seq(Int)) /\ DOMAIN rest = 1..n
        /\ first \in Seq(Int) /\ first = ts[1] /\ \A k \in 1..n : rest[k] = ts[k + 1]
    BY <1>2
  <2>2. /\ w \in [1..(n + 1) -> Nat] /\ \A i \in 1..(n + 1) : w[i] = Len(ts[i]) + 1
        /\ \A i \in 1..(n + 1) : ts[i] \in Seq(Int)
    <3>1. Len(ts) = n + 1
      BY <2>1
    <3> HIDE DEF n, w
    <3> QED BY <3>1, LengthsType DEF w
  <2>3. JoinSteps(g, rest, first, <<c>>)
    <3>1. <<c>> \in Seq(Int)
      OBVIOUS
    <3>2. \E f : JoinSteps(f, rest, first, <<c>>)
      <4> HIDE DEF rest, first
      <4> QED BY <2>1, <3>1, JoinsExist
    <3> HIDE DEF rest, first
    <3> QED BY <3>2, Zenon
  <2>4. Join(ts, <<c>>) = g[1..n]
    <3>1. Join(ts, <<c>>) = g[DOMAIN rest]
      BY <1>2, JoinIs
    <3> HIDE DEF g
    <3> QED BY <2>1, <3>1
  <2> HIDE DEF g, w
  <2>5. \A d \in SUBSET (1..n) :
          g[d] = IF d = {} THEN first ELSE g[d \ {Max(d)}] \o <<c>> \o rest[Max(d)]
    <3> HIDE DEF rest, first, n
    <3>1. g = [d \in SUBSET (1..n) |->
                 IF d = {} THEN first ELSE g[d \ {Max(d)}] \o <<c>> \o rest[Max(d)]]
      BY <2>1, <2>3, Zenon DEF JoinSteps
    <3> QED BY <3>1, Zenon
  <2> HIDE DEF n, rest, first
  <2>6. 0 \in P
    <3>1. 1..0 = {} /\ {} \in SUBSET (1..n)
      OBVIOUS
    <3>2. g[1..0] = first
      BY <2>5, <3>1
    <3>3. Weight(w, 1..1) = Len(first) + 1
      <4> DEFINE m == n + 1
      <4>1. 1 \in 1..m /\ 1..1 = {1} /\ m \in Nat /\ w \in [1..m -> Nat]
        BY <2>1, <2>2
      <4>2. w[1] = Len(first) + 1
        BY <2>1, <2>2, <4>1
      <4> HIDE DEF m, P, Fine
      <4>3. Weight(w, {1}) = w[1]
        BY <4>1, WeightOfOne
      <4> QED BY <4>1, <4>2, <4>3
    <3>4. Fine(g[1..0], 0)
      BY <2>1, <3>2, <3>3
    <3> HIDE DEF Fine
    <3> QED BY <3>4
  <2>7. ASSUME NEW k \in P PROVE k + 1 \in P
    <3>1. SUFFICES ASSUME k + 1 <= n PROVE Fine(g[1..(k + 1)], k + 1)
      OBVIOUS
    <3>2. k \in Nat /\ k < n
      BY <2>1, <3>1
    <3> DEFINE h == g[1..k]
               r == rest[k + 1]
    <3>3. Fine(h, k)
      BY <2>1, <3>2
    <3>4. g[1..(k + 1)] = h \o <<c>> \o r
      <4>1. /\ 1..(k + 1) \in SUBSET (1..n) /\ 1..(k + 1) # {}
            /\ Max(1..(k + 1)) = k + 1 /\ (1..(k + 1)) \ {k + 1} = 1..k
        BY <2>1, <3>2, PrefixIs
      <4> HIDE DEF P, Fine
      <4> QED BY <2>5, <4>1
    <3> HIDE DEF P
    <3>5. r \in Seq(Int) /\ w[k + 2] = Len(r) + 1
      <4>1. k + 1 \in 1..n /\ k + 2 \in 1..(n + 1) /\ (k + 1) + 1 = k + 2
        BY <2>1, <3>2
      <4> QED BY <2>1, <2>2, <4>1
    <3>6. Weight(w, 1..(k + 2)) = w[k + 2] + Weight(w, 1..(k + 1)) /\ Weight(w, 1..(k + 1)) \in Nat
      <4> DEFINE m == n + 1
                 l == k + 1
      <4>1. m \in Nat /\ l \in Nat /\ l < m /\ l + 1 = k + 2
        BY <2>1, <3>2
      <4>2. w \in [1..m -> Nat]
        BY <2>2
      <4> HIDE DEF h, r, Fine, m, l
      <4>3. Weight(w, 1..(l + 1)) = w[l + 1] + Weight(w, 1..l) /\ Weight(w, 1..l) \in Nat
        BY <4>1, <4>2, WeightUpTo
      <4> QED BY <4>1, <4>3 DEF l
    <3>7. h \in Seq(Int) /\ Len(h) + 1 = Weight(w, 1..(k + 1))
      BY <3>3
    <3> HIDE DEF h, r
    <3>8. h \o <<c>> \o r \in Seq(Int) /\ Len(h \o <<c>> \o r) = Len(h) + 1 + Len(r)
      BY <3>5, <3>7, LengthOfThree
    <3>9. Len(h) \in Nat /\ Len(r) \in Nat /\ (k + 1) + 1 = k + 2
      BY <3>2, <3>5, <3>7
    <3>10. Len(h \o <<c>> \o r) + 1 = Weight(w, 1..(k + 2))
      BY <3>5, <3>6, <3>7, <3>8, <3>9
    <3> QED BY <3>4, <3>8, <3>9, <3>10
  <2>8. Fine(g[1..n], n)
    <3>1. P \in SUBSET Nat
      OBVIOUS
    <3> HIDE DEF P
    <3>2. n \in P
      BY <2>1, <2>6, <2>7, <3>1, NaturalsBySteps
    <3> QED BY <2>1, <3>2 DEF P
  <2>9. Join(ts, <<c>>) \in Seq(Int) /\ Len(Join(ts, <<c>>)) + 1 = Weight(w, 1..(n + 1))
    BY <2>4, <2>8
  <2>10. Bulk(ts) = Weight(w, 1..(n + 1))
    BY <2>1 DEF Bulk, w
  <2> QED BY <1>2, <2>9, <2>10
<1> QED BY <1>1, <1>2


\* A set of places in order.
LEMMA OrderedIs ==
    ASSUME NEW n \in Nat, NEW I \in SUBSET (1..n)
    PROVE  LET o == Ordered(I, n)
           IN  /\ Len(o) \in Nat /\ DOMAIN o = 1..Len(o) /\ o \in Seq(I)
               /\ \A k \in 1..Len(o) : o[k] \in I
               /\ \A k, l \in 1..Len(o) : k < l => o[k] < o[l]
<1> DEFINE o == Ordered(I, n)
<1>1. Enumerates(o, I, n)
  BY OrderedEnumerates
<1> HIDE DEF o
<1>2. o \in Seq(I) /\ \A i, j \in 1..Len(o) : i < j => o[i] < o[j]
  BY <1>1 DEF Enumerates
<1>3. Len(o) \in Nat /\ DOMAIN o = 1..Len(o) /\ \A k \in 1..Len(o) : o[k] \in I
  BY <1>2
<1> QED BY <1>2, <1>3 DEF o

\* The lines of a text fit it.
LEMMA LinesFit ==
    ASSUME NEW t \in Seq(Int)
    PROVE  Lines(t) \in Seq(Seq(Int)) /\ Bulk(Lines(t)) <= Len(t) + 1
<1> DEFINE n == Len(t)
           I == {i \in DOMAIN t : t[i] = NL}
           o == Ordered(I, n)
           cuts == [k \in DOMAIN o |-> <<o[k] - 1, o[k]>>]
<1>1. n \in Nat /\ I \in SUBSET (1..n)
  OBVIOUS
<1>2. Lines(t) = Pieces(t, cuts)
  BY Zenon DEF Lines
<1>9. \A i \in I : i \in Nat /\ 0 < i /\ i <= n
  BY <1>1
<1> HIDE DEF n, I
<1>3. /\ Len(o) \in Nat /\ DOMAIN o = 1..Len(o)
      /\ \A k \in 1..Len(o) : o[k] \in I
      /\ \A k, l \in 1..Len(o) : k < l => o[k] < o[l]
  BY <1>1, OrderedIs
<1> HIDE DEF o
<1>4. \A k \in 1..Len(o) : o[k] \in Nat /\ 0 < o[k] /\ o[k] <= n
  BY <1>3, <1>9
<1>5. DOMAIN cuts = 1..Len(o) /\ \A k \in 1..Len(o) : cuts[k][1] = o[k] - 1 /\ cuts[k][2] = o[k]
  BY <1>3
<1>6. Len(cuts) = Len(o)
  BY <1>3, <1>5
<1> HIDE DEF cuts
<1>7. WellCut(cuts, n)
  <2>1. ASSUME NEW k \in 1..Len(o)
        PROVE  /\ cuts[k][1] \in Nat /\ cuts[k][2] \in Nat
               /\ cuts[k][1] < cuts[k][2] /\ cuts[k][2] <= n
    BY <1>1, <1>4, <1>5
  <2>2. ASSUME NEW k \in 1..Len(o), NEW l \in 1..Len(o), k < l PROVE cuts[k][2] <= cuts[l][1]
    <3>1. o[k] < o[l] /\ o[k] \in Nat /\ o[l] \in Nat
      BY <1>3, <1>4, <2>2
    <3> QED BY <1>5, <3>1
  <2> QED BY <1>3, <1>5, <1>6, <2>1, <2>2 DEF WellCut
<1>8. Pieces(t, cuts) \in Seq(Seq(Int)) /\ Bulk(Pieces(t, cuts)) <= Len(t) + 1
  BY <1>7, PiecesFit DEF n
<1> QED BY <1>2, <1>8

\* Where the white space after a sentence ends.
SpaceEnd(t, a) == Min({i \in Inked(t) : i > a} \cup {Len(t) + 1}) - 1

\* It is after the sentence and not past the end of another.
LEMMA SpaceEndIs ==
    ASSUME NEW t \in Seq(Int), NEW a \in 1..Len(t), a < Len(t), IsSpace(t[a + 1])
    PROVE  /\ SpaceEnd(t, a) \in Nat /\ a < SpaceEnd(t, a) /\ SpaceEnd(t, a) <= Len(t)
           /\ \A b \in 1..Len(t) : b > a /\ t[b] = Dot => SpaceEnd(t, a) <= b
<1> DEFINE I == {i \in Inked(t) : i > a} \cup {Len(t) + 1}
           n == Len(t)
<1>1. n \in Nat /\ DOMAIN t = 1..n /\ a \in 1..n /\ a < n
  OBVIOUS
<1>2. \A i \in I : i \in Nat /\ i > a /\ i <= n + 1 /\ (i = n + 1 \/ ~IsSpace(t[i]))
  BY DEF Inked
<1>3. I \in SUBSET Nat /\ I # {} /\ n + 1 \in I
  BY <1>1 DEF Inked
<1>4. SpaceEnd(t, a) = Min(I) - 1
  BY DEF SpaceEnd
<1>5. \A b \in 1..n : b > a /\ t[b] = Dot => b \in I
  BY DEF Inked, IsSpace, Dot, Sp, NL, Tab
<1> HIDE DEF I, n
<1>6. Min(I) \in I /\ \A i \in I : Min(I) <= i
  BY <1>3, MinIsLeast
<1> DEFINE m == Min(I)
<1>12. m \in I /\ \A i \in I : m <= i
  BY <1>6
<1> HIDE DEF m
<1>8. m \in Nat /\ m > a /\ m <= n + 1 /\ (m = n + 1 \/ ~IsSpace(t[m]))
  BY <1>2, <1>12
<1>7. m # a + 1
  BY <1>1, <1>8
<1>9. \A b \in 1..n : b > a /\ t[b] = Dot => m <= b
  BY <1>5, <1>12
<1>10. SpaceEnd(t, a) = m - 1
  BY <1>4 DEF m
<1>11. m - 1 \in Nat /\ a < m - 1 /\ m - 1 <= n /\ \A b \in 1..n : b > a /\ t[b] = Dot => m - 1 <= b
  BY <1>1, <1>7, <1>8, <1>9
<1> QED BY <1>10, <1>11 DEF n

\* The sentences of a text fit it.
LEMMA SentencesFit ==
    ASSUME NEW t \in Seq(Int)
    PROVE  /\ Sentences(t) \in Seq(Seq(Int)) /\ Bulk(Sentences(t)) <= Len(t) + 1
           /\ \A k \in 1..Len(Sentences(t)) : Len(Sentences(t)[k]) <= Len(t)
<1> DEFINE n == Len(t)
           I == {a \in DOMAIN t : a < Len(t) /\ t[a] = Dot /\ IsSpace(t[a + 1])}
           o == Ordered(I, n)
           cuts == [k \in DOMAIN o |-> <<o[k], SpaceEnd(t, o[k])>>]
<1>1. n \in Nat /\ I \in SUBSET (1..n)
  OBVIOUS
<1>2. Sentences(t) = Pieces(t, cuts)
  BY Zenon DEF Sentences, SentenceCuts, SpaceEnd
<1>3. \A a \in I : /\ a \in 1..n /\ t[a] = Dot /\ SpaceEnd(t, a) \in Nat
                   /\ a < SpaceEnd(t, a) /\ SpaceEnd(t, a) <= n
                   /\ \A b \in 1..n : b > a /\ t[b] = Dot => SpaceEnd(t, a) <= b
  <2> TAKE a \in I
  <2>1. a \in 1..Len(t) /\ a < Len(t) /\ IsSpace(t[a + 1]) /\ t[a] = Dot
    BY <1>1
  <2> HIDE DEF I
  <2> QED BY <2>1, SpaceEndIs
<1> HIDE DEF n, I
<1>4. /\ Len(o) \in Nat /\ DOMAIN o = 1..Len(o)
      /\ \A k \in 1..Len(o) : o[k] \in I
      /\ \A k, l \in 1..Len(o) : k < l => o[k] < o[l]
  BY <1>1, OrderedIs
<1> HIDE DEF o
<1>5. DOMAIN cuts = 1..Len(o)
      /\ \A k \in 1..Len(o) : cuts[k][1] = o[k] /\ cuts[k][2] = SpaceEnd(t, o[k])
  BY <1>4
<1>6. Len(cuts) = Len(o)
  BY <1>4, <1>5
<1> HIDE DEF cuts
<1>7. WellCut(cuts, n)
  <2>1. ASSUME NEW k \in 1..Len(o)
        PROVE  /\ cuts[k][1] \in Nat /\ cuts[k][2] \in Nat
               /\ cuts[k][1] < cuts[k][2] /\ cuts[k][2] <= n
    <3>1. o[k] \in I
      BY <1>4
    <3>2. o[k] \in 1..n /\ SpaceEnd(t, o[k]) \in Nat /\ o[k] < SpaceEnd(t, o[k]) /\ SpaceEnd(t, o[k]) <= n
      BY <1>3, <3>1
    <3> QED BY <1>1, <1>5, <3>2
  <2>2. ASSUME NEW k \in 1..Len(o), NEW l \in 1..Len(o), k < l PROVE cuts[k][2] <= cuts[l][1]
    <3>1. o[k] \in I /\ o[l] \in I /\ o[k] < o[l]
      BY <1>4, <2>2
    <3>2. o[l] \in 1..n /\ t[o[l]] = Dot /\ o[k] \in 1..n
      BY <1>3, <3>1
    <3>3. o[l] > o[k]
      BY <3>1, <3>2
    <3>4. SpaceEnd(t, o[k]) <= o[l]
      BY <1>3, <3>1, <3>2, <3>3
    <3> QED BY <1>5, <3>4
  <2> QED BY <1>4, <1>5, <1>6, <2>1, <2>2 DEF WellCut
<1> QED BY <1>2, <1>7, PiecesFit DEF n

\* Texts no longer than those at the places in I weigh no more than they do.
LEMMA PickedFits ==
    ASSUME NEW ts \in Seq(Seq(Int)), NEW I \in SUBSET (1..Len(ts)), NEW u \in Seq(Seq(Int)),
           Len(u) = Len(Ordered(I, Len(ts))),
           \A k \in 1..Len(u) : Len(u[k]) <= Len(ts[Ordered(I, Len(ts))[k]])
    PROVE  Bulk(u) \in Nat /\ Weight(Lengths(ts), I) \in Nat /\ Bulk(u) <= Weight(Lengths(ts), I)
<1> DEFINE n == Len(ts)
           o == Ordered(I, n)
           m == Len(u)
           v == Lengths(u)
           w == Lengths(ts)
<1>1. n \in Nat /\ w \in [1..n -> Nat] /\ \A i \in 1..n : w[i] = Len(ts[i]) + 1 /\ Len(ts[i]) \in Nat
  BY LengthsType
<1>2. /\ m \in Nat /\ v \in [1..m -> Nat] /\ Bulk(u) \in Nat
      /\ \A i \in 1..m : v[i] = Len(u[i]) + 1 /\ Len(u[i]) \in Nat
  BY LengthsType
<1>3. Bulk(u) = Weight(v, 1..m)
  BY DEF Bulk
<1>4. m = Len(o) /\ \A k \in 1..m : Len(u[k]) <= Len(ts[o[k]])
  OBVIOUS
<1> HIDE DEF v, w, m, o
<1>5. /\ DOMAIN o = 1..Len(o) /\ o \in Seq(I)
      /\ \A k \in 1..Len(o) : o[k] \in I
      /\ \A k, l \in 1..Len(o) : k < l => o[k] < o[l]
  BY <1>1, OrderedIs DEF o
<1>6. I \in SUBSET (1..n) /\ \A i \in I : i \in 1..n /\ i \in Nat
  OBVIOUS
<1> HIDE DEF n
<1>7. o \in [1..m -> I]
  BY <1>2, <1>4, <1>5
<1>8. ASSUME NEW i \in 1..m, NEW j \in 1..m, o[i] = o[j] PROVE i = j
  <2>1. o[i] \in Nat /\ o[j] \in Nat
    BY <1>4, <1>5, <1>6
  <2>2. (i < j => o[i] < o[j]) /\ (j < i => o[j] < o[i])
    BY <1>4, <1>5
  <2> QED BY <1>8, <2>1, <2>2
<1>9. ASSUME NEW i \in 1..m PROVE v[i] <= w[o[i]]
  <2>1. o[i] \in 1..n
    BY <1>4, <1>5, <1>6
  <2>2. /\ v[i] = Len(u[i]) + 1 /\ Len(u[i]) \in Nat
        /\ w[o[i]] = Len(ts[o[i]]) + 1 /\ Len(ts[o[i]]) \in Nat
        /\ Len(u[i]) <= Len(ts[o[i]])
    BY <1>1, <1>2, <1>4, <2>1
  <2> QED BY <2>2
<1>10. Heavier(o, v, 1..m, w, I)
  BY <1>7, <1>8, <1>9 DEF Heavier
<1>11. 1..m \in SUBSET (1..m)
  OBVIOUS
<1>12. Weight(v, 1..m) <= Weight(w, I)
  BY <1>1, <1>2, <1>6, <1>10, <1>11, WeightByInjection
<1>13. Weight(w, I) \in Nat
  BY <1>1, <1>6, PairsFinite
<1> QED BY <1>2, <1>3, <1>12, <1>13 DEF w

\* The weights of some places and of the others add up.
LEMMA WeightParts ==
    ASSUME NEW n \in Nat, NEW w \in [1..n -> Nat], NEW I \in SUBSET (1..n)
    PROVE  /\ Weight(w, I) \in Nat /\ Weight(w, (1..n) \ I) \in Nat
           /\ Weight(w, 1..n) = Weight(w, I) + Weight(w, (1..n) \ I)
<1> DEFINE J == (1..n) \ I
<1>1. J \in SUBSET (1..n) /\ I \cap J = {}
  OBVIOUS
<1>2. I \cup J = 1..n
  OBVIOUS
<1> HIDE DEF J
<1>3. Weight(w, I \cup J) = Weight(w, I) + Weight(w, J)
  BY <1>1, WeightDisjoint
<1>4. Weight(w, I) \in Nat /\ Weight(w, J) \in Nat
  BY <1>1, PairsFinite
<1> QED BY <1>2, <1>3, <1>4 DEF J

\* The texts kept are not longer than the weight of their positions.
LEMMA KeptFits ==
    ASSUME NEW ts \in Seq(Seq(Int)), NEW I \in SUBSET (1..Len(ts))
    PROVE  /\ Kept(ts, I) \in Seq(Seq(Int)) /\ Bulk(Kept(ts, I)) \in Nat
           /\ Bulk(Kept(ts, I)) <= Weight(Lengths(ts), I)
<1> DEFINE u == Kept(ts, I)
           A == Seq(Int)
<1>1. /\ u \in Seq(A) /\ Len(u) = Len(Ordered(I, Len(ts)))
      /\ \A k \in 1..Len(u) : u[k] = ts[Ordered(I, Len(ts))[k]]
      /\ \A k \in 1..Len(u) : Ordered(I, Len(ts))[k] \in I
  <2> HIDE DEF A
  <2>1. ts \in Seq(A)
    BY DEF A
  <2> QED BY <2>1, KeptIs
<1> HIDE DEF u
<1>2. \A k \in 1..Len(u) : Len(u[k]) <= Len(ts[Ordered(I, Len(ts))[k]])
  <2>1. \A i \in 1..Len(ts) : Len(ts[i]) \in Nat
    BY LengthsType
  <2>2. \A k \in 1..Len(u) : Ordered(I, Len(ts))[k] \in 1..Len(ts)
    BY <1>1
  <2>3. \A k \in 1..Len(u) : Len(u[k]) = Len(ts[Ordered(I, Len(ts))[k]])
    BY <1>1
  <2> QED BY <2>1, <2>2, <2>3
<1>3. Bulk(u) \in Nat /\ Bulk(u) <= Weight(Lengths(ts), I)
  BY <1>1, <1>2, PickedFits
<1> QED BY <1>1, <1>3 DEF u


------------------------------------------------------------------------------
\* Compression.

\* A text with the white space at its ends taken off is no longer.
LEMMA StripShortens ==
    ASSUME NEW t \in Seq(Int)
    PROVE  /\ Strip(t) \in Seq(Int) /\ Len(Strip(t)) \in Nat /\ Len(Strip(t)) <= Len(t)
           /\ t = <<>> => Strip(t) = <<>>
<1> DEFINE I == Inked(t)
<1>1. Len(t) \in Nat /\ I \in SUBSET (1..Len(t)) /\ I \in SUBSET (0..Len(t)) /\ (t = <<>> => I = {})
  BY DEF Inked
<1>2. CASE I = {}
  <2>1. Strip(t) = <<>>
    BY <1>2 DEF Strip
  <2>2. <<>> \in Seq(Int) /\ Len(<<>>) = 0
    OBVIOUS
  <2> HIDE DEF I
  <2> QED BY <1>1, <2>1, <2>2
<1>3. CASE I # {}
  <2> DEFINE lo == Min(I)
             hi == Max(I)
  <2>1. Strip(t) = SubSeq(t, lo, hi)
    BY <1>3 DEF Strip
  <2> HIDE DEF I
  <2>2. lo \in I /\ hi \in I
    <3>1. I \in SUBSET Nat
      BY <1>1
    <3> QED BY <1>1, <1>3, <3>1, MinIsLeast, MaxIsGreatest
  <2>6. \A i \in I : i \in Nat \ {0} /\ i <= Len(t)
    BY <1>1
  <2>3. lo \in Nat \ {0} /\ hi \in Nat /\ hi <= Len(t)
    BY <2>2, <2>6
  <2> HIDE DEF lo, hi
  <2>4. SubSeq(t, lo, hi) \in Seq(Int) /\ Len(SubSeq(t, lo, hi)) = IF lo <= hi THEN hi - lo + 1 ELSE 0
    BY <2>3, SubSeqElements
  <2>5. (IF lo <= hi THEN hi - lo + 1 ELSE 0) \in Nat /\ (IF lo <= hi THEN hi - lo + 1 ELSE 0) <= Len(t)
    BY <1>1, <2>3
  <2> QED BY <1>1, <1>3, <2>1, <2>4, <2>5
<1> QED BY <1>2, <1>3

\* The sentences taken one by one.
TakeSentence(acc, i, sentences, maxTokens) ==
    IF acc.used + EstimateTokens(Strip(sentences[i])) <= maxTokens
    THEN [used |-> acc.used + EstimateTokens(Strip(sentences[i])), in |-> acc.in \cup {i}] ELSE acc
TakeSteps(f, order, sentences, used, maxTokens) ==
    f = [d \in SUBSET DOMAIN order |->
            IF d = {} THEN [used |-> used, in |-> {}]
            ELSE TakeSentence(f[d \ {Max(d)}], order[Max(d)], sentences, maxTokens)]
ByOverlap(sentences, query) ==
    LET places == [i \in DOMAIN sentences |-> i]
        overlaps == [i \in DOMAIN places |->
                        Cardinality(Words(sentences[places[i]]) \cap Words(query))]
    IN  Placed(places, Ranks(overlaps))

\* The sentences kept, as the value of the steps that take them in order of overlap.
LEMMA KeptSentencesIs ==
    ASSUME NEW sentences, NEW query, NEW used, NEW maxTokens
    PROVE  LET order == ByOverlap(sentences, query)
           IN  KeptSentences(sentences, query, used, maxTokens)
                  = (CHOOSE f : TakeSteps(f, order, sentences, used, maxTokens))[DOMAIN order].in
BY Zenon DEF KeptSentences, SortedBy, ByOverlap, Placed, TakeSteps, TakeSentence,
             FoldLeft, MapThenFoldSet

\* The places by overlap are places.
LEMMA ByOverlapIs ==
    ASSUME NEW sentences \in Seq(Seq(Int)), NEW query \in Seq(Int)
    PROVE  /\ ByOverlap(sentences, query) \in Seq(1..Len(sentences))
           /\ Len(ByOverlap(sentences, query)) = Len(sentences)
<1> DEFINE n == Len(sentences)
           places == [i \in DOMAIN sentences |-> i]
           overlaps == [i \in DOMAIN places |->
                           Cardinality(Words(sentences[places[i]]) \cap Words(query))]
<1>1. n \in Nat /\ DOMAIN sentences = 1..n /\ \A i \in 1..n : sentences[i] \in Seq(Int)
  OBVIOUS
<1>2. ByOverlap(sentences, query) = Placed(places, Ranks(overlaps))
  BY Zenon DEF ByOverlap
<1>3. places \in [1..n -> 1..n] /\ \A i \in 1..n : places[i] = i
  BY <1>1
<1>4. places \in Seq(1..n) /\ Len(places) = n /\ DOMAIN places = 1..n
  BY <1>1, <1>3
<1> HIDE DEF places, n
<1>5. overlaps \in [1..n -> Int]
  <2>1. ASSUME NEW i \in 1..n
        PROVE  Cardinality(Words(sentences[places[i]]) \cap Words(query)) \in Int
    <3>1. IsFiniteSet(Words(sentences[places[i]]))
      BY <1>1, <1>3, WordsFinite
    <3>2. IsFiniteSet(Words(sentences[places[i]]) \cap Words(query))
      BY <3>1, FS_Subset
    <3> QED BY <3>2, FS_CardinalityType
  <2> QED BY <1>4, <2>1
<1> HIDE DEF overlaps
<1>6. Placed(places, Ranks(overlaps)) \in Seq(1..n) /\ Len(Placed(places, Ranks(overlaps))) = n
  BY <1>4, <1>5, PlacedIs
<1> QED BY <1>2, <1>6 DEF n

\* The steps that take sentences within the budget have a value.
LEMMA TakesExist ==
    ASSUME NEW sentences \in Seq(Seq(Int)), NEW order \in Seq(1..Len(sentences)),
           NEW used \in Nat, NEW maxTokens
    PROVE  \E f : TakeSteps(f, order, sentences, used, maxTokens)
<1> DEFINE n == Len(order)
           I == 1..Len(sentences)
           V == [used : Nat, in : SUBSET I]
           base == [used |-> used, in |-> {}]
           step == [p \in (1..n) \X V |-> TakeSentence(p[2], order[p[1]], sentences, maxTokens)]
<1>9. order \in Seq(I)
  OBVIOUS
<1>1. n \in Nat /\ DOMAIN order = 1..n /\ \A k \in 1..n : order[k] \in I
  <2> HIDE DEF I
  <2> QED BY <1>9
<1>2. step \in [(1..n) \X V -> V]
  <2>1. ASSUME NEW k \in 1..n, NEW h \in V
        PROVE  TakeSentence(h, order[k], sentences, maxTokens) \in V
    <3>1. order[k] \in I
      BY <1>1
    <3>2. EstimateTokens(Strip(sentences[order[k]])) \in Nat
      <4>1. sentences[order[k]] \in Seq(Int)
        BY <3>1
      <4> QED BY <4>1, StripShortens, EstimateType
    <3> HIDE DEF I, n
    <3> QED BY <3>1, <3>2 DEF TakeSentence
  <2> HIDE DEF n, V
  <2> QED BY <2>1
<1>3. base \in V
  OBVIOUS
<1>4. PICK f \in [SUBSET (1..n) -> V] : FoldSteps(f, base, step, n)
  <2> HIDE DEF V, step, n, base
  <2> QED BY <1>1, <1>2, <1>3, FoldExists
<1> HIDE DEF n, V, I
<1>5. ASSUME NEW d \in SUBSET (1..n), d # {}
      PROVE  f[d] = TakeSentence(f[d \ {Max(d)}], order[Max(d)], sentences, maxTokens)
  <2> DEFINE m == Max(d)
             e == d \ {m}
  <2>1. m \in 1..n /\ e \in SUBSET (1..n)
    BY <1>1, <1>5, MaxUpTo
  <2>2. f[d] = step[<<m, f[e]>>]
    BY <1>4, <1>5 DEF FoldSteps
  <2>3. f[e] \in V
    BY <1>4, <2>1
  <2> HIDE DEF m, e
  <2>4. step[<<m, f[e]>>] = TakeSentence(f[e], order[m], sentences, maxTokens)
    BY <2>1, <2>3
  <2> QED BY <2>2, <2>4 DEF m, e
<1>6. f[{}] = base
  BY <1>4 DEF FoldSteps
<1> DEFINE g == [d \in SUBSET (1..n) |->
                   IF d = {} THEN base
                   ELSE TakeSentence(f[d \ {Max(d)}], order[Max(d)], sentences, maxTokens)]
<1> HIDE DEF base
<1>7. f = g
  <2>1. ASSUME NEW d \in SUBSET (1..n) PROVE f[d] = g[d]
    <3>1. g[d] = IF d = {} THEN base
                 ELSE TakeSentence(f[d \ {Max(d)}], order[Max(d)], sentences, maxTokens)
      OBVIOUS
    <3> HIDE DEF g
    <3> QED BY <1>5, <1>6, <3>1
  <2>2. f = [d \in SUBSET (1..n) |-> f[d]] /\ g = [d \in SUBSET (1..n) |-> g[d]]
    OBVIOUS
  <2> HIDE DEF g
  <2> QED BY <2>1, <2>2, Zenon
<1>8. TakeSteps(f, order, sentences, used, maxTokens)
  BY <1>1, <1>7, Zenon DEF TakeSteps, base
<1> QED BY <1>8

\* The sentences kept are some of the sentences.
LEMMA KeptSentencesAre ==
    ASSUME NEW sentences \in Seq(Seq(Int)), NEW query \in Seq(Int), NEW used \in Nat, NEW maxTokens
    PROVE  KeptSentences(sentences, query, used, maxTokens) \in SUBSET (1..Len(sentences))
<1> DEFINE order == ByOverlap(sentences, query)
           n == Len(order)
           I == 1..Len(sentences)
           g == CHOOSE f : TakeSteps(f, order, sentences, used, maxTokens)
           P == {k \in Nat : k <= n => g[1..k].in \in SUBSET I}
<1>1. order \in Seq(I)
  BY ByOverlapIs
<1>2. KeptSentences(sentences, query, used, maxTokens) = g[DOMAIN order].in
  BY KeptSentencesIs
<1> HIDE DEF order
<1>3. n \in Nat /\ DOMAIN order = 1..n /\ \A k \in 1..n : order[k] \in I
  <2> HIDE DEF I
  <2> QED BY <1>1
<1>4. TakeSteps(g, order, sentences, used, maxTokens)
  <2>1. \E f : TakeSteps(f, order, sentences, used, maxTokens)
    BY <1>1, TakesExist
  <2> QED BY <2>1, Zenon
<1> HIDE DEF g
<1>5. \A d \in SUBSET DOMAIN order :
        g[d] = IF d = {} THEN [used |-> used, in |-> {}]
               ELSE TakeSentence(g[d \ {Max(d)}], order[Max(d)], sentences, maxTokens)
  BY <1>4, Zenon DEF TakeSteps
<1> HIDE DEF n, I
<1>6. 0 \in P
  <2>1. 1..0 = {} /\ {} \in SUBSET DOMAIN order
    OBVIOUS
  <2>2. g[1..0] = [used |-> used, in |-> {}]
    BY <1>5, <2>1
  <2> QED BY <2>2
<1>7. ASSUME NEW k \in P PROVE k + 1 \in P
  <2>1. SUFFICES ASSUME k + 1 <= n PROVE g[1..(k + 1)].in \in SUBSET I
    OBVIOUS
  <2>2. k \in Nat /\ k < n
    BY <1>3, <2>1
  <2> DEFINE h == g[1..k]
             i == order[k + 1]
  <2>3. h.in \in SUBSET I
    BY <1>3, <2>2
  <2>4. g[1..(k + 1)] = TakeSentence(h, i, sentences, maxTokens)
    <3>1. /\ 1..(k + 1) \in SUBSET (1..n) /\ 1..(k + 1) # {}
          /\ Max(1..(k + 1)) = k + 1 /\ (1..(k + 1)) \ {k + 1} = 1..k
      BY <1>3, <2>2, PrefixIs
    <3> HIDE DEF P
    <3> QED BY <1>3, <1>5, <3>1
  <2>5. i \in I
    BY <1>3, <2>2
  <2> HIDE DEF P, h, i
  <2>6. TakeSentence(h, i, sentences, maxTokens).in \in SUBSET I
    BY <2>3, <2>5 DEF TakeSentence
  <2> QED BY <2>4, <2>6
<1>8. g[1..n].in \in SUBSET I
  <2>1. P \in SUBSET Nat
    OBVIOUS
  <2> HIDE DEF P
  <2>2. n \in P
    BY <1>3, <1>6, <1>7, <2>1, NaturalsBySteps
  <2> QED BY <1>3, <2>2 DEF P
<1> QED BY <1>2, <1>3, <1>8 DEF I


\* What extraction puts together.
Bodies(order, sentences) == [k \in DOMAIN order |-> Strip(sentences[order[k]])]
Under(headers, body) == Strip(IF headers = <<>> THEN body ELSE headers \o <<NL>> \o body)
Extracted(t, headers, sentences, taken, maxTokens) ==
    IF taken = {} THEN Slice(t, 0, Min({CharsForTokens(maxTokens), Len(t)}))
    ELSE Under(headers, Join(Bodies(Ordered(taken, Len(sentences)), sentences), <<Sp>>))

\* Extraction: the headers alone when nothing else is there, the kept sentences otherwise.
LEMMA ExtractIs ==
    ASSUME NEW t, NEW headers, NEW sentences, NEW query, NEW maxTokens
    PROVE  Extract(t, headers, sentences, query, maxTokens) =
              IF sentences = <<>> /\ EstimateTokens(headers) <= maxTokens THEN headers
              ELSE Extracted(t, headers, sentences,
                             KeptSentences(sentences, query, EstimateTokens(headers), maxTokens),
                             maxTokens)
BY Zenon DEF Extract, Extracted, Under, Bodies

\* The headers and the other lines of a text.
HeaderLines(t) == {i \in DOMAIN Lines(t) : IsHeader(Strip(Lines(t)[i]))}
PlainLines(t) == {i \in DOMAIN Lines(t) : ~IsHeader(Strip(Lines(t)[i]))}
HeadersOf(t) == Join(Kept(Lines(t), HeaderLines(t)), <<NL>>)
BodyOf(t) == Join(Kept(Lines(t), PlainLines(t)), <<NL>>)

\* Compression leaves a text that fits and extracts from one that does not.
LEMMA CompressIs ==
    ASSUME NEW t, NEW query, NEW maxTokens
    PROVE  Compress(t, query, maxTokens) =
              IF EstimateTokens(t) <= maxTokens THEN t
              ELSE Extract(t, HeadersOf(t), NonBlank(Sentences(BodyOf(t))), query, maxTokens)
BY Zenon DEF Compress, HeadersOf, BodyOf, HeaderLines, PlainLines, Where

\* A cut of the text is no longer than it.
LEMMA SliceShortens ==
    ASSUME NEW t \in Seq(Int), NEW m \in Nat
    PROVE  LET cut == Slice(t, 0, Min({CharsForTokens(m), Len(t)}))
           IN  cut \in Seq(Int) /\ Len(cut) <= Len(t)
<1> DEFINE I == {CharsForTokens(m), Len(t)}
           hi == Min(I)
<1>1. CharsForTokens(m) \in Nat /\ Len(t) \in Nat
  <2>1. m * CharsPerToken \in Nat
    BY CharsPerTokenPositive
  <2> QED BY <2>1 DEF CharsForTokens
<1>2. I \in SUBSET Nat /\ I # {} /\ Len(t) \in I
  BY <1>1
<1> HIDE DEF I
<1>3. hi \in Nat /\ hi <= Len(t)
  BY <1>2, MinIsLeast
<1> HIDE DEF hi
<1>4. Slice(t, 0, hi) = SubSeq(t, 1, hi)
  BY DEF Slice
<1>5. SubSeq(t, 1, hi) \in Seq(Int) /\ Len(SubSeq(t, 1, hi)) = IF 1 <= hi THEN hi - 1 + 1 ELSE 0
  BY <1>3, SubSeqElements
<1>6. Len(SubSeq(t, 1, hi)) <= Len(t)
  BY <1>1, <1>3, <1>5
<1> QED BY <1>4, <1>5, <1>6 DEF hi, I

\* The sentences taken, stripped and joined, are no longer than all of them.
LEMMA BodyFits ==
    ASSUME NEW sentences \in Seq(Seq(Int)), NEW taken \in SUBSET (1..Len(sentences)), taken # {}
    PROVE  LET body == Join(Bodies(Ordered(taken, Len(sentences)), sentences), <<Sp>>)
           IN  body \in Seq(Int) /\ Len(body) \in Nat /\ Len(body) + 1 <= Bulk(sentences)
<1> DEFINE n == Len(sentences)
           order == Ordered(taken, n)
           u == Bodies(order, sentences)
           body == Join(u, <<Sp>>)
<1>1. n \in Nat /\ \A i \in 1..n : sentences[i] \in Seq(Int)
  OBVIOUS
<1>2. /\ Len(order) \in Nat /\ DOMAIN order = 1..Len(order) /\ order \in Seq(taken)
      /\ \A k \in 1..Len(order) : order[k] \in taken
  BY <1>1, OrderedIs
<1>3. Len(order) # 0
  <2>1. Enumerates(order, taken, n)
    BY <1>1, OrderedEnumerates
  <2>2. PICK i \in taken : TRUE
    OBVIOUS
  <2>3. i <= n
    BY <1>1, <2>2
  <2>4. \E k \in 1..Len(order) : order[k] = i
    BY <2>1, <2>3 DEF Enumerates
  <2> QED BY <2>4
<1> HIDE DEF order
<1>4. \A k \in 1..Len(order) : /\ order[k] \in 1..n /\ Strip(sentences[order[k]]) \in Seq(Int)
                               /\ Len(Strip(sentences[order[k]])) <= Len(sentences[order[k]])
  BY <1>1, <1>2, StripShortens
<1>5. u \in [1..Len(order) -> Seq(Int)] /\ \A k \in 1..Len(order) : u[k] = Strip(sentences[order[k]])
  BY <1>2, <1>4 DEF Bodies
<1>6. u \in Seq(Seq(Int)) /\ Len(u) = Len(order)
  BY <1>2, <1>5
<1> HIDE DEF u
<1>7. u # <<>>
  BY <1>3, <1>6
<1>8. \A k \in 1..Len(u) : Len(u[k]) <= Len(sentences[order[k]])
  BY <1>4, <1>5, <1>6
<1>9. /\ Bulk(u) \in Nat /\ Weight(Lengths(sentences), taken) \in Nat
      /\ Bulk(u) <= Weight(Lengths(sentences), taken)
  <2> HIDE DEF body
  <2> QED BY <1>6, <1>8, PickedFits DEF order, n
<1>10. /\ Weight(Lengths(sentences), (1..Len(sentences)) \ taken) \in Nat
       /\ Bulk(sentences) = Weight(Lengths(sentences), taken)
                              + Weight(Lengths(sentences), (1..Len(sentences)) \ taken)
  <2>1. Bulk(sentences) = Weight(Lengths(sentences), 1..Len(sentences))
    BY DEF Bulk
  <2>2. Lengths(sentences) \in [1..Len(sentences) -> Nat] /\ Len(sentences) \in Nat
    BY LengthsType
  <2> QED BY <2>1, <2>2, WeightParts
<1>11. body \in Seq(Int) /\ Len(body) + 1 = Bulk(u)
  <2>1. Sp \in Int
    BY DEF Sp
  <2> QED BY <1>6, <1>7, <2>1, JoinFits
<1> HIDE DEF body
<1>12. Len(body) \in Nat
  BY <1>11
<1>13. Len(body) + 1 <= Bulk(sentences)
  BY <1>9, <1>10, <1>11, <1>12
<1> QED BY <1>11, <1>12, <1>13 DEF body, u, order, n

\* Headers and sentences that fit the text make a text that is no longer.
LEMMA UnderFits ==
    ASSUME NEW headers \in Seq(Int), NEW body \in Seq(Int), NEW n \in Nat,
           Len(headers) + (IF headers = <<>> THEN 0 ELSE 1) + Len(body) <= n
    PROVE  Under(headers, body) \in Seq(Int) /\ Len(Under(headers, body)) <= n
<1> DEFINE u == IF headers = <<>> THEN body ELSE headers \o <<NL>> \o body
<1>1. u \in Seq(Int) /\ Len(u) = Len(headers) + (IF headers = <<>> THEN 0 ELSE 1) + Len(body)
  <2>1. CASE headers = <<>>
    <3>1. Len(headers) = 0 /\ Len(body) \in Nat /\ u = body
      BY <2>1
    <3> HIDE DEF u
    <3> QED BY <2>1, <3>1
  <2>2. CASE headers # <<>>
    <3>1. NL \in Int
      BY DEF NL
    <3>2. headers \o <<NL>> \o body \in Seq(Int)
          /\ Len(headers \o <<NL>> \o body) = Len(headers) + 1 + Len(body)
      BY <3>1, LengthOfThree
    <3> QED BY <2>2, <3>2
  <2> QED BY <2>1, <2>2
<1>2. Under(headers, body) = Strip(u)
  BY DEF Under
<1> HIDE DEF u
<1>3. Strip(u) \in Seq(Int) /\ Len(Strip(u)) \in Nat /\ Len(Strip(u)) <= Len(u) /\ Len(u) \in Nat
  BY <1>1, StripShortens
<1>4. Len(u) <= n
  BY <1>1
<1>5. Len(Strip(u)) <= n
  BY <1>3, <1>4
<1> QED BY <1>2, <1>3, <1>5

\* Arithmetic of a joined text: without its last blank it is one character shorter.
LEMMA FitsWithout ==
    ASSUME NEW a \in Nat, NEW b \in Nat, NEW c \in Nat, NEW d \in Nat, NEW n \in Nat,
           a + b + d <= n + 1, c + 1 <= d
    PROVE  a + b + c <= n
OBVIOUS

\* Extraction gives no more tokens than the text has.
LEMMA ExtractShortens ==
    ASSUME NEW t \in Seq(Int), NEW headers \in Seq(Int), NEW sentences \in Seq(Seq(Int)),
           NEW query \in Seq(Int), NEW m \in Nat, ~(EstimateTokens(t) <= m),
           sentences # <<>> =>
               Len(headers) + (IF headers = <<>> THEN 0 ELSE 1) + Bulk(sentences) <= Len(t) + 1
    PROVE  /\ Extract(t, headers, sentences, query, m) \in Seq(Int)
           /\ EstimateTokens(Extract(t, headers, sentences, query, m)) <= EstimateTokens(t)
<1> DEFINE e == Extract(t, headers, sentences, query, m)
           taken == KeptSentences(sentences, query, EstimateTokens(headers), m)
<1>1. EstimateTokens(t) \in Nat /\ EstimateTokens(headers) \in Nat /\ EstimateTokens(t) > m
  BY EstimateType
<1>2. e = IF sentences = <<>> /\ EstimateTokens(headers) <= m THEN headers
          ELSE Extracted(t, headers, sentences, taken, m)
  BY ExtractIs
<1>3. taken \in SUBSET (1..Len(sentences))
  BY <1>1, KeptSentencesAre
<1> HIDE DEF e, taken
<1>4. CASE sentences = <<>> /\ EstimateTokens(headers) <= m
  <2>1. e = headers
    BY <1>2, <1>4
  <2> QED BY <1>1, <1>4, <2>1 DEF e
<1>5. CASE ~(sentences = <<>> /\ EstimateTokens(headers) <= m)
  <2>1. e = Extracted(t, headers, sentences, taken, m)
    BY <1>2, <1>5
  <2>2. CASE taken = {}
    <3>1. e = Slice(t, 0, Min({CharsForTokens(m), Len(t)}))
      BY <2>1, <2>2 DEF Extracted
    <3>2. e \in Seq(Int) /\ Len(e) <= Len(t)
      BY <3>1, SliceShortens
    <3> QED BY <3>2, EstimateGrows DEF e
  <2>3. CASE taken # {}
    <3> DEFINE body == Join(Bodies(Ordered(taken, Len(sentences)), sentences), <<Sp>>)
               one == IF headers = <<>> THEN 0 ELSE 1
    <3>1. e = Under(headers, body)
      BY <2>1, <2>3 DEF Extracted
    <3>2. body \in Seq(Int) /\ Len(body) \in Nat /\ Len(body) + 1 <= Bulk(sentences)
      BY <1>3, <2>3, BodyFits
    <3>3. sentences # <<>>
      <4>1. SUFFICES ASSUME sentences = <<>> PROVE FALSE
        OBVIOUS
      <4>2. Len(sentences) = 0 /\ 1..0 = {}
        BY <4>1
      <4>3. taken \in SUBSET (1..0)
        BY <1>3, <4>2
      <4> QED BY <2>3, <4>2, <4>3
    <3>4. Bulk(sentences) \in Nat
      BY LengthsType
    <3> HIDE DEF body
    <3>5. Len(headers) + one + Len(body) <= Len(t)
      <4>1. Len(headers) + one + Bulk(sentences) <= Len(t) + 1
        BY <3>3
      <4>2. Len(headers) \in Nat /\ one \in Nat /\ Len(t) \in Nat
        OBVIOUS
      <4> HIDE DEF one
      <4> QED BY <3>2, <3>4, <4>1, <4>2, FitsWithout
    <3>6. e \in Seq(Int) /\ Len(e) <= Len(t)
      <4>1. Len(t) \in Nat
        OBVIOUS
      <4> QED BY <3>1, <3>2, <3>5, <4>1, UnderFits
    <3> QED BY <3>6, EstimateGrows DEF e
  <2> QED BY <2>2, <2>3
<1> QED BY <1>4, <1>5

\* No sentences in nothing.
LEMMA NothingToSay ==
    ASSUME NEW b \in Seq(Int), b = <<>>
    PROVE  NonBlank(Sentences(b)) = <<>>
<1> DEFINE s == Sentences(b)
           A == Seq(Int)
           I == {i \in DOMAIN s : Strip(s[i]) # <<>>}
<1>9. s \in Seq(Seq(Int)) /\ \A k \in 1..Len(s) : Len(s[k]) <= Len(b)
  BY SentencesFit
<1>1. /\ s \in Seq(A) /\ DOMAIN s = 1..Len(s) /\ \A i \in 1..Len(s) : s[i] \in Seq(Int)
      /\ \A k \in 1..Len(s) : Len(s[k]) <= Len(b)
  <2> HIDE DEF s
  <2> QED BY <1>9, LengthsType
<1> HIDE DEF s
<1>2. Len(b) = 0
  OBVIOUS
<1>3. \A i \in 1..Len(s) : s[i] = <<>>
  BY <1>1, <1>2
<1>4. \A i \in 1..Len(s) : Strip(s[i]) = <<>>
  BY <1>1, <1>3, StripShortens
<1>5. I = {} /\ I \in SUBSET (1..Len(s))
  BY <1>1, <1>4
<1>6. NonBlank(s) = Kept(s, I)
  BY Zenon DEF NonBlank, Where
<1> HIDE DEF I, A
<1>7. Len(Kept(s, I)) = Cardinality(I) /\ Kept(s, I) \in Seq(A)
  BY <1>1, <1>5, KeptCount, KeptIs
<1>8. Kept(s, I) = <<>>
  BY <1>5, <1>7, FS_EmptySet
<1> QED BY <1>6, <1>8 DEF s

\* The sentences that are not blank fit the text they are from.
LEMMA NonBlankFit ==
    ASSUME NEW b \in Seq(Int)
    PROVE  /\ NonBlank(Sentences(b)) \in Seq(Seq(Int)) /\ Bulk(NonBlank(Sentences(b))) \in Nat
           /\ Bulk(NonBlank(Sentences(b))) <= Len(b) + 1
<1> DEFINE s == Sentences(b)
           I == {i \in DOMAIN s : Strip(s[i]) # <<>>}
<1>1. s \in Seq(Seq(Int)) /\ Bulk(s) <= Len(b) + 1
  BY SentencesFit
<1>2. NonBlank(s) = Kept(s, I)
  BY Zenon DEF NonBlank, Where
<1> HIDE DEF s
<1>3. I \in SUBSET (1..Len(s))
  BY <1>1
<1> HIDE DEF I
<1>4. /\ Kept(s, I) \in Seq(Seq(Int)) /\ Bulk(Kept(s, I)) \in Nat
      /\ Bulk(Kept(s, I)) <= Weight(Lengths(s), I)
  BY <1>1, <1>3, KeptFits
<1>5. /\ Weight(Lengths(s), I) \in Nat /\ Weight(Lengths(s), (1..Len(s)) \ I) \in Nat
      /\ Bulk(s) = Weight(Lengths(s), I) + Weight(Lengths(s), (1..Len(s)) \ I)
  <2>1. Bulk(s) = Weight(Lengths(s), 1..Len(s))
    BY DEF Bulk
  <2>2. Lengths(s) \in [1..Len(s) -> Nat] /\ Len(s) \in Nat
    BY <1>1, LengthsType
  <2> QED BY <1>3, <2>1, <2>2, WeightParts
<1>6. Len(b) \in Nat
  OBVIOUS
<1>7. Bulk(Kept(s, I)) <= Len(b) + 1
  BY <1>1, <1>4, <1>5, <1>6
<1> QED BY <1>2, <1>4, <1>7 DEF s

\* Compression never makes a text longer in tokens.
LEMMA CompressShortens ==
    ASSUME NEW t \in Seq(Int), NEW query \in Seq(Int), NEW m \in Nat
    PROVE  /\ Compress(t, query, m) \in Seq(Int)
           /\ EstimateTokens(Compress(t, query, m)) <= EstimateTokens(t)
<1>1. CASE EstimateTokens(t) <= m
  <2>1. Compress(t, query, m) = t /\ EstimateTokens(t) \in Nat
    BY <1>1, CompressIs, EstimateType
  <2> QED BY <2>1
<1>2. CASE ~(EstimateTokens(t) <= m)
  <2> DEFINE l == Lines(t)
             I == HeaderLines(t)
             J == (1..Len(l)) \ I
             p == Kept(l, I)
             q == Kept(l, J)
             h == HeadersOf(t)
             b == BodyOf(t)
             s == NonBlank(Sentences(b))
             one == IF h = <<>> THEN 0 ELSE 1
  <2>1. Compress(t, query, m) = Extract(t, h, s, query, m)
    BY <1>2, CompressIs
  <2>2. l \in Seq(Seq(Int)) /\ Bulk(l) <= Len(t) + 1 /\ Len(t) \in Nat /\ DOMAIN l = 1..Len(l)
    BY LinesFit
  <2>3. h = Join(p, <<NL>>)
    BY DEF HeadersOf
  <2>4. b = Join(q, <<NL>>)
    <3>1. PlainLines(t) = J
      BY <2>2 DEF PlainLines, HeaderLines
    <3> QED BY <3>1 DEF BodyOf
  <2>5. I \in SUBSET (1..Len(l)) /\ J \in SUBSET (1..Len(l))
    BY <2>2 DEF HeaderLines
  <2> HIDE DEF l, I, J
  <2>6. p \in Seq(Seq(Int)) /\ Bulk(p) \in Nat /\ Bulk(p) <= Weight(Lengths(l), I)
    BY <2>2, <2>5, KeptFits
  <2>7. q \in Seq(Seq(Int)) /\ Bulk(q) \in Nat /\ Bulk(q) <= Weight(Lengths(l), J)
    BY <2>2, <2>5, KeptFits
  <2> HIDE DEF p, q, h, b
  <2>8. /\ Weight(Lengths(l), I) \in Nat /\ Weight(Lengths(l), J) \in Nat
        /\ Bulk(l) = Weight(Lengths(l), I) + Weight(Lengths(l), J)
    <3>1. Bulk(l) = Weight(Lengths(l), 1..Len(l))
      BY DEF Bulk
    <3>2. Lengths(l) \in [1..Len(l) -> Nat] /\ Len(l) \in Nat
      BY <2>2, LengthsType
    <3> QED BY <2>5, <3>1, <3>2, WeightParts DEF J
  <2>9. NL \in Int
    BY DEF NL
  <2>10. /\ h \in Seq(Int) /\ (h # <<>> => Len(h) + 1 = Bulk(p)) /\ Len(h) \in Nat
         /\ b \in Seq(Int) /\ (b # <<>> => Len(b) + 1 = Bulk(q)) /\ Len(b) \in Nat
    <3>1. h \in Seq(Int) /\ (h # <<>> => Len(h) + 1 = Bulk(p))
      BY <2>3, <2>6, <2>9, JoinFits
    <3>2. b \in Seq(Int) /\ (b # <<>> => Len(b) + 1 = Bulk(q))
      BY <2>4, <2>7, <2>9, JoinFits
    <3> QED BY <3>1, <3>2
  <2>11. s \in Seq(Seq(Int)) /\ Bulk(s) \in Nat /\ Bulk(s) <= Len(b) + 1 /\ (b = <<>> => s = <<>>)
    BY <2>10, NonBlankFit, NothingToSay
  <2> HIDE DEF s
  <2>12. s # <<>> => Len(h) + one + Bulk(s) <= Len(t) + 1
    <3>1. SUFFICES ASSUME s # <<>> PROVE Len(h) + one + Bulk(s) <= Len(t) + 1
      OBVIOUS
    <3>2. Len(b) + 1 = Bulk(q)
      BY <2>10, <2>11, <3>1
    <3>3. Len(h) + one <= Bulk(p)
      <4>1. CASE h = <<>>
        <5>1. Len(h) = 0 /\ one = 0
          BY <4>1
        <5> QED BY <2>6, <5>1
      <4>2. CASE h # <<>>
        <5>1. one = 1 /\ Len(h) + 1 = Bulk(p)
          BY <2>10, <4>2
        <5> QED BY <2>6, <5>1
      <4> QED BY <4>1, <4>2
    <3>4. one \in Nat
      OBVIOUS
    <3>5. Len(h) + one \in Nat
      BY <2>10, <3>4
    <3> DEFINE w == Weight(Lengths(l), I)
               v == Weight(Lengths(l), J)
               a == Len(h) + one
    <3>6. w \in Nat /\ v \in Nat /\ Bulk(l) = w + v /\ Bulk(p) <= w /\ Bulk(q) <= v /\ a <= Bulk(p)
          /\ a \in Nat
      BY <2>6, <2>7, <2>8, <3>3, <3>5
    <3> HIDE DEF w, v, a, one
    <3>7. a + Bulk(s) <= Len(t) + 1
      <4> DEFINE z == Bulk(s)
                 n == Len(t)
      <4>1. z \in Nat /\ n \in Nat
        BY <2>2, <2>11
      <4>2. z <= v
        BY <2>7, <2>11, <3>2, <3>6
      <4>3. a <= w
        BY <2>6, <3>6
      <4>4. w + v <= n + 1
        BY <2>2, <3>6
      <4> HIDE DEF z, n
      <4>5. a + z <= n + 1
        BY <3>6, <4>1, <4>2, <4>3, <4>4
      <4> QED BY <4>5 DEF z, n
    <3> QED BY <3>7 DEF a
  <2>13. /\ Extract(t, h, s, query, m) \in Seq(Int)
         /\ EstimateTokens(Extract(t, h, s, query, m)) <= EstimateTokens(t)
    BY <1>2, <2>10, <2>11, <2>12, ExtractShortens
  <2> QED BY <2>1, <2>13
<1> QED BY <1>1, <1>2


------------------------------------------------------------------------------
\* The context that is assembled.

\* The chunks of a selection as they go into the context.
TextIn(t, query, c) ==
    IF Compressing(c) THEN Compress(t, query, c.per_chunk_max_tokens) ELSE t
IsCut(t, c) == Compressing(c) /\ EstimateTokens(t) > c.per_chunk_max_tokens
InContext(s, query, c) ==
    [k \in DOMAIN s.chunks |->
        Shortened(s.chunks[k], k, TextIn(s.chunks[k].text, query, c), IsCut(s.chunks[k].text, c))]

\* The assembled context is made of the selected chunks and what the budget lets in.
LEMMA AssembleIs ==
    ASSUME NEW query, NEW chunks, NEW c
    PROVE  LET s == Selected(query, chunks, c)
           IN  Assemble(query, chunks, c) = Context(query, chunks, s, InContext(s, query, c))
BY Zenon DEF Assemble, InContext, TextIn, IsCut

\* What the properties of a context look at.
LEMMA ContextIs ==
    ASSUME NEW query, NEW chunks, NEW s, NEW kept
    PROVE  LET a == Context(query, chunks, s, kept)
           IN  /\ a.chunks = kept
               /\ a.stats.chunks_selected = Len(kept) /\ a.stats.duplicates_removed = s.removed
               /\ a.stats.chunks_dropped_budget = s.dropped /\ a.stats.tokens_out = Tokens(kept)
<1> DEFINE st == [chunks_in |-> Len(chunks), chunks_selected |-> Len(kept),
                  duplicates_removed |-> s.removed, chunks_dropped_budget |-> s.dropped,
                  tokens_in |-> Tokens(chunks), tokens_out |-> Tokens(kept)]
           l == [k \in DOMAIN kept |-> kept[k].id]
<1>1. Context(query, chunks, s, kept) = [query |-> query, chunks |-> kept, citations |-> l, stats |-> st]
  BY Zenon DEF Context
<1>2. /\ st.chunks_selected = Len(kept) /\ st.duplicates_removed = s.removed
      /\ st.chunks_dropped_budget = s.dropped /\ st.tokens_out = Tokens(kept)
  OBVIOUS
<1> HIDE DEF st, l
<1> QED BY <1>1, <1>2

\* Its texts are those of the chunks, or shorter ones.
LEMMA InContextIs ==
    ASSUME NEW C, \A b \in C : Rated(b), NEW query \in Seq(Int), NEW c, Configured(c),
           NEW s, s.chunks \in Seq(C)
    PROVE  LET kept == InContext(s, query, c)
           IN  /\ Len(s.chunks) \in Nat /\ Len(kept) = Len(s.chunks) /\ DOMAIN kept = 1..Len(s.chunks)
               /\ \A k \in 1..Len(s.chunks) :
                     /\ s.chunks[k] \in C
                     /\ kept[k].text \in Seq(Int)
                     /\ EstimateTokens(kept[k].text) <= EstimateTokens(s.chunks[k].text)
                     /\ ~Compressing(c) => kept[k].text = s.chunks[k].text
<1> DEFINE t == s.chunks
           n == Len(t)
           kept == InContext(s, query, c)
<1>1. n \in Nat /\ DOMAIN t = 1..n /\ \A k \in 1..n : t[k] \in C
  <2> HIDE DEF t
  <2>1. t \in Seq(C)
    BY DEF t
  <2> QED BY <2>1
<1>2. DOMAIN kept = DOMAIN t /\ \A k \in DOMAIN t : kept[k].text = TextIn(t[k].text, query, c)
  BY DEF InContext, Shortened
<1>3. Len(kept) = n
  <2>1. kept = [k \in DOMAIN t |-> kept[k]]
    BY DEF InContext
  <2> HIDE DEF kept, t
  <2> QED BY <1>1, <1>2, <2>1
<1> HIDE DEF kept, t
<1>4. ASSUME NEW k \in 1..n
      PROVE  /\ kept[k].text \in Seq(Int)
             /\ EstimateTokens(kept[k].text) <= EstimateTokens(t[k].text)
             /\ ~Compressing(c) => kept[k].text = t[k].text
  <2>1. t[k].text \in Seq(Int) /\ kept[k].text = TextIn(t[k].text, query, c)
    BY <1>1, <1>2 DEF Rated
  <2> DEFINE u == t[k].text
             m == c.per_chunk_max_tokens
  <2>2. m \in Nat
    BY DEF Configured
  <2>3. TextIn(u, query, c) = IF Compressing(c) THEN Compress(u, query, m) ELSE u
    BY Zenon DEF TextIn
  <2>4. u \in Seq(Int)
    BY <2>1
  <2> HIDE DEF u, m
  <2>5. Compress(u, query, m) \in Seq(Int) /\ EstimateTokens(Compress(u, query, m)) <= EstimateTokens(u)
    BY <2>2, <2>4, CompressShortens
  <2>6. EstimateTokens(u) \in Nat
    BY <2>4, EstimateType
  <2>7. /\ TextIn(u, query, c) \in Seq(Int)
        /\ EstimateTokens(TextIn(u, query, c)) <= EstimateTokens(u)
        /\ ~Compressing(c) => TextIn(u, query, c) = u
    BY <2>3, <2>4, <2>5, <2>6
  <2> QED BY <2>1, <2>7 DEF u
<1> QED BY <1>1, <1>2, <1>3, <1>4 DEF kept, t

\* A context is within its budget.
LEMMA BudgetKept ==
    ASSUME NEW C, \A b \in C : Rated(b), NEW query \in Seq(Int), NEW c, Configured(c),
           NEW chunks \in Seq(C)
    PROVE  WithinBudget(Assemble(query, chunks, c), c)
<1> DEFINE s == Selected(query, chunks, c)
           t == s.chunks
           n == Len(t)
           kept == InContext(s, query, c)
           a == Context(query, chunks, s, kept)
<1>1. Assemble(query, chunks, c) = a
  BY AssembleIs
<1>2. SelectedWell(s, C, chunks, c)
  BY SelectedHolds
<1> HIDE DEF s
<1>3. t \in Seq(C) /\ (Budgeted(c) => Tokens(t) <= c.max_tokens)
  BY <1>2 DEF SelectedWell
<1>4. /\ n \in Nat /\ DOMAIN kept = 1..n
      /\ \A k \in 1..n : /\ t[k] \in C /\ kept[k].text \in Seq(Int)
                         /\ EstimateTokens(kept[k].text) <= EstimateTokens(t[k].text)
  BY <1>3, InContextIs
<1>5. a.stats.tokens_out = Tokens(kept)
  BY ContextIs
<1> HIDE DEF kept, a, t
<1>6. DOMAIN t = 1..n /\ \A k \in 1..n : t[k].text \in Seq(Int)
  BY <1>3, <1>4 DEF Rated
<1>7. \A k \in 1..n : kept[k].text \in Seq(Int) /\ t[k].text \in Seq(Int)
  BY <1>4, <1>6
<1>8. \A k \in 1..n : EstimateTokens(kept[k].text) <= EstimateTokens(t[k].text)
  BY <1>4
<1> HIDE DEF n
<1>9. Tokens(kept) \in Nat /\ Tokens(t) \in Nat /\ Tokens(kept) <= Tokens(t)
  BY <1>4, <1>6, <1>7, <1>8, TokensGrow
<1>10. Budgeted(c) => Tokens(kept) <= c.max_tokens
  <2>1. c.max_tokens \in Nat
    BY DEF Configured
  <2> QED BY <1>3, <1>9, <2>1
<1> QED BY <1>1, <1>5, <1>10 DEF WithinBudget

\* Every chunk is accounted for.
LEMMA ChunksAccounted ==
    ASSUME NEW C, \A b \in C : Rated(b), NEW query \in Seq(Int), NEW c, Configured(c),
           NEW chunks \in Seq(C)
    PROVE  Accounted(Assemble(query, chunks, c), chunks, c)
<1> DEFINE s == Selected(query, chunks, c)
           t == s.chunks
           kept == InContext(s, query, c)
           a == Context(query, chunks, s, kept)
           I == {i \in DOMAIN chunks : EstimateTokens(chunks[i].text) < c.min_chunk_tokens}
<1>1. Assemble(query, chunks, c) = a
  BY AssembleIs
<1>2. SelectedWell(s, C, chunks, c)
  BY SelectedHolds
<1> HIDE DEF s
<1>3. t \in Seq(C)
  BY <1>2 DEF SelectedWell
<1>4. Len(kept) = Len(t)
  BY <1>3, InContextIs
<1>5. /\ a.stats.chunks_selected = Len(kept) /\ a.stats.duplicates_removed = s.removed
      /\ a.stats.chunks_dropped_budget = s.dropped
  BY ContextIs
<1> HIDE DEF kept, a
<1>6. Len(Where(chunks, LAMBDA b : EstimateTokens(b.text) < c.min_chunk_tokens))
         = Cardinality(SmallOnes(chunks, c.min_chunk_tokens))
  <2>1. Where(chunks, LAMBDA b : EstimateTokens(b.text) < c.min_chunk_tokens) = Kept(chunks, I)
    BY Zenon DEF Where
  <2>2. I = SmallOnes(chunks, c.min_chunk_tokens)
    BY DEF SmallOnes
  <2>3. I \in SUBSET (1..Len(chunks))
    OBVIOUS
  <2> HIDE DEF I
  <2>4. Len(Kept(chunks, I)) = Cardinality(I)
    BY <2>3, KeptCount
  <2> QED BY <2>1, <2>2, <2>4, Zenon
<1>7. SmallOf(chunks, c) =
         IF Budgeted(c) /\ c.max_tokens > 0
         THEN Len(Where(chunks, LAMBDA b : EstimateTokens(b.text) < c.min_chunk_tokens)) ELSE 0
  BY <1>6, Zenon DEF SmallOf
<1> DEFINE left == Len(chunks) - s.removed
           held == IF left < LimitOf(c) THEN left ELSE LimitOf(c)
<1>8. /\ Len(t) + s.dropped <= held
      /\ held - SmallOf(chunks, c) <= Len(t) + s.dropped
  BY <1>2, Zenon DEF SelectedWell, Fewer
<1>9. Len(t) + s.dropped = a.stats.chunks_selected + a.stats.chunks_dropped_budget
  BY <1>4, <1>5
<1>10. /\ a.stats.chunks_selected + a.stats.chunks_dropped_budget <= held
       /\ held - SmallOf(chunks, c) <= a.stats.chunks_selected + a.stats.chunks_dropped_budget
  BY <1>8, <1>9, Zenon
<1>11. Accounted(a, chunks, c)
  BY <1>5, <1>7, <1>10, Zenon DEF Accounted, LimitOf
<1> QED BY <1>1, <1>11

\* No two chunks of a deduplicated context are near duplicates.
LEMMA DuplicatesLeft ==
    ASSUME NEW C, \A b \in C : Rated(b), NEW query \in Seq(Int), NEW c, Configured(c),
           NEW chunks \in Seq(C)
    PROVE  Distinct(Assemble(query, chunks, c), c)
<1> DEFINE s == Selected(query, chunks, c)
           t == s.chunks
           n == Len(t)
           kept == InContext(s, query, c)
           a == Context(query, chunks, s, kept)
<1>1. Assemble(query, chunks, c) = a
  BY AssembleIs
<1>2. SelectedWell(s, C, chunks, c)
  BY SelectedHolds
<1> HIDE DEF s
<1>3. t \in Seq(C) /\ (c.strategy \notin {"top_k", "budget"} => Apart(t, c.dedup_threshold))
  BY <1>2 DEF SelectedWell
<1>4. /\ n \in Nat /\ DOMAIN kept = 1..n
      /\ \A k \in 1..n : ~Compressing(c) => kept[k].text = t[k].text
  BY <1>3, InContextIs
<1>5. a.chunks = kept
  BY ContextIs
<1> HIDE DEF kept, a, t
<1>6. ASSUME c.strategy \notin {"top_k", "budget"}, ~Compressing(c),
             NEW i \in 1..n, NEW j \in 1..n, i # j
      PROVE  Jaccard(Words(kept[i].text), Words(kept[j].text)) < c.dedup_threshold
  <2>1. kept[i].text = t[i].text /\ kept[j].text = t[j].text
    BY <1>4, <1>6
  <2>2. Jaccard(Words(t[i].text), Words(t[j].text)) < c.dedup_threshold
    BY <1>3, <1>6 DEF Apart
  <2> QED BY <2>1, <2>2
<1>7. Distinct(a, c)
  BY <1>4, <1>5, <1>6 DEF Distinct
<1> QED BY <1>1, <1>7

\* Whatever the candidates, the contract of contexts holds of what is assembled.
THEOREM ContextsKeepToTheirBudget ==
    ASSUME NEW r \in Candidates
    PROVE  LET a == Assemble(r.query, r.chunks, r.config)
           IN  /\ WithinBudget(a, r.config)
               /\ Accounted(a, r.chunks, r.config)
               /\ Distinct(a, r.config)
<1> DEFINE C == ToSet(r.chunks)
           query == r.query
           chunks == r.chunks
           c == r.config
<1>1. query \in Seq(Int) /\ chunks \in Seq(C) /\ Configured(c)
  BY CandidatesAreTyped DEF Configured
<1>2. \A b \in C : Rated(b)
  <2>1. \A i \in DOMAIN chunks : chunks[i].text \in Seq(Int) /\ chunks[i].score \in Int
    BY CandidatesAreTyped
  <2>2. \A b \in C : \E i \in DOMAIN chunks : b = chunks[i]
    BY DEF ToSet
  <2> HIDE DEF C, chunks
  <2> QED BY <2>1, <2>2 DEF Rated
<1> HIDE DEF C, query, chunks, c
<1>3. /\ WithinBudget(Assemble(query, chunks, c), c)
      /\ Accounted(Assemble(query, chunks, c), chunks, c)
      /\ Distinct(Assemble(query, chunks, c), c)
  BY <1>1, <1>2, BudgetKept, ChunksAccounted, DuplicatesLeft
<1> QED BY <1>3 DEF query, chunks, c

\* What a job to assemble a context returned.
ContextInv ==
    job.call = "assemble" =>
        /\ job.of \in Candidates
        /\ out # None => out = Assemble(job.of.query, job.of.chunks, job.of.config)

\* The contract of contexts holds whatever the candidates and settings are.
THEOREM ContextsKeepTheContract == Spec => []ContextContract
<1>1. Init => ContextInv
  BY InitialJob DEF ContextInv, JobTyped
<1>2. ContextInv /\ [Next]_vars => ContextInv'
  <2> SUFFICES ASSUME ContextInv, [Next]_vars PROVE ContextInv'
    OBVIOUS
  <2>1. CASE Next
    <3>1. job' = job /\ (job.call = "assemble" => AssembleSome)
      BY <2>1, CallsReturn DEF ReturnsItsCall
    <3>2. SUFFICES ASSUME job.call = "assemble" PROVE ContextInv'
      BY <3>1 DEF ContextInv
    <3>3. out' = Assemble(job.of.query, job.of.chunks, job.of.config)
      BY <3>1, <3>2, Zenon DEF AssembleSome, Return, x
    <3> QED BY <3>1, <3>2, <3>3 DEF ContextInv
  <2>2. CASE UNCHANGED vars
    BY <2>2 DEF vars, ContextInv
  <2> QED BY <2>1, <2>2
<1>3. ContextInv => ContextContract
  <2> SUFFICES ASSUME ContextInv, Returned("assemble") PROVE ContextContract
    BY DEF ContextContract
  <2>1. job.of \in Candidates /\ out = Assemble(job.of.query, job.of.chunks, job.of.config)
    BY DEF ContextInv, Returned
  <2> DEFINE r == job.of
  <2> HIDE DEF r
  <2>2. r \in Candidates /\ out = Assemble(r.query, r.chunks, r.config)
    BY <2>1 DEF r
  <2>3. /\ WithinBudget(out, r.config) /\ Accounted(out, r.chunks, r.config) /\ Distinct(out, r.config)
    BY <2>2, ContextsKeepToTheirBudget
  <2> QED BY <2>3 DEF ContextContract, r, x
<1> QED BY <1>1, <1>2, <1>3, PTL DEF Spec
==============================================================================
