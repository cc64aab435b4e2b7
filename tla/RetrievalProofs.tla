--------------------------- MODULE RetrievalProofs ---------------------------
(***************************************************************************)
(* What the Python pipeline promises of what it finds: fusion, filters and *)
(* reranking first, then the fallback of a retriever and the embedding of  *)
(* batches, then the words, segments, runs and clusters a text is          *)
(* tokenized by, which each keep its characters together and in order.     *)
(***************************************************************************)
EXTENDS RagPipelineProofs

------------------------------------------------------------------------------
\* Where the elements of a sorted list come from.

\* A sorted list is its list in another order, the one of its scores.
LEMMA SortedIs ==
    ASSUME NEW A, NEW s \in Seq(A), NEW v \in [1..Len(s) -> Int]
    PROVE  \E p \in [1..Len(s) -> 1..Len(s)] :
              /\ \A k \in 1..Len(s) : Placed(s, Ranks(v))[k] = s[p[k]]
              /\ \A i \in 1..Len(s) : \E k \in 1..Len(s) : p[k] = i
              /\ \A a, b \in 1..Len(s) : a < b => Before(v, p[a], p[b])
<1> DEFINE n == Len(s)
           r == Ranks(v)
           p == [k \in DOMAIN s |-> CHOOSE i \in DOMAIN s : r[i] = k]
<1>1. n \in Nat /\ DOMAIN s = 1..n
  OBVIOUS
<1>2. /\ \A k \in 1..n : \E i \in 1..n : r[i] = k
      /\ r \in [1..n -> 1..n]
      /\ \A i, j \in 1..n : r[i] = r[j] => i = j
      /\ \A i, j \in 1..n : Before(v, i, j) => r[i] < r[j]
  <2> HIDE DEF n
  <2> QED BY <1>1, RanksAre DEF n
<1>3. \A i, j \in 1..n : i = j \/ Before(v, i, j) \/ Before(v, j, i)
  <2>1. 1..n \in SUBSET Nat /\ v \in [1..n -> Int]
    OBVIOUS
  <2> HIDE DEF n
  <2> QED BY <2>1, BeforeIs
<1> HIDE DEF n, r
<1>6. \A k \in DOMAIN s : Placed(s, r)[k] = s[p[k]]
  <2>1. \A k \in DOMAIN s : s[CHOOSE i \in DOMAIN s : r[i] = k] = s[p[k]]
    OBVIOUS
  <2>2. Placed(s, r) = [k \in DOMAIN s |-> s[CHOOSE i \in DOMAIN s : r[i] = k]]
    BY Zenon DEF Placed
  <2> HIDE DEF p
  <2>3. ASSUME NEW k \in DOMAIN s
        PROVE  Placed(s, r)[k] = s[CHOOSE i \in DOMAIN s : r[i] = k]
    BY <2>2, Zenon
  <2> QED BY <2>1, <2>3, Zenon
<1>5. \A k \in DOMAIN s : p[k] \in DOMAIN s /\ r[p[k]] = k
  <2>1. \A k \in DOMAIN s : \E i \in DOMAIN s : r[i] = k
    BY <1>1, <1>2
  <2> QED BY <2>1, Zenon
<1>7. p \in [1..n -> 1..n]
  BY <1>1, <1>5
<1> HIDE DEF p
<1>8. ASSUME NEW i \in 1..n PROVE \E k \in 1..n : p[k] = i
  <2>1. r[i] \in 1..n
    BY <1>2
  <2>2. p[r[i]] \in 1..n /\ r[p[r[i]]] = r[i]
    BY <1>1, <1>5, <2>1
  <2>3. p[r[i]] = i
    BY <1>2, <2>2
  <2> QED BY <2>1, <2>3
<1>9. ASSUME NEW a \in 1..n, NEW b \in 1..n, a < b PROVE Before(v, p[a], p[b])
  <2>1. p[a] \in 1..n /\ p[b] \in 1..n /\ r[p[a]] = a /\ r[p[b]] = b
    BY <1>1, <1>5
  <2>2. p[a] # p[b]
    BY <1>1, <1>9, <2>1
  <2>3. ~Before(v, p[b], p[a])
    <3>1. Before(v, p[b], p[a]) => r[p[b]] < r[p[a]]
      BY <1>2, <2>1
    <3> QED BY <1>1, <1>9, <2>1, <3>1
  <2> QED BY <1>3, <2>1, <2>2, <2>3
<1> QED BY <1>1, <1>6, <1>7, <1>8, <1>9 DEF n, r

\* The first k of a list are the places up to k of the list.
LEMMA FirstOf ==
    ASSUME NEW A, NEW s \in Seq(A), NEW k \in Nat
    PROVE  LET m == IF k < Len(s) THEN k ELSE Len(s)
           IN  /\ m \in Nat /\ m <= Len(s)
               /\ TopK(s, k) \in Seq(A) /\ Len(TopK(s, k)) = m /\ DOMAIN TopK(s, k) = 1..m
               /\ \A i \in 1..m : TopK(s, k)[i] = s[i]
<1> DEFINE m == IF k < Len(s) THEN k ELSE Len(s)
<1>1. m \in Nat /\ m <= Len(s)
  OBVIOUS
<1>2. TopK(s, k) = SubSeq(s, 1, m)
  BY DEF TopK
<1> HIDE DEF m
<1>3. 1 \in Nat \ {0}
  OBVIOUS
<1>4. /\ SubSeq(s, 1, m) \in Seq(A)
      /\ Len(SubSeq(s, 1, m)) = IF 1 <= m THEN m - 1 + 1 ELSE 0
      /\ \A i \in 1..Len(SubSeq(s, 1, m)) : SubSeq(s, 1, m)[i] = s[1 + i - 1]
  BY <1>1, <1>3, SubSeqElements
<1>5. (IF 1 <= m THEN m - 1 + 1 ELSE 0) = m /\ \A i \in 1..m : 1 + i - 1 = i
  BY <1>1
<1>6. \A i \in 1..m : SubSeq(s, 1, m)[i] = s[i]
  BY <1>4, <1>5, Zenon
<1>7. DOMAIN SubSeq(s, 1, m) = 1..m
  BY <1>4, <1>5
<1> QED BY <1>1, <1>2, <1>4, <1>5, <1>6, <1>7 DEF m

------------------------------------------------------------------------------
\* Fusion.

\* A list of chunks of different ids.
Identified(list) ==
    /\ list \in Seq(ToSet(list))
    /\ \A i, j \in DOMAIN list : list[i].id = list[j].id => i = j

\* The place of an id is where it is, or beyond the list.
LEMMA PlaceOfIs ==
    ASSUME NEW list, Identified(list), NEW c
    PROVE  /\ Len(list) \in Nat /\ DOMAIN list = 1..Len(list)
           /\ \/ \E i \in 1..Len(list) : list[i].id = c /\ PlaceOf(list, c) = i
              \/ (\A i \in 1..Len(list) : list[i].id # c) /\ PlaceOf(list, c) = Len(list) + 1000
           /\ \A i \in 1..Len(list) : list[i].id = c => PlaceOf(list, c) = i
<1>1. Len(list) \in Nat /\ DOMAIN list = 1..Len(list)
  BY DEF Identified
<1>2. CASE \E i \in DOMAIN list : list[i].id = c
  <2> DEFINE p == CHOOSE i \in DOMAIN list : list[i].id = c
  <2>1. p \in DOMAIN list /\ list[p].id = c
    BY <1>2
  <2>2. PlaceOf(list, c) = p
    BY <1>2 DEF PlaceOf
  <2> HIDE DEF p
  <2>3. \A i \in DOMAIN list : list[i].id = c => i = p
    BY <2>1, Zenon DEF Identified
  <2>4. p \in 1..Len(list) /\ list[p].id = c /\ PlaceOf(list, c) = p
    BY <1>1, <2>1, <2>2, Zenon
  <2>5. \A i \in 1..Len(list) : list[i].id = c => PlaceOf(list, c) = i
    BY <1>1, <2>2, <2>3, Zenon
  <2>6. \E i \in 1..Len(list) : list[i].id = c /\ PlaceOf(list, c) = i
    BY <2>4, Zenon
  <2> QED BY <1>1, <2>5, <2>6, Zenon
<1>3. CASE ~\E i \in DOMAIN list : list[i].id = c
  BY <1>1, <1>3 DEF PlaceOf
<1> QED BY <1>2, <1>3

\* What a place in a list is worth.
Points(i) == Scale \div (RRFK + i)
PointSums(f, S) ==
    f = [d \in SUBSET S |-> IF d = {} THEN 0 ELSE Points(Some(d)) + f[d \ {Some(d)}]]

\* Points are natural, and fall with the place.
LEMMA PointsFall ==
    ASSUME NEW i \in Nat, NEW j \in Nat, 0 < i, i <= j
    PROVE  Points(i) \in Nat /\ Points(j) \in Nat /\ Points(j) <= Points(i)
<1> DEFINE a == RRFK + i
           b == RRFK + j
           q == Scale \div b
<1>1. Scale \in Nat /\ a \in Nat \ {0} /\ b \in Nat \ {0} /\ a <= b
  BY RRFKNatural, ScalePositive
<1>2. Points(i) = Scale \div a /\ Points(j) = q
  BY DEF Points
<1> HIDE DEF a, b
<1>3. Scale \div a \in Nat /\ q \in Nat /\ q * b <= Scale
  BY <1>1, Quotient
<1> HIDE DEF q
<1>4. a * q <= b * q /\ a * q \in Int /\ b * q \in Int
  BY <1>1, <1>3, TimesKeepsOrder
<1>5. q * a <= Scale
  <2>1. q * a = a * q /\ q * b = b * q
    BY <1>1, <1>3
  <2> QED BY <1>1, <1>3, <1>4, <2>1
<1>6. q <= Scale \div a
  BY <1>1, <1>3, <1>5, QuotientBounds
<1> QED BY <1>2, <1>3, <1>6

\* A chunk scores the points of its place, or nothing.
LEMMA RankScoreIs ==
    ASSUME NEW list, Identified(list), NEW c
    PROVE  /\ \A i \in 1..Len(list) : list[i].id = c => RankScore(c, list) = Points(i)
           /\ (\A i \in 1..Len(list) : list[i].id # c) => RankScore(c, list) = 0
<1> DEFINE S == {i \in DOMAIN list : list[i].id = c}
           g == CHOOSE f : PointSums(f, S)
<1>1. Len(list) \in Nat /\ DOMAIN list = 1..Len(list)
  BY DEF Identified
<1>2. RankScore(c, list) = g[S]
  BY Zenon DEF RankScore, MapThenSumSet, MapThenFoldSet, PointSums, Points, Some
<1> HIDE DEF g
<1>3. ASSUME NEW i \in 1..Len(list), list[i].id = c PROVE RankScore(c, list) = Points(i)
  <2>1. S = {i}
    BY <1>1, <1>3 DEF Identified
  <2>2. Points(i) \in Nat
    <3>1. i \in Nat /\ 0 < i /\ i <= i
      BY <1>1
    <3> QED BY <3>1, PointsFall
  <2> DEFINE h == [d \in SUBSET {i} |-> IF d = {} THEN 0 ELSE Points(i)]
  <2>3. PointSums(h, {i})
    <3>1. \A d \in SUBSET {i} : d = {} \/ (d = {i} /\ Some(d) = i /\ d \ {Some(d)} = {})
      BY DEF Some
    <3>2. h[{}] = 0 /\ h[{i}] = Points(i) /\ Points(i) + 0 = Points(i)
      BY <2>2
    <3>3. ASSUME NEW d \in SUBSET {i}
          PROVE  h[d] = IF d = {} THEN 0 ELSE Points(Some(d)) + h[d \ {Some(d)}]
      <4> HIDE DEF h
      <4> QED BY <3>1, <3>2
    <3> DEFINE u == [d \in SUBSET {i} |-> IF d = {} THEN 0 ELSE Points(Some(d)) + h[d \ {Some(d)}]]
    <3>4. h = [d \in SUBSET {i} |-> h[d]] /\ u = [d \in SUBSET {i} |-> u[d]]
      OBVIOUS
    <3>5. \A d \in SUBSET {i} : h[d] = u[d]
      <4> HIDE DEF h
      <4> QED BY <3>3
    <3>6. h = u
      <4> HIDE DEF h, u
      <4> QED BY <3>4, <3>5, Zenon
    <3> HIDE DEF h
    <3> QED BY <3>6, Zenon DEF PointSums
  <2>4. PointSums(g, {i})
    <3> HIDE DEF h
    <3> QED BY <2>1, <2>3, Zenon DEF g
  <2>5. g[{i}] = Points(i) + g[{}] /\ g[{}] = 0
    <3>1. {i} \in SUBSET {i} /\ {} \in SUBSET {i} /\ {i} # {} /\ Some({i}) = i /\ {i} \ {i} = {}
      BY DEF Some
    <3>2. \A d \in SUBSET {i} : g[d] = IF d = {} THEN 0 ELSE Points(Some(d)) + g[d \ {Some(d)}]
      BY <2>4, Zenon DEF PointSums
    <3>3. g[{}] = 0
      BY <3>1, <3>2
    <3>4. g[{i}] = Points(Some({i})) + g[{i} \ {Some({i})}]
      BY <3>1, <3>2, Zenon
    <3> QED BY <3>1, <3>3, <3>4
  <2>6. RankScore(c, list) = g[{i}]
    BY <1>2, <2>1, Zenon
  <2>7. Points(i) + 0 = Points(i)
    BY <2>2
  <2> QED BY <2>5, <2>6, <2>7, Zenon
<1>4. ASSUME \A i \in 1..Len(list) : list[i].id # c PROVE RankScore(c, list) = 0
  <2>1. S = {}
    BY <1>1, <1>4
  <2> DEFINE h == [d \in SUBSET {} |-> 0]
  <2>2. PointSums(h, {})
    <3>1. \A d \in SUBSET {} : d = {}
      OBVIOUS
    <3>2. h = [d \in SUBSET {} |-> IF d = {} THEN 0 ELSE Points(Some(d)) + h[d \ {Some(d)}]]
      BY <3>1
    <3> HIDE DEF h
    <3> QED BY <3>2, Zenon DEF PointSums
  <2>3. PointSums(g, {})
    <3> HIDE DEF h
    <3> QED BY <2>1, <2>2, Zenon DEF g
  <2>4. g[{}] = 0
    BY <2>3 DEF PointSums
  <2> QED BY <1>2, <2>1, <2>4
<1> QED BY <1>3, <1>4

\* An id that a list places no later scores no less there.
LEMMA ScoresFollowPlaces ==
    ASSUME NEW list, Identified(list), NEW c, NEW d, PlaceOf(list, c) <= PlaceOf(list, d)
    PROVE  /\ RankScore(c, list) \in Nat /\ RankScore(d, list) \in Nat
           /\ RankScore(d, list) <= RankScore(c, list)
<1> DEFINE n == Len(list)
           a == PlaceOf(list, c)
           b == PlaceOf(list, d)
           Here(e, i) == i \in 1..n /\ list[i].id = e /\ PlaceOf(list, e) = i
           Nowhere(e) == (\A i \in 1..n : list[i].id # e) /\ PlaceOf(list, e) = n + 1000
<1>1. n \in Nat /\ (Here(c, a) \/ Nowhere(c)) /\ (Here(d, b) \/ Nowhere(d))
  BY PlaceOfIs
<1>3. /\ Here(c, a) => RankScore(c, list) = Points(a)
      /\ Here(d, b) => RankScore(d, list) = Points(b)
      /\ Nowhere(c) => RankScore(c, list) = 0
      /\ Nowhere(d) => RankScore(d, list) = 0
  <2>1. \A e : /\ \A i \in 1..n : list[i].id = e => RankScore(e, list) = Points(i)
               /\ (\A i \in 1..n : list[i].id # e) => RankScore(e, list) = 0
    BY RankScoreIs, Zenon
  <2>2. ASSUME NEW e, NEW i, Here(e, i) PROVE RankScore(e, list) = Points(i)
    BY <2>1, <2>2
  <2>3. ASSUME NEW e, Nowhere(e) PROVE RankScore(e, list) = 0
    BY <2>1, <2>3
  <2> HIDE DEF Here, Nowhere
  <2> QED BY <2>2, <2>3, Zenon
<1>4. a <= b
  OBVIOUS
<1> HIDE DEF n, a, b
<1>5. CASE Here(c, a)
  <2>1. a \in Nat /\ 0 < a
    BY <1>1, <1>5
  <2>2. CASE Here(d, b)
    <3>1. b \in Nat
      BY <1>1, <2>2
    <3> QED BY <1>3, <1>4, <1>5, <2>1, <2>2, <3>1, PointsFall
  <2>3. CASE Nowhere(d)
    <3>1. Points(a) \in Nat
      BY <2>1, PointsFall
    <3> QED BY <1>3, <1>5, <2>3, <3>1
  <2> QED BY <1>1, <2>2, <2>3
<1>6. CASE Nowhere(c)
  <2>1. Nowhere(d)
    <3>1. Here(d, b) => b <= n
      BY <1>1
    <3>2. a = n + 1000
      BY <1>6 DEF a
    <3> QED BY <1>1, <1>4, <3>1, <3>2
  <2> QED BY <1>3, <1>6, <2>1
<1> QED BY <1>1, <1>5, <1>6

\* The chunks of both lists, each once.
Rest(dense, keyword) ==
    {i \in DOMAIN keyword : keyword[i].id \notin {dense[j].id : j \in DOMAIN dense}}
Both(dense, keyword) == dense \o Kept(keyword, Rest(dense, keyword))
\* An id one of the lists places ahead of another, and the other list not behind it.
Ahead(dense, keyword, c, d) ==
    \/ PlaceOf(dense, c) < PlaceOf(dense, d) /\ PlaceOf(keyword, c) <= PlaceOf(keyword, d)
    \/ PlaceOf(keyword, c) < PlaceOf(keyword, d) /\ PlaceOf(dense, c) <= PlaceOf(dense, d)

\* a is D, then the elements of K at the places o, which are those of R in order.
Joined(D, K, R, o, a, n, m) ==
    /\ n \in Nat /\ m \in Nat /\ n = Len(D) /\ m = Len(o)
    /\ Len(a) = n + m /\ DOMAIN a = 1..(n + m)
    /\ a \in Seq(ToSet(D) \cup ToSet(K))
    /\ \A i \in 1..n : a[i] = D[i]
    /\ \A k \in 1..m : o[k] \in R /\ a[n + k] = K[o[k]]
    /\ \A k, l \in 1..m : k < l => o[k] < o[l]
    /\ \A p \in R : \E k \in 1..m : o[k] = p

\* A place of the joined list is one of the first list, or a later one of the second.
LEMMA PlacesOfBoth ==
    ASSUME NEW D, Identified(D), NEW K, Identified(K)
    PROVE  LET o == Ordered(Rest(D, K), Len(K))
           IN  Joined(D, K, Rest(D, K), o, Both(D, K), Len(D), Len(o))
<1> DEFINE n == Len(D)
           R == Rest(D, K)
           o == Ordered(R, Len(K))
           w == Kept(K, R)
           a == Both(D, K)
           T == ToSet(D) \cup ToSet(K)
<1>1. n \in Nat /\ DOMAIN D = 1..n /\ D \in Seq(ToSet(D)) /\ K \in Seq(ToSet(K))
  BY DEF Identified
<1>2. R \in SUBSET (1..Len(K))
  BY <1>1 DEF Rest
<1>3. /\ w \in Seq(ToSet(K)) /\ Len(w) = Len(o) /\ Len(o) \in Nat
      /\ \A k \in 1..Len(o) : o[k] \in R /\ w[k] = K[o[k]]
      /\ \A i, j \in 1..Len(o) : i < j => o[i] < o[j]
      /\ \A p \in R : \E k \in 1..Len(o) : o[k] = p
  <2> HIDE DEF R
  <2> QED BY <1>1, <1>2, KeptIs
<1>4. D \in Seq(T) /\ w \in Seq(T)
  <2> HIDE DEF w
  <2>1. ToSet(D) \subseteq T /\ ToSet(K) \subseteq T
    OBVIOUS
  <2> HIDE DEF T
  <2> QED BY <1>1, <1>3, <2>1, SequencesOfMore
<1>5. a = D \o w
  BY DEF Both
<1> HIDE DEF w, T, o, R, a
<1>6. a \in Seq(T) /\ Len(a) = n + Len(o) /\ DOMAIN a = 1..(n + Len(o))
  <2>1. D \o w \in Seq(T) /\ Len(D \o w) = n + Len(w)
    BY <1>4
  <2>2. DOMAIN (D \o w) = 1..Len(D \o w)
    BY <2>1
  <2> HIDE DEF n
  <2> QED BY <1>3, <1>5, <2>1, <2>2
<1>7. ASSUME NEW i \in 1..n PROVE a[i] = D[i]
  BY <1>1, <1>3, <1>4, <1>5
<1>8. ASSUME NEW k \in 1..Len(o) PROVE a[n + k] = w[k]
  BY <1>1, <1>3, <1>4, <1>5
<1>9. Joined(D, K, R, o, a, n, Len(o))
  <2> HIDE DEF n
  <2> QED BY <1>1, <1>3, <1>6, <1>7, <1>8 DEF Joined, T, n
<1> QED BY <1>9 DEF o, R, a

\* The joined list has each id once, and one that is ahead of another before it.
Agreeing(D, K, a) ==
    /\ Len(a) \in Nat /\ DOMAIN a = 1..Len(a)
    /\ \A i, j \in 1..Len(a) : a[i].id = a[j].id => i = j
    /\ \A c \in ToSet(D) \cup ToSet(K) : \E i \in 1..Len(a) : a[i].id = c.id
    /\ \A i, j \in 1..Len(a) : Ahead(D, K, a[i].id, a[j].id) => i < j

\* The chunks both retrievers found, by their identities.
LEMMA BothIs ==
    ASSUME NEW D, Identified(D), NEW K, Identified(K)
    PROVE  Agreeing(D, K, Both(D, K))
<1> DEFINE n == Len(D)
           R == Rest(D, K)
           o == Ordered(R, Len(K))
           m == Len(o)
           a == Both(D, K)
<1>1. /\ n \in Nat /\ m \in Nat /\ Len(a) = n + m /\ DOMAIN a = 1..(n + m)
      /\ a \in Seq(ToSet(D) \cup ToSet(K))
      /\ \A i \in 1..n : a[i] = D[i]
      /\ \A k \in 1..m : o[k] \in R /\ a[n + k] = K[o[k]]
      /\ \A k, l \in 1..m : k < l => o[k] < o[l]
      /\ \A p \in R : \E k \in 1..m : o[k] = p
  <2>1. Joined(D, K, R, o, a, n, m)
    BY PlacesOfBoth, Zenon
  <2> HIDE DEF n, R, o, m, a
  <2> QED BY <2>1 DEF Joined
<1>2. /\ DOMAIN D = 1..n /\ DOMAIN K = 1..Len(K) /\ Len(K) \in Nat
      /\ \A i, j \in DOMAIN D : D[i].id = D[j].id => i = j
      /\ \A i, j \in DOMAIN K : K[i].id = K[j].id => i = j
  BY DEF Identified
<1>3. \A p \in R : p \in 1..Len(K) /\ K[p].id \notin {D[j].id : j \in DOMAIN D}
  BY <1>2 DEF Rest
<1>4. \A p \in 1..Len(K) : p \in R \/ \E j \in DOMAIN D : D[j].id = K[p].id
  BY <1>2 DEF Rest
<1> HIDE DEF n, R, o, m, a
\* Where a place of the joined list is in the two lists.
<1> DEFINE First(i) == i \in 1..n /\ PlaceOf(D, a[i].id) = i
           Second(i) == /\ i - n \in 1..m
                        /\ PlaceOf(D, a[i].id) = n + 1000
                        /\ PlaceOf(K, a[i].id) = o[i - n] /\ o[i - n] \in Nat
<1>5. ASSUME NEW i \in 1..(n + m) PROVE First(i) \/ Second(i)
  <2>1. CASE i <= n
    <3>1. i \in 1..n
      BY <1>1, <2>1
    <3>2. a[i] = D[i]
      BY <1>1, <3>1
    <3>3. PlaceOf(D, D[i].id) = i
      BY <3>1, PlaceOfIs DEF n
    <3> QED BY <3>1, <3>2, <3>3
  <2>2. CASE ~(i <= n)
    <3> DEFINE k == i - n
    <3>1. k \in 1..m /\ i = n + k
      BY <1>1, <2>2
    <3> HIDE DEF k
    <3>2. a[i] = K[o[k]] /\ o[k] \in R
      BY <1>1, <3>1
    <3>3. o[k] \in 1..Len(K) /\ K[o[k]].id \notin {D[j].id : j \in DOMAIN D}
      BY <1>3, <3>2
    <3>4. PlaceOf(K, a[i].id) = o[k]
      BY <3>2, <3>3, PlaceOfIs
    <3>5. PlaceOf(D, a[i].id) = n + 1000
      <4>1. \A j \in 1..n : D[j].id # a[i].id
        BY <1>2, <3>2, <3>3
      <4> QED BY <4>1, PlaceOfIs DEF n
    <3>6. o[k] \in Nat
      BY <1>2, <3>3
    <3> QED BY <3>1, <3>4, <3>5, <3>6 DEF k
  <2> QED BY <1>1, <2>1, <2>2
<1>6. ASSUME NEW i \in 1..(n + m), NEW j \in 1..(n + m), a[i].id = a[j].id PROVE i = j
  <2>1. CASE First(i) /\ First(j)
    BY <1>6, <2>1
  <2>2. CASE Second(i) /\ Second(j)
    <3> DEFINE k == i - n
               l == j - n
    <3>1. k \in 1..m /\ l \in 1..m /\ o[k] = o[l] /\ o[k] \in Nat
      BY <1>6, <2>2
    <3>2. ~(k < l) /\ ~(l < k)
      <4> HIDE DEF k, l
      <4> QED BY <1>1, <3>1
    <3> QED BY <1>1, <3>1, <3>2
  <2>3. ~(First(i) /\ Second(j)) /\ ~(Second(i) /\ First(j))
    BY <1>1, <1>6
  <2> QED BY <1>5, <2>1, <2>2, <2>3
<1>7. ASSUME NEW c \in ToSet(D) \cup ToSet(K) PROVE \E i \in 1..(n + m) : a[i].id = c.id
  <2>1. ASSUME NEW j \in DOMAIN D PROVE \E i \in 1..(n + m) : a[i].id = D[j].id
    <3>1. j \in 1..n /\ j \in 1..(n + m)
      BY <1>1, <1>2
    <3> QED BY <1>1, <3>1
  <2>2. CASE c \in ToSet(D)
    <3>1. PICK j \in DOMAIN D : c = D[j]
      BY <2>2 DEF ToSet
    <3> QED BY <2>1, <3>1
  <2>3. CASE c \in ToSet(K)
    <3>1. PICK p \in 1..Len(K) : c = K[p]
      BY <1>2, <2>3 DEF ToSet
    <3>2. CASE p \in R
      <4>1. PICK k \in 1..m : o[k] = p
        BY <1>1, <3>2
      <4>2. a[n + k] = K[p] /\ n + k \in 1..(n + m)
        BY <1>1, <4>1
      <4> QED BY <3>1, <4>2
    <3>3. CASE \E j \in DOMAIN D : D[j].id = K[p].id
      BY <2>1, <3>1, <3>3
    <3> QED BY <1>4, <3>2, <3>3
  <2> QED BY <2>2, <2>3
<1>8. ASSUME NEW i \in 1..(n + m), NEW j \in 1..(n + m), Ahead(D, K, a[i].id, a[j].id) PROVE i < j
  <2> DEFINE di == PlaceOf(D, a[i].id)
             dj == PlaceOf(D, a[j].id)
             ki == PlaceOf(K, a[i].id)
             kj == PlaceOf(K, a[j].id)
  <2>1. (di < dj /\ ki <= kj) \/ (ki < kj /\ di <= dj)
    BY <1>8, Zenon DEF Ahead
  <2>2. \/ i \in 1..n /\ di = i
        \/ i - n \in 1..m /\ di = n + 1000 /\ ki = o[i - n] /\ o[i - n] \in Nat
    BY <1>5
  <2>3. \/ j \in 1..n /\ dj = j
        \/ j - n \in 1..m /\ dj = n + 1000 /\ kj = o[j - n] /\ o[j - n] \in Nat
    BY <1>5
  <2>4. i = j => di = dj /\ ki = kj
    OBVIOUS
  <2> HIDE DEF di, dj, ki, kj, First, Second
  <2>5. CASE i \in 1..n /\ di = i
    <3>1. CASE j \in 1..n /\ dj = j
      <4>1. i # j
        <5> SUFFICES ASSUME i = j PROVE FALSE
          OBVIOUS
        <5>1. di = dj /\ ki = kj
          BY <2>4
        <5>2. ki \in Int
          <6>1. PICK p : p = a[i].id
            OBVIOUS
          <6>2. PlaceOf(K, p) \in Int
            <7>1. Len(K) \in Nat /\ (\/ \E q \in 1..Len(K) : K[q].id = p /\ PlaceOf(K, p) = q
                                     \/ PlaceOf(K, p) = Len(K) + 1000)
              BY PlaceOfIs
            <7> QED BY <7>1
          <6> QED BY <6>1, <6>2 DEF ki
        <5> QED BY <1>1, <2>1, <2>5, <5>1, <5>2
      <4> QED BY <1>1, <2>1, <2>5, <3>1, <4>1
    <3>2. CASE j - n \in 1..m
      BY <1>1, <2>5, <3>2
    <3> QED BY <2>3, <3>1, <3>2
  <2>6. CASE i - n \in 1..m /\ di = n + 1000 /\ ki = o[i - n] /\ o[i - n] \in Nat
    <3>1. CASE j \in 1..n /\ dj = j
      BY <1>1, <2>1, <2>6, <3>1
    <3>2. CASE j - n \in 1..m /\ dj = n + 1000 /\ kj = o[j - n] /\ o[j - n] \in Nat
      <4> DEFINE k == i - n
                 l == j - n
      <4>1. k \in 1..m /\ l \in 1..m /\ o[k] < o[l]
        BY <1>1, <2>1, <2>6, <3>2
      <4>2. k < l
        <5> HIDE DEF k, l
        <5>1. o[l] \in Nat /\ o[k] \in Nat
          BY <1>2, <1>3, <1>1, <4>1
        <5>2. k = l \/ l < k => ~(o[k] < o[l])
          BY <1>1, <4>1, <5>1
        <5> QED BY <1>1, <4>1, <5>2
      <4> QED BY <1>1, <4>2
    <3> QED BY <2>3, <3>1, <3>2
  <2> QED BY <2>2, <2>5, <2>6
<1> QED BY <1>1, <1>6, <1>7, <1>8 DEF a, Agreeing

\* The rows fusion sorts, and their scores.
FusedRows(dense, keyword) ==
    LET a == Both(dense, keyword)
    IN  [i \in DOMAIN a |-> [id |-> a[i].id, text |-> a[i].text, meta |-> a[i].meta,
            score |-> RankScore(a[i].id, dense) + RankScore(a[i].id, keyword)]]

\* Fusion takes the k best of the fused rows and marks them as hybrid.
LEMMA FuseIs ==
    ASSUME NEW D, NEW K, NEW k
    PROVE  LET rows == FusedRows(D, K)
               v == [i \in DOMAIN rows |-> rows[i].score]
           IN  Fuse(D, K, k) = Retrieved(TopK(Placed(rows, Ranks(v)), k), "hybrid")
BY Zenon DEF Fuse, FusedRows, Both, Rest, Where, Scored, SortedBy, Placed

\* An id that is ahead of another scores no less.
LEMMA AheadScores ==
    ASSUME NEW D, Identified(D), NEW K, Identified(K), NEW c, NEW d
    PROVE  /\ RankScore(c, D) + RankScore(c, K) \in Int
           /\ Ahead(D, K, c, d) =>
                RankScore(c, D) + RankScore(c, K) >= RankScore(d, D) + RankScore(d, K)
<1>1. ASSUME NEW L, Identified(L), NEW e PROVE PlaceOf(L, e) \in Int
  <2>1. Len(L) \in Nat /\ (\/ \E q \in 1..Len(L) : L[q].id = e /\ PlaceOf(L, e) = q
                           \/ PlaceOf(L, e) = Len(L) + 1000)
    BY <1>1, PlaceOfIs
  <2> QED BY <2>1
<1>2. ASSUME NEW L, Identified(L), NEW e PROVE RankScore(e, L) \in Nat
  <2>1. PlaceOf(L, e) <= PlaceOf(L, e)
    BY <1>1, <1>2
  <2> QED BY <1>2, <2>1, ScoresFollowPlaces
<1>3. ASSUME Ahead(D, K, c, d)
      PROVE  PlaceOf(D, c) <= PlaceOf(D, d) /\ PlaceOf(K, c) <= PlaceOf(K, d)
  <2> DEFINE dc == PlaceOf(D, c)
             dd == PlaceOf(D, d)
             kc == PlaceOf(K, c)
             kd == PlaceOf(K, d)
  <2>1. dc \in Int /\ dd \in Int /\ kc \in Int /\ kd \in Int
    BY <1>1
  <2>2. (dc < dd /\ kc <= kd) \/ (kc < kd /\ dc <= dd)
    BY <1>3, Zenon DEF Ahead
  <2> HIDE DEF dc, dd, kc, kd
  <2>3. dc <= dd /\ kc <= kd
    BY <2>1, <2>2
  <2> QED BY <2>3 DEF dc, dd, kc, kd
<1>4. ASSUME Ahead(D, K, c, d)
      PROVE  RankScore(d, D) <= RankScore(c, D) /\ RankScore(d, K) <= RankScore(c, K)
  BY <1>3, <1>4, ScoresFollowPlaces
<1> DEFINE dc == RankScore(c, D)
           dd == RankScore(d, D)
           kc == RankScore(c, K)
           kd == RankScore(d, K)
<1>5. dc \in Nat /\ dd \in Nat /\ kc \in Nat /\ kd \in Nat
  BY <1>2
<1>6. Ahead(D, K, c, d) => dd <= dc /\ kd <= kc
  BY <1>4
<1> HIDE DEF dc, dd, kc, kd
<1>7. dc + kc \in Int /\ (Ahead(D, K, c, d) => dc + kc >= dd + kd)
  BY <1>5, <1>6
<1> QED BY <1>7 DEF dc, dd, kc, kd

\* Whatever the two lists are, their fusion keeps the order both agree on.
LEMMA FusionKeepsOrder ==
    ASSUME NEW D, Identified(D), NEW K, Identified(K), NEW k \in Nat
    PROVE  FusionRespectsBoth(D, K, Fuse(D, K, k))
<1> DEFINE a == Both(D, K)
           n == Len(a)
<1>1. /\ n \in Nat /\ DOMAIN a = 1..n
      /\ \A i, j \in 1..n : a[i].id = a[j].id => i = j
      /\ \A c \in ToSet(D) \cup ToSet(K) : \E i \in 1..n : a[i].id = c.id
      /\ \A i, j \in 1..n : Ahead(D, K, a[i].id, a[j].id) => i < j
  <2>1. Agreeing(D, K, a)
    BY BothIs
  <2> HIDE DEF a
  <2> QED BY <2>1 DEF Agreeing
<1> DEFINE rows == FusedRows(D, K)
           v == [i \in DOMAIN rows |-> rows[i].score]
           best == TopK(Placed(rows, Ranks(v)), k)
           m == IF k < n THEN k ELSE n
           f == Fuse(D, K, k)
           Score(c) == RankScore(c, D) + RankScore(c, K)
<1>2. /\ rows \in Seq(ToSet(rows)) /\ Len(rows) = n /\ DOMAIN rows = 1..n
      /\ \A i \in 1..n : rows[i].id = a[i].id /\ rows[i].score = Score(a[i].id)
  <2>1. rows = [i \in 1..n |-> [id |-> a[i].id, text |-> a[i].text, meta |-> a[i].meta,
                                score |-> Score(a[i].id)]]
    BY <1>1, Zenon DEF FusedRows
  <2> HIDE DEF rows, n, a, Score
  <2>2. rows = [i \in 1..n |-> rows[i]]
    BY <2>1
  <2>3. rows \in Seq(ToSet(rows)) /\ Len(rows) = n /\ DOMAIN rows = 1..n
    BY <1>1, <2>2, SeqOfItself
  <2> QED BY <2>1, <2>3
<1>3. \A c, d : Score(c) \in Int /\ (Ahead(D, K, c, d) => Score(c) >= Score(d))
  BY AheadScores
<1>4. f = Retrieved(best, "hybrid")
  BY FuseIs, Zenon
<1> HIDE DEF a, n, rows, f, Score
<1>5. v \in [1..Len(rows) -> Int] /\ \A i \in 1..n : v[i] = Score(a[i].id)
  BY <1>2, <1>3
<1> HIDE DEF v
<1>6. /\ Placed(rows, Ranks(v)) \in Seq(ToSet(rows)) /\ Len(Placed(rows, Ranks(v))) = n
  BY <1>2, <1>5, PlacedIs
<1>7. PICK p \in [1..n -> 1..n] :
        /\ \A i \in 1..n : Placed(rows, Ranks(v))[i] = rows[p[i]]
        /\ \A i \in 1..n : \E j \in 1..n : p[j] = i
        /\ \A i, j \in 1..n : i < j => Before(v, p[i], p[j])
  <2>1. \E p \in [1..Len(rows) -> 1..Len(rows)] :
           /\ \A i \in 1..Len(rows) : Placed(rows, Ranks(v))[i] = rows[p[i]]
           /\ \A i \in 1..Len(rows) : \E j \in 1..Len(rows) : p[j] = i
           /\ \A i, j \in 1..Len(rows) : i < j => Before(v, p[i], p[j])
    BY <1>2, <1>5, SortedIs
  <2> QED BY <1>2, <2>1
<1>8. /\ m \in Nat /\ m <= n /\ DOMAIN best = 1..m
      /\ \A i \in 1..m : best[i] = Placed(rows, Ranks(v))[i]
  BY <1>6, FirstOf
<1> HIDE DEF m, best
<1>9. DOMAIN f = 1..m /\ \A i \in 1..m : f[i].id = a[p[i]].id /\ i \in 1..n /\ p[i] \in 1..n
  <2>1. DOMAIN f = 1..m /\ \A i \in 1..m : f[i].id = best[i].id
    BY <1>4, <1>8 DEF Retrieved
  <2>2. \A i \in 1..m : i \in 1..n /\ p[i] \in 1..n
    <3>1. \A i \in 1..m : i \in 1..n
      BY <1>1, <1>8
    <3> QED BY <1>7, <3>1
  <2>3. ASSUME NEW i \in 1..m PROVE f[i].id = a[p[i]].id
    <3>1. f[i].id = best[i].id /\ best[i] = Placed(rows, Ranks(v))[i] /\ i \in 1..n /\ p[i] \in 1..n
      BY <1>8, <2>1, <2>2
    <3>2. Placed(rows, Ranks(v))[i] = rows[p[i]] /\ rows[p[i]].id = a[p[i]].id
      BY <1>2, <1>7, <3>1
    <3> QED BY <3>1, <3>2
  <2> QED BY <2>1, <2>2, <2>3
\* Places that are sorted otherwise are different.
<1>10. \A i, j \in 1..n : ~Before(v, i, i) /\ ~(Before(v, i, j) /\ Before(v, j, i))
  <2>1. \A i \in 1..n : v[i] \in Int
    BY <1>2, <1>5
  <2> QED BY <1>1, <2>1 DEF Before
<1>11. ASSUME NEW i \in 1..m, NEW j \in 1..m, f[i].id = f[j].id PROVE i = j
  <2>1. p[i] = p[j] /\ i \in 1..n /\ j \in 1..n /\ p[i] \in 1..n
    <3>1. i \in 1..n /\ j \in 1..n /\ p[i] \in 1..n /\ p[j] \in 1..n
      BY <1>9
    <3>2. a[p[i]].id = a[p[j]].id
      BY <1>9, <1>11, Zenon
    <3> QED BY <1>1, <3>1, <3>2, Zenon
  <2>2. ~(i < j) /\ ~(j < i)
    BY <1>7, <1>10, <2>1
  <2> QED BY <1>1, <2>1, <2>2
<1>12. ASSUME NEW i \in 1..m, NEW c \in ToSet(D) \cup ToSet(K), Ahead(D, K, c.id, f[i].id)
       PROVE  PlaceOf(f, c.id) < i
  <2>1. PICK q \in 1..n : a[q].id = c.id
    BY <1>1
  <2>2. i \in 1..n /\ p[i] \in 1..n /\ f[i].id = a[p[i]].id
    BY <1>9
  <2>3. q < p[i] /\ Score(a[q].id) >= Score(a[p[i]].id)
    BY <1>1, <1>3, <1>12, <2>1, <2>2
  <2>4. Before(v, q, p[i])
    <3>1. v[q] = Score(a[q].id) /\ v[p[i]] = Score(a[p[i]].id) /\ v[q] \in Int /\ v[p[i]] \in Int
      BY <1>3, <1>5, <2>1, <2>2
    <3> QED BY <2>3, <3>1 DEF Before
  <2>5. PICK j \in 1..n : p[j] = q
    BY <1>7, <2>1
  <2>6. j < i
    <3>1. j # i
      BY <1>10, <2>2, <2>4, <2>5
    <3>2. ~(i < j)
      BY <1>7, <1>10, <2>1, <2>2, <2>4, <2>5
    <3> QED BY <1>1, <2>2, <2>5, <3>1, <3>2
  <2>7. j \in 1..m /\ f[j].id = c.id
    <3>1. j \in 1..m
      BY <1>1, <1>8, <2>5, <2>6
    <3> QED BY <1>9, <2>1, <2>5, <3>1
  <2> DEFINE w == CHOOSE l \in DOMAIN f : f[l].id = c.id
  <2>8. w \in DOMAIN f /\ f[w].id = c.id
    BY <1>9, <2>7
  <2>9. w = j
    <3> HIDE DEF w
    <3> QED BY <1>9, <1>11, <2>7, <2>8
  <2>10. PlaceOf(f, c.id) = w
    BY <1>9, <2>7 DEF PlaceOf
  <2> QED BY <2>6, <2>9, <2>10
<1> QED BY <1>9, <1>11, <1>12, Zenon DEF FusionRespectsBoth, Ahead, f

------------------------------------------------------------------------------
\* What the retrievers return.

\* A list of elements of different ids.
Unique(s) == \A i, j \in 1..Len(s) : s[i].id = s[j].id => i = j

\* What is taken from a list of different ids has different ids.
LEMMA TakesUnique ==
    ASSUME NEW A, NEW s \in Seq(A), NEW t \in Seq(A), Unique(s), Takes(t, s)
    PROVE  Unique(t)
<1>1. PICK p \in [1..Len(t) -> 1..Len(s)] :
        /\ \A i, j \in 1..Len(t) : p[i] = p[j] => i = j
        /\ \A i \in 1..Len(t) : t[i] = s[p[i]]
  BY DEF Takes, Taken
<1>2. ASSUME NEW i \in 1..Len(t), NEW j \in 1..Len(t), t[i].id = t[j].id PROVE i = j
  <2>1. s[p[i]].id = s[p[j]].id /\ p[i] \in 1..Len(s) /\ p[j] \in 1..Len(s)
    BY <1>1, <1>2
  <2> QED BY <1>1, <2>1 DEF Unique
<1> QED BY <1>2 DEF Unique

\* A list of the same ids has different ids as well.
LEMMA SameIdsUnique ==
    ASSUME NEW s, NEW t, Len(s) = Len(t), \A i \in 1..Len(s) : t[i].id = s[i].id, Unique(s)
    PROVE  Unique(t)
BY DEF Unique

\* Ranked and named, a list of different ids is one of different ids.
LEMMA RetrievedIdentified ==
    ASSUME NEW A, NEW s \in Seq(A), Unique(s), NEW name
    PROVE  Identified(Retrieved(s, name))
<1> DEFINE n == Len(s)
           r == Retrieved(s, name)
<1>1. n \in Nat /\ DOMAIN s = 1..n
  OBVIOUS
<1>2. r = [k \in 1..n |-> [id |-> s[k].id, text |-> s[k].text, meta |-> s[k].meta,
                           score |-> s[k].score, rank |-> k, retriever |-> name]]
  BY <1>1, Zenon DEF Retrieved
<1>3. r = [k \in 1..n |-> r[k]] /\ \A k \in 1..n : r[k].id = s[k].id
  <2> HIDE DEF n, r
  <2> QED BY <1>2
<1> HIDE DEF r
<1>4. r \in Seq(ToSet(r)) /\ Len(r) = n /\ DOMAIN r = 1..n
  <2> HIDE DEF n
  <2> QED BY <1>1, <1>3, SeqOfItself
<1>5. Unique(r)
  BY <1>3, <1>4, SameIdsUnique
<1>6. Identified(r)
  <2> HIDE DEF n
  <2> QED BY <1>4, <1>5 DEF Identified, Unique
<1> QED BY <1>6 DEF r

\* What is kept of a list, placed by integer scores and cut, is from the list.
LEMMA BestUnique ==
    ASSUME NEW A, NEW rows \in Seq(A), Unique(rows), NEW v \in [1..Len(rows) -> Int]
    PROVE  /\ Placed(rows, Ranks(v)) \in Seq(A)
           /\ Unique(Placed(rows, Ranks(v)))
BY PlacedIs, TakesUnique

Matching(chunks, filter) == Kept(chunks, {i \in DOMAIN chunks : MatchesFilter(chunks[i], filter)})
DenseRows(s) == [i \in DOMAIN s |-> [id |-> s[i].id, text |-> s[i].text, meta |-> s[i].meta,
                                     score |-> s[i].sim]]

\* Dense retrieval takes the k best rows of the chunks that pass the filter.
LEMMA DenseIs ==
    ASSUME NEW chunks, NEW k, NEW filter
    PROVE  LET rows == DenseRows(Matching(chunks, filter))
               v == [i \in DOMAIN rows |-> rows[i].score]
           IN  DenseRetrieve(chunks, k, filter) = Retrieved(TopK(Placed(rows, Ranks(v)), k), "dense")
BY Zenon DEF DenseRetrieve, DenseRows, Matching, Where, Scored, SortedBy, Placed

\* A corpus to search: chunks of different ids.
Indexable(chunks) ==
    /\ chunks \in Seq(ToSet(chunks))
    /\ Unique(chunks)

\* The vector index returns different chunks.
LEMMA DenseIdentified ==
    ASSUME NEW chunks, Indexable(chunks), \A i \in DOMAIN chunks : chunks[i].sim \in Int,
           NEW k \in Nat, NEW filter
    PROVE  Identified(DenseRetrieve(chunks, k, filter))
<1> DEFINE m == Matching(chunks, filter)
           n == Len(m)
           rows == DenseRows(m)
           v == [i \in DOMAIN rows |-> rows[i].score]
<1>1. /\ chunks \in Seq(ToSet(chunks)) /\ Unique(chunks) /\ DOMAIN chunks = 1..Len(chunks)
  BY DEF Indexable
<1>2. /\ m \in Seq(ToSet(chunks)) /\ Takes(m, chunks)
      /\ n \in Nat /\ DOMAIN m = 1..n
      /\ \A i \in DOMAIN m : m[i].sim \in Int
  <2> DEFINE I == {i \in DOMAIN chunks : MatchesFilter(chunks[i], filter)}
  <2>1. I \in SUBSET (1..Len(chunks)) /\ m = Kept(chunks, I)
    BY <1>1 DEF Matching
  <2> HIDE DEF I, m
  <2>2. m \in Seq(ToSet(chunks)) /\ Takes(m, chunks)
    BY <1>1, <2>1, KeptTakes
  <2>3. \A i \in DOMAIN m : \E p \in I : m[i] = chunks[p]
    BY <1>1, <2>1, KeptElements
  <2> QED BY <1>1, <2>1, <2>2, <2>3
<1>3. Unique(m)
  BY <1>1, <1>2, TakesUnique
<1>4. rows = [i \in 1..n |-> [id |-> m[i].id, text |-> m[i].text, meta |-> m[i].meta, score |-> m[i].sim]]
  BY <1>2, Zenon DEF DenseRows
<1>5. DenseRetrieve(chunks, k, filter) = Retrieved(TopK(Placed(rows, Ranks(v)), k), "dense")
  BY DenseIs, Zenon
<1> HIDE DEF m, n, rows
<1>6. rows = [i \in 1..n |-> rows[i]] /\ \A i \in 1..n : rows[i].id = m[i].id /\ rows[i].score = m[i].sim
  BY <1>4
<1>7. rows \in Seq(ToSet(rows)) /\ Len(rows) = n /\ DOMAIN rows = 1..n
  BY <1>2, <1>6, SeqOfItself
<1>8. Unique(rows)
  BY <1>3, <1>6, <1>7, SameIdsUnique DEF n
<1>9. v \in [1..Len(rows) -> Int]
  BY <1>2, <1>6, <1>7
<1> HIDE DEF v
<1> DEFINE t == Placed(rows, Ranks(v))
<1>10. t \in Seq(ToSet(rows)) /\ Unique(t)
  BY <1>7, <1>8, <1>9, BestUnique
<1> HIDE DEF t
<1>11. TopK(t, k) \in Seq(ToSet(rows)) /\ Unique(TopK(t, k))
  BY <1>10, TopKIs, TakesUnique
<1> QED BY <1>5, <1>11, RetrievedIdentified DEF t

\* The sums of BM25: the lengths of the chunks, and what the terms of a query gain.
LengthSums(f, index) ==
    f = [d \in SUBSET DOMAIN index |->
            IF d = {} THEN 0 ELSE Len(index[Some(d)].text) + f[d \ {Some(d)}]]
TotalLength(index) == (CHOOSE f : LengthSums(f, index))[DOMAIN index]
Gain(index, doc, total, term) ==
    IF Count(term, doc.text) = 0 THEN 0
    ELSE ((1 + Len(index) - DocFreq(index, term)) * 20 * Count(term, doc.text) * total * Scale)
           \div (8 * total * Count(term, doc.text) + 3 * total + 9 * Len(doc.text) * Len(index))
GainSums(f, index, query, doc, total) ==
    f = [d \in SUBSET DOMAIN query |->
            IF d = {} THEN 0 ELSE Gain(index, doc, total, query[Some(d)]) + f[d \ {Some(d)}]]

\* The BM25 score, as the value of the sum of the gains of the query's terms.
LEMMA BM25Is ==
    ASSUME NEW index, NEW query, NEW doc
    PROVE  BM25(index, query, doc)
              = (CHOOSE f : GainSums(f, index, query, doc, TotalLength(index)))[DOMAIN query]
BY Zenon DEF BM25, MapThenSumSet, MapThenFoldSet, GainSums, Gain, TotalLength, LengthSums, Some

\* A sum of naturals over the places of a list is natural.
LEMMA SumsNatural ==
    ASSUME NEW n \in Nat, NEW w \in [1..n -> Nat], NEW g, g = CHOOSE f : SumsOf(f, w, n)
    PROVE  g[1..n] \in Nat
<1>1. SumsOf(g, w, n)
  <2>1. \E f : SumsOf(f, w, n)
    BY SumsAreWeights
  <2> QED BY <2>1, Zenon
<1>2. g[1..n] = Weight(w, 1..n)
  BY <1>1, SumsWeigh
<1>3. 1..n \in SUBSET (1..n)
  OBVIOUS
<1> QED BY <1>2, <1>3, PairsFinite

\* The chunks have a total length.
LEMMA TotalLengthType ==
    ASSUME NEW index, NEW n \in Nat, DOMAIN index = 1..n,
           \A i \in 1..n : Len(index[i].text) \in Nat
    PROVE  TotalLength(index) \in Nat
<1> DEFINE w == [i \in 1..n |-> Len(index[i].text)]
<1>1. w \in [1..n -> Nat]
  OBVIOUS
<1>2. \A d \in SUBSET (1..n) : d # {} => Some(d) \in 1..n /\ w[Some(d)] = Len(index[Some(d)].text)
  BY DEF Some
<1> HIDE DEF w
<1>3. ASSUME NEW f PROVE LengthSums(f, index) <=> SumsOf(f, w, n)
  <2> DEFINE g == [d \in SUBSET (1..n) |->
                     IF d = {} THEN 0 ELSE Len(index[Some(d)].text) + f[d \ {Some(d)}]]
             h == [d \in SUBSET (1..n) |-> IF d = {} THEN 0 ELSE w[Some(d)] + f[d \ {Some(d)}]]
  <2>1. \A d \in SUBSET (1..n) : g[d] = h[d]
    BY <1>2
  <2>2. g = [d \in SUBSET (1..n) |-> g[d]] /\ h = [d \in SUBSET (1..n) |-> h[d]]
    OBVIOUS
  <2>3. g = h
    <3> HIDE DEF g, h
    <3> QED BY <2>1, <2>2, Zenon
  <2>4. LengthSums(f, index) <=> f = g
    <3>1. DOMAIN index = 1..n
      OBVIOUS
    <3> QED BY <3>1, Zenon DEF LengthSums
  <2>5. SumsOf(f, w, n) <=> f = h
    BY Zenon DEF SumsOf
  <2> QED BY <2>3, <2>4, <2>5
<1>4. TotalLength(index) = (CHOOSE f : SumsOf(f, w, n))[1..n]
  <2>1. (CHOOSE f : LengthSums(f, index)) = (CHOOSE f : SumsOf(f, w, n))
    BY <1>3, Zenon
  <2> QED BY <2>1, Zenon DEF TotalLength
<1> QED BY <1>1, <1>4, SumsNatural

\* A term gains a natural number in a chunk with a text.
LEMMA GainType ==
    ASSUME NEW index, Len(index) \in Nat \ {0}, DOMAIN index = 1..Len(index),
           NEW doc, doc.text \in Seq(ToSet(doc.text)), doc.text # <<>>,
           NEW total \in Nat, NEW term
    PROVE  Gain(index, doc, total, term) \in Nat
<1> DEFINE n == Len(index)
           tf == Count(term, doc.text)
           df == DocFreq(index, term)
           l == Len(doc.text)
<1>1. n \in Nat \ {0} /\ l \in Nat \ {0}
  OBVIOUS
<1>2. tf \in Nat
  <2> DEFINE I == {i \in DOMAIN doc.text : doc.text[i] = term}
  <2>1. I \in SUBSET (1..Len(doc.text))
    OBVIOUS
  <2>2. tf = Len(Kept(doc.text, I))
    BY Zenon DEF Count, Where
  <2> HIDE DEF I, tf
  <2> QED BY <2>1, <2>2, KeptCount
<1>3. df \in Nat /\ df <= n
  <2> DEFINE I == {i \in DOMAIN index : term \in ToSet(index[i].text)}
  <2>1. I \in SUBSET (1..n)
    OBVIOUS
  <2>2. IsFiniteSet(1..n) /\ Cardinality(1..n) = n
    BY UpToIsFinite
  <2> HIDE DEF I, n
  <2>3. IsFiniteSet(I) /\ Cardinality(I) <= Cardinality(1..n)
    BY <2>1, <2>2, FS_Subset
  <2>4. df = Cardinality(I)
    BY DEF DocFreq, I
  <2> QED BY <2>2, <2>3, <2>4, FS_CardinalityType
<1>4. Gain(index, doc, total, term) =
        IF tf = 0 THEN 0 ELSE ((1 + n - df) * 20 * tf * total * Scale)
                                \div (8 * total * tf + 3 * total + 9 * l * n)
  BY Zenon DEF Gain
<1> HIDE DEF n, tf, df, l
<1> DEFINE a == (1 + n - df) * 20 * tf * total * Scale
           b == 8 * total * tf + 3 * total + 9 * l * n
<1>5. \A p, q \in Nat : p * q \in Nat
  OBVIOUS
<1>6. a \in Nat
  <2>1. 1 + n - df \in Nat /\ 20 \in Nat /\ Scale \in Nat
    BY <1>1, <1>3, ScalePositive
  <2> DEFINE u == 1 + n - df
  <2> HIDE DEF u
  <2>2. u * 20 \in Nat
    BY <2>1 DEF u
  <2>3. u * 20 * tf \in Nat
    BY <1>2, <1>5, <2>2
  <2>4. u * 20 * tf * total \in Nat
    BY <1>5, <2>3
  <2>5. u * 20 * tf * total * Scale \in Nat
    BY <1>5, <2>1, <2>4
  <2> QED BY <2>5 DEF u
<1>7. b \in Nat \ {0}
  <2>1. 8 * total * tf \in Nat
    BY <1>2, <1>5
  <2>2. l * n \in Nat /\ l * n # 0
    <3>1. 1 * n <= l * n /\ 1 * n \in Int /\ l * n \in Int
      BY <1>1, TimesKeepsOrder
    <3> QED BY <1>1, <3>1
  <2>3. 9 * l * n = 9 * (l * n)
    BY <1>1
  <2> DEFINE u == 8 * total * tf
             w == l * n
  <2>4. b = u + 3 * total + 9 * w
    BY <2>3
  <2> HIDE DEF u, w, b
  <2>5. u \in Nat /\ w \in Nat \ {0}
    BY <2>1, <2>2 DEF u, w
  <2> QED BY <2>4, <2>5
<1>8. a \div b \in Nat
  <2> HIDE DEF a, b
  <2> QED BY <1>6, <1>7, Quotient
<1> QED BY <1>4, <1>8

\* Scores of chunks with texts are natural numbers.
LEMMA BM25Type ==
    ASSUME NEW index, Len(index) \in Nat, DOMAIN index = 1..Len(index),
           \A i \in DOMAIN index : index[i].text \in Seq(ToSet(index[i].text)) /\ index[i].text # <<>>,
           NEW i \in DOMAIN index, NEW query, query \in Seq(ToSet(query))
    PROVE  BM25(index, query, index[i]) \in Nat
<1> DEFINE n == Len(query)
           total == TotalLength(index)
           doc == index[i]
           w == [j \in 1..n |-> Gain(index, doc, total, query[j])]
<1>1. n \in Nat /\ DOMAIN query = 1..n
  OBVIOUS
<1>2. total \in Nat
  <2>1. \A j \in 1..Len(index) : Len(index[j].text) \in Nat
    OBVIOUS
  <2> QED BY <2>1, TotalLengthType
<1>3. Len(index) \in Nat \ {0} /\ doc.text \in Seq(ToSet(doc.text)) /\ doc.text # <<>>
  OBVIOUS
<1>4. BM25(index, query, doc) = (CHOOSE f : GainSums(f, index, query, doc, total))[1..n]
  BY <1>1, BM25Is, Zenon
<1> HIDE DEF total, doc, n
<1>5. ASSUME NEW j \in 1..n PROVE Gain(index, doc, total, query[j]) \in Nat
  BY <1>2, <1>3, GainType
<1>6. w \in [1..n -> Nat]
  BY <1>5
<1>7. \A d \in SUBSET (1..n) : d # {} => w[Some(d)] = Gain(index, doc, total, query[Some(d)])
  BY DEF Some
<1> HIDE DEF w
<1>8. ASSUME NEW f PROVE GainSums(f, index, query, doc, total) <=> SumsOf(f, w, n)
  <2> DEFINE g == [d \in SUBSET (1..n) |->
                     IF d = {} THEN 0 ELSE Gain(index, doc, total, query[Some(d)]) + f[d \ {Some(d)}]]
             h == [d \in SUBSET (1..n) |-> IF d = {} THEN 0 ELSE w[Some(d)] + f[d \ {Some(d)}]]
  <2>1. \A d \in SUBSET (1..n) : g[d] = h[d]
    BY <1>7
  <2>2. g = [d \in SUBSET (1..n) |-> g[d]] /\ h = [d \in SUBSET (1..n) |-> h[d]]
    OBVIOUS
  <2>3. g = h
    <3> HIDE DEF g, h
    <3> QED BY <2>1, <2>2, Zenon
  <2>4. GainSums(f, index, query, doc, total) <=> f = g
    BY <1>1, Zenon DEF GainSums
  <2>5. SumsOf(f, w, n) <=> f = h
    BY Zenon DEF SumsOf
  <2> QED BY <2>3, <2>4, <2>5
<1>9. (CHOOSE f : GainSums(f, index, query, doc, total)) = (CHOOSE f : SumsOf(f, w, n))
  BY <1>8, Zenon
<1>10. (CHOOSE f : SumsOf(f, w, n))[1..n] \in Nat
  BY <1>1, <1>6, SumsNatural
<1> QED BY <1>4, <1>9, <1>10 DEF doc

KeywordRows(chunks, query) ==
    LET index == Kept(chunks, {i \in DOMAIN chunks : chunks[i].text # <<>>})
    IN  [i \in DOMAIN index |-> [id |-> index[i].id, text |-> index[i].text,
                                 meta |-> index[i].meta, score |-> BM25(index, query, index[i])]]
Positive(rows) == Kept(rows, {i \in DOMAIN rows : rows[i].score > 0})

\* Keyword search returns the rows with a positive score in the order of their scores.
LEMMA SearchIs ==
    ASSUME NEW chunks, NEW query
    PROVE  LET rows == Positive(KeywordRows(chunks, query))
               v == [i \in DOMAIN rows |-> rows[i].score]
           IN  Search(chunks, query) = Placed(rows, Ranks(v))
BY Zenon DEF Search, Indexed, KeywordRows, Positive, Where, Scored, SortedBy, Placed

\* Keyword retrieval filters what the search found and takes the first k.
LEMMA KeywordIs ==
    ASSUME NEW chunks, NEW query, NEW k, NEW filter
    PROVE  KeywordRetrieve(chunks, query, k, filter)
              = Retrieved(TopK(Matching(Search(chunks, query), filter), k), "keyword")
BY Zenon DEF KeywordRetrieve, Matching, Where

\* The keyword index returns different chunks.
LEMMA KeywordIdentified ==
    ASSUME NEW chunks, Indexable(chunks),
           \A i \in DOMAIN chunks : chunks[i].text \in Seq(ToSet(chunks[i].text)),
           NEW query, query \in Seq(ToSet(query)), NEW k \in Nat, NEW filter
    PROVE  Identified(KeywordRetrieve(chunks, query, k, filter))
<1> DEFINE I == {i \in DOMAIN chunks : chunks[i].text # <<>>}
           index == Kept(chunks, I)
           n == Len(index)
           rows == KeywordRows(chunks, query)
           J == {i \in DOMAIN rows : rows[i].score > 0}
           some == Positive(rows)
           v == [i \in DOMAIN some |-> some[i].score]
           s == Search(chunks, query)
           M == {i \in DOMAIN s : MatchesFilter(s[i], filter)}
           got == Matching(s, filter)
<1>1. /\ chunks \in Seq(ToSet(chunks)) /\ Unique(chunks) /\ DOMAIN chunks = 1..Len(chunks)
  BY DEF Indexable
<1>2. /\ index \in Seq(ToSet(chunks)) /\ Takes(index, chunks)
      /\ n \in Nat /\ DOMAIN index = 1..n
      /\ \A i \in DOMAIN index : index[i].text \in Seq(ToSet(index[i].text)) /\ index[i].text # <<>>
  <2>1. I \in SUBSET (1..Len(chunks))
    BY <1>1
  <2>2. \A p \in I : chunks[p].text \in Seq(ToSet(chunks[p].text)) /\ chunks[p].text # <<>>
    OBVIOUS
  <2> HIDE DEF I
  <2>3. index \in Seq(ToSet(chunks)) /\ Takes(index, chunks)
    BY <1>1, <2>1, KeptTakes
  <2>4. n \in Nat /\ DOMAIN index = 1..n /\ \A i \in DOMAIN index : \E p \in I : index[i] = chunks[p]
    BY <1>1, <2>1, KeptElements
  <2> HIDE DEF index, n
  <2> QED BY <2>2, <2>3, <2>4
<1>3. Unique(index)
  BY <1>1, <1>2, TakesUnique
<1>4. rows = [i \in DOMAIN index |-> [id |-> index[i].id, text |-> index[i].text,
                  meta |-> index[i].meta, score |-> BM25(index, query, index[i])]]
  BY Zenon DEF KeywordRows
<1>5. s = Placed(some, Ranks(v))
  BY SearchIs, Zenon
<1>6. KeywordRetrieve(chunks, query, k, filter) = Retrieved(TopK(got, k), "keyword")
  BY KeywordIs, Zenon
<1>7. got = Kept(s, M)
  BY Zenon DEF Matching
<1>8. some = Kept(rows, J)
  BY Zenon DEF Positive
<1> HIDE DEF index, n, rows, s, got, some
<1>9. /\ rows = [i \in 1..n |-> rows[i]]
      /\ \A i \in 1..n : rows[i].id = index[i].id /\ rows[i].score = BM25(index, query, index[i])
  BY <1>2, <1>4
<1>10. rows \in Seq(ToSet(rows)) /\ Len(rows) = n /\ DOMAIN rows = 1..n
  BY <1>2, <1>9, SeqOfItself
<1>11. \A i \in 1..n : rows[i].score \in Nat
  <2>1. \A i \in DOMAIN index : BM25(index, query, index[i]) \in Nat
    BY <1>2, BM25Type DEF n
  <2> QED BY <1>2, <1>9, <2>1
<1>12. Unique(rows)
  BY <1>3, <1>9, <1>10, SameIdsUnique DEF n
<1>13. J \in SUBSET (1..Len(rows))
  BY <1>10
<1>14. /\ some \in Seq(ToSet(rows)) /\ Takes(some, rows) /\ DOMAIN some = 1..Len(some)
       /\ \A i \in DOMAIN some : \E p \in J : some[i] = rows[p]
  <2> HIDE DEF J
  <2>1. some \in Seq(ToSet(rows)) /\ Takes(some, rows)
    BY <1>8, <1>10, <1>13, KeptTakes
  <2>2. DOMAIN some = 1..Len(some) /\ \A i \in DOMAIN some : \E p \in J : some[i] = rows[p]
    BY <1>8, <1>10, <1>13, KeptElements
  <2> QED BY <2>1, <2>2
<1>15. v \in [1..Len(some) -> Int]
  BY <1>10, <1>11, <1>14
<1>16. Unique(some)
  BY <1>10, <1>12, <1>14, TakesUnique
<1> HIDE DEF v, J
<1>17. s \in Seq(ToSet(rows)) /\ Unique(s)
  BY <1>5, <1>14, <1>15, <1>16, BestUnique
<1>18. got \in Seq(ToSet(rows)) /\ Unique(got)
  <2>1. M \in SUBSET (1..Len(s))
    BY <1>17
  <2> HIDE DEF M
  <2>2. got \in Seq(ToSet(rows)) /\ Takes(got, s)
    BY <1>7, <1>17, <2>1, KeptTakes
  <2> QED BY <1>17, <2>2, TakesUnique
<1>19. TopK(got, k) \in Seq(ToSet(rows)) /\ Unique(TopK(got, k))
  BY <1>18, TopKIs, TakesUnique
<1> QED BY <1>6, <1>19, RetrievedIdentified

\* A search of both indices fuses in their order, and its filter loses nothing.
THEOREM SearchHolds ==
    ASSUME NEW index, Indexable(index), \A i \in DOMAIN index : index[i].sim \in Int,
           NEW corpus, Indexable(corpus),
           \A i \in DOMAIN corpus : corpus[i].text \in Seq(ToSet(corpus[i].text)),
           NEW query, query \in Seq(ToSet(query)), NEW k \in Nat, NEW filter
    PROVE  LET dense == DenseRetrieve(index, 2 * k, filter)
               keyword == KeywordRetrieve(corpus, query, 2 * k, filter)
               hybrid == Retrieve(index, corpus, query, "hybrid", k, filter)
           IN  /\ FusionRespectsBoth(dense, keyword, hybrid)
               /\ FilterLosesNothing(keyword, corpus, query, 2 * k, filter)
<1> DEFINE dense == DenseRetrieve(index, 2 * k, filter)
           keyword == KeywordRetrieve(corpus, query, 2 * k, filter)
           hybrid == Retrieve(index, corpus, query, "hybrid", k, filter)
<1>1. 2 * k \in Nat
  OBVIOUS
<1>2. hybrid = Fuse(dense, keyword, k)
  BY Zenon DEF Retrieve, HybridRetrieve
<1>3. Identified(dense) /\ Identified(keyword)
  BY <1>1, DenseIdentified, KeywordIdentified
<1>4. FilterLosesNothing(keyword, corpus, query, 2 * k, filter)
  <2> DEFINE t == TopK(Matching(Search(corpus, query), filter), 2 * k)
  <2>1. keyword = Retrieved(t, "keyword")
    BY KeywordIs, Zenon
  <2>2. FilterLosesNothing(keyword, corpus, query, 2 * k, filter) <=> Ids(keyword) = Ids(t)
    BY Zenon DEF FilterLosesNothing, Matching, Where
  <2> HIDE DEF t, keyword
  <2>3. Ids(keyword) = Ids(t)
    BY <2>1 DEF Ids, Retrieved
  <2> QED BY <2>2, <2>3
<1> HIDE DEF dense, keyword, hybrid
<1>5. FusionRespectsBoth(dense, keyword, hybrid)
  BY <1>2, <1>3, FusionKeepsOrder
<1> QED BY <1>4, <1>5 DEF dense, keyword, hybrid

------------------------------------------------------------------------------
\* Reranking.

\* The rows the model's scores are sorted in.
RerankRows(candidates, scores) ==
    [i \in DOMAIN candidates |-> [chunk |-> candidates[i], score |-> scores[i]]]
RerankedRows(best) ==
    [i \in DOMAIN best |->
        [id |-> best[i].chunk.id, text |-> best[i].chunk.text, meta |-> best[i].chunk.meta,
         retriever |-> best[i].chunk.retriever, score |-> best[i].score, rank |-> i,
         original_rank |-> best[i].chunk.rank, original_score |-> best[i].chunk.score]]

\* Reranking takes the k best rows by the new scores.
LEMMA RerankedAre ==
    ASSUME NEW candidates, NEW scores, NEW k
    PROVE  LET rows == RerankRows(candidates, scores)
               v == [i \in DOMAIN rows |-> rows[i].score]
           IN  Reranked(candidates, scores, k) = RerankedRows(TopK(Placed(rows, Ranks(v)), k))
BY Zenon DEF Reranked, RerankedChunk, RerankRows, RerankedRows, SortedBy, Placed

\* What comes out on place j is the candidate of rank j, under its own score.
RerankedBy(got, candidates, v, r, k) ==
    LET n == Len(candidates)
        m == IF k < n THEN k ELSE n
        p == [j \in 1..n |-> CHOOSE i \in 1..n : r[i] = j]
    IN  /\ DOMAIN got = 1..m
        /\ \A j \in 1..m : got[j].id = candidates[p[j]].id /\ got[j].score = v[p[j]] /\ p[j] \in 1..n

\* The reranked chunks are the candidates in the order of the new scores, cut at k.
LEMMA RerankedIs ==
    ASSUME NEW candidates, candidates \in Seq(ToSet(candidates)),
           NEW v, v \in [1..Len(candidates) -> Int], NEW k \in Nat
    PROVE  RerankedBy(Reranked(candidates, v, k), candidates, v, Ranks(v), k)
<1> DEFINE n == Len(candidates)
           m == IF k < n THEN k ELSE n
           r == Ranks(v)
           p == [j \in 1..n |-> CHOOSE i \in 1..n : r[i] = j]
           rows == RerankRows(candidates, v)
           sorted == Placed(rows, r)
           best == TopK(sorted, k)
<1>1. n \in Nat /\ DOMAIN candidates = 1..n
  OBVIOUS
<1>2. DOMAIN rows = 1..n /\ v = [i \in DOMAIN rows |-> rows[i].score] /\ rows \in Seq(ToSet(rows)) /\ Len(rows) = n
  <2>1. DOMAIN rows = 1..n /\ \A i \in DOMAIN rows : rows[i].score = v[i]
    BY <1>1 DEF RerankRows
  <2>2. v = [i \in 1..n |-> v[i]]
    OBVIOUS
  <2>3. [i \in DOMAIN rows |-> rows[i].score] = [i \in 1..n |-> v[i]]
    BY <2>1
  <2>4. rows \in Seq(ToSet(rows)) /\ Len(rows) = n
    <3>1. rows = [i \in 1..n |-> rows[i]]
      BY <2>1 DEF RerankRows
    <3> HIDE DEF rows, n
    <3>2. \A i \in 1..n : rows[i] \in ToSet(rows)
      BY <2>1 DEF ToSet
    <3>3. [i \in 1..n |-> rows[i]] \in [1..n -> ToSet(rows)]
      BY <3>2
    <3>4. rows \in [1..n -> ToSet(rows)]
      BY <3>1, <3>3, Zenon
    <3> QED BY <1>1, <3>4
  <2> QED BY <2>1, <2>2, <2>3, <2>4, Zenon
<1>3. Reranked(candidates, v, k) = RerankedRows(best)
  <2>1. Reranked(candidates, v, k)
          = RerankedRows(TopK(Placed(rows, Ranks([i \in DOMAIN rows |-> rows[i].score])), k))
    BY RerankedAre
  <2> HIDE DEF rows
  <2> QED BY <1>2, <2>1, Zenon
<1>4. \A j \in 1..n : p[j] \in 1..n
  <2>1. \A j \in 1..n : \E i \in 1..n : r[i] = j
    BY <1>1, RanksAre
  <2> QED BY <2>1, Zenon
<1>5. DOMAIN sorted = 1..n /\ \A j \in 1..n : sorted[j] = rows[p[j]]
  <2> HIDE DEF rows, r
  <2>1. sorted = [j \in 1..n |-> rows[CHOOSE i \in 1..n : r[i] = j]]
    <3>1. sorted = [j \in DOMAIN rows |-> rows[CHOOSE i \in DOMAIN rows : r[i] = j]]
      BY Zenon DEF Placed
    <3> HIDE DEF sorted
    <3> QED BY <1>2, <3>1
  <2>2. \A j \in 1..n : p[j] = CHOOSE i \in 1..n : r[i] = j
    BY Zenon
  <2> HIDE DEF sorted, p
  <2> QED BY <2>1, <2>2
<1>6. sorted \in Seq(ToSet(rows)) /\ Len(sorted) = n
  BY <1>1, <1>2, PlacedIs
<1>7. m \in Nat /\ m <= n /\ DOMAIN best = 1..m /\ \A j \in 1..m : best[j] = sorted[j]
  <2> HIDE DEF sorted, rows
  <2>1. LET l == IF k < Len(sorted) THEN k ELSE Len(sorted)
        IN  /\ l \in Nat /\ l <= Len(sorted)
            /\ DOMAIN TopK(sorted, k) = 1..l
            /\ \A i \in 1..l : TopK(sorted, k)[i] = sorted[i]
    BY <1>6, FirstOf
  <2> HIDE DEF n
  <2> QED BY <1>6, <2>1
<1>8. \A i \in 1..n : rows[i].chunk.id = candidates[i].id /\ rows[i].score = v[i]
  BY <1>1 DEF RerankRows
<1> HIDE DEF n, m, r, p, rows, sorted, best
<1>9. ASSUME NEW j \in 1..m
      PROVE  /\ RerankedRows(best)[j].id = candidates[p[j]].id
             /\ RerankedRows(best)[j].score = v[p[j]]
             /\ p[j] \in 1..n
  <2>1. j \in 1..n /\ p[j] \in 1..n
    BY <1>1, <1>4, <1>7
  <2>2. best[j] = rows[p[j]]
    BY <1>5, <1>7, <2>1
  <2>3. RerankedRows(best)[j].id = best[j].chunk.id /\ RerankedRows(best)[j].score = best[j].score
    BY <1>7 DEF RerankedRows
  <2> QED BY <1>8, <2>1, <2>2, <2>3
<1>10. DOMAIN RerankedRows(best) = 1..m
  BY <1>7 DEF RerankedRows
<1>11. DOMAIN Reranked(candidates, v, k) = 1..m
       /\ \A j \in 1..m : /\ Reranked(candidates, v, k)[j].id = candidates[p[j]].id
                           /\ Reranked(candidates, v, k)[j].score = v[p[j]] /\ p[j] \in 1..n
  BY <1>3, <1>9, <1>10, Zenon
<1> QED BY <1>11, Zenon DEF RerankedBy, n, m, p, r

\* A list of numbers has a least one, and a greatest.
LEMMA LeastOfMany ==
    ASSUME NEW n \in Nat \ {0}, NEW v \in [1..n -> Int]
    PROVE  \E j \in 1..n : \A i \in 1..n : v[j] <= v[i]
<1> DEFINE P == {m \in Nat : m >= 1 /\ m <= n => \E j \in 1..m : \A i \in 1..m : v[j] <= v[i]}
<1>1. 0 \in P
  OBVIOUS
<1>2. ASSUME NEW m \in P PROVE m + 1 \in P
  <2>1. SUFFICES ASSUME m + 1 <= n
                 PROVE  \E j \in 1..(m + 1) : \A i \in 1..(m + 1) : v[j] <= v[i]
    OBVIOUS
  <2>2. m \in Nat /\ m + 1 \in 1..n /\ v[m + 1] \in Int
    BY <2>1
  <2>3. CASE m = 0
    BY <2>2, <2>3
  <2>4. CASE m # 0
    <3>1. PICK j \in 1..m : \A i \in 1..m : v[j] <= v[i]
      BY <2>1, <2>2, <2>4
    <3>2. v[j] \in Int /\ \A i \in 1..(m + 1) : i \in 1..m \/ i = m + 1
      BY <2>1, <2>2
    <3>3. CASE v[j] <= v[m + 1]
      <4>1. \A i \in 1..(m + 1) : v[j] <= v[i]
        BY <3>1, <3>2, <3>3
      <4>2. j \in 1..(m + 1)
        BY <2>2
      <4> QED BY <4>1, <4>2
    <3>4. CASE v[m + 1] < v[j]
      <4>1. \A i \in 1..m : v[i] \in Int
        BY <2>1, <2>2
      <4>2. \A i \in 1..(m + 1) : v[m + 1] <= v[i]
        BY <2>2, <3>1, <3>2, <3>4, <4>1
      <4> QED BY <2>2, <4>2
    <3> QED BY <2>2, <3>2, <3>3, <3>4
  <2> QED BY <2>3, <2>4
<1>3. P = Nat
  <2> HIDE DEF P
  <2>1. P \in SUBSET Nat
    BY DEF P
  <2> QED BY <1>1, <1>2, <2>1, NaturalsBySteps
<1>4. n \in P
  BY <1>3
<1> QED BY <1>4

\* The smallest and the largest of a nonempty sequence of scores are among them and bound them.
LEMMA ExtremesAre ==
    ASSUME NEW n \in Nat \ {0}, NEW s \in Seq(Int), Len(s) = n
    PROVE  /\ Min(ToSet(s)) \in ToSet(s) /\ Max(ToSet(s)) \in ToSet(s)
           /\ Min(ToSet(s)) \in Int /\ \A i \in 1..n : Min(ToSet(s)) <= s[i]
           /\ Max(ToSet(s)) \in Int /\ \A i \in 1..n : s[i] <= Max(ToSet(s))
           /\ Min(ToSet(s)) <= Max(ToSet(s))
<1> DEFINE S == ToSet(s)
           w == [i \in 1..n |-> -s[i]]
<1>1. s \in [1..n -> Int] /\ w \in [1..n -> Int] /\ DOMAIN s = 1..n
  OBVIOUS
<1>2. S = {s[i] : i \in 1..n}
  BY <1>1 DEF ToSet
<1>3. PICK j \in 1..n : \A i \in 1..n : s[j] <= s[i]
  BY <1>1, LeastOfMany
<1>4. PICK k \in 1..n : \A i \in 1..n : w[k] <= w[i]
  <2> HIDE DEF w
  <2> QED BY <1>1, LeastOfMany
<1>5. \A i \in 1..n : s[i] \in Int /\ s[i] <= s[k]
  BY <1>1, <1>4
<1>6. Min(S) = CHOOSE y \in S : \A i \in S : y <= i
  BY DEF Min
<1>7. Max(S) = CHOOSE y \in S : \A i \in S : i <= y
  BY DEF Max
<1> HIDE DEF S, w
<1>8. Min(S) \in S /\ \A i \in S : Min(S) <= i
  <2>1. s[j] \in S /\ \A i \in S : s[j] <= i
    BY <1>2, <1>3
  <2> QED BY <1>6, <2>1
<1>9. Max(S) \in S /\ \A i \in S : i <= Max(S)
  <2>1. s[k] \in S /\ \A i \in S : i <= s[k]
    BY <1>2, <1>5
  <2> QED BY <1>7, <2>1
<1>10. S \subseteq Int /\ \A i \in 1..n : s[i] \in S
  BY <1>2, <1>5
<1> QED BY <1>8, <1>9, <1>10 DEF S

\* The normalization keeps the order of scores the scale tells apart.
Normal(s, low, high) == IF high > low THEN (Scale * (s - low)) \div (high - low) ELSE Scale

\* Min-max normalisation stays within the scale and keeps the order of the scores.
LEMMA NormalIs ==
    ASSUME NEW low \in Int, NEW high \in Int, low <= high, high - low <= Scale,
           NEW s \in Int, low <= s, s <= high, NEW t \in Int, low <= t, t <= high
    PROVE  /\ Normal(s, low, high) \in 0..Scale
           /\ s < t => Normal(s, low, high) < Normal(t, low, high)
<1> DEFINE d == high - low
           q(u) == (Scale * (u - low)) \div d
<1>1. CASE high = low
  BY <1>1, ScalePositive DEF Normal
<1>2. CASE high > low
  <2>1. d \in Nat \ {0} /\ d <= Scale /\ Scale \in Nat /\ s - low \in Nat /\ t - low \in Nat
        /\ s - low <= d
    BY <1>2, ScalePositive
  <2>2. Normal(s, low, high) = q(s) /\ Normal(t, low, high) = q(t)
    BY <1>2 DEF Normal
  <2>3. Scale * (s - low) \in Nat /\ Scale * (t - low) \in Nat
    <3>1. \A a, b \in Nat : a * b \in Nat
      OBVIOUS
    <3> HIDE DEF d
    <3> QED BY <2>1, <3>1
  <2> HIDE DEF d
  <2>4. q(s) \in Nat /\ q(s) * d <= Scale * (s - low)
    BY <2>1, <2>3, Quotient
  <2>5. q(t) \in Nat
    BY <2>1, <2>3, Quotient
  <2>6. q(s) <= Scale
    <3>1. (s - low) * Scale <= d * Scale /\ (s - low) * Scale \in Int /\ d * Scale \in Int
      BY <2>1, TimesKeepsOrder
    <3>2. (s - low) * Scale = Scale * (s - low)
      BY <2>1
    <3>3. d * Scale < (Scale + 1) * d
      <4>1. (Scale + 1) * d = d * Scale + d /\ d * Scale \in Int
        BY <2>1
      <4> QED BY <2>1, <4>1
    <3>4. q(s) * d \in Int /\ (Scale + 1) * d \in Int /\ Scale + 1 \in Int
      BY <2>1, <2>4
    <3>5. ASSUME q(s) >= Scale + 1 PROVE FALSE
      <4>1. (Scale + 1) * d <= q(s) * d
        <5> HIDE DEF q
        <5> QED BY <2>1, <2>4, <3>4, <3>5, TimesKeepsOrder
      <4> HIDE DEF q
      <4> QED BY <2>4, <2>3, <3>1, <3>2, <3>3, <3>4, <4>1
    <3> HIDE DEF q
    <3> QED BY <2>1, <2>4, <3>5
  <2>7. ASSUME s < t PROVE q(s) < q(t)
    <3>1. (q(s) + 1) * d <= Scale * (t - low)
      <4>1. (q(s) + 1) * d = q(s) * d + d /\ q(s) * d \in Int
        <5> HIDE DEF q
        <5> QED BY <2>1, <2>4
      <4>2. (s - low + 1) * Scale <= (t - low) * Scale /\ (s - low + 1) * Scale \in Int
              /\ (t - low) * Scale \in Int
        <5>1. s - low + 1 \in Int /\ t - low \in Int /\ s - low + 1 <= t - low
          BY <2>1, <2>7
        <5> QED BY <2>1, <5>1, TimesKeepsOrder
      <4>3. (s - low + 1) * Scale = Scale * (s - low) + Scale /\ (t - low) * Scale = Scale * (t - low)
        BY <2>1
      <4> HIDE DEF q
      <4> QED BY <2>1, <2>3, <2>4, <4>1, <4>2, <4>3
    <3>2. q(s) + 1 \in Nat
      BY <2>4
    <3>3. q(s) + 1 <= (Scale * (t - low)) \div d
      BY <2>1, <2>3, <3>1, <3>2, QuotientBounds
    <3> QED BY <2>4, <2>5, <3>3
  <2> HIDE DEF q
  <2> QED BY <2>1, <2>2, <2>4, <2>6, <2>7
<1> QED BY <1>1, <1>2

\* Scores that order the candidates alike give them the same ranks.
LEMMA SameRanks ==
    ASSUME NEW n, NEW u \in [1..n -> Int], NEW v \in [1..n -> Int],
           \A i, j \in 1..n : Before(u, i, j) <=> Before(v, i, j)
    PROVE  Ranks(u) = Ranks(v)
<1>1. \A i \in 1..n : {j \in 1..n : Before(u, j, i)} = {j \in 1..n : Before(v, j, i)}
  OBVIOUS
<1>2. DOMAIN u = 1..n /\ DOMAIN v = 1..n
  OBVIOUS
<1>3. Ranks(u) = [i \in 1..n |-> Cardinality({j \in 1..n : Before(u, j, i)}) + 1]
  BY <1>2, Zenon DEF Ranks
<1>4. Ranks(v) = [i \in 1..n |-> Cardinality({j \in 1..n : Before(v, j, i)}) + 1]
  BY <1>2, Zenon DEF Ranks
<1> QED BY <1>1, <1>3, <1>4

\* A list of candidates and the model's scores for them, no further apart than
\* the scale tells them.
Rescorable(candidates, scores) ==
    /\ candidates \in Seq(ToSet(candidates))
    /\ scores \in Seq(Int)
    /\ Len(scores) = Len(candidates)
    /\ \A i, j \in DOMAIN scores : scores[i] - scores[j] <= Scale

\* The scores a reranker with normalization sorts by.
Units(scores) ==
    [i \in DOMAIN scores |-> Normal(scores[i], Min(ToSet(scores)), Max(ToSet(scores)))]

\* The cross-encoder reranks by the scores, or by the normalised ones when there are two or more.
LEMMA CrossEncodeIs ==
    ASSUME NEW candidates, candidates # <<>>, NEW scores, NEW k
    PROVE  /\ CrossEncode(candidates, scores, k, FALSE) = Reranked(candidates, scores, k)
           /\ CrossEncode(candidates, scores, k, TRUE)
                = Reranked(candidates, IF Len(scores) > 1 THEN Units(scores) ELSE scores, k)
<1>1. CrossEncode(candidates, scores, k, FALSE) = Reranked(candidates, scores, k)
  BY Zenon DEF CrossEncode
<1>2. CrossEncode(candidates, scores, k, TRUE)
        = Reranked(candidates, IF Len(scores) > 1 THEN Units(scores) ELSE scores, k)
  BY Zenon DEF CrossEncode, Units, Normal
<1> QED BY <1>1, <1>2

RescoreContract(candidates, scores, k) ==
    LET plain == CrossEncode(candidates, scores, k, FALSE)
        unit == CrossEncode(candidates, scores, k, TRUE)
    IN  /\ Ids(plain) = Ids(unit)
        /\ \A i \in DOMAIN unit : unit[i].score \in 0..Scale \/ Len(scores) = 1

\* Normalizing changes no rank, ties included, and gives scores within the scale.
THEOREM RescoreHolds ==
    ASSUME NEW candidates, NEW scores, Rescorable(candidates, scores), NEW k \in Nat
    PROVE  RescoreContract(candidates, scores, k)
<1> DEFINE n == Len(candidates)
           u == Units(scores)
           plain == CrossEncode(candidates, scores, k, FALSE)
           unit == CrossEncode(candidates, scores, k, TRUE)
<1>1. /\ n \in Nat /\ DOMAIN candidates = 1..n /\ DOMAIN scores = 1..n /\ Len(scores) = n
      /\ scores \in Seq(Int) /\ scores \in [1..n -> Int]
  BY DEF Rescorable
<1>2. CASE candidates = <<>>
  <2>1. plain = <<>> /\ unit = <<>>
    BY <1>2, Zenon DEF CrossEncode
  <2> HIDE DEF plain, unit
  <2>2. Ids(plain) = Ids(unit) /\ \A i \in DOMAIN unit : FALSE
    BY <2>1
  <2> QED BY <2>2 DEF RescoreContract, plain, unit
<1>3. CASE candidates # <<>>
  <2>1. n \in Nat \ {0}
    BY <1>1, <1>3 DEF Rescorable
  <2>2. plain = Reranked(candidates, scores, k)
    BY <1>3, CrossEncodeIs
  <2>3. unit = Reranked(candidates, IF Len(scores) > 1 THEN u ELSE scores, k)
    BY <1>3, CrossEncodeIs
  <2>4. u \in [1..n -> 0..Scale] /\ \A i, j \in 1..n : Before(u, i, j) <=> Before(scores, i, j)
    <3> DEFINE low == Min(ToSet(scores))
               high == Max(ToSet(scores))
    <3>1. /\ low \in Int /\ high \in Int /\ low <= high
          /\ \A i \in 1..n : low <= scores[i] /\ scores[i] <= high
      BY <1>1, <2>1, ExtremesAre
    <3>2. high - low <= Scale
      <4>1. low \in ToSet(scores) /\ high \in ToSet(scores)
        BY <1>1, <2>1, ExtremesAre
      <4>2. PICK i \in 1..n : scores[i] = low
        BY <1>1, <4>1 DEF ToSet
      <4>3. PICK j \in 1..n : scores[j] = high
        BY <1>1, <4>1 DEF ToSet
      <4>4. scores[j] - scores[i] <= Scale
        BY <1>1 DEF Rescorable
      <4> HIDE DEF low, high
      <4> QED BY <4>2, <4>3, <4>4
    <3>3. \A i \in 1..n : u[i] = Normal(scores[i], low, high)
      BY <1>1, Zenon DEF Units
    <3>4. DOMAIN u = 1..n /\ u = [i \in 1..n |-> u[i]]
      BY <1>1 DEF Units
    <3> HIDE DEF low, high, u
    <3>5. ASSUME NEW i \in 1..n, NEW j \in 1..n
          PROVE  /\ u[i] \in 0..Scale /\ u[j] \in 0..Scale
                 /\ scores[i] \in Int /\ scores[j] \in Int
                 /\ scores[i] < scores[j] => u[i] < u[j]
                 /\ scores[j] < scores[i] => u[j] < u[i]
                 /\ scores[i] = scores[j] => u[i] = u[j]
      <4>1. scores[i] \in Int /\ scores[j] \in Int /\ low <= scores[i] /\ scores[i] <= high
            /\ low <= scores[j] /\ scores[j] <= high
        BY <1>1, <3>1
      <4>2. /\ Normal(scores[i], low, high) \in 0..Scale
            /\ scores[i] < scores[j] => Normal(scores[i], low, high) < Normal(scores[j], low, high)
        BY <3>1, <3>2, <4>1, NormalIs
      <4>3. /\ Normal(scores[j], low, high) \in 0..Scale
            /\ scores[j] < scores[i] => Normal(scores[j], low, high) < Normal(scores[i], low, high)
        BY <3>1, <3>2, <4>1, NormalIs
      <4> QED BY <3>3, <4>1, <4>2, <4>3
    <3>6. u \in [1..n -> 0..Scale]
      <4>1. \A i \in 1..n : u[i] \in 0..Scale
        BY <3>5
      <4>2. [i \in 1..n |-> u[i]] \in [1..n -> 0..Scale]
        BY <4>1
      <4> QED BY <3>4, <4>2, Zenon
    <3>7. ASSUME NEW i \in 1..n, NEW j \in 1..n PROVE Before(u, i, j) <=> Before(scores, i, j)
      <4>1. u[i] > u[j] <=> scores[i] > scores[j]
        BY <3>5, ScalePositive
      <4>2. u[i] = u[j] <=> scores[i] = scores[j]
        BY <3>5, ScalePositive
      <4> QED BY <4>1, <4>2 DEF Before
    <3> QED BY <3>6, <3>7
  <2>5. u \in [1..n -> Int] /\ Ranks(u) = Ranks(scores)
    <3>1. u \in [1..n -> Int]
      <4> HIDE DEF u
      <4> QED BY <2>4
    <3> HIDE DEF u
    <3> QED BY <1>1, <2>4, <3>1, SameRanks
  <2> DEFINE w == IF Len(scores) > 1 THEN u ELSE scores
  <2>6. w \in [1..n -> Int] /\ Ranks(w) = Ranks(scores)
    <3> HIDE DEF u
    <3> QED BY <1>1, <2>5
  <2>7. RerankedBy(plain, candidates, scores, Ranks(scores), k)
    BY <1>1, <2>2, RerankedIs DEF Rescorable
  <2>8. RerankedBy(unit, candidates, w, Ranks(scores), k)
    <3>1. candidates \in Seq(ToSet(candidates))
      BY DEF Rescorable
    <3> HIDE DEF w, n, unit
    <3>2. RerankedBy(Reranked(candidates, w, k), candidates, w, Ranks(w), k)
      BY <2>6, <3>1, RerankedIs DEF n
    <3>3. unit = Reranked(candidates, w, k)
      BY <2>3 DEF w
    <3> QED BY <2>6, <3>2, <3>3
  <2> HIDE DEF n, u, plain, unit
  <2> DEFINE m == IF k < n THEN k ELSE n
             p == [j \in 1..n |-> CHOOSE i \in 1..n : Ranks(scores)[i] = j]
  <2>9. DOMAIN plain = 1..m /\ \A j \in 1..m : plain[j].id = candidates[p[j]].id
    BY <2>7 DEF RerankedBy, n
  <2>10. /\ DOMAIN unit = 1..m
         /\ \A j \in 1..m : unit[j].id = candidates[p[j]].id /\ unit[j].score = w[p[j]] /\ p[j] \in 1..n
    <3> HIDE DEF w
    <3> QED BY <2>8 DEF RerankedBy, n
  <2> HIDE DEF p, m
  <2>11. Ids(plain) = Ids(unit)
    <3>1. Ids(plain) = [j \in 1..m |-> plain[j].id]
      BY <2>9 DEF Ids
    <3>2. Ids(unit) = [j \in 1..m |-> unit[j].id]
      BY <2>10 DEF Ids
    <3>3. \A j \in 1..m : plain[j].id = unit[j].id
      BY <2>9, <2>10
    <3> QED BY <3>1, <3>2, <3>3
  <2>12. ASSUME NEW j \in DOMAIN unit PROVE unit[j].score \in 0..Scale \/ Len(scores) = 1
    <3>1. p[j] \in 1..n /\ unit[j].score = w[p[j]]
      <4> HIDE DEF w
      <4> QED BY <2>10, <2>12
    <3>2. CASE Len(scores) > 1
      BY <2>4, <3>1, <3>2
    <3>3. CASE ~(Len(scores) > 1)
      BY <1>1, <2>1, <3>3
    <3> QED BY <3>2, <3>3
  <2> QED BY <2>11, <2>12 DEF RescoreContract, plain, unit
<1> QED BY <1>2, <1>3

------------------------------------------------------------------------------
\* Looking up in an index of the model's vectors.

\* A query is embedded just when the server is up with its model.
LEMMA QueryEmbedded ==
    ASSUME NEW query, NEW c, NEW server
    PROVE  EmbedQueries(<<query>>, c, server).ok <=> server = "up"
<1> DEFINE texts == Prefixed(<<query>>, c.query_prefix)
           raw == RawEmbeddings(texts, server)
<1>1. texts # <<>>
  <2>1. DOMAIN <<query>> = {1}
    OBVIOUS
  <2>2. DOMAIN texts = {1}
    BY <2>1 DEF Prefixed
  <2>3. DOMAIN <<>> = {}
    OBVIOUS
  <2> QED BY <2>2, <2>3
<1> HIDE DEF texts
<1>2. raw.ok <=> server = "up"
  BY <1>1 DEF RawEmbeddings, Failed
<1>3. CASE server = "down"
  <2>1. EmbedQueries(<<query>>, c, server) = Failed
    BY <1>3 DEF EmbedQueries, Embed, InitializedEmbedder
  <2> QED BY <1>3, <2>1 DEF Failed
<1>4. CASE server # "down"
  <2>1. EmbedQueries(<<query>>, c, server) = [raw EXCEPT !.vectors = Finished(@, c)]
    BY <1>4 DEF EmbedQueries, Embed, InitializedEmbedder, texts
  <2>2. raw = [ok |-> raw.ok, vectors |-> raw.vectors]
    BY DEF RawEmbeddings, Failed
  <2> HIDE DEF raw
  <2>3. EmbedQueries(<<query>>, c, server).ok = raw.ok
    BY <2>1, <2>2
  <2> QED BY <1>2, <2>3
<1> QED BY <1>3, <1>4

\* The rows of a lookup, and the texts of the same lookup in one of several
\* models.
Found(chunks, query, sim, k, ready, c, later) ==
    NomicPositions(chunks, query, sim, k, ready, c, later)
LookupRow(chunks, sim, ready, i, j) ==
    [id |-> IF ready THEN chunks[i].id ELSE j - 1, text |-> chunks[i].text,
     score |-> IF ready THEN sim[i] ELSE 0]
LookupContract(chunks, query, sim, k, ready, c, later) ==
    LET rows == RetrieveWithScores(chunks, query, sim, k, ready, c, later)
        models == CompareModels(chunks, query, [nomic |-> sim], k, [nomic |-> ready], c, later)
    IN  /\ rows.ok <=> ~ready \/ later = "up"
        /\ rows.ok => Column(rows.vectors, "text") = models.nomic.vectors

\* The part of the contract about the retriever a mode name selects and the caches it reads.
LEMMA LookupHolds ==
    ASSUME NEW chunks, NEW query, NEW sim, NEW k, NEW ready, NEW c, NEW later
    PROVE  LookupContract(chunks, query, sim, k, ready, c, later)
<1> DEFINE found == Found(chunks, query, sim, k, ready, c, later)
           rows == RetrieveWithScores(chunks, query, sim, k, ready, c, later)
           models == CompareModels(chunks, query, [nomic |-> sim], k, [nomic |-> ready], c, later)
<1>1. found = [ok |-> found.ok, vectors |-> found.vectors] /\ (found.ok <=> ~ready \/ later = "up")
  <2>1. CASE ~ready
    BY <2>1 DEF Found, NomicPositions
  <2>2. CASE ready /\ later = "up"
    <3>1. EmbedQueries(<<query>>, c, later).ok
      BY <2>2, QueryEmbedded
    <3> DEFINE best == TopK(SortedBy([i \in DOMAIN chunks |-> i], LAMBDA i : sim[i]), k)
    <3>2. found = [ok |-> TRUE, vectors |-> best]
      BY <2>2, <3>1, Zenon DEF Found, NomicPositions
    <3> HIDE DEF best, found
    <3> QED BY <2>2, <3>2
  <2>3. CASE ready /\ later # "up"
    <3>1. ~EmbedQueries(<<query>>, c, later).ok
      BY <2>3, QueryEmbedded
    <3>2. found = Failed
      BY <2>3, <3>1, Zenon DEF Found, NomicPositions
    <3> HIDE DEF found
    <3> QED BY <2>3, <3>2 DEF Failed
  <2> QED BY <2>1, <2>2, <2>3, Zenon
<1>2. rows = [found EXCEPT !.vectors = [j \in DOMAIN found.vectors |->
                                           LookupRow(chunks, sim, ready, found.vectors[j], j)]]
  BY Zenon DEF RetrieveWithScores, Found, LookupRow
<1>3. models.nomic = [found EXCEPT !.vectors = [j \in DOMAIN found.vectors |->
                                                   chunks[found.vectors[j]].text]]
  <2>1. DOMAIN [nomic |-> sim] = {"nomic"} /\ [nomic |-> sim]["nomic"] = sim
        /\ [nomic |-> ready]["nomic"] = ready
    OBVIOUS
  <2> DEFINE sims == [nomic |-> sim]
             readys == [nomic |-> ready]
  <2>2. models = [m \in DOMAIN sims |->
                    [NomicPositions(chunks, query, sims[m], k, readys[m], c, later)
                        EXCEPT !.vectors = [j \in DOMAIN @ |-> chunks[@[j]].text]]]
    BY Zenon DEF CompareModels
  <2> HIDE DEF sims, readys, models
  <2>3. DOMAIN sims = {"nomic"} /\ sims["nomic"] = sim /\ readys["nomic"] = ready
    BY <2>1 DEF sims, readys
  <2>4. "nomic" \in DOMAIN sims
    BY <2>3
  <2>5. models["nomic"] = [NomicPositions(chunks, query, sims["nomic"], k, readys["nomic"], c, later)
                             EXCEPT !.vectors = [j \in DOMAIN @ |-> chunks[@[j]].text]]
    BY <2>2, <2>4, Zenon
  <2> QED BY <2>3, <2>5, Zenon DEF Found
<1> HIDE DEF found
<1>4. rows.ok = found.ok /\ models.nomic.vectors = [j \in DOMAIN found.vectors |->
                                                       chunks[found.vectors[j]].text]
      /\ rows.vectors = [j \in DOMAIN found.vectors |->
                            LookupRow(chunks, sim, ready, found.vectors[j], j)]
  <2> HIDE DEF rows, models
  <2> QED BY <1>1, <1>2, <1>3
<1>5. Column(rows.vectors, "text") = [j \in DOMAIN found.vectors |-> chunks[found.vectors[j]].text]
  <2>1. \A i, j : LookupRow(chunks, sim, ready, i, j)["text"] = chunks[i].text
    BY DEF LookupRow
  <2> HIDE DEF rows
  <2> QED BY <1>4, <2>1 DEF Column
<1> HIDE DEF rows, models
<1>6. /\ rows.ok <=> ~ready \/ later = "up"
      /\ rows.ok => Column(rows.vectors, "text") = models.nomic.vectors
  BY <1>1, <1>4, <1>5
<1> QED BY <1>6 DEF LookupContract, rows, models

------------------------------------------------------------------------------
\* Lists of lists.

\* What is flat of the first k lists.
Flat(g, seqs) ==
    /\ g[0] = <<>>
    /\ \A k \in 1..Len(seqs) : g[k] = g[k - 1] \o seqs[k]
Flattening(f, seqs) ==
    f = [i \in 1..Len(seqs) |-> IF i = 1 THEN seqs[i] ELSE f[i - 1] \o seqs[i]]

\* Flattening takes one list after another.
LEMMA FlattenIs ==
    ASSUME NEW A, NEW seqs \in Seq(Seq(A))
    PROVE  \E g \in [0..Len(seqs) -> Seq(A)] : Flat(g, seqs) /\ FlattenSeq(seqs) = g[Len(seqs)]
<1> DEFINE n == Len(seqs)
           V == Seq(A)
           step == [p \in (1..n) \X V |-> p[2] \o seqs[p[1]]]
           F == CHOOSE f : Flattening(f, seqs)
<1>1. n \in Nat /\ DOMAIN seqs = 1..n /\ \A k \in 1..n : seqs[k] \in V
  OBVIOUS
<1>2. \A h, t \in V : h \o t \in V
  OBVIOUS
<1>3. <<>> \in V /\ \A t \in V : <<>> \o t = t
  OBVIOUS
<1>4. step \in [(1..n) \X V -> V]
  <2> HIDE DEF V, n
  <2> QED BY <1>1, <1>2
<1>5. PICK g \in [0..n -> V] : Loop(g, <<>>, step, n)
  <2> HIDE DEF V, n, step
  <2> QED BY <1>1, <1>3, <1>4, LoopExists
<1>6. g[0] = <<>> /\ \A k \in 1..n : g[k] = g[k - 1] \o seqs[k]
  <2>1. ASSUME NEW k \in 1..n PROVE g[k] = g[k - 1] \o seqs[k]
    <3>1. g[k] = step[<<k, g[k - 1]>>]
      BY <1>5 DEF Loop
    <3>2. k - 1 \in 0..n
      BY <1>1
    <3>3. g[k - 1] \in V
      BY <1>5, <3>2
    <3> HIDE DEF V, n
    <3>4. step[<<k, g[k - 1]>>] = g[k - 1] \o seqs[k]
      BY <3>3
    <3> HIDE DEF step
    <3> QED BY <3>1, <3>4
  <2> HIDE DEF step
  <2> QED BY <1>5, <2>1 DEF Loop
<1>7. FlattenSeq(seqs) = IF n = 0 THEN seqs ELSE F[n]
  BY Zenon DEF FlattenSeq, Flattening
<1>8. CASE n = 0
  <2>1. seqs = <<>>
    BY <1>8
  <2> QED BY <1>6, <1>7, <1>8, <2>1 DEF Flat
<1>9. CASE n # 0
  <2> DEFINE f == [i \in 1..n |-> g[i]]
  <2>1. Flattening(f, seqs)
    <3> HIDE DEF V
    <3>1. ASSUME NEW i \in 1..n PROVE g[i] = IF i = 1 THEN seqs[i] ELSE f[i - 1] \o seqs[i]
      <4>1. CASE i = 1
        <5>1. g[i] = g[0] \o seqs[i]
          <6>1. i - 1 = 0
            BY <4>1
          <6> QED BY <1>6, <6>1, Zenon
        <5>2. seqs[i] \in V
          BY <1>1, Zenon
        <5>3. <<>> \o seqs[i] = seqs[i]
          BY <5>2 DEF V
        <5> QED BY <1>6, <4>1, <5>1, <5>3, Zenon
      <4>2. CASE i # 1
        <5>1. i - 1 \in 1..n
          BY <1>1, <4>2
        <5>2. f[i - 1] = g[i - 1]
          BY <5>1
        <5> HIDE DEF f
        <5> QED BY <1>6, <4>2, <5>2
      <4> QED BY <4>1, <4>2
    <3>2. f = [i \in 1..n |-> IF i = 1 THEN seqs[i] ELSE f[i - 1] \o seqs[i]]
      <4> DEFINE h == [i \in 1..n |-> IF i = 1 THEN seqs[i] ELSE f[i - 1] \o seqs[i]]
      <4>1. \A i \in 1..n : h[i] = g[i]
        <5> HIDE DEF f
        <5> QED BY <3>1
      <4>2. \A i \in 1..n : f[i] = g[i]
        OBVIOUS
      <4>3. f = [i \in 1..n |-> f[i]] /\ h = [i \in 1..n |-> h[i]]
        OBVIOUS
      <4> HIDE DEF f
      <4>4. f = h
        <5> HIDE DEF h
        <5> QED BY <4>1, <4>2, <4>3
      <4> QED BY <4>4
    <3> HIDE DEF f
    <3> QED BY <3>2 DEF Flattening
  <2>2. Flattening(F, seqs)
    <3> HIDE DEF f
    <3> QED BY <2>1
  <2> DEFINE P == {m \in Nat : m \in 1..n => F[m] = g[m]}
  <2>3. \A i \in 1..n : F[i] = IF i = 1 THEN seqs[i] ELSE F[i - 1] \o seqs[i]
    <3> HIDE DEF F
    <3> QED BY <2>2 DEF Flattening
  <2> HIDE DEF F, f
  <2>4. P = Nat
    <3>1. 0 \in P
      OBVIOUS
    <3>2. ASSUME NEW m \in P PROVE m + 1 \in P
      <4>1. SUFFICES ASSUME m + 1 \in 1..n PROVE F[m + 1] = g[m + 1]
        OBVIOUS
      <4> DEFINE k == m + 1
      <4>0. m \in Nat /\ k \in 1..n /\ k - 1 = m /\ (m = 0 <=> k = 1)
        BY <4>1
      <4> HIDE DEF k, V, P
      <4>2. g[k] = g[k - 1] \o seqs[k] /\ seqs[k] \in V
        BY <1>1, <1>6, <4>0
      <4>3. CASE m = 0
        <5>1. F[k] = seqs[k]
          BY <2>3, <4>0, <4>3
        <5>2. g[k] = <<>> \o seqs[k]
          BY <1>6, <4>0, <4>2, <4>3
        <5> QED BY <1>3, <4>2, <5>1, <5>2 DEF k
      <4>4. CASE m # 0
        <5>1. m \in 1..n
          BY <4>0, <4>4
        <5>2. F[m] = g[m]
          BY <5>1 DEF P
        <5>3. F[k] = F[k - 1] \o seqs[k]
          BY <2>3, <4>0, <4>4
        <5> QED BY <4>0, <4>2, <5>2, <5>3 DEF k
      <4> QED BY <4>3, <4>4
    <3>3. P \in SUBSET Nat
      OBVIOUS
    <3> HIDE DEF P
    <3> QED BY <3>1, <3>2, <3>3, NaturalsBySteps
  <2>5. F[n] = g[n]
    <3>1. n \in P /\ n \in 1..n
      BY <1>1, <1>9, <2>4
    <3> QED BY <3>1
  <2>6. Flat(g, seqs) /\ FlattenSeq(seqs) = g[n]
    BY <1>6, <1>7, <1>9, <2>5 DEF Flat
  <2> QED BY <2>6
<1> QED BY <1>8, <1>9

------------------------------------------------------------------------------
\* Embedding in batches.

\* A batch ends where the next one starts, and the last one ends the texts.
Cut(batches, V, e, B) ==
    /\ DOMAIN batches = 1..B
    /\ e \in [0..B -> 0..Len(V)]
    /\ e[0] = 0 /\ e[B] = Len(V)
    /\ \A b \in 1..B : e[b - 1] < e[b] /\ batches[b] = SubSeq(V, e[b - 1] + 1, e[b])

\* Embedding in batches cuts the texts into consecutive pieces of at most the batch size.
LEMMA BatchesCut ==
    ASSUME NEW A, NEW V \in Seq(A), NEW size \in Nat \ {0}
    PROVE  \E B \in Nat : \E e : Cut(Batches(V, size), V, e, B)
<1> DEFINE n == Len(V)
           B == (n + size - 1) \div size
           e == [b \in 0..B |-> IF b * size < n THEN b * size ELSE n]
<1>1. n \in Nat /\ n + size - 1 \in Nat
  OBVIOUS
<1> HIDE DEF n
<1>2. B \in Nat /\ B * size <= n + size - 1 /\ n + size - 1 < B * size + size
  BY <1>1, Quotient
<1>3. \A b \in Nat : b <= B => b * size <= n + size - 1
  <2>1. ASSUME NEW b \in Nat, b <= B PROVE b * size <= n + size - 1
    <3> HIDE DEF B
    <3>1. b * size <= B * size /\ b * size \in Int /\ B * size \in Int
      BY <1>2, <2>1, TimesKeepsOrder
    <3> QED BY <1>1, <1>2, <3>1
  <2> QED BY <2>1
<1> HIDE DEF B
<1>4. ASSUME NEW b \in 1..B
      PROVE  b \in Nat /\ b - 1 \in 0..B /\ b \in 0..B
             /\ (b - 1) * size \in Nat /\ b * size = (b - 1) * size + size /\ (b - 1) * size < n
  <2>1. b \in Nat /\ b - 1 \in 0..B /\ b \in 0..B /\ b - 1 \in Nat
    BY <1>2
  <2>2. \A p, q \in Nat : p * q \in Nat
    OBVIOUS
  <2>3. (b - 1) * size \in Nat
    BY <2>1, <2>2
  <2>4. b * size = (b - 1) * size + size
    BY <2>1
  <2>5. b * size <= n + size - 1
    BY <1>3, <1>2, <2>1
  <2> DEFINE p == (b - 1) * size
  <2>6. p \in Nat /\ p + size <= n + size - 1
    BY <2>3, <2>4, <2>5
  <2> HIDE DEF p
  <2>7. p < n
    BY <1>1, <2>6
  <2> QED BY <2>1, <2>3, <2>4, <2>7 DEF p
<1>5. \A b \in 0..B : b * size \in Nat
  <2>1. \A p, q \in Nat : p * q \in Nat
    OBVIOUS
  <2> QED BY <1>2, <2>1
<1>6. e \in [0..B -> 0..n]
  <2>1. ASSUME NEW b \in 0..B PROVE (IF b * size < n THEN b * size ELSE n) \in 0..n
    <3> DEFINE p == b * size
    <3>1. p \in Nat
      BY <1>5
    <3> HIDE DEF p
    <3> QED BY <1>1, <3>1 DEF p
  <2> QED BY <2>1
<1>7. e[0] = 0
  <2>1. 0 \in 0..B /\ 0 * size = 0
    BY <1>2
  <2> QED BY <1>1, <2>1
<1>8. e[B] = n
  <2>1. B \in 0..B /\ B * size \in Nat
    BY <1>2, <1>5
  <2> DEFINE p == B * size
  <2>2. ~(p < n)
    <3>1. p \in Nat /\ n + size - 1 < p + size
      BY <1>2, <2>1
    <3> HIDE DEF p
    <3> QED BY <1>1, <3>1
  <2> QED BY <2>1, <2>2
<1>9. ASSUME NEW b \in 1..B
      PROVE  /\ e[b - 1] = (b - 1) * size
             /\ e[b] = IF b * size < n THEN b * size ELSE n
             /\ e[b - 1] < e[b]
  <2>1. e[b - 1] = (b - 1) * size /\ e[b] = IF b * size < n THEN b * size ELSE n
    <3>1. e[b] = IF b * size < n THEN b * size ELSE n
      BY <1>4
    <3>2. e[b - 1] = IF (b - 1) * size < n THEN (b - 1) * size ELSE n
      BY <1>4
    <3> HIDE DEF e
    <3> QED BY <1>4, <3>1, <3>2
  <2> DEFINE p == (b - 1) * size
             q == b * size
  <2>2. p \in Nat /\ q = p + size /\ p < n
    BY <1>4
  <2>3. e[b - 1] = p /\ e[b] = IF q < n THEN q ELSE n
    BY <2>1
  <2> HIDE DEF p, q, e
  <2>4. e[b - 1] < e[b]
    BY <1>1, <2>2, <2>3
  <2> QED BY <2>1, <2>4
<1>10. DOMAIN Batches(V, size) = 1..B
  BY DEF Batches, B, n
<1>11. \A b \in 1..B : Batches(V, size)[b]
                          = SubSeq(V, (b - 1) * size + 1, IF b * size < n THEN b * size ELSE n)
  BY Zenon DEF Batches, B, n
<1> HIDE DEF e
<1>12. \A b \in 1..B : Batches(V, size)[b] = SubSeq(V, e[b - 1] + 1, e[b])
  BY <1>9, <1>11
<1>13. Cut(Batches(V, size), V, e, B)
  BY <1>6, <1>7, <1>8, <1>9, <1>10, <1>12 DEF Cut, n
<1> QED BY <1>2, <1>13

\* The model's vectors.
Vector(text) == [of |-> text, dimensions |-> ModelDimensions, unit |-> FALSE]
Vectors(texts) == [k \in DOMAIN texts |-> Vector(texts[k])]

\* Batch after batch, the model embeds what it would in one call.
LEMMA BatchesEmbedAll ==
    ASSUME NEW A, NEW V \in Seq(A), NEW size \in Nat \ {0}
    PROVE  FlattenSeq([b \in DOMAIN Batches(V, size) |-> Vectors(Batches(V, size)[b])]) = Vectors(V)
<1> DEFINE n == Len(V)
           W == Vectors(V)
           R == ToSet(W)
           seqs(B) == [b \in 1..B |-> Vectors(Batches(V, size)[b])]
<1>0. PICK B \in Nat : \E e : Cut(Batches(V, size), V, e, B)
  BY BatchesCut
<1>1. PICK e : Cut(Batches(V, size), V, e, B)
  BY <1>0
<1>2. n \in Nat /\ V \in [1..n -> A] /\ DOMAIN V = 1..n
  OBVIOUS
<1>3. W \in Seq(R) /\ Len(W) = n /\ DOMAIN W = 1..n /\ \A i \in 1..n : W[i] = Vector(V[i]) /\ W[i] \in R
  <2>1. W = [i \in 1..n |-> Vector(V[i])]
    BY <1>2 DEF Vectors
  <2>2. DOMAIN W = 1..n /\ \A i \in 1..n : W[i] = Vector(V[i])
    BY <2>1
  <2>3. W = [i \in 1..n |-> W[i]]
    BY <2>1
  <2> HIDE DEF W, n
  <2>4. W \in Seq(ToSet(W)) /\ Len(W) = n
    BY <1>2, <2>3, SeqOfItself
  <2>5. \A i \in 1..n : W[i] \in ToSet(W)
    BY <2>2 DEF ToSet
  <2> QED BY <2>2, <2>4, <2>5
<1> HIDE DEF n, W, R
<1>4. /\ DOMAIN Batches(V, size) = 1..B
      /\ e \in [0..B -> 0..n] /\ e[0] = 0 /\ e[B] = n
      /\ \A b \in 1..B : e[b - 1] < e[b] /\ Batches(V, size)[b] = SubSeq(V, e[b - 1] + 1, e[b])
  BY <1>1 DEF Cut, n
<1>5. ASSUME NEW b \in 1..B
      PROVE  /\ seqs(B)[b] \in Seq(R) /\ Len(seqs(B)[b]) = e[b] - e[b - 1]
             /\ \A k \in 1..(e[b] - e[b - 1]) : seqs(B)[b][k] = W[e[b - 1] + k]
             /\ e[b - 1] \in Nat /\ e[b] \in Nat /\ e[b - 1] < e[b] /\ e[b] <= n
  <2> DEFINE l == e[b - 1]
             h == e[b]
             t == SubSeq(V, l + 1, h)
  <2>1. l \in Nat /\ h \in Nat /\ l < h /\ h <= n
    <3>1. b \in 0..B /\ b - 1 \in 0..B
      OBVIOUS
    <3> QED BY <1>2, <1>4, <3>1
  <2>2. seqs(B)[b] = Vectors(t)
    BY <1>4
  <2> HIDE DEF l, h, seqs
  <2>3. l + 1 \in Nat \ {0} /\ l + 1 <= h /\ h - (l + 1) + 1 = h - l /\ h - l \in Nat
    BY <2>1
  <2>4. t \in Seq(A) /\ Len(t) = h - l /\ \A k \in 1..(h - l) : t[k] = V[l + 1 + k - 1]
    <3>1. /\ t \in Seq(A)
          /\ Len(t) = IF l + 1 <= h THEN h - (l + 1) + 1 ELSE 0
          /\ \A k \in 1..Len(t) : t[k] = V[l + 1 + k - 1]
      BY <2>1, <2>3, SubSeqElements DEF n
    <3> HIDE DEF t
    <3> QED BY <2>3, <3>1
  <2>5. \A k \in 1..(h - l) : l + 1 + k - 1 = l + k /\ l + k \in 1..n
    BY <1>2, <2>1
  <2> HIDE DEF t
  <2>6. DOMAIN t = 1..(h - l)
    BY <2>4
  <2>7. \A k \in 1..(h - l) : Vectors(t)[k] = W[l + k] /\ W[l + k] \in R
    <3>1. ASSUME NEW k \in 1..(h - l) PROVE Vectors(t)[k] = W[l + k] /\ W[l + k] \in R
      <4>1. t[k] = V[l + k] /\ l + k \in 1..n
        BY <2>4, <2>5
      <4>2. Vectors(t)[k] = Vector(t[k])
        BY <2>6 DEF Vectors
      <4> QED BY <1>3, <4>1, <4>2
    <3> QED BY <3>1
  <2>8. Vectors(t) = [k \in 1..(h - l) |-> Vectors(t)[k]] /\ DOMAIN Vectors(t) = 1..(h - l)
    BY <2>6 DEF Vectors
  <2>9. Vectors(t) \in Seq(R) /\ Len(Vectors(t)) = h - l
    <3> DEFINE u == Vectors(t)
    <3> HIDE DEF u
    <3>1. u = [k \in 1..(h - l) |-> u[k]] /\ \A k \in 1..(h - l) : u[k] \in R
      BY <2>7, <2>8 DEF u
    <3>2. [k \in 1..(h - l) |-> u[k]] \in [1..(h - l) -> R]
      BY <3>1
    <3>3. u \in [1..(h - l) -> R]
      BY <3>1, <3>2, Zenon
    <3>4. u \in Seq(R) /\ Len(u) = h - l
      BY <2>3, <3>3
    <3> QED BY <3>4 DEF u
  <2> QED BY <2>1, <2>2, <2>7, <2>9 DEF l, h
<1>6. seqs(B) \in Seq(Seq(R)) /\ Len(seqs(B)) = B
  <2>1. seqs(B) \in [1..B -> Seq(R)]
    <3>1. DOMAIN seqs(B) = 1..B /\ seqs(B) = [b \in 1..B |-> seqs(B)[b]]
      OBVIOUS
    <3>2. [b \in 1..B |-> seqs(B)[b]] \in [1..B -> Seq(R)]
      <4> HIDE DEF seqs
      <4> QED BY <1>5
    <3> HIDE DEF seqs
    <3> QED BY <3>1, <3>2, Zenon
  <2> HIDE DEF seqs
  <2> QED BY <2>1
<1>7. [b \in DOMAIN Batches(V, size) |-> Vectors(Batches(V, size)[b])] = seqs(B)
  BY <1>4
<1> DEFINE s == seqs(B)
<1> HIDE DEF s, seqs
<1>8. PICK g \in [0..B -> Seq(R)] : Flat(g, s) /\ FlattenSeq(s) = g[B]
  BY <1>6, FlattenIs DEF s
<1>9. g[0] = <<>> /\ \A k \in 1..B : g[k] = g[k - 1] \o s[k]
  BY <1>6, <1>8 DEF Flat, s
<1> DEFINE P == {m \in Nat : m <= B => Len(g[m]) = e[m] /\ \A k \in 1..e[m] : g[m][k] = W[k]}
<1>10. 0 \in P
  BY <1>4, <1>9
<1>11. ASSUME NEW m \in P PROVE m + 1 \in P
  <2> DEFINE b == m + 1
  <2>1. SUFFICES ASSUME b <= B PROVE Len(g[b]) = e[b] /\ \A k \in 1..e[b] : g[b][k] = W[k]
    OBVIOUS
  <2>2. m \in Nat /\ b \in 1..B /\ b - 1 = m /\ m <= B /\ m \in 0..B
    BY <2>1
  <2>3. Len(g[m]) = e[m] /\ \A k \in 1..e[m] : g[m][k] = W[k]
    BY <2>2
  <2> HIDE DEF b, P
  <2>4. /\ s[b] \in Seq(R) /\ Len(s[b]) = e[b] - e[m]
        /\ \A k \in 1..(e[b] - e[m]) : s[b][k] = W[e[m] + k]
        /\ e[m] \in Nat /\ e[b] \in Nat /\ e[m] < e[b]
    BY <1>5, <2>2 DEF s
  <2>5. g[b] = g[m] \o s[b] /\ g[m] \in Seq(R)
    BY <1>8, <1>9, <2>2
  <2> DEFINE u == g[m]
             w == s[b]
             l == e[m]
             h == e[b]
  <2> HIDE DEF u, w, l, h
  <2>6. u \in Seq(R) /\ w \in Seq(R) /\ Len(u) = l /\ Len(w) = h - l /\ l \in Nat /\ h \in Nat /\ l < h
    BY <2>3, <2>4, <2>5 DEF u, w, l, h
  <2>7. Len(u \o w) = h /\ \A k \in 1..h : (u \o w)[k] = IF k <= l THEN u[k] ELSE w[k - l]
    <3>1. Len(u) + Len(w) = h
      BY <2>6
    <3>2. /\ Len(u \o w) = Len(u) + Len(w)
          /\ \A k \in 1..(Len(u) + Len(w)) :
                (u \o w)[k] = IF k <= Len(u) THEN u[k] ELSE w[k - Len(u)]
      BY <2>6, ConcatProperties
    <3> QED BY <2>6, <3>1, <3>2, Zenon
  <2>8. \A k \in 1..h : k <= l => u[k] = W[k]
    BY <2>3, <2>6 DEF u, l
  <2>9. \A k \in 1..h : ~(k <= l) => w[k - l] = W[k]
    <3>1. ASSUME NEW k \in 1..h, ~(k <= l) PROVE w[k - l] = W[k]
      <4>1. k - l \in 1..(h - l) /\ l + (k - l) = k
        BY <2>6, <3>1
      <4>2. w[k - l] = W[l + (k - l)]
        BY <2>4, <4>1 DEF w, l, h
      <4> QED BY <4>1, <4>2
    <3> QED BY <3>1
  <2> QED BY <2>5, <2>7, <2>8, <2>9 DEF u, w, l, h
<1>12. P = Nat
  <2>1. P \in SUBSET Nat
    OBVIOUS
  <2> HIDE DEF P
  <2> QED BY <1>10, <1>11, <2>1, NaturalsBySteps
<1>13. Len(g[B]) = n /\ \A k \in 1..n : g[B][k] = W[k]
  BY <1>4, <1>12
<1>14. g[B] \in Seq(R)
  BY <1>8
<1>15. g[B] = W
  <2> DEFINE u == g[B]
  <2> HIDE DEF u
  <2>1. u \in Seq(R) /\ W \in Seq(R) /\ Len(u) = Len(W) /\ \A k \in 1..Len(u) : u[k] = W[k]
    BY <1>3, <1>13, <1>14 DEF u
  <2>2. u = W
    BY <2>1, SeqEqual
  <2> QED BY <2>2 DEF u
<1> QED BY <1>7, <1>8, <1>15 DEF s, W

\* Texts embed in batches as they do in one call, also when the server is down

\* or lacks the model.
THEOREM EmbedHolds ==
    ASSUME NEW texts, texts \in Seq(ToSet(texts)), NEW size \in Nat \ {0}, NEW c, NEW server
    PROVE  EmbedBatch(texts, size, FALSE, c, server) = EmbedDocuments(texts, c, server)
<1> DEFINE V == Prefixed(texts, c.document_prefix)
           batches == Batches(V, size)
           raw == [b \in DOMAIN batches |-> RawEmbeddings(batches[b], server)]
           all == RawEmbeddings(V, server)
           flat == FlattenSeq([b \in DOMAIN raw |-> raw[b].vectors])
           left == EmbedBatch(texts, size, FALSE, c, server)
           right == EmbedDocuments(texts, c, server)
<1>1. left = IF ~InitializedEmbedder(server) \/ \E b \in DOMAIN raw : ~raw[b].ok THEN Failed
             ELSE [ok |-> TRUE, vectors |-> Finished(flat, c)]
  BY Zenon DEF EmbedBatch
<1>2. right = IF ~InitializedEmbedder(server) THEN Failed
              ELSE [all EXCEPT !.vectors = Finished(@, c)]
  BY Zenon DEF EmbedDocuments, Embed
<1>3. V \in Seq(ToSet(V)) /\ Len(V) = Len(texts)
  <2>1. Len(texts) \in Nat /\ DOMAIN texts = 1..Len(texts)
    OBVIOUS
  <2>2. V = [k \in 1..Len(texts) |-> V[k]]
    BY <2>1 DEF Prefixed
  <2> HIDE DEF V
  <2> QED BY <2>1, <2>2, SeqOfItself
<1> HIDE DEF V
<1>4. FlattenSeq([b \in DOMAIN batches |-> Vectors(batches[b])]) = Vectors(V)
  BY <1>3, BatchesEmbedAll
<1>0. PICK B \in Nat : \E e : Cut(batches, V, e, B)
  BY <1>3, BatchesCut
<1>5. PICK e : Cut(batches, V, e, B)
  BY <1>0
<1>6. /\ DOMAIN batches = 1..B
      /\ \A b \in 1..B : batches[b] # <<>>
      /\ V = <<>> <=> B = 0
  <2> DEFINE n == Len(V)
  <2>1. DOMAIN batches = 1..B /\ e \in [0..B -> 0..n] /\ e[0] = 0 /\ e[B] = n
        /\ \A b \in 1..B : e[b - 1] < e[b] /\ batches[b] = SubSeq(V, e[b - 1] + 1, e[b])
    BY <1>5 DEF Cut
  <2>2. n \in Nat /\ (V = <<>> <=> n = 0)
    BY <1>3
  <2> HIDE DEF n, batches
  <2>3. ASSUME NEW b \in 1..B PROVE batches[b] # <<>> /\ e[b - 1] \in Nat /\ e[b] \in Nat /\ e[b] <= n
    <3>1. b - 1 \in 0..B /\ b \in 0..B
      OBVIOUS
    <3>2. e[b - 1] \in Nat /\ e[b] \in Nat /\ e[b] <= n /\ e[b - 1] < e[b]
      BY <2>1, <2>2, <3>1
    <3> DEFINE l == e[b - 1]
               h == e[b]
    <3>3. batches[b] = SubSeq(V, l + 1, h)
      BY <2>1
    <3>4. l \in Nat /\ h \in Nat /\ h <= n /\ l < h
      BY <3>2
    <3> HIDE DEF l, h
    <3>5. l + 1 \in Nat \ {0} /\ l + 1 <= h /\ h - (l + 1) + 1 > 0
      BY <3>4
    <3>6. Len(SubSeq(V, l + 1, h)) = IF l + 1 <= h THEN h - (l + 1) + 1 ELSE 0
      BY <1>3, <3>4, <3>5, SubSeqElements DEF n
    <3>7. Len(batches[b]) > 0
      BY <3>3, <3>5, <3>6
    <3>8. batches[b] # <<>>
      BY <3>7
    <3> QED BY <3>2, <3>8
  <2>4. ASSUME B = 0 PROVE n = 0
    BY <2>1, <2>4
  <2>5. ASSUME B # 0 PROVE n # 0
    <3>1. B \in 1..B
      BY <2>5
    <3>2. e[B - 1] < e[B] /\ e[B - 1] \in Nat
      BY <2>1, <2>3, <3>1
    <3> QED BY <2>1, <2>2, <3>2
  <2> QED BY <2>1, <2>2, <2>3, <2>4, <2>5
<1> HIDE DEF batches
<1>7. \A t : RawEmbeddings(t, server) = IF t # <<>> /\ server # "up" THEN Failed
                                         ELSE [ok |-> TRUE, vectors |-> Vectors(t)]
  BY Zenon DEF RawEmbeddings, Vectors, Vector
<1>8. DOMAIN raw = 1..B /\ \A b \in 1..B : raw[b] = RawEmbeddings(batches[b], server)
  BY <1>6
<1>9. CASE server = "down"
  BY <1>1, <1>2, <1>9 DEF InitializedEmbedder
<1>10. CASE server # "down" /\ server # "up" /\ V # <<>>
  <2>1. all = [ok |-> FALSE, vectors |-> <<>>] /\ InitializedEmbedder(server)
    BY <1>7, <1>10 DEF Failed, InitializedEmbedder
  <2>2. 1 \in 1..B
    BY <1>6, <1>10
  <2>3. raw[1] = Failed
    BY <1>6, <1>7, <1>8, <1>10, <2>2
  <2> HIDE DEF raw, all, left, right, flat
  <2>4. left = Failed
    BY <1>1, <1>8, <2>2, <2>3 DEF Failed
  <2>5. Finished(<<>>, c) = <<>>
    <3>1. DOMAIN <<>> = {}
      OBVIOUS
    <3>2. DOMAIN Finished(<<>>, c) = {}
      BY <3>1 DEF Finished
    <3>3. \A f : f = Finished(<<>>, c) => f = [k \in DOMAIN f |-> f[k]]
      BY DEF Finished
    <3> QED BY <3>1, <3>2, <3>3
  <2>6. right = [ok |-> FALSE, vectors |-> Finished(<<>>, c)]
    BY <1>2, <2>1
  <2> QED BY <2>4, <2>5, <2>6 DEF Failed, left, right
<1>11. CASE server # "down" /\ (server = "up" \/ V = <<>>)
  <2>1. InitializedEmbedder(server) /\ all = [ok |-> TRUE, vectors |-> Vectors(V)]
    BY <1>7, <1>11 DEF InitializedEmbedder
  <2>2. \A b \in 1..B : raw[b] = [ok |-> TRUE, vectors |-> Vectors(batches[b])]
    <3> HIDE DEF raw
    <3>1. V = <<>> => 1..B = {}
      BY <1>6
    <3> QED BY <1>7, <1>8, <1>11, <3>1
  <2>3. [b \in DOMAIN raw |-> raw[b].vectors] = [b \in DOMAIN batches |-> Vectors(batches[b])]
    <3> HIDE DEF raw
    <3> QED BY <1>6, <1>8, <2>2
  <2>4. flat = Vectors(V)
    BY <1>4, <2>3
  <2> HIDE DEF raw, all, left, right, flat
  <2>5. left = [ok |-> TRUE, vectors |-> Finished(Vectors(V), c)]
    BY <1>1, <1>8, <2>1, <2>2, <2>4
  <2>6. right = [ok |-> TRUE, vectors |-> Finished(Vectors(V), c)]
    BY <1>2, <2>1
  <2> QED BY <2>5, <2>6 DEF left, right
<1> QED BY <1>9, <1>10, <1>11

------------------------------------------------------------------------------
\* Lists whose last element grows.

\* A list with another last element, and with one more.
Replaced(L, M, e, E) ==
    /\ M \in Seq(E) /\ Len(M) = Len(L)
    /\ Len(L) \in Nat \ {0} /\ Last(L) = L[Len(L)] /\ Last(L) \in E
    /\ \A j \in 1..Len(L) : M[j] = IF j < Len(L) THEN L[j] ELSE e

\* A list whose last text is extended by one character differs from it only there.
LEMMA ReplaceLast ==
    ASSUME NEW E, NEW L \in Seq(E), L # <<>>, NEW e \in E
    PROVE  Replaced(L, Append(Front(L), e), e, E)
<1> DEFINE n == Len(L)
           F == Front(L)
<1>1. n \in Nat \ {0} /\ L[n] \in E
  OBVIOUS
<1>2. F = SubSeq(L, 1, n - 1)
  BY DEF Front
<1> HIDE DEF n, F
<1>3. n - 1 \in Nat /\ n - 1 <= n /\ 1 \in Nat \ {0}
  BY <1>1
<1>4. /\ F \in Seq(E)
      /\ Len(F) = IF 1 <= n - 1 THEN n - 1 - 1 + 1 ELSE 0
      /\ \A k \in 1..Len(F) : F[k] = L[1 + k - 1]
  BY <1>2, <1>3, SubSeqElements DEF n
<1>5. Len(F) = n - 1
  BY <1>1, <1>4
<1>6. \A k \in 1..(n - 1) : F[k] = L[k]
  <2>1. \A k \in 1..(n - 1) : 1 + k - 1 = k
    OBVIOUS
  <2> QED BY <1>4, <1>5, <2>1
<1>7. /\ Append(F, e) \in Seq(E) /\ Len(Append(F, e)) = n - 1 + 1
      /\ \A k \in 1..(n - 1) : Append(F, e)[k] = F[k]
      /\ Append(F, e)[n - 1 + 1] = e
  BY <1>4, <1>5, AppendProperties
<1>8. n - 1 + 1 = n
  BY <1>1
<1>9. \A j \in 1..n : Append(F, e)[j] = IF j < n THEN L[j] ELSE e
  <2>1. \A j \in 1..n : j < n => j \in 1..(n - 1)
    BY <1>1
  <2>2. \A j \in 1..n : ~(j < n) => j = n
    BY <1>1
  <2> QED BY <1>6, <1>7, <1>8, <2>1, <2>2
<1> QED BY <1>1, <1>7, <1>8, <1>9 DEF n, F, Last, Replaced

\* Appending to a list keeps its elements and adds one at the end.
LEMMA AddLast ==
    ASSUME NEW E, NEW L \in Seq(E), NEW e \in E
    PROVE  /\ Append(L, e) \in Seq(E) /\ Len(Append(L, e)) = Len(L) + 1 /\ Len(L) \in Nat
           /\ \A j \in 1..(Len(L) + 1) : Append(L, e)[j] = IF j <= Len(L) THEN L[j] ELSE e
BY AppendProperties

\* The elements of one list after another.
LEMMA ConcatElements ==
    ASSUME NEW A, NEW u \in Seq(A), NEW v \in Seq(A)
    PROVE  u \o v \in Seq(A) /\ ToSet(u \o v) = ToSet(u) \cup ToSet(v)
<1> DEFINE p == Len(u)
           q == Len(v)
           w == u \o v
<1>1. p \in Nat /\ q \in Nat /\ DOMAIN u = 1..p /\ DOMAIN v = 1..q
  OBVIOUS
<1>2. w \in Seq(A) /\ Len(w) = p + q /\ \A i \in 1..(p + q) : w[i] = IF i <= p THEN u[i] ELSE v[i - p]
  BY ConcatProperties
<1>3. DOMAIN w = 1..(p + q)
  <2> HIDE DEF w, p, q
  <2> QED BY <1>1, <1>2
<1> HIDE DEF p, q, w
<1>4. ToSet(w) \subseteq ToSet(u) \cup ToSet(v)
  <2>1. ASSUME NEW i \in 1..(p + q) PROVE w[i] \in ToSet(u) \cup ToSet(v)
    <3>1. CASE i <= p
      <4>1. i \in 1..p /\ w[i] = u[i]
        BY <1>1, <1>2, <3>1
      <4> QED BY <1>1, <4>1 DEF ToSet
    <3>2. CASE ~(i <= p)
      <4>1. i - p \in 1..q
        BY <1>1, <3>2
      <4>2. w[i] = v[i - p]
        BY <1>2, <3>2
      <4> QED BY <1>1, <4>1, <4>2 DEF ToSet
    <3> QED BY <3>1, <3>2
  <2> QED BY <1>3, <2>1 DEF ToSet
<1>5. ToSet(u) \subseteq ToSet(w)
  <2>1. \A i \in 1..p : i \in 1..(p + q) /\ w[i] = u[i]
    BY <1>1, <1>2
  <2> QED BY <1>1, <1>3, <2>1 DEF ToSet
<1>6. ToSet(v) \subseteq ToSet(w)
  <2>1. ASSUME NEW i \in 1..q PROVE i + p \in 1..(p + q) /\ w[i + p] = v[i]
    <3> DEFINE r == i + p
    <3>1. r \in 1..(p + q) /\ ~(r <= p) /\ r - p = i
      BY <1>1
    <3> HIDE DEF r
    <3>2. w[r] = v[r - p]
      BY <1>2, <3>1
    <3> QED BY <3>1, <3>2 DEF r
  <2> QED BY <1>1, <1>3, <2>1 DEF ToSet
<1> QED BY <1>2, <1>4, <1>5, <1>6 DEF w

\* The elements of a flat list are those of its lists.
LEMMA FlatElements ==
    ASSUME NEW A, NEW seqs \in Seq(Seq(A))
    PROVE  /\ FlattenSeq(seqs) \in Seq(A)
           /\ ToSet(FlattenSeq(seqs)) = UNION {ToSet(seqs[k]) : k \in 1..Len(seqs)}
<1> DEFINE n == Len(seqs)
           Upto(m) == UNION {ToSet(seqs[k]) : k \in 1..m}
<1>1. PICK g \in [0..n -> Seq(A)] : Flat(g, seqs) /\ FlattenSeq(seqs) = g[n]
  BY FlattenIs
<1>2. n \in Nat /\ \A k \in 1..n : seqs[k] \in Seq(A)
  OBVIOUS
<1>3. g[0] = <<>> /\ \A k \in 1..n : g[k] = g[k - 1] \o seqs[k]
  BY <1>1 DEF Flat
<1>4. \A u, v \in Seq(A) : ToSet(u \o v) = ToSet(u) \cup ToSet(v)
  BY ConcatElements
<1> HIDE DEF n
<1> DEFINE P == {m \in Nat : m <= n => ToSet(g[m]) = Upto(m)}
<1>5. 0 \in P
  <2>1. DOMAIN <<>> = {} /\ 1..0 = {}
    OBVIOUS
  <2>2. ToSet(<<>>) = {}
    BY <2>1 DEF ToSet
  <2>3. Upto(0) = {}
    BY <2>1
  <2> QED BY <1>3, <2>2, <2>3
<1>6. ASSUME NEW m \in P PROVE m + 1 \in P
  <2> DEFINE k == m + 1
  <2>1. SUFFICES ASSUME k <= n PROVE ToSet(g[k]) = Upto(k)
    OBVIOUS
  <2>2. m \in Nat /\ m <= n /\ k \in 1..n /\ k - 1 = m /\ m \in 0..n /\ 1..k = 1..m \cup {k}
    BY <1>2, <2>1
  <2>3. ToSet(g[m]) = Upto(m)
    BY <2>2
  <2> HIDE DEF P, k
  <2>4. g[k] = g[m] \o seqs[k] /\ g[m] \in Seq(A) /\ seqs[k] \in Seq(A)
    BY <1>1, <1>2, <1>3, <2>2
  <2>5. ToSet(g[k]) = ToSet(g[m]) \cup ToSet(seqs[k])
    BY <1>4, <2>4
  <2>6. Upto(k) = Upto(m) \cup ToSet(seqs[k])
    BY <2>2
  <2> HIDE DEF Upto
  <2> QED BY <2>3, <2>5, <2>6
<1>7. P = Nat
  <2>1. P \in SUBSET Nat
    OBVIOUS
  <2> HIDE DEF P
  <2> QED BY <1>5, <1>6, <2>1, NaturalsBySteps
<1>8. ToSet(g[n]) = Upto(n)
  <2>1. n \in Nat /\ n <= n
    BY <1>2
  <2>2. n \in P
    BY <1>7, <2>1
  <2> HIDE DEF Upto
  <2> QED BY <2>1, <2>2
<1>9. g[n] \in Seq(A)
  BY <1>1, <1>2
<1>10. Upto(n) = UNION {ToSet(seqs[k]) : k \in 1..n}
  OBVIOUS
<1> HIDE DEF Upto, P
<1> QED BY <1>1, <1>8, <1>9, <1>10, Zenon DEF n

\* The last list grows by an element, or the list by a list.
Extended(L, M, c) ==
    /\ L # <<>> /\ Len(M) = Len(L)
    /\ \A j \in 1..(Len(L) - 1) : M[j] = L[j]
    /\ M[Len(L)] = Append(L[Len(L)], c)
Added(L, M, e) ==
    /\ Len(M) = Len(L) + 1
    /\ \A j \in 1..Len(L) : M[j] = L[j]
    /\ M[Len(L) + 1] = e

\* Two neighbours in a text that no mark follows.
Pair(t, a, b) ==
    \E i \in 1..(Len(t) - 1) :
        t[i] = a /\ t[i + 1] = b /\ (i + 1 < Len(t) => ~IsMark(t[i + 2]))

\* Two neighbours end the last list of L; are in one list for good; end the
\* list before the last and begin the last; are in two lists for good.
PairEnds(L, a, b) ==
    LET n == Len(L) IN
    L # <<>> /\ Len(L[n]) >= 2 /\ L[n][Len(L[n]) - 1] = a /\ L[n][Len(L[n])] = b
Sealed(L, a, b) ==
    \E j \in 1..Len(L) : \E i \in 1..(Len(L[j]) - 1) :
        /\ L[j][i] = a /\ L[j][i + 1] = b
        /\ IF i + 1 < Len(L[j]) THEN ~IsMark(L[j][i + 2]) ELSE j < Len(L)
HalvesEnd(L, a, b) ==
    LET n == Len(L) IN
    n >= 2 /\ Len(L[n - 1]) >= 1 /\ L[n - 1][Len(L[n - 1])] = a /\ L[n] = <<b>>
HalvesSealed(L, a, b) ==
    \E j \in 1..(Len(L) - 1) :
        /\ Len(L[j]) >= 1 /\ L[j][Len(L[j])] = a
        /\ Len(L[j + 1]) >= 1 /\ L[j + 1][1] = b
        /\ IF Len(L[j + 1]) > 1 THEN ~IsMark(L[j + 1][2]) ELSE j + 1 < Len(L)

\* A list that grew by an element.
LEMMA GrownIs ==
    ASSUME NEW C, NEW t \in Seq(C), NEW c \in C
    PROVE  /\ Append(t, c) \in Seq(C) /\ Len(t) \in Nat /\ Len(Append(t, c)) = Len(t) + 1
           /\ \A i \in 1..Len(t) : Append(t, c)[i] = t[i]
           /\ Append(t, c)[Len(t) + 1] = c
BY AppendProperties

\* A pair inside one text of the list stays there when the list grows.
LEMMA SealedStays ==
    ASSUME NEW C, NEW L \in Seq(Seq(C)), NEW M \in Seq(Seq(C)), NEW c \in C, NEW e,
           Extended(L, M, c) \/ Added(L, M, e), NEW a, NEW b, Sealed(L, a, b)
    PROVE  Sealed(M, a, b)
<1> DEFINE n == Len(L)
<1>1. n \in Nat /\ \A j \in 1..n : L[j] \in Seq(C) /\ Len(L[j]) \in Nat
  OBVIOUS
<1>0. PICK j \in 1..n : \E i \in 1..(Len(L[j]) - 1) :
         /\ L[j][i] = a /\ L[j][i + 1] = b
         /\ IF i + 1 < Len(L[j]) THEN ~IsMark(L[j][i + 2]) ELSE j < n
  BY DEF Sealed
<1>2. PICK i \in 1..(Len(L[j]) - 1) :
         /\ L[j][i] = a /\ L[j][i + 1] = b
         /\ IF i + 1 < Len(L[j]) THEN ~IsMark(L[j][i + 2]) ELSE j < n
  BY <1>0, Zenon
<1> HIDE DEF n
<1>3. CASE M[j] = L[j] /\ j < Len(M)
  <2>1. j \in 1..Len(M)
    BY <1>1, <1>3
  <2>2. i \in 1..(Len(M[j]) - 1)
    BY <1>3
  <2>3. /\ M[j][i] = a /\ M[j][i + 1] = b
        /\ IF i + 1 < Len(M[j]) THEN ~IsMark(M[j][i + 2]) ELSE j < Len(M)
    BY <1>2, <1>3
  <2> QED BY <2>1, <2>2, <2>3, Zenon DEF Sealed
<1>4. CASE Added(L, M, e)
  <2>1. M[j] = L[j] /\ j < Len(M)
    BY <1>1, <1>2, <1>4 DEF Added, n
  <2> QED BY <1>3, <2>1
<1>5. CASE Extended(L, M, c) /\ j < n
  <2>1. M[j] = L[j] /\ j < Len(M)
    BY <1>1, <1>2, <1>5 DEF Extended, n
  <2> QED BY <1>3, <2>1
<1>6. CASE Extended(L, M, c) /\ ~(j < n)
  <2>0. /\ Len(M) = n /\ n \in Nat \ {0} /\ M[n] = Append(L[n], c)
        /\ \A k \in 1..(n - 1) : M[k] = L[k]
    BY <1>6 DEF Extended, n
  <2>1. j = n /\ M[j] = Append(L[j], c) /\ j \in 1..Len(M)
    BY <1>6, <2>0
  <2> DEFINE t == L[j]
             l == Len(t)
  <2>2. t \in Seq(C) /\ l \in Nat
    BY <1>1
  <2>3. Len(M[j]) = l + 1 /\ \A k \in 1..l : M[j][k] = t[k]
    BY <2>1, <2>2, GrownIs
  <2>4. i \in 1..(l - 1) /\ t[i] = a /\ t[i + 1] = b /\ i + 1 < l /\ ~IsMark(t[i + 2])
    BY <1>2, <1>6
  <2> HIDE DEF l, t
  <2>5. i \in 1..l /\ i + 1 \in 1..l /\ i + 2 \in 1..l /\ i \in 1..(l + 1 - 1) /\ i + 1 < l + 1
    BY <2>2, <2>4
  <2>6. /\ M[j][i] = a /\ M[j][i + 1] = b /\ i \in 1..(Len(M[j]) - 1)
        /\ i + 1 < Len(M[j]) /\ ~IsMark(M[j][i + 2])
    BY <2>3, <2>4, <2>5
  <2> QED BY <2>1, <2>6 DEF Sealed
<1> QED BY <1>4, <1>5, <1>6

\* A pair at the end of the last text is inside it once another character follows.
LEMMA PairIsSealed ==
    ASSUME NEW C, NEW L \in Seq(Seq(C)), NEW M \in Seq(Seq(C)), NEW c \in C, NEW e,
           (Extended(L, M, c) /\ ~IsMark(c)) \/ Added(L, M, e), NEW a, NEW b, PairEnds(L, a, b)
    PROVE  Sealed(M, a, b)
<1> DEFINE n == Len(L)
           t == L[n]
           l == Len(t)
           i == l - 1
<1>1. n \in Nat \ {0} /\ t \in Seq(C) /\ l \in Nat /\ l >= 2 /\ t[i] = a /\ t[l] = b
  BY DEF PairEnds
<1> HIDE DEF n, t, l
<1>2. i \in 1..(l - 1) /\ i + 1 = l /\ i + 2 = l + 1 /\ i \in 1..l
  BY <1>1
<1>3. CASE Added(L, M, e)
  <2>0. Len(M) = n + 1 /\ \A k \in 1..n : M[k] = L[k]
    BY <1>3 DEF Added, n
  <2>1. M[n] = t /\ n < Len(M) /\ n \in 1..Len(M)
    BY <1>1, <2>0 DEF t
  <2>2. i \in 1..(Len(M[n]) - 1) /\ M[n][i] = a /\ M[n][i + 1] = b /\ ~(i + 1 < Len(M[n]))
    <3> HIDE DEF i
    <3> QED BY <1>1, <1>2, <2>1 DEF l
  <2> HIDE DEF i
  <2> QED BY <2>1, <2>2 DEF Sealed
<1>4. CASE Extended(L, M, c) /\ ~IsMark(c)
  <2>0. /\ Len(M) = n /\ n \in Nat \ {0} /\ M[n] = Append(L[n], c)
        /\ \A k \in 1..(n - 1) : M[k] = L[k]
    BY <1>4 DEF Extended, n
  <2>1. M[n] = Append(t, c) /\ n \in 1..Len(M)
    BY <2>0 DEF t
  <2>2. Len(M[n]) = l + 1 /\ (\A k \in 1..l : M[n][k] = t[k]) /\ M[n][l + 1] = c
    BY <1>1, <2>1, GrownIs DEF l
  <2> HIDE DEF i
  <2>3. i \in 1..(Len(M[n]) - 1) /\ M[n][i] = a /\ M[n][i + 1] = b /\ i + 1 < Len(M[n])
        /\ ~IsMark(M[n][i + 2])
    BY <1>1, <1>2, <1>4, <2>2
  <2> QED BY <2>1, <2>3 DEF Sealed
<1> QED BY <1>3, <1>4

\* Two texts that hold the halves of a pair stay so when the list grows.
LEMMA HalvesStay ==
    ASSUME NEW C, NEW L \in Seq(Seq(C)), NEW M \in Seq(Seq(C)), NEW c \in C, NEW e,
           Extended(L, M, c) \/ Added(L, M, e), NEW a, NEW b, HalvesSealed(L, a, b)
    PROVE  HalvesSealed(M, a, b)
<1> DEFINE n == Len(L)
<1>1. n \in Nat /\ \A j \in 1..n : L[j] \in Seq(C) /\ Len(L[j]) \in Nat
  OBVIOUS
<1>2. PICK j \in 1..(n - 1) :
        /\ Len(L[j]) >= 1 /\ L[j][Len(L[j])] = a
        /\ Len(L[j + 1]) >= 1 /\ L[j + 1][1] = b
        /\ IF Len(L[j + 1]) > 1 THEN ~IsMark(L[j + 1][2]) ELSE j + 1 < n
  BY DEF HalvesSealed
<1> HIDE DEF n
<1>3. M[j] = L[j] /\ n <= Len(M) /\ j \in 1..(Len(M) - 1) /\ j + 1 \in 1..n
  <2>1. CASE Added(L, M, e)
    BY <1>1, <2>1 DEF Added, n
  <2>2. CASE Extended(L, M, c)
    BY <1>1, <2>2 DEF Extended, n
  <2> QED BY <2>1, <2>2
<1>4. CASE M[j + 1] = L[j + 1] /\ (j + 1 < n \/ n < Len(M) \/ Len(L[j + 1]) > 1)
  <2>1. /\ Len(M[j]) >= 1 /\ M[j][Len(M[j])] = a
        /\ Len(M[j + 1]) >= 1 /\ M[j + 1][1] = b
        /\ IF Len(M[j + 1]) > 1 THEN ~IsMark(M[j + 1][2]) ELSE j + 1 < Len(M)
    <3>1. j + 1 < n => j + 1 < Len(M)
      BY <1>1, <1>3
    <3>2. n < Len(M) => j + 1 < Len(M)
      BY <1>1, <1>3
    <3> QED BY <1>2, <1>3, <1>4, <3>1, <3>2
  <2> QED BY <1>3, <2>1, Zenon DEF HalvesSealed
<1>5. CASE Added(L, M, e)
  <2>1. M[j + 1] = L[j + 1] /\ n < Len(M)
    BY <1>1, <1>3, <1>5 DEF Added, n
  <2> QED BY <1>4, <2>1
<1>6. CASE Extended(L, M, c) /\ j + 1 < n
  <2>1. M[j + 1] = L[j + 1]
    BY <1>1, <1>3, <1>6 DEF Extended, n
  <2> QED BY <1>4, <1>6, <2>1
<1>7. CASE Extended(L, M, c) /\ ~(j + 1 < n)
  <2>0. /\ Len(M) = n /\ n \in Nat \ {0} /\ M[n] = Append(L[n], c)
        /\ \A k \in 1..(n - 1) : M[k] = L[k]
    BY <1>7 DEF Extended, n
  <2>1. j + 1 = n /\ M[j + 1] = Append(L[j + 1], c)
    <3>1. j + 1 = n
      BY <1>1, <1>3, <1>7
    <3> QED BY <2>0, <3>1
  <2> DEFINE t == L[j + 1]
             l == Len(t)
  <2>2. t \in Seq(C) /\ l \in Nat
    BY <1>1, <1>3
  <2>3. Len(M[j + 1]) = l + 1 /\ \A k \in 1..l : M[j + 1][k] = t[k]
    BY <2>1, <2>2, GrownIs
  <2>4. l > 1 /\ t[1] = b /\ ~IsMark(t[2])
    BY <1>2, <1>7
  <2> HIDE DEF l
  <2>5. 1 \in 1..l /\ 2 \in 1..l /\ l + 1 > 1 /\ l + 1 >= 1
    BY <2>2, <2>4
  <2>6. Len(M[j + 1]) >= 1 /\ M[j + 1][1] = b /\ Len(M[j + 1]) > 1 /\ ~IsMark(M[j + 1][2])
    BY <2>3, <2>4, <2>5
  <2>7. Len(M[j]) >= 1 /\ M[j][Len(M[j])] = a
    BY <1>2, <1>3
  <2> QED BY <1>3, <2>6, <2>7 DEF HalvesSealed
<1> QED BY <1>5, <1>6, <1>7

\* Two texts that end with the halves of a pair hold them once another character follows.
LEMMA HalvesAreSealed ==
    ASSUME NEW C, NEW L \in Seq(Seq(C)), NEW M \in Seq(Seq(C)), NEW c \in C, NEW e,
           (Extended(L, M, c) /\ ~IsMark(c)) \/ Added(L, M, e), NEW a, NEW b \in C, HalvesEnd(L, a, b)
    PROVE  HalvesSealed(M, a, b)
<1> DEFINE n == Len(L)
           j == n - 1
<1>1. n \in Nat /\ n >= 2 /\ Len(L[j]) >= 1 /\ L[j][Len(L[j])] = a /\ L[n] = <<b>>
  BY DEF HalvesEnd
<1>2. Len(<<b>>) = 1 /\ <<b>>[1] = b
  OBVIOUS
<1> HIDE DEF n
<1>3. j \in 1..(n - 1) /\ j + 1 = n /\ j \in 1..n /\ n \in 1..n /\ j < n
  BY <1>1
<1>4. CASE Added(L, M, e)
  <2>0. /\ Len(M) = n + 1 /\ n \in Nat
        /\ \A k \in 1..n : M[k] = L[k]
    BY <1>1, <1>4 DEF Added, n
  <2> HIDE DEF j
  <2>1. M[j] = L[j] /\ M[n] = <<b>> /\ n < Len(M) /\ j \in 1..(Len(M) - 1)
    BY <1>1, <1>3, <2>0
  <2>2. /\ Len(M[j]) >= 1 /\ M[j][Len(M[j])] = a
        /\ Len(M[j + 1]) >= 1 /\ M[j + 1][1] = b
        /\ ~(Len(M[j + 1]) > 1) /\ j + 1 < Len(M)
    <3>1. M[j + 1] = <<b>>
      BY <1>3, <2>1
    <3>2. Len(M[j + 1]) = 1 /\ M[j + 1][1] = b
      BY <1>2, <3>1
    <3>3. Len(M[j]) >= 1 /\ M[j][Len(M[j])] = a
      BY <1>1, <2>1
    <3>4. j + 1 < Len(M)
      BY <1>3, <2>1
    <3> QED BY <3>2, <3>3, <3>4
  <2> QED BY <2>1, <2>2 DEF HalvesSealed
<1>5. CASE Extended(L, M, c) /\ ~IsMark(c)
  <2>0. /\ Len(M) = n /\ n \in Nat \ {0} /\ M[n] = Append(L[n], c)
        /\ \A k \in 1..(n - 1) : M[k] = L[k]
    BY <1>1, <1>5 DEF Extended, n
  <2> HIDE DEF j
  <2>1. M[j] = L[j] /\ M[n] = Append(<<b>>, c) /\ j \in 1..(Len(M) - 1)
    BY <1>1, <1>3, <2>0
  <2>2. Len(Append(<<b>>, c)) = 2 /\ Append(<<b>>, c)[1] = b /\ Append(<<b>>, c)[2] = c
    OBVIOUS
  <2>3. /\ Len(M[j]) >= 1 /\ M[j][Len(M[j])] = a
        /\ Len(M[j + 1]) >= 1 /\ M[j + 1][1] = b
        /\ Len(M[j + 1]) > 1 /\ ~IsMark(M[j + 1][2])
    BY <1>1, <1>3, <1>5, <2>1, <2>2
  <2> QED BY <2>1, <2>3 DEF HalvesSealed
<1> QED BY <1>4, <1>5

------------------------------------------------------------------------------
\* The words of a text.

\* The words of the characters at the places in a set.
WordSteps(f, s) ==
    f = [d \in SUBSET DOMAIN s |->
            IF d = {} THEN <<>> ELSE AddToWords(f[d \ {Max(d)}], s[Max(d)])]
WordsOf(s) == (CHOOSE f : WordSteps(f, s))[DOMAIN s]

\* Splitting into words, as the value of its steps on the whole text.
LEMMA WordsAre ==
    ASSUME NEW s
    PROVE  FoldLeft(AddToWords, <<>>, s) = WordsOf(s)
BY Zenon DEF WordsOf, WordSteps, FoldLeft, MapThenFoldSet

\* What a character does to the words before it.
WordStep(L, M, c) ==
    \/ /\ IsAlnum(c) \/ (L # <<>> /\ L[Len(L)] # <<>> /\ IsMark(c))
       /\ IF L = <<>> THEN M = <<<<c>>>> ELSE Extended(L, M, c)
    \/ /\ ~IsAlnum(c) /\ L # <<>> /\ L[Len(L)] # <<>> /\ ~IsMark(c)
       /\ Added(L, M, <<>>)
    \/ /\ ~IsAlnum(c) /\ (L = <<>> \/ L[Len(L)] = <<>>)
       /\ M = L

\* One character either extends the last word, begins one or is dropped.
LEMMA AddToWordsIs ==
    ASSUME NEW C, NEW L \in Seq(Seq(C)), NEW c \in C
    PROVE  AddToWords(L, c) \in Seq(Seq(C)) /\ WordStep(L, AddToWords(L, c), c)
<1> DEFINE M == AddToWords(L, c)
           open == L # <<>> /\ Last(L) # <<>>
           n == Len(L)
<1>1. M = IF IsAlnum(c) \/ (open /\ IsMark(c))
          THEN IF L = <<>> THEN <<<<c>>>> ELSE Append(Front(L), Append(Last(L), c))
          ELSE IF open THEN Append(L, <<>>) ELSE L
  BY DEF AddToWords
<1>2. Last(L) = L[n]
  BY DEF Last
<1> HIDE DEF M
<1>3. CASE (IsAlnum(c) \/ (open /\ IsMark(c))) /\ L = <<>>
  <2>1. M = <<<<c>>>>
    BY <1>1, <1>3
  <2>2. <<<<c>>>> \in Seq(Seq(C))
    <3>1. <<c>> \in Seq(C)
      OBVIOUS
    <3> DEFINE t == <<c>>
    <3> HIDE DEF t
    <3>2. <<t>> \in Seq(Seq(C))
      BY <3>1 DEF t
    <3> QED BY <3>2 DEF t
  <2> QED BY <1>3, <2>1, <2>2 DEF WordStep, M
<1>4. CASE (IsAlnum(c) \/ (open /\ IsMark(c))) /\ L # <<>>
  <2> DEFINE e == Append(Last(L), c)
  <2>1. M = Append(Front(L), e)
    BY <1>1, <1>4
  <2>2. n \in Nat \ {0} /\ L[n] \in Seq(C)
    BY <1>4
  <2>3. e \in Seq(C) /\ e = Append(L[n], c)
    BY <1>2, <2>2, GrownIs
  <2> HIDE DEF e, n
  <2>4. M \in Seq(Seq(C)) /\ Len(M) = n /\ \A j \in 1..n : M[j] = IF j < n THEN L[j] ELSE e
    <3> DEFINE E == Seq(C)
    <3>1. L \in Seq(E) /\ L # <<>> /\ e \in E
      BY <1>4, <2>3
    <3> HIDE DEF E
    <3>2. Replaced(L, Append(Front(L), e), e, E)
      BY <3>1, ReplaceLast
    <3> QED BY <2>1, <3>2 DEF E, n, Replaced
  <2>5. (\A j \in 1..(n - 1) : M[j] = L[j]) /\ M[n] = e
    <3>1. \A j \in 1..(n - 1) : j \in 1..n /\ j < n
      BY <2>2
    <3>2. n \in 1..n /\ ~(n < n)
      BY <2>2
    <3> QED BY <2>4, <3>1, <3>2
  <2>6. Extended(L, M, c)
    BY <1>4, <2>3, <2>4, <2>5 DEF Extended, n
  <2> QED BY <1>2, <1>4, <2>4, <2>6 DEF WordStep, M, n
<1>5. CASE ~(IsAlnum(c) \/ (open /\ IsMark(c))) /\ open
  <2>1. M = Append(L, <<>>)
    BY <1>1, <1>5
  <2>2. <<>> \in Seq(C)
    OBVIOUS
  <2> DEFINE e == <<>>
  <2> HIDE DEF e
  <2>3. M \in Seq(Seq(C)) /\ Len(M) = n + 1 /\ n \in Nat
        /\ \A j \in 1..(n + 1) : M[j] = IF j <= n THEN L[j] ELSE e
    BY <2>1, <2>2, AddLast DEF e
  <2>4. (\A j \in 1..n : M[j] = L[j]) /\ M[n + 1] = e
    <3> HIDE DEF n
    <3>1. \A j \in 1..n : j \in 1..(n + 1) /\ j <= n
      BY <2>3
    <3>2. n + 1 \in 1..(n + 1) /\ ~(n + 1 <= n)
      BY <2>3
    <3> QED BY <2>3, <3>1, <3>2
  <2>5. Added(L, M, <<>>)
    BY <2>3, <2>4 DEF Added, e
  <2> QED BY <1>2, <1>5, <2>3, <2>5 DEF WordStep, M
<1>6. CASE ~(IsAlnum(c) \/ (open /\ IsMark(c))) /\ ~open
  <2>1. M = L
    BY <1>1, <1>6
  <2> QED BY <1>2, <1>6, <2>1 DEF WordStep, M
<1> QED BY <1>3, <1>4, <1>5, <1>6

\* The steps of splitting into words have a value on every text.
LEMMA WordsExist ==
    ASSUME NEW C, NEW s \in Seq(C)
    PROVE  \E f : WordSteps(f, s)
<1> DEFINE n == Len(s)
           V == Seq(Seq(C))
           step == [p \in (1..n) \X V |-> AddToWords(p[2], s[p[1]])]
<1>1. n \in Nat /\ DOMAIN s = 1..n /\ \A k \in 1..n : s[k] \in C
  OBVIOUS
<1>2. step \in [(1..n) \X V -> V]
  <2>1. ASSUME NEW k \in 1..n, NEW h \in V PROVE AddToWords(h, s[k]) \in V
    BY <1>1, AddToWordsIs
  <2> HIDE DEF n, V
  <2> QED BY <2>1
<1>3. <<>> \in V
  OBVIOUS
<1>4. PICK f \in [SUBSET (1..n) -> V] : FoldSteps(f, <<>>, step, n)
  <2> HIDE DEF V, step, n
  <2> QED BY <1>1, <1>2, <1>3, FoldExists
<1> HIDE DEF n, V
<1>5. ASSUME NEW d \in SUBSET (1..n), d # {}
      PROVE  f[d] = AddToWords(f[d \ {Max(d)}], s[Max(d)])
  <2> DEFINE m == Max(d)
             e == d \ {m}
  <2>1. m \in 1..n /\ e \in SUBSET (1..n)
    BY <1>1, <1>5, MaxUpTo
  <2>2. f[d] = step[<<m, f[e]>>]
    BY <1>4, <1>5 DEF FoldSteps
  <2>3. f[e] \in V
    BY <1>4, <2>1
  <2> HIDE DEF m, e
  <2>4. step[<<m, f[e]>>] = AddToWords(f[e], s[m])
    BY <2>1, <2>3
  <2> QED BY <2>2, <2>4 DEF m, e
<1>6. f[{}] = <<>>
  BY <1>4 DEF FoldSteps
<1> DEFINE g == [d \in SUBSET (1..n) |->
                   IF d = {} THEN <<>> ELSE AddToWords(f[d \ {Max(d)}], s[Max(d)])]
<1>7. f = g
  <2>1. ASSUME NEW d \in SUBSET (1..n) PROVE f[d] = g[d]
    <3>1. g[d] = IF d = {} THEN <<>> ELSE AddToWords(f[d \ {Max(d)}], s[Max(d)])
      OBVIOUS
    <3> HIDE DEF g
    <3> QED BY <1>5, <1>6, <3>1
  <2>2. f = [d \in SUBSET (1..n) |-> f[d]] /\ g = [d \in SUBSET (1..n) |-> g[d]]
    OBVIOUS
  <2> HIDE DEF g
  <2> QED BY <2>1, <2>2, Zenon
<1>8. WordSteps(f, s)
  BY <1>1, <1>7, Zenon DEF WordSteps
<1> QED BY <1>8

\* The words after every prefix of the text.
WordsUpTo(h, s) ==
    /\ h[0] = <<>>
    /\ \A k \in 1..Len(s) : h[k] = AddToWords(h[k - 1], s[k])
    /\ WordsOf(s) = h[Len(s)]

\* The words of every prefix of a text, each from those of the prefix before it.
LEMMA WordsByPrefix ==
    ASSUME NEW C, NEW s \in Seq(C)
    PROVE  \E h : WordsUpTo(h, s)
<1> DEFINE n == Len(s)
           F == CHOOSE f : WordSteps(f, s)
           h == [k \in 0..n |-> F[1..k]]
<1>1. n \in Nat /\ DOMAIN s = 1..n
  OBVIOUS
<1>2. WordSteps(F, s)
  BY WordsExist
<1>3. WordsOf(s) = F[1..n]
  BY <1>1, Zenon DEF WordsOf
<1> HIDE DEF F, n
<1>4. \A d \in SUBSET (1..n) :
         F[d] = IF d = {} THEN <<>> ELSE AddToWords(F[d \ {Max(d)}], s[Max(d)])
  BY <1>1, <1>2 DEF WordSteps
<1>5. h[0] = <<>>
  <2>1. 1..0 = {} /\ {} \in SUBSET (1..n) /\ 0 \in 0..n
    BY <1>1
  <2> QED BY <1>4, <2>1
<1>6. ASSUME NEW k \in 1..n PROVE h[k] = AddToWords(h[k - 1], s[k])
  <2> DEFINE m == k - 1
  <2>1. m \in Nat /\ m < n /\ m + 1 = k /\ k \in 0..n /\ m \in 0..n
    BY <1>1
  <2> HIDE DEF m
  <2>2. 1..k \in SUBSET (1..n) /\ 1..k # {} /\ Max(1..k) = k /\ (1..k) \ {k} = 1..m
    BY <1>1, <2>1, PrefixIs
  <2>3. F[1..k] = AddToWords(F[1..m], s[k])
    BY <1>4, <2>2
  <2>4. h[k] = F[1..k] /\ h[m] = F[1..m]
    BY <2>1
  <2> HIDE DEF h
  <2> QED BY <2>3, <2>4 DEF m
<1>7. h[n] = F[1..n]
  <2>1. n \in 0..n
    BY <1>1
  <2> QED BY <2>1
<1> HIDE DEF h
<1>8. WordsUpTo(h, s)
  BY <1>3, <1>5, <1>6, <1>7 DEF WordsUpTo, n
<1> QED BY <1>8

\* The words after every prefix, each from the one before.
WordTrace(h, s, C) ==
    /\ h[0] = <<>>
    /\ \A k \in 0..Len(s) : h[k] \in Seq(Seq(C))
    /\ \A k \in 1..Len(s) : WordStep(h[k - 1], h[k], s[k])
    /\ FoldLeft(AddToWords, <<>>, s) = h[Len(s)]

\* The same with the lists typed: the history an induction on the length follows.
LEMMA WordsTrace ==
    ASSUME NEW C, NEW s \in Seq(C)
    PROVE  \E h : WordTrace(h, s, C)
<1> DEFINE n == Len(s)
<1>1. n \in Nat /\ \A k \in 1..n : s[k] \in C
  OBVIOUS
<1>2. PICK h : WordsUpTo(h, s)
  BY WordsByPrefix
<1>3. h[0] = <<>> /\ (\A k \in 1..n : h[k] = AddToWords(h[k - 1], s[k])) /\ WordsOf(s) = h[n]
  BY <1>2 DEF WordsUpTo
<1> HIDE DEF n
<1> DEFINE P == {m \in Nat : m <= n => h[m] \in Seq(Seq(C))}
<1>4. 0 \in P
  <2>1. <<>> \in Seq(Seq(C))
    OBVIOUS
  <2> QED BY <1>3, <2>1
<1>5. ASSUME NEW m \in P PROVE m + 1 \in P
  <2> DEFINE k == m + 1
  <2>1. SUFFICES ASSUME k <= n PROVE h[k] \in Seq(Seq(C))
    OBVIOUS
  <2>2. m \in Nat /\ m <= n /\ k \in 1..n /\ k - 1 = m
    BY <1>1, <2>1
  <2>3. h[m] \in Seq(Seq(C))
    BY <2>2
  <2> HIDE DEF P, k
  <2>4. h[k] = AddToWords(h[m], s[k]) /\ s[k] \in C
    BY <1>1, <1>3, <2>2
  <2> QED BY <2>3, <2>4, AddToWordsIs
<1>6. P = Nat
  <2>1. P \in SUBSET Nat
    OBVIOUS
  <2> HIDE DEF P
  <2> QED BY <1>4, <1>5, <2>1, NaturalsBySteps
<1>7. ASSUME NEW m \in 0..n PROVE h[m] \in Seq(Seq(C))
  <2>1. m \in P /\ m <= n
    BY <1>1, <1>6
  <2> QED BY <2>1
<1>8. ASSUME NEW k \in 1..n PROVE WordStep(h[k - 1], h[k], s[k])
  <2> DEFINE m == k - 1
  <2>1. m \in 0..n
    BY <1>1
  <2> HIDE DEF m
  <2>2. h[m] \in Seq(Seq(C)) /\ h[k] = AddToWords(h[m], s[k]) /\ s[k] \in C
    BY <1>1, <1>3, <1>7, <2>1 DEF m
  <2> QED BY <2>2, AddToWordsIs DEF m
<1> QED BY <1>3, <1>7, <1>8, WordsAre DEF WordTrace, n

\* A list of lists that a character came to.
Moved(L, M, c) ==
    \/ Extended(L, M, c)
    \/ \E e : Added(L, M, e)
    \/ M = L /\ (L = <<>> \/ L[Len(L)] = <<>>)

\* A pair stays in its list, whatever comes after it but a mark.
LEMMA PairStays ==
    ASSUME NEW C, NEW s \in Seq(C), NEW h, \A k \in 0..Len(s) : h[k] \in Seq(Seq(C)),
           \A k \in 1..Len(s) : Moved(h[k - 1], h[k], s[k]),
           NEW a, NEW b, NEW p \in 1..(Len(s) - 1), PairEnds(h[p + 1], a, b),
           p + 1 < Len(s) => ~IsMark(s[p + 2])
    PROVE  \E j \in 1..Len(h[Len(s)]) : Pair(h[Len(s)][j], a, b)
<1> DEFINE n == Len(s)
<1>1. n \in Nat /\ \A k \in 1..n : s[k] \in C
  OBVIOUS
<1>2. /\ p \in 1..(n - 1) /\ (p + 1 < n => ~IsMark(s[p + 2]))
      /\ \A k \in 0..n : h[k] \in Seq(Seq(C))
      /\ \A k \in 1..n : Moved(h[k - 1], h[k], s[k])
  OBVIOUS
<1> HIDE DEF n
<1> DEFINE P == {m \in Nat : m <= n /\ m > p + 1 => Sealed(h[m], a, b)}
<1>3. 0 \in P
  BY <1>2
<1>4. ASSUME NEW m \in P PROVE m + 1 \in P
  <2> DEFINE k == m + 1
  <2>1. SUFFICES ASSUME k <= n, k > p + 1 PROVE Sealed(h[k], a, b)
    OBVIOUS
  <2>2. m \in Nat /\ m <= n /\ k \in 1..n /\ k - 1 = m /\ m \in 0..n /\ k \in 0..n
    BY <1>1, <2>1
  <2>3. m > p + 1 => Sealed(h[m], a, b)
    BY <2>2
  <2>4. ~(m > p + 1) => m = p + 1 /\ k = p + 2 /\ p + 1 < n
    BY <1>1, <1>2, <2>1, <2>2
  <2> HIDE DEF P, k
  <2> DEFINE L == h[m]
             M == h[k]
  <2>5. L \in Seq(Seq(C)) /\ M \in Seq(Seq(C)) /\ s[k] \in C /\ Moved(L, M, s[k])
    BY <1>1, <1>2, <2>2
  <2>6. CASE m > p + 1
    <3>1. Sealed(L, a, b)
      BY <2>3, <2>6
    <3> HIDE DEF L, M
    <3>2. CASE M = L
      BY <3>1, <3>2 DEF M
    <3>3. CASE Extended(L, M, s[k])
      <4>1. Sealed(M, a, b)
        BY <2>5, <3>1, <3>3, SealedStays
      <4> QED BY <4>1 DEF M
    <3>4. CASE \E e : Added(L, M, e)
      <4>1. PICK e : Added(L, M, e)
        BY <3>4
      <4>2. Sealed(M, a, b)
        BY <2>5, <3>1, <4>1, SealedStays
      <4> QED BY <4>2 DEF M
    <3> QED BY <2>5, <3>2, <3>3, <3>4 DEF Moved
  <2>7. CASE ~(m > p + 1)
    <3>1. PairEnds(L, a, b) /\ ~IsMark(s[k])
      BY <1>2, <2>4, <2>7
    <3> HIDE DEF L, M
    <3>2. CASE M = L /\ (L = <<>> \/ L[Len(L)] = <<>>)
      <4>1. Len(<<>>) = 0
        OBVIOUS
      <4> QED BY <3>1, <3>2, <4>1 DEF PairEnds
    <3>3. CASE Extended(L, M, s[k])
      <4>1. Sealed(M, a, b)
        BY <2>5, <3>1, <3>3, PairIsSealed
      <4> QED BY <4>1 DEF M
    <3>4. CASE \E e : Added(L, M, e)
      <4>1. PICK e : Added(L, M, e)
        BY <3>4
      <4>2. Sealed(M, a, b)
        BY <2>5, <3>1, <4>1, PairIsSealed
      <4> QED BY <4>2 DEF M
    <3> QED BY <2>5, <3>2, <3>3, <3>4 DEF Moved
  <2> QED BY <2>6, <2>7
<1>5. P = Nat
  <2>1. P \in SUBSET Nat
    OBVIOUS
  <2> HIDE DEF P
  <2> QED BY <1>3, <1>4, <2>1, NaturalsBySteps
<1> DEFINE L == h[n]
<1>6. L \in Seq(Seq(C)) /\ \A j \in 1..Len(L) : L[j] \in Seq(C) /\ Len(L[j]) \in Nat
  <2>1. n \in 0..n
    BY <1>1
  <2>2. L \in Seq(Seq(C))
    BY <1>2, <2>1
  <2> HIDE DEF L
  <2> QED BY <2>2
<1>7. CASE n > p + 1
  <2>1. n \in P /\ n <= n
    <3> HIDE DEF P
    <3> QED BY <1>1, <1>5
  <2>2. Sealed(L, a, b)
    BY <1>7, <2>1
  <2> HIDE DEF L, P
  <2>3. PICK j \in 1..Len(L) : \E i \in 1..(Len(L[j]) - 1) :
          /\ L[j][i] = a /\ L[j][i + 1] = b
          /\ IF i + 1 < Len(L[j]) THEN ~IsMark(L[j][i + 2]) ELSE j < Len(L)
    BY <2>2, Zenon DEF Sealed
  <2>4. Pair(L[j], a, b)
    BY <2>3 DEF Pair
  <2> QED BY <2>4 DEF L, n
<1>8. CASE ~(n > p + 1)
  <2>1. n = p + 1
    BY <1>1, <1>2, <1>8
  <2>2. PairEnds(L, a, b)
    BY <2>1
  <2> HIDE DEF L, P
  <2> DEFINE q == Len(L)
             t == L[q]
             l == Len(t)
             i == l - 1
  <2>3. q \in 1..q /\ t \in Seq(C) /\ l \in Nat /\ l >= 2 /\ t[i] = a /\ t[l] = b
    <3>1. q \in Nat /\ q # 0
      BY <1>6, <2>2 DEF PairEnds
    <3>2. q \in 1..q
      <4> HIDE DEF q
      <4> QED BY <3>1
    <3> QED BY <1>6, <2>2, <3>2 DEF PairEnds
  <2> HIDE DEF t, q, l
  <2>4. i \in 1..(l - 1) /\ i + 1 = l /\ ~(i + 1 < l)
    BY <2>3
  <2> HIDE DEF i
  <2>5. Pair(t, a, b)
    BY <2>3, <2>4 DEF Pair, l
  <2> QED BY <2>3, <2>5 DEF L, n, q, t
<1> QED BY <1>7, <1>8

\* The last list ends with a character.
LastEnds(L, a) == L # <<>> /\ Len(L[Len(L)]) >= 1 /\ L[Len(L)][Len(L[Len(L)])] = a

\* Where the last text ends, and which pair ends it, after one more character.
LEMMA EndsMove ==
    ASSUME NEW C, NEW L \in Seq(Seq(C)), NEW M \in Seq(Seq(C)), NEW c \in C, NEW a
    PROVE  /\ Extended(L, M, c) => LastEnds(M, c)
           /\ Added(L, M, <<c>>) => LastEnds(M, c)
           /\ Extended(L, M, c) /\ LastEnds(L, a) => PairEnds(M, a, c)
           /\ Added(L, M, <<c>>) /\ LastEnds(L, a) => HalvesEnd(M, a, c)
<1> DEFINE n == Len(L)
           t == L[n]
           l == Len(t)
<1>1. n \in Nat /\ (n # 0 => t \in Seq(C) /\ l \in Nat) /\ (L # <<>> => n # 0) /\ (M # <<>> <=> Len(M) # 0)
  OBVIOUS
<1>2. Len(<<c>>) = 1 /\ <<c>>[1] = c
  OBVIOUS
<1>3. ASSUME Extended(L, M, c)
      PROVE  LastEnds(M, c) /\ (LastEnds(L, a) => PairEnds(M, a, c))
  <2>1. n # 0 /\ Len(M) = n /\ M[n] = Append(t, c)
    BY <1>1, <1>3 DEF Extended
  <2>2. t \in Seq(C) /\ l \in Nat
    BY <1>1, <2>1
  <2> HIDE DEF n, t
  <2>3. Len(M[n]) = l + 1 /\ (\A k \in 1..l : M[n][k] = t[k]) /\ M[n][l + 1] = c
    BY <2>1, <2>2, GrownIs
  <2>4. LastEnds(M, c)
    <3> HIDE DEF l
    <3>1. l + 1 >= 1
      BY <2>2
    <3> QED BY <1>1, <2>1, <2>3, <3>1 DEF LastEnds
  <2>5. ASSUME LastEnds(L, a) PROVE PairEnds(M, a, c)
    <3>1. l >= 1 /\ t[l] = a
      BY <2>5 DEF LastEnds, n, t
    <3> HIDE DEF l
    <3>2. l \in 1..l /\ l + 1 - 1 = l /\ l + 1 >= 2
      BY <2>2, <3>1
    <3>3. M[n][l] = a
      BY <2>3, <3>1, <3>2
    <3> QED BY <1>1, <2>1, <2>3, <3>2, <3>3 DEF PairEnds
  <2> QED BY <2>4, <2>5
<1>4. ASSUME Added(L, M, <<c>>)
      PROVE  LastEnds(M, c) /\ (LastEnds(L, a) => HalvesEnd(M, a, c))
  <2>1. Len(M) = n + 1 /\ (\A k \in 1..n : M[k] = L[k]) /\ M[n + 1] = <<c>>
    BY <1>4 DEF Added
  <2>2. LastEnds(M, c)
    <3> HIDE DEF n
    <3>1. n + 1 # 0
      BY <1>1
    <3>2. Len(M[n + 1]) = 1 /\ M[n + 1][1] = c /\ 1 >= 1
      BY <1>2, <2>1
    <3>3. Len(M[n + 1]) >= 1 /\ M[n + 1][Len(M[n + 1])] = c
      BY <3>2
    <3> QED BY <1>1, <2>1, <3>1, <3>3 DEF LastEnds
  <2>3. ASSUME LastEnds(L, a) PROVE HalvesEnd(M, a, c)
    <3>1. n # 0 /\ l >= 1 /\ t[l] = a
      BY <1>1, <2>3 DEF LastEnds
    <3> DEFINE q == n + 1
    <3>2. q - 1 = n /\ q >= 2 /\ n \in 1..n
      BY <1>1, <3>1
    <3>3. M[n] = t /\ Len(M) = q /\ M[q] = <<c>>
      BY <2>1, <3>2
    <3> HIDE DEF n, t, l, q
    <3> QED BY <3>1, <3>2, <3>3 DEF HalvesEnd, l
  <2> QED BY <2>2, <2>3
<1> QED BY <1>3, <1>4

\* A text that does not start with a mark.
Headed(t) == t # <<>> /\ ~IsMark(t[1])

\* What the classes of characters exclude: marks, digits and the characters of one script.
LEMMA KindsAre ==
    ASSUME NEW c
    PROVE  /\ IsAlnum(c) => ~IsMark(c)
           /\ Base(c) => IsAlnum(c) /\ Kind(c) # NoScript /\ Kind(c) # "DIGIT" /\ Kind(c) # "INHERIT"
           /\ Base(c) => ScriptOf(c) = Kind(c) /\ Kind(c) \in NGramScripts
           /\ IsMark(c) => ScriptOf(c) = NoScript /\ Kind(c) # "DIGIT" /\ ~Base(c)
<1>1. IsAlnum(c) => ~IsMark(c)
  BY DEF IsAlnum, IsMark
<1>2. Base(c) => IsAlnum(c)
  BY DEF Base, IsAlnum, NGramScripts
<1>3. Base(c) => Kind(c) # NoScript /\ Kind(c) # "DIGIT" /\ Kind(c) # "INHERIT" /\ Kind(c) # "MARK"
  BY DEF Base, NGramScripts, NoScript
<1>4. Base(c) => ScriptOf(c) = Kind(c)
  BY <1>3 DEF ScriptOf
<1>5. Base(c) => Kind(c) \in NGramScripts
  BY DEF Base
<1>6. IsMark(c) => ScriptOf(c) = NoScript /\ Kind(c) # "DIGIT" /\ ~Base(c)
  BY <1>3 DEF IsMark, ScriptOf
<1> QED BY <1>1, <1>2, <1>3, <1>4, <1>5, <1>6

\* A text is split well when what is not empty starts with no mark and every
\* two neighbours of scripts without spaces are in one word.
SplitWell(words, s, C) ==
    /\ words \in Seq(Seq(C))
    /\ \A k \in 1..Len(words) : Headed(words[k])
    /\ \A a, b : Pair(s, a, b) /\ Base(a) /\ Base(b) => \E k \in 1..Len(words) : Pair(words[k], a, b)
MarksFollow(L) == \A j \in 1..Len(L) : L[j] # <<>> => ~IsMark(L[j][1])

\* No word begins with a combining mark, also after one more character.
LEMMA MarksStillFollow ==
    ASSUME NEW C, NEW L \in Seq(Seq(C)), NEW M \in Seq(Seq(C)), NEW c \in C, WordStep(L, M, c),
           MarksFollow(L)
    PROVE  MarksFollow(M)
<1> DEFINE n == Len(L)
<1>1. n \in Nat /\ (\A j \in 1..n : L[j] \in Seq(C)) /\ (n = 0 <=> L = <<>>)
  OBVIOUS
<1>2. CASE M = L
  BY <1>2
<1>3. CASE Added(L, M, <<>>)
  <2>1. Len(M) = n + 1 /\ (\A j \in 1..n : M[j] = L[j]) /\ M[n + 1] = <<>>
    BY <1>3 DEF Added
  <2> HIDE DEF n
  <2>2. \A j \in 1..(n + 1) : j \in 1..n \/ j = n + 1
    BY <1>1
  <2> QED BY <2>1, <2>2 DEF MarksFollow, n
<1>4. CASE L = <<>> /\ IsAlnum(c) /\ M = <<<<c>>>>
  <2> DEFINE t == <<c>>
  <2>1. t[1] = c
    OBVIOUS
  <2> HIDE DEF t
  <2>2. Len(<<t>>) = 1 /\ <<t>>[1] = t
    OBVIOUS
  <2>3. M = <<t>> /\ ~IsMark(c)
    BY <1>4, KindsAre DEF t
  <2>4. \A j \in 1..1 : j = 1
    OBVIOUS
  <2> QED BY <2>1, <2>2, <2>3, <2>4 DEF MarksFollow
<1>5. CASE Extended(L, M, c) /\ (IsAlnum(c) \/ L[n] # <<>>)
  <2>1. n # 0 /\ Len(M) = n /\ (\A j \in 1..(n - 1) : M[j] = L[j]) /\ M[n] = Append(L[n], c)
    BY <1>1, <1>5 DEF Extended
  <2> DEFINE t == L[n]
             l == Len(t)
  <2>2. t \in Seq(C) /\ l \in Nat /\ (t = <<>> <=> l = 0)
    <3>1. n \in 1..n
      BY <1>1, <2>1
    <3>2. t \in Seq(C)
      BY <1>1, <3>1
    <3> HIDE DEF t
    <3> QED BY <3>2
  <2> HIDE DEF t
  <2>3. (\A k \in 1..l : M[n][k] = t[k]) /\ M[n][l + 1] = c
    BY <2>1, <2>2, GrownIs DEF t
  <2> HIDE DEF n, l
  <2>4. ~IsMark(M[n][1])
    <3>1. CASE l = 0
      BY <1>5, <2>2, <2>3, <3>1, KindsAre DEF t
    <3>2. CASE l # 0
      <4>1. 1 \in 1..l
        BY <2>2, <3>2
      <4>2. t # <<>> /\ n \in 1..n
        BY <1>1, <2>1, <2>2, <3>2
      <4>3. ~IsMark(t[1])
        BY <4>2 DEF MarksFollow, t, n
      <4> QED BY <2>3, <4>1, <4>3
    <3> QED BY <3>1, <3>2
  <2>5. \A j \in 1..n : j \in 1..(n - 1) \/ j = n
    BY <1>1, <2>1
  <2>6. \A j \in 1..(n - 1) : M[j] # <<>> => ~IsMark(M[j][1])
    <3>1. \A j \in 1..(n - 1) : j \in 1..n
      BY <1>1
    <3> QED BY <2>1, <3>1 DEF MarksFollow, n
  <2> QED BY <2>1, <2>4, <2>5, <2>6 DEF MarksFollow
<1>6. \/ M = L \/ Added(L, M, <<>>) \/ (L = <<>> /\ IsAlnum(c) /\ M = <<<<c>>>>)
      \/ (Extended(L, M, c) /\ (IsAlnum(c) \/ L[n] # <<>>))
  <2>1. Extended(L, M, c) => L # <<>>
    BY DEF Extended
  <2> QED BY <2>1 DEF WordStep
<1> QED BY <1>2, <1>3, <1>4, <1>5, <1>6

\* Two neighbours that are letters are in one word.
LEMMA WordsMove ==
    ASSUME NEW C, NEW L \in Seq(Seq(C)), NEW M, NEW c, WordStep(L, M, c)
    PROVE  /\ Moved(L, M, c)
           /\ IsAlnum(c) => (L = <<>> /\ Added(L, M, <<c>>)) \/ (L # <<>> /\ Extended(L, M, c))
<1>1. L = <<>> /\ M = <<<<c>>>> => Added(L, M, <<c>>)
  <2>1. SUFFICES ASSUME L = <<>>, M = <<<<c>>>> PROVE Added(L, M, <<c>>)
    OBVIOUS
  <2> DEFINE t == <<c>>
  <2> HIDE DEF t
  <2>2. Len(<<t>>) = 1 /\ <<t>>[1] = t /\ Len(<<>>) = 0
    OBVIOUS
  <2>3. M = <<t>> /\ Len(L) = 0
    BY <2>1, <2>2 DEF t
  <2>4. Added(L, M, t)
    BY <2>2, <2>3 DEF Added
  <2> QED BY <2>4 DEF t
<1> QED BY <1>1 DEF WordStep, Moved

\* Two adjacent letters of a text are adjacent in one of its words.
LEMMA WordPairs ==
    ASSUME NEW C, NEW s \in Seq(C), NEW h, WordTrace(h, s, C), NEW a, NEW b,
           Pair(s, a, b), IsAlnum(a), IsAlnum(b)
    PROVE  \E j \in 1..Len(h[Len(s)]) : Pair(h[Len(s)][j], a, b)
<1> DEFINE n == Len(s)
<1>1. n \in Nat /\ \A k \in 1..n : s[k] \in C
  OBVIOUS
<1>2. PICK p \in 1..(n - 1) : s[p] = a /\ s[p + 1] = b /\ (p + 1 < n => ~IsMark(s[p + 2]))
  BY DEF Pair
<1>3. /\ \A k \in 0..n : h[k] \in Seq(Seq(C))
      /\ \A k \in 1..n : WordStep(h[k - 1], h[k], s[k])
  BY DEF WordTrace
<1> DEFINE m == p - 1
           q == p + 1
<1>4. m \in 0..n /\ p \in 0..n /\ q \in 0..n /\ p \in 1..n /\ q \in 1..n /\ q - 1 = p
  <2> HIDE DEF n
  <2> QED BY <1>1, <1>2
<1> HIDE DEF n
<1> DEFINE L == h[m]
           M == h[p]
           N == h[q]
<1>5. /\ L \in Seq(Seq(C)) /\ M \in Seq(Seq(C)) /\ N \in Seq(Seq(C)) /\ a \in C /\ b \in C
      /\ WordStep(L, M, a) /\ WordStep(M, N, b)
  <2>1. L \in Seq(Seq(C)) /\ M \in Seq(Seq(C)) /\ N \in Seq(Seq(C)) /\ a \in C /\ b \in C
    BY <1>1, <1>2, <1>3, <1>4
  <2>2. WordStep(L, M, a)
    BY <1>2, <1>3, <1>4
  <2> HIDE DEF m
  <2>3. WordStep(h[q - 1], h[q], s[q])
    BY <1>3, <1>4
  <2>4. WordStep(M, N, b)
    BY <1>2, <1>4, <2>3
  <2> QED BY <2>1, <2>2, <2>4
<1> HIDE DEF L, M, N, m
<1>6. LastEnds(M, a)
  <2>1. Added(L, M, <<a>>) \/ Extended(L, M, a)
    BY <1>5, WordsMove
  <2> QED BY <1>5, <2>1, EndsMove
<1>7. PairEnds(N, a, b)
  <2>1. M # <<>>
    BY <1>6 DEF LastEnds
  <2>2. Extended(M, N, b)
    BY <1>5, <2>1, WordsMove
  <2> QED BY <1>5, <1>6, <2>2, EndsMove
<1>8. \A k \in 1..n : Moved(h[k - 1], h[k], s[k])
  <2>1. ASSUME NEW k \in 1..n PROVE Moved(h[k - 1], h[k], s[k])
    <3>1. k - 1 \in 0..n
      BY <1>1
    <3> DEFINE i == k - 1
    <3> HIDE DEF i
    <3>2. h[i] \in Seq(Seq(C)) /\ WordStep(h[i], h[k], s[k])
      BY <1>3, <3>1 DEF i
    <3>3. Moved(h[i], h[k], s[k])
      BY <3>2, WordsMove
    <3> QED BY <3>3 DEF i
  <2> QED BY <2>1
<1>9. \E j \in 1..Len(h[Len(s)]) : Pair(h[Len(s)][j], a, b)
  <2>1. PairEnds(h[p + 1], a, b)
    BY <1>7 DEF N
  <2> HIDE DEF q
  <2> QED BY <1>2, <1>3, <1>8, <2>1, PairStays DEF n
<1> QED BY <1>9

\* The words that are not empty.
WordList(s) == Where(FoldLeft(AddToWords, <<>>, s), LAMBDA w : w # <<>>)

\* Splitting into words keeps every pair of adjacent letters and begins no word with a mark.
LEMMA WordsSplit ==
    ASSUME NEW C, NEW s \in Seq(C)
    PROVE  SplitWell(WordList(s), s, C)
<1> DEFINE n == Len(s)
<1>1. n \in Nat /\ \A k \in 1..n : s[k] \in C
  OBVIOUS
<1>2. PICK h : WordTrace(h, s, C)
  BY WordsTrace
<1>3. /\ h[0] = <<>> /\ \A k \in 0..n : h[k] \in Seq(Seq(C))
      /\ \A k \in 1..n : WordStep(h[k - 1], h[k], s[k])
      /\ FoldLeft(AddToWords, <<>>, s) = h[n]
  BY <1>2 DEF WordTrace
<1> HIDE DEF n
<1> DEFINE P == {m \in Nat : m <= n => MarksFollow(h[m])}
<1>4. 0 \in P
  <2>1. Len(<<>>) = 0 /\ 1..0 = {}
    OBVIOUS
  <2> QED BY <1>3, <2>1 DEF MarksFollow
<1>5. ASSUME NEW m \in P PROVE m + 1 \in P
  <2> DEFINE k == m + 1
  <2>1. SUFFICES ASSUME k <= n PROVE MarksFollow(h[k])
    OBVIOUS
  <2>2. m \in Nat /\ m <= n /\ k \in 1..n /\ k - 1 = m /\ m \in 0..n /\ k \in 0..n
    BY <1>1, <2>1
  <2>3. MarksFollow(h[m])
    BY <2>2
  <2> HIDE DEF P, k
  <2>4. h[m] \in Seq(Seq(C)) /\ h[k] \in Seq(Seq(C)) /\ WordStep(h[m], h[k], s[k]) /\ s[k] \in C
    BY <1>1, <1>3, <2>2
  <2> QED BY <2>3, <2>4, MarksStillFollow
<1>6. P = Nat
  <2>1. P \in SUBSET Nat
    OBVIOUS
  <2> HIDE DEF P
  <2> QED BY <1>4, <1>5, <2>1, NaturalsBySteps
<1> DEFINE L == h[n]
           I == {j \in 1..Len(L) : L[j] # <<>>}
           W == WordList(s)
<1>7. L \in Seq(Seq(C)) /\ MarksFollow(L)
  <2>1. n \in 0..n /\ n \in Nat /\ n <= n
    BY <1>1
  <2>2. n \in P
    <3> HIDE DEF P
    <3> QED BY <1>6, <2>1
  <2> QED BY <1>3, <2>1, <2>2
<1> HIDE DEF P, L
<1>8. W = Kept(L, I)
  <2>1. DOMAIN L = 1..Len(L)
    BY <1>7
  <2>2. W = Kept(L, {j \in DOMAIN L : L[j] # <<>>})
    BY <1>3, Zenon DEF WordList, Where, L
  <2> QED BY <2>1, <2>2
<1> HIDE DEF W
<1>9. /\ W \in Seq(Seq(C)) /\ DOMAIN W = 1..Len(W)
      /\ \A k \in DOMAIN W : \E p \in I : W[k] = L[p]
      /\ \A p \in I : \E k \in DOMAIN W : W[k] = L[p]
  <2> DEFINE A == Seq(C)
  <2> HIDE DEF A
  <2>1. L \in Seq(A) /\ I \in SUBSET (1..Len(L))
    BY <1>7 DEF A
  <2> HIDE DEF I
  <2>2. /\ Kept(L, I) \in Seq(A) /\ DOMAIN Kept(L, I) = 1..Len(Kept(L, I))
        /\ \A k \in DOMAIN Kept(L, I) : \E p \in I : Kept(L, I)[k] = L[p]
        /\ \A p \in I : \E k \in DOMAIN Kept(L, I) : Kept(L, I)[k] = L[p]
    BY <2>1, KeptElements
  <2> QED BY <1>8, <2>2 DEF A
<1>10. \A k \in 1..Len(W) : Headed(W[k])
  BY <1>7, <1>9 DEF MarksFollow, Headed
<1>11. ASSUME NEW a, NEW b, Pair(s, a, b), Base(a), Base(b)
       PROVE  \E k \in 1..Len(W) : Pair(W[k], a, b)
  <2>1. \E j \in 1..Len(L) : Pair(L[j], a, b)
    <3>1. IsAlnum(a) /\ IsAlnum(b)
      BY <1>11, KindsAre
    <3> QED BY <1>2, <1>11, <3>1, WordPairs DEF L, n
  <2>2. PICK j \in 1..Len(L) : Pair(L[j], a, b)
    BY <2>1
  <2>3. j \in I
    <3>1. Len(<<>>) = 0 /\ 1..(0 - 1) = {}
      OBVIOUS
    <3>2. L[j] # <<>>
      BY <2>2, <3>1 DEF Pair
    <3> QED BY <3>2
  <2> QED BY <1>9, <2>2, <2>3
<1> QED BY <1>9, <1>10, <1>11 DEF SplitWell, W

------------------------------------------------------------------------------
\* The segments of a word, by the scripts of their characters.

Scripts(C) == {NoScript, "DIGIT"} \cup {Kind(c) : c \in C}
Segs(C) == [text : Seq(C), script : Scripts(C)]
\* A character joins the last segment, or starts one.
Joins(L, M, c) ==
    LET n == Len(L) IN
    /\ L # <<>> /\ Len(M) = n /\ \A j \in 1..(n - 1) : M[j] = L[j]
    /\ M[n].text = Append(L[n].text, c)
    /\ L[n].script # NoScript => M[n].script = L[n].script
    /\ Base(c) => M[n].script = Kind(c)
Starts(L, M, c) ==
    LET n == Len(L) IN
    /\ L # <<>> /\ Len(M) = n + 1 /\ \A j \in 1..n : M[j] = L[j]
    /\ M[n + 1].text = <<c>> /\ ~IsMark(c)
    /\ L[n].script # NoScript
    /\ Base(c) => M[n + 1].script = Kind(c) /\ L[n].script # Kind(c)

\* One character joins the last segment or starts a new one.
LEMMA AddCharIs ==
    ASSUME NEW C, NEW L \in Seq(Segs(C)), L # <<>>, NEW c \in C
    PROVE  AddChar(L, c) \in Seq(Segs(C)) /\ (Joins(L, AddChar(L, c), c) \/ Starts(L, AddChar(L, c), c))
<1> DEFINE n == Len(L)
           M == AddChar(L, c)
           cur == Last(L)
           script == IF Kind(c) = "DIGIT" /\ cur.script \notin {"LATIN", "DIGIT"} THEN "DIGIT"
                     ELSE ScriptOf(c)
           E == Segs(C)
           grown(t) == Segment(Append(cur.text, c), t)
<1>1. n \in Nat \ {0} /\ L[n] \in E /\ cur = L[n]
  <2>1. n \in Nat \ {0} /\ L[n] \in E
    <3> HIDE DEF E
    <3> QED BY DEF E
  <2> QED BY <2>1 DEF Last
<1>2. cur.text \in Seq(C) /\ cur.script \in Scripts(C)
  BY <1>1 DEF Segs
<1>3. M = IF script = NoScript THEN Append(Front(L), grown(cur.script))
          ELSE IF cur.script \in {NoScript, script} THEN Append(Front(L), grown(script))
          ELSE Append(L, Segment(<<c>>, script))
  BY DEF AddChar
<1>4. /\ script \in Scripts(C)
      /\ Base(c) => script = Kind(c) /\ script # NoScript
      /\ IsMark(c) => script = NoScript
  <2>1. ScriptOf(c) \in Scripts(C)
    BY DEF ScriptOf, Scripts
  <2>2. script \in Scripts(C)
    BY <2>1 DEF Scripts
  <2> QED BY <2>2, KindsAre
<1> HIDE DEF cur, script, n, M
<1>5. ASSUME NEW t \in Scripts(C), M = Append(Front(L), grown(t))
      PROVE  /\ M \in Seq(E) /\ Len(M) = n /\ \A j \in 1..(n - 1) : M[j] = L[j]
             /\ M[n] = grown(t) /\ M[n].text = Append(cur.text, c) /\ M[n].script = t
  <2> DEFINE e == grown(t)
  <2>1. e.text = Append(cur.text, c) /\ e.script = t /\ e \in E
    <3>1. Append(cur.text, c) \in Seq(C)
      BY <1>2, GrownIs
    <3> QED BY <3>1 DEF Segment, Segs
  <2> HIDE DEF E, e
  <2>2. M = Append(Front(L), e)
    BY <1>5 DEF e
  <2>3. Replaced(L, Append(Front(L), e), e, E)
    BY <2>1, ReplaceLast DEF E
  <2>4. M \in Seq(E) /\ Len(M) = n /\ \A j \in 1..n : M[j] = IF j < n THEN L[j] ELSE e
    BY <2>2, <2>3 DEF Replaced, n
  <2>5. (\A j \in 1..(n - 1) : M[j] = L[j]) /\ M[n] = e
    <3>1. \A j \in 1..(n - 1) : j \in 1..n /\ j < n
      BY <1>1
    <3>2. n \in 1..n /\ ~(n < n)
      BY <1>1
    <3> QED BY <2>4, <3>1, <3>2
  <2> QED BY <2>1, <2>4, <2>5 DEF e
<1>6. CASE script = NoScript
  <2>1. M = Append(Front(L), grown(cur.script))
    BY <1>3, <1>6
  <2>2. /\ M \in Seq(E) /\ Len(M) = n /\ \A j \in 1..(n - 1) : M[j] = L[j]
        /\ M[n].text = Append(cur.text, c) /\ M[n].script = cur.script
    BY <1>2, <1>5, <2>1
  <2>3. ~Base(c)
    BY <1>4, <1>6
  <2>4. Joins(L, M, c)
    BY <1>1, <2>2, <2>3 DEF Joins, n
  <2> QED BY <2>2, <2>4 DEF M
<1>7. CASE script # NoScript /\ cur.script \in {NoScript, script}
  <2>1. M = Append(Front(L), grown(script))
    BY <1>3, <1>7
  <2>2. /\ M \in Seq(E) /\ Len(M) = n /\ \A j \in 1..(n - 1) : M[j] = L[j]
        /\ M[n].text = Append(cur.text, c) /\ M[n].script = script
    BY <1>4, <1>5, <2>1
  <2>3. /\ Base(c) => M[n].script = Kind(c)
        /\ cur.script # NoScript => M[n].script = cur.script
    BY <1>4, <1>7, <2>2
  <2>4. Joins(L, M, c)
    BY <1>1, <2>2, <2>3 DEF Joins, n
  <2> QED BY <2>2, <2>4 DEF M
<1>8. CASE script # NoScript /\ cur.script \notin {NoScript, script}
  <2> DEFINE e == Segment(<<c>>, script)
  <2>1. M = Append(L, e)
    BY <1>3, <1>8
  <2>2. e.text = <<c>> /\ e.script = script /\ e \in E
    <3>1. <<c>> \in Seq(C)
      OBVIOUS
    <3> QED BY <1>4, <3>1 DEF Segment, Segs
  <2> HIDE DEF E, e
  <2>3. M \in Seq(E) /\ Len(M) = n + 1 /\ \A j \in 1..(n + 1) : M[j] = IF j <= n THEN L[j] ELSE e
    BY <2>1, <2>2, AddLast DEF E, n
  <2>4. (\A j \in 1..n : M[j] = L[j]) /\ M[n + 1] = e
    <3>1. \A j \in 1..n : j \in 1..(n + 1) /\ j <= n
      BY <1>1
    <3>2. n + 1 \in 1..(n + 1) /\ ~(n + 1 <= n)
      BY <1>1
    <3> QED BY <2>3, <3>1, <3>2
  <2>5. ~IsMark(c) /\ (Base(c) => M[n + 1].script = Kind(c) /\ L[n].script # Kind(c))
    BY <1>1, <1>4, <1>8, <2>2, <2>4
  <2>6. Starts(L, M, c)
    BY <1>1, <1>8, <2>2, <2>3, <2>4, <2>5 DEF Starts, n
  <2> QED BY <2>3, <2>6 DEF E, M
<1> QED BY <1>6, <1>7, <1>8

\* Segments are never none: the first one is there before the characters.
SegLists(C) == Seq(Segs(C)) \ {<<>>}
NoSegment == <<Segment(<<>>, NoScript)>>

\* The list before the first character is a list of segments.
LEMMA NoSegmentIs ==
    ASSUME NEW C
    PROVE  NoSegment \in SegLists(C)
<1> DEFINE e == Segment(<<>>, NoScript)
<1>1. e \in Segs(C)
  <2>1. <<>> \in Seq(C)
    OBVIOUS
  <2> QED BY <2>1 DEF Segment, Segs, Scripts
<1> HIDE DEF e
<1>2. <<e>> \in Seq(Segs(C)) /\ <<e>> # <<>>
  <2> DEFINE E == Segs(C)
  <2> HIDE DEF E
  <2>1. <<e>> \in Seq(E) /\ <<e>> # <<>>
    BY <1>1 DEF E
  <2> QED BY <2>1 DEF E
<1> QED BY <1>2 DEF SegLists, NoSegment, e
SegmentStep(L, M, c) == Joins(L, M, c) \/ Starts(L, M, c)

\* Adding a character to a list of segments is a step of segmentation.
LEMMA SegmentsStep ==
    ASSUME NEW C, NEW L \in SegLists(C), NEW c \in C
    PROVE  AddChar(L, c) \in SegLists(C) /\ SegmentStep(L, AddChar(L, c), c)
<1> DEFINE M == AddChar(L, c)
           n == Len(L)
<1>1. L \in Seq(Segs(C)) /\ L # <<>>
  BY DEF SegLists
<1>2. n \in Nat \ {0}
  <2> DEFINE E == Segs(C)
  <2> HIDE DEF E
  <2>1. L \in Seq(E)
    BY <1>1 DEF E
  <2> QED BY <1>1, <2>1
<1>3. M \in Seq(Segs(C)) /\ (Joins(L, M, c) \/ Starts(L, M, c))
  BY <1>1, AddCharIs
<1> HIDE DEF M, n
<1>4. Len(M) # 0
  <2>1. Len(M) = n \/ Len(M) = n + 1
    BY <1>3 DEF Joins, Starts, n
  <2> QED BY <1>2, <2>1
<1>5. Len(<<>>) = 0
  OBVIOUS
<1> QED BY <1>3, <1>4, <1>5 DEF SegLists, SegmentStep, M

\* The segments of the characters at the places in a set.
SegmentSteps(f, s) ==
    f = [d \in SUBSET DOMAIN s |->
            IF d = {} THEN NoSegment ELSE AddChar(f[d \ {Max(d)}], s[Max(d)])]
SegmentsOf(s) == (CHOOSE f : SegmentSteps(f, s))[DOMAIN s]

\* Segmentation, as the value of its steps on the whole word.
LEMMA SegmentsAre ==
    ASSUME NEW s
    PROVE  Segments(s) = SegmentsOf(s)
BY Zenon DEF SegmentsOf, SegmentSteps, FoldLeft, MapThenFoldSet, Segments, NoSegment

\* The steps of segmentation have a value on every word.
LEMMA SegmentsExist ==
    ASSUME NEW C, NEW s \in Seq(C)
    PROVE  \E f : SegmentSteps(f, s)
<1> DEFINE n == Len(s)
           V == SegLists(C)
           step == [p \in (1..n) \X V |-> AddChar(p[2], s[p[1]])]
<1>1. n \in Nat /\ DOMAIN s = 1..n /\ \A k \in 1..n : s[k] \in C
  OBVIOUS
<1>2. step \in [(1..n) \X V -> V]
  <2>1. ASSUME NEW k \in 1..n, NEW h \in V PROVE AddChar(h, s[k]) \in V
    BY <1>1, SegmentsStep
  <2> HIDE DEF n, V
  <2> QED BY <2>1
<1>3. NoSegment \in V
  BY NoSegmentIs
<1>4. PICK f \in [SUBSET (1..n) -> V] : FoldSteps(f, NoSegment, step, n)
  <2> HIDE DEF V, step, n
  <2> QED BY <1>1, <1>2, <1>3, FoldExists
<1> HIDE DEF n, V
<1>5. ASSUME NEW d \in SUBSET (1..n), d # {}
      PROVE  f[d] = AddChar(f[d \ {Max(d)}], s[Max(d)])
  <2> DEFINE m == Max(d)
             e == d \ {m}
  <2>1. m \in 1..n /\ e \in SUBSET (1..n)
    BY <1>1, <1>5, MaxUpTo
  <2>2. f[d] = step[<<m, f[e]>>]
    BY <1>4, <1>5 DEF FoldSteps
  <2>3. f[e] \in V
    BY <1>4, <2>1
  <2> HIDE DEF m, e
  <2>4. step[<<m, f[e]>>] = AddChar(f[e], s[m])
    BY <2>1, <2>3
  <2> QED BY <2>2, <2>4 DEF m, e
<1>6. f[{}] = NoSegment
  BY <1>4 DEF FoldSteps
<1> DEFINE g == [d \in SUBSET (1..n) |->
                   IF d = {} THEN NoSegment ELSE AddChar(f[d \ {Max(d)}], s[Max(d)])]
<1>7. f = g
  <2>1. ASSUME NEW d \in SUBSET (1..n) PROVE f[d] = g[d]
    <3>1. g[d] = IF d = {} THEN NoSegment ELSE AddChar(f[d \ {Max(d)}], s[Max(d)])
      OBVIOUS
    <3> HIDE DEF g
    <3> QED BY <1>5, <1>6, <3>1
  <2>2. f = [d \in SUBSET (1..n) |-> f[d]] /\ g = [d \in SUBSET (1..n) |-> g[d]]
    OBVIOUS
  <2> HIDE DEF g
  <2> QED BY <2>1, <2>2, Zenon
<1>8. SegmentSteps(f, s)
  BY <1>1, <1>7, Zenon DEF SegmentSteps
<1> QED BY <1>8

\* The segments after every prefix, each from the one before.
SegmentsUpTo(h, s) ==
    /\ h[0] = NoSegment
    /\ \A k \in 1..Len(s) : h[k] = AddChar(h[k - 1], s[k])
    /\ SegmentsOf(s) = h[Len(s)]

\* The segments of every prefix of a word, each from those of the prefix before it.
LEMMA SegmentsByPrefix ==
    ASSUME NEW C, NEW s \in Seq(C)
    PROVE  \E h : SegmentsUpTo(h, s)
<1> DEFINE n == Len(s)
           F == CHOOSE f : SegmentSteps(f, s)
           h == [k \in 0..n |-> F[1..k]]
<1>1. n \in Nat /\ DOMAIN s = 1..n
  OBVIOUS
<1>2. SegmentSteps(F, s)
  BY SegmentsExist
<1>3. SegmentsOf(s) = F[1..n]
  BY <1>1, Zenon DEF SegmentsOf
<1> HIDE DEF F, n
<1>4. \A d \in SUBSET (1..n) :
         F[d] = IF d = {} THEN NoSegment ELSE AddChar(F[d \ {Max(d)}], s[Max(d)])
  BY <1>1, <1>2 DEF SegmentSteps
<1>5. h[0] = NoSegment
  <2>1. 1..0 = {} /\ {} \in SUBSET (1..n) /\ 0 \in 0..n
    BY <1>1
  <2> QED BY <1>4, <2>1
<1>6. ASSUME NEW k \in 1..n PROVE h[k] = AddChar(h[k - 1], s[k])
  <2> DEFINE m == k - 1
  <2>1. m \in Nat /\ m < n /\ m + 1 = k /\ k \in 0..n /\ m \in 0..n
    BY <1>1
  <2> HIDE DEF m
  <2>2. 1..k \in SUBSET (1..n) /\ 1..k # {} /\ Max(1..k) = k /\ (1..k) \ {k} = 1..m
    BY <1>1, <2>1, PrefixIs
  <2>3. F[1..k] = AddChar(F[1..m], s[k])
    BY <1>4, <2>2
  <2>4. h[k] = F[1..k] /\ h[m] = F[1..m]
    BY <2>1
  <2> HIDE DEF h
  <2> QED BY <2>3, <2>4 DEF m
<1>7. h[n] = F[1..n]
  <2>1. n \in 0..n
    BY <1>1
  <2> QED BY <2>1
<1> HIDE DEF h
<1>8. SegmentsUpTo(h, s)
  BY <1>3, <1>5, <1>6, <1>7 DEF SegmentsUpTo, n
<1> QED BY <1>8
SegmentTrace(h, s, C) ==
    /\ h[0] = NoSegment
    /\ \A k \in 0..Len(s) : h[k] \in SegLists(C)
    /\ \A k \in 1..Len(s) : SegmentStep(h[k - 1], h[k], s[k])
    /\ Segments(s) = h[Len(s)]

\* The same with the lists typed: the history an induction on the length follows.
LEMMA SegmentsTrace ==
    ASSUME NEW C, NEW s \in Seq(C)
    PROVE  \E h : SegmentTrace(h, s, C)
<1> DEFINE n == Len(s)
<1>1. n \in Nat /\ \A k \in 1..n : s[k] \in C
  OBVIOUS
<1>2. PICK h : SegmentsUpTo(h, s)
  BY SegmentsByPrefix
<1>3. h[0] = NoSegment /\ (\A k \in 1..n : h[k] = AddChar(h[k - 1], s[k])) /\ SegmentsOf(s) = h[n]
  BY <1>2 DEF SegmentsUpTo
<1> HIDE DEF n
<1> DEFINE P == {m \in Nat : m <= n => h[m] \in SegLists(C)}
<1>4. 0 \in P
  <2>1. NoSegment \in SegLists(C)
    BY NoSegmentIs
  <2> QED BY <1>3, <2>1
<1>5. ASSUME NEW m \in P PROVE m + 1 \in P
  <2> DEFINE k == m + 1
  <2>1. SUFFICES ASSUME k <= n PROVE h[k] \in SegLists(C)
    OBVIOUS
  <2>2. m \in Nat /\ m <= n /\ k \in 1..n /\ k - 1 = m
    BY <1>1, <2>1
  <2>3. h[m] \in SegLists(C)
    BY <2>2
  <2> HIDE DEF P, k
  <2>4. h[k] = AddChar(h[m], s[k]) /\ s[k] \in C
    BY <1>1, <1>3, <2>2
  <2> QED BY <2>3, <2>4, SegmentsStep
<1>6. P = Nat
  <2>1. P \in SUBSET Nat
    OBVIOUS
  <2> HIDE DEF P
  <2> QED BY <1>4, <1>5, <2>1, NaturalsBySteps
<1>7. ASSUME NEW m \in 0..n PROVE h[m] \in SegLists(C)
  <2>1. m \in P /\ m <= n
    BY <1>1, <1>6
  <2> QED BY <2>1
<1>8. ASSUME NEW k \in 1..n PROVE SegmentStep(h[k - 1], h[k], s[k])
  <2> DEFINE m == k - 1
  <2>1. m \in 0..n
    BY <1>1
  <2> HIDE DEF m
  <2>2. h[m] \in SegLists(C) /\ h[k] = AddChar(h[m], s[k]) /\ s[k] \in C
    BY <1>1, <1>3, <1>7, <2>1 DEF m
  <2> QED BY <2>2, SegmentsStep DEF m
<1> QED BY <1>3, <1>7, <1>8, SegmentsAre DEF SegmentTrace, n

\* Two lists meet in two neighbours that no mark follows.
Meet(u, v, a, b) ==
    /\ Len(u) >= 1 /\ u[Len(u)] = a
    /\ Len(v) >= 1 /\ v[1] = b /\ (Len(v) > 1 => ~IsMark(v[2]))

\* Two halves stay in their lists, whatever comes after them but a mark.
LEMMA HalvesKeepApart ==
    ASSUME NEW C, NEW s \in Seq(C), NEW h, \A k \in 0..Len(s) : h[k] \in Seq(Seq(C)),
           \A k \in 1..Len(s) : Moved(h[k - 1], h[k], s[k]),
           NEW a, NEW b \in C, NEW p \in 1..(Len(s) - 1), HalvesEnd(h[p + 1], a, b),
           p + 1 < Len(s) => ~IsMark(s[p + 2])
    PROVE  \E j \in 1..(Len(h[Len(s)]) - 1) : Meet(h[Len(s)][j], h[Len(s)][j + 1], a, b)
<1> DEFINE n == Len(s)
<1>1. n \in Nat /\ \A k \in 1..n : s[k] \in C
  OBVIOUS
<1>2. /\ p \in 1..(n - 1) /\ (p + 1 < n => ~IsMark(s[p + 2]))
      /\ \A k \in 0..n : h[k] \in Seq(Seq(C))
      /\ \A k \in 1..n : Moved(h[k - 1], h[k], s[k])
  OBVIOUS
<1> HIDE DEF n
<1> DEFINE P == {m \in Nat : m <= n /\ m > p + 1 => HalvesSealed(h[m], a, b)}
<1>3. 0 \in P
  BY <1>2
<1>4. ASSUME NEW m \in P PROVE m + 1 \in P
  <2> DEFINE k == m + 1
  <2>1. SUFFICES ASSUME k <= n, k > p + 1 PROVE HalvesSealed(h[k], a, b)
    OBVIOUS
  <2>2. m \in Nat /\ m <= n /\ k \in 1..n /\ k - 1 = m /\ m \in 0..n /\ k \in 0..n
    BY <1>1, <2>1
  <2>3. m > p + 1 => HalvesSealed(h[m], a, b)
    BY <2>2
  <2>4. ~(m > p + 1) => m = p + 1 /\ k = p + 2 /\ p + 1 < n
    BY <1>1, <1>2, <2>1, <2>2
  <2> HIDE DEF P, k
  <2> DEFINE L == h[m]
             M == h[k]
  <2>5. L \in Seq(Seq(C)) /\ M \in Seq(Seq(C)) /\ s[k] \in C /\ Moved(L, M, s[k])
    BY <1>1, <1>2, <2>2
  <2>6. CASE m > p + 1
    <3>1. HalvesSealed(L, a, b)
      BY <2>3, <2>6
    <3> HIDE DEF L, M
    <3>2. CASE M = L
      BY <3>1, <3>2 DEF M
    <3>3. CASE Extended(L, M, s[k])
      <4>1. HalvesSealed(M, a, b)
        BY <2>5, <3>1, <3>3, HalvesStay
      <4> QED BY <4>1 DEF M
    <3>4. CASE \E e : Added(L, M, e)
      <4>1. PICK e : Added(L, M, e)
        BY <3>4
      <4>2. HalvesSealed(M, a, b)
        BY <2>5, <3>1, <4>1, HalvesStay
      <4> QED BY <4>2 DEF M
    <3> QED BY <2>5, <3>2, <3>3, <3>4 DEF Moved
  <2>7. CASE ~(m > p + 1)
    <3>1. HalvesEnd(L, a, b) /\ ~IsMark(s[k])
      BY <1>2, <2>4, <2>7
    <3> HIDE DEF L, M
    <3>2. CASE M = L /\ (L = <<>> \/ L[Len(L)] = <<>>)
      <4>1. Len(<<>>) = 0 /\ <<b>> # <<>>
        OBVIOUS
      <4> QED BY <3>1, <3>2, <4>1 DEF HalvesEnd
    <3>3. CASE Extended(L, M, s[k])
      <4>1. HalvesSealed(M, a, b)
        BY <2>5, <3>1, <3>3, HalvesAreSealed
      <4> QED BY <4>1 DEF M
    <3>4. CASE \E e : Added(L, M, e)
      <4>1. PICK e : Added(L, M, e)
        BY <3>4
      <4>2. HalvesSealed(M, a, b)
        BY <2>5, <3>1, <4>1, HalvesAreSealed
      <4> QED BY <4>2 DEF M
    <3> QED BY <2>5, <3>2, <3>3, <3>4 DEF Moved
  <2> QED BY <2>6, <2>7
<1>5. P = Nat
  <2>1. P \in SUBSET Nat
    OBVIOUS
  <2> HIDE DEF P
  <2> QED BY <1>3, <1>4, <2>1, NaturalsBySteps
<1> DEFINE L == h[n]
<1>6. L \in Seq(Seq(C)) /\ Len(L) \in Nat
  <2>1. n \in 0..n
    BY <1>1
  <2>2. L \in Seq(Seq(C))
    BY <1>2, <2>1
  <2> HIDE DEF L
  <2> QED BY <2>2
<1>7. CASE n > p + 1
  <2>1. n \in P /\ n <= n
    <3> HIDE DEF P
    <3> QED BY <1>1, <1>5
  <2>2. HalvesSealed(L, a, b)
    BY <1>7, <2>1
  <2> HIDE DEF L, P
  <2>3. PICK j \in 1..(Len(L) - 1) :
        /\ Len(L[j]) >= 1 /\ L[j][Len(L[j])] = a
        /\ Len(L[j + 1]) >= 1 /\ L[j + 1][1] = b
        /\ IF Len(L[j + 1]) > 1 THEN ~IsMark(L[j + 1][2]) ELSE j + 1 < Len(L)
    BY <2>2, Zenon DEF HalvesSealed
  <2>4. Meet(L[j], L[j + 1], a, b)
    BY <2>3 DEF Meet
  <2> QED BY <2>4 DEF L, n
<1>8. CASE ~(n > p + 1)
  <2>1. n = p + 1
    BY <1>1, <1>2, <1>8
  <2>2. HalvesEnd(L, a, b)
    BY <2>1
  <2> HIDE DEF L, P
  <2> DEFINE q == Len(L)
             j == q - 1
  <2>3. q >= 2 /\ Len(L[j]) >= 1 /\ L[j][Len(L[j])] = a /\ L[q] = <<b>>
    BY <2>2 DEF HalvesEnd
  <2>4. q \in Nat
    BY <1>6
  <2> HIDE DEF q
  <2>5. j \in 1..(q - 1) /\ j + 1 = q
    BY <2>3, <2>4
  <2> HIDE DEF j
  <2>6. Len(<<b>>) = 1 /\ <<b>>[1] = b
    OBVIOUS
  <2>7. L[j + 1] = <<b>>
    BY <2>3, <2>5
  <2>8. Len(L[j + 1]) = 1 /\ L[j + 1][1] = b
    BY <2>6, <2>7
  <2>9. Meet(L[j], L[j + 1], a, b)
    <3>1. Len(L[j + 1]) >= 1 /\ ~(Len(L[j + 1]) > 1)
      BY <2>8
    <3> QED BY <2>3, <2>8, <3>1 DEF Meet
  <2> QED BY <2>5, <2>9 DEF L, n, q
<1> QED BY <1>7, <1>8

\* The texts of segments.
TextsOf(L) == [j \in 1..Len(L) |-> L[j].text]

\* The texts of a list of segments, one by one.
LEMMA TextsAre ==
    ASSUME NEW C, NEW L \in Seq(Segs(C))
    PROVE  /\ TextsOf(L) \in Seq(Seq(C)) /\ Len(TextsOf(L)) = Len(L) /\ Len(L) \in Nat
           /\ \A j \in 1..Len(L) : TextsOf(L)[j] = L[j].text /\ L[j].text \in Seq(C)
           /\ (TextsOf(L) = <<>> <=> L = <<>>)
<1> DEFINE n == Len(L)
           T == TextsOf(L)
<1>1. n \in Nat /\ \A j \in 1..n : L[j] \in Segs(C)
  <2> DEFINE E == Segs(C)
  <2> HIDE DEF E
  <2>1. L \in Seq(E)
    BY DEF E
  <2> QED BY <2>1 DEF E
<1>2. L = <<>> <=> n = 0
  <2> DEFINE E == Segs(C)
  <2> HIDE DEF E
  <2>1. L \in Seq(E)
    BY DEF E
  <2> QED BY <2>1
<1>3. \A j \in 1..n : L[j].text \in Seq(C)
  BY <1>1 DEF Segs
<1>4. T = [j \in 1..n |-> L[j].text]
  BY DEF TextsOf
<1> HIDE DEF n, T
<1>5. T \in [1..n -> Seq(C)]
  BY <1>3, <1>4
<1>6. T \in Seq(Seq(C)) /\ Len(T) = n
  BY <1>1, <1>5
<1>7. \A j \in 1..n : T[j] = L[j].text
  BY <1>4
<1>8. T = <<>> <=> n = 0
  BY <1>1, <1>6
<1> QED BY <1>1, <1>2, <1>3, <1>6, <1>7, <1>8 DEF n, T

\* A character that joins or starts a segment extends the last text or adds one.
LEMMA TextsMove ==
    ASSUME NEW C, NEW L \in Seq(Segs(C)), NEW M \in Seq(Segs(C)), NEW c
    PROVE  /\ Joins(L, M, c) => Extended(TextsOf(L), TextsOf(M), c)
           /\ Starts(L, M, c) => Added(TextsOf(L), TextsOf(M), <<c>>)
<1> DEFINE n == Len(L)
           T == TextsOf(L)
           U == TextsOf(M)
<1>1. /\ n \in Nat /\ Len(T) = n /\ (\A j \in 1..n : T[j] = L[j].text) /\ (T = <<>> <=> L = <<>>)
      /\ Len(U) = Len(M) /\ (\A j \in 1..Len(M) : U[j] = M[j].text)
      /\ (L # <<>> => n # 0)
  <2>1. Len(<<>>) = 0
    OBVIOUS
  <2>2. L # <<>> => n # 0
    <3> DEFINE E == Segs(C)
    <3> HIDE DEF E
    <3>1. L \in Seq(E)
      BY DEF E
    <3> QED BY <3>1
  <2> QED BY <2>2, TextsAre
<1> HIDE DEF T, U, n
<1>2. ASSUME Joins(L, M, c) PROVE Extended(T, U, c)
  <2>1. /\ L # <<>> /\ Len(M) = n /\ \A j \in 1..(n - 1) : M[j] = L[j]
        /\ M[n].text = Append(L[n].text, c)
    BY <1>2 DEF Joins, n
  <2>2. n \in 1..n /\ \A j \in 1..(n - 1) : j \in 1..n
    BY <1>1, <2>1
  <2>3. T # <<>> /\ Len(U) = Len(T) /\ (\A j \in 1..(Len(T) - 1) : U[j] = T[j])
        /\ U[Len(T)] = Append(T[Len(T)], c)
    BY <1>1, <2>1, <2>2
  <2> QED BY <2>3 DEF Extended
<1>3. ASSUME Starts(L, M, c) PROVE Added(T, U, <<c>>)
  <2>1. Len(M) = n + 1 /\ (\A j \in 1..n : M[j] = L[j]) /\ M[n + 1].text = <<c>>
    BY <1>3 DEF Starts, n
  <2>2. n + 1 \in 1..(n + 1) /\ \A j \in 1..n : j \in 1..(n + 1)
    BY <1>1
  <2>3. Len(U) = Len(T) + 1 /\ (\A j \in 1..Len(T) : U[j] = T[j]) /\ U[Len(T) + 1] = <<c>>
    BY <1>1, <2>1, <2>2
  <2> QED BY <2>3 DEF Added
<1> QED BY <1>2, <1>3 DEF T, U

\* A segment has the script of its characters.
ScriptsTrue(L) ==
    \A j \in 1..Len(L) : \A i \in 1..Len(L[j].text) :
        Base(L[j].text[i]) => L[j].script = Kind(L[j].text[i])
TextsHeaded(L) == \A j \in 1..Len(L) : Headed(L[j].text)

\* Segments keep the script of their letters and never begin with a mark.
LEMMA SegmentsKeep ==
    ASSUME NEW C, NEW L \in SegLists(C), NEW M \in SegLists(C), NEW c \in C, SegmentStep(L, M, c),
           ScriptsTrue(L)
    PROVE  ScriptsTrue(M) /\ (TextsHeaded(L) => TextsHeaded(M))
<1> DEFINE n == Len(L)
           t == L[n].text
           l == Len(t)
<1>0. L \in Seq(Segs(C)) /\ M \in Seq(Segs(C)) /\ L # <<>>
  BY DEF SegLists
<1>1. n \in Nat /\ \A j \in 1..n : L[j].text \in Seq(C)
  BY <1>0, TextsAre
<1>2. ASSUME Joins(L, M, c) PROVE ScriptsTrue(M) /\ (TextsHeaded(L) => TextsHeaded(M))
  <2>1. /\ Len(M) = n /\ (\A j \in 1..(n - 1) : M[j] = L[j]) /\ M[n].text = Append(t, c)
        /\ (L[n].script # NoScript => M[n].script = L[n].script)
        /\ (Base(c) => M[n].script = Kind(c))
    BY <1>2 DEF Joins
  <2>2. n # 0
    <3> DEFINE E == Segs(C)
    <3> HIDE DEF E
    <3>1. L \in Seq(E)
      BY <1>0 DEF E
    <3> QED BY <1>0, <3>1
  <2>3. n \in 1..n /\ t \in Seq(C) /\ l \in Nat /\ (t # <<>> <=> l # 0)
    <3>1. n \in 1..n /\ t \in Seq(C)
      BY <1>1, <2>2
    <3> HIDE DEF t
    <3> QED BY <3>1
  <2> DEFINE u == M[n].text
  <2>4. Len(u) = l + 1 /\ (\A i \in 1..l : u[i] = t[i]) /\ u[l + 1] = c /\ u \in Seq(C) /\ u # <<>>
    <3>1. Append(t, c) \in Seq(C) /\ Append(t, c) # <<>> /\ Len(Append(t, c)) = l + 1
          /\ (\A i \in 1..l : Append(t, c)[i] = t[i]) /\ Append(t, c)[l + 1] = c
      BY <2>3, AppendProperties
    <3> HIDE DEF t
    <3> QED BY <2>1, <3>1
  <2>5. \A i \in 1..l : Base(t[i]) => L[n].script = Kind(t[i])
    BY <2>3 DEF ScriptsTrue
  <2>6. \A j \in 1..n : j \in 1..(n - 1) \/ j = n
    BY <1>1
  <2>7. \A j \in 1..(n - 1) : j \in 1..n
    BY <1>1
  <2>8. ScriptsTrue(M)
    <3>1. ASSUME NEW i \in 1..(l + 1), Base(u[i]) PROVE M[n].script = Kind(u[i])
      <4>1. CASE i \in 1..l
        <5>1. u[i] = t[i] /\ L[n].script = Kind(t[i])
          BY <2>4, <2>5, <3>1, <4>1
        <5>2. Kind(t[i]) # NoScript
          BY <3>1, <5>1, KindsAre
        <5> QED BY <2>1, <5>1, <5>2
      <4>2. CASE i = l + 1
        BY <2>1, <2>4, <3>1, <4>2
      <4>3. i \in 1..l \/ i = l + 1
        <5> HIDE DEF l
        <5> QED BY <2>3
      <4> QED BY <4>1, <4>2, <4>3
    <3>2. \A j \in 1..(n - 1) : \A i \in 1..Len(M[j].text) :
             Base(M[j].text[i]) => M[j].script = Kind(M[j].text[i])
      BY <2>1, <2>7 DEF ScriptsTrue
    <3> HIDE DEF n, t, l
    <3>3. \A i \in 1..Len(M[n].text) : Base(M[n].text[i]) => M[n].script = Kind(M[n].text[i])
      BY <2>4, <3>1
    <3> HIDE DEF u
    <3> QED BY <2>1, <2>6, <3>2, <3>3 DEF ScriptsTrue
  <2>9. ASSUME TextsHeaded(L) PROVE TextsHeaded(M)
    <3>1. t # <<>> /\ ~IsMark(t[1])
      BY <2>3, <2>9 DEF TextsHeaded, Headed
    <3>2. u[1] = t[1]
      <4>1. 1 \in 1..l
        <5> HIDE DEF l, t
        <5> QED BY <2>3, <3>1
      <4> HIDE DEF u, t, l
      <4> QED BY <2>4, <4>1
    <3>3. Headed(M[n].text)
      BY <2>4, <3>1, <3>2 DEF Headed
    <3>4. \A j \in 1..(n - 1) : Headed(M[j].text)
      BY <2>1, <2>7, <2>9 DEF TextsHeaded
    <3> HIDE DEF n
    <3> QED BY <2>1, <2>6, <3>3, <3>4 DEF TextsHeaded
  <2> QED BY <2>8, <2>9
<1>3. ASSUME Starts(L, M, c) PROVE ScriptsTrue(M) /\ (TextsHeaded(L) => TextsHeaded(M))
  <2>1. /\ Len(M) = n + 1 /\ (\A j \in 1..n : M[j] = L[j])
        /\ M[n + 1].text = <<c>> /\ ~IsMark(c) /\ (Base(c) => M[n + 1].script = Kind(c))
    BY <1>3 DEF Starts
  <2> HIDE DEF n
  <2>2. \A j \in 1..(n + 1) : j \in 1..n \/ j = n + 1
    BY <1>1
  <2>3. Len(<<c>>) = 1 /\ <<c>>[1] = c /\ <<c>> # <<>> /\ 1..1 = {1}
    OBVIOUS
  <2> DEFINE q == n + 1
  <2> HIDE DEF q
  <2>4. Len(M[q].text) = 1 /\ M[q].text[1] = c /\ M[q].text # <<>>
    BY <2>1, <2>3 DEF q
  <2>5. \A i \in 1..Len(M[q].text) : Base(M[q].text[i]) => M[q].script = Kind(M[q].text[i])
    BY <2>1, <2>3, <2>4 DEF q
  <2>6. Headed(M[q].text)
    BY <2>1, <2>4 DEF Headed
  <2>7. \A j \in 1..n : \A i \in 1..Len(M[j].text) :
             Base(M[j].text[i]) => M[j].script = Kind(M[j].text[i])
    BY <2>1 DEF ScriptsTrue, n
  <2>8. TextsHeaded(L) => \A j \in 1..n : Headed(M[j].text)
    BY <2>1 DEF TextsHeaded, n
  <2>9. Len(M) = q /\ \A j \in 1..q : j \in 1..n \/ j = q
    BY <2>1, <2>2 DEF q
  <2> QED BY <2>5, <2>6, <2>7, <2>8, <2>9 DEF ScriptsTrue, TextsHeaded
<1> QED BY <1>2, <1>3 DEF SegmentStep

\* The segments of a word keep its neighbours together, or next to each other
\* when their scripts differ.
SegmentsFit(S, w, C) ==
    /\ S \in Seq(Segs(C)) /\ TextsHeaded(S)
    /\ \A a, b : Pair(w, a, b) /\ Base(a) /\ Base(b) /\ Kind(a) = Kind(b) =>
          \E j \in 1..Len(S) : Pair(S[j].text, a, b) /\ S[j].script = Kind(a)
    /\ \A a, b : Pair(w, a, b) /\ Base(a) /\ Base(b) /\ Kind(a) # Kind(b) =>
          \E j \in 1..(Len(S) - 1) :
              /\ Meet(S[j].text, S[j + 1].text, a, b)
              /\ S[j].script = Kind(a) /\ S[j + 1].script = Kind(b)

\* Every list of segments on the way has the scripts of its characters, and

\* after the first character no text of it starts with a mark.
LEMMA SegmentsOnTheWay ==
    ASSUME NEW C, NEW s \in Seq(C), Headed(s), NEW h, SegmentTrace(h, s, C)
    PROVE  \A m \in 1..Len(s) : ScriptsTrue(h[m]) /\ TextsHeaded(h[m])
<1> DEFINE n == Len(s)
<1>1. n \in Nat /\ n # 0 /\ (\A k \in 1..n : s[k] \in C) /\ ~IsMark(s[1])
  <2>1. s # <<>> /\ ~IsMark(s[1])
    BY DEF Headed
  <2> QED BY <2>1
<1>2. /\ h[0] = NoSegment /\ \A k \in 0..n : h[k] \in SegLists(C)
      /\ \A k \in 1..n : SegmentStep(h[k - 1], h[k], s[k])
  BY DEF SegmentTrace
<1> HIDE DEF n
<1> DEFINE none == Segment(<<>>, NoScript)
<1>3. Len(NoSegment) = 1 /\ NoSegment[1] = none
  <2> HIDE DEF none
  <2> QED BY DEF NoSegment, none
<1>4. none.text = <<>> /\ none.script = NoScript
  BY DEF Segment
<1> HIDE DEF none
<1>5. ScriptsTrue(NoSegment)
  <2>1. Len(<<>>) = 0 /\ 1..0 = {} /\ 1..1 = {1}
    OBVIOUS
  <2> QED BY <1>3, <1>4, <2>1 DEF ScriptsTrue
<1>6. ScriptsTrue(h[1]) /\ TextsHeaded(h[1])
  <2> DEFINE M == h[1]
             c == s[1]
  <2>1. 1 \in 1..n /\ 1 - 1 = 0 /\ 1 \in 0..n /\ 0 \in 0..n
    BY <1>1
  <2>2. M \in SegLists(C) /\ c \in C /\ SegmentStep(NoSegment, M, c) /\ NoSegment \in SegLists(C)
    BY <1>1, <1>2, <2>1
  <2>3. ~IsMark(c)
    BY <1>1
  <2> HIDE DEF M, c
  <2>4. ScriptsTrue(M)
    BY <1>5, <2>2, SegmentsKeep
  <2>5. Joins(NoSegment, M, c)
    BY <1>3, <1>4, <2>2 DEF SegmentStep, Starts
  <2>6. Len(M) = 1 /\ M[1].text = Append(<<>>, c)
    BY <1>3, <1>4, <2>5 DEF Joins
  <2>7. Append(<<>>, c)[1] = c /\ Append(<<>>, c) # <<>>
    BY <2>2
  <2>8. TextsHeaded(M)
    <3>1. \A j \in 1..1 : j = 1
      OBVIOUS
    <3>2. Headed(M[1].text)
      BY <2>3, <2>6, <2>7 DEF Headed
    <3> QED BY <2>6, <3>1, <3>2 DEF TextsHeaded
  <2> QED BY <2>4, <2>8 DEF M
<1> DEFINE P == {m \in Nat : m + 1 <= n => ScriptsTrue(h[m + 1]) /\ TextsHeaded(h[m + 1])}
<1>7. 0 \in P
  <2>1. 0 + 1 = 1
    OBVIOUS
  <2> QED BY <1>6, <2>1
<1>8. ASSUME NEW m \in P PROVE m + 1 \in P
  <2> DEFINE k == m + 1
             q == k + 1
  <2>1. SUFFICES ASSUME q <= n PROVE ScriptsTrue(h[q]) /\ TextsHeaded(h[q])
    OBVIOUS
  <2>2. m \in Nat /\ k <= n /\ q \in 1..n /\ q - 1 = k /\ k \in 0..n /\ q \in 0..n
    BY <1>1, <2>1
  <2>3. ScriptsTrue(h[k]) /\ TextsHeaded(h[k])
    BY <2>2
  <2> HIDE DEF P, q, k
  <2>4. h[k] \in SegLists(C) /\ h[q] \in SegLists(C) /\ SegmentStep(h[k], h[q], s[q]) /\ s[q] \in C
    BY <1>1, <1>2, <2>2
  <2> QED BY <2>3, <2>4, SegmentsKeep
<1>9. P = Nat
  <2>1. P \in SUBSET Nat
    OBVIOUS
  <2> HIDE DEF P
  <2> QED BY <1>7, <1>8, <2>1, NaturalsBySteps
<1>10. ASSUME NEW m \in 1..n PROVE ScriptsTrue(h[m]) /\ TextsHeaded(h[m])
  <2> DEFINE k == m - 1
  <2>1. k \in Nat /\ k + 1 = m /\ m <= n
    BY <1>1
  <2> HIDE DEF k
  <2>2. k \in P
    <3> HIDE DEF P
    <3> QED BY <1>9, <2>1
  <2>3. k + 1 <= n => ScriptsTrue(h[k + 1]) /\ TextsHeaded(h[k + 1])
    BY <2>2
  <2> QED BY <2>1, <2>3
<1> QED BY <1>10 DEF n

\* Two neighbours when the second has just come.
LEMMA NeighboursCome ==
    ASSUME NEW C, NEW L \in SegLists(C), NEW M \in SegLists(C), NEW N \in SegLists(C),
           NEW a \in C, NEW b \in C, SegmentStep(L, M, a), SegmentStep(M, N, b), ScriptsTrue(M),
           Base(a), Base(b)
    PROVE  /\ Kind(a) = Kind(b) => PairEnds(TextsOf(N), a, b)
           /\ Kind(a) # Kind(b) => HalvesEnd(TextsOf(N), a, b)
<1> DEFINE T == TextsOf(L)
           U == TextsOf(M)
           V == TextsOf(N)
           n == Len(M)
<1>1. /\ L \in Seq(Segs(C)) /\ M \in Seq(Segs(C)) /\ N \in Seq(Segs(C))
      /\ T \in Seq(Seq(C)) /\ U \in Seq(Seq(C)) /\ V \in Seq(Seq(C))
  BY TextsAre DEF SegLists
<1>2. /\ n \in Nat /\ Len(U) = n /\ \A j \in 1..n : U[j] = M[j].text /\ M[j].text \in Seq(C)
      /\ (U = <<>> <=> M = <<>>)
  BY <1>1, TextsAre
<1>3. Extended(T, U, a) \/ Added(T, U, <<a>>)
  BY <1>1, TextsMove DEF SegmentStep
<1> HIDE DEF T, V
<1>4. LastEnds(U, a)
  <2> HIDE DEF U
  <2> QED BY <1>1, <1>3, EndsMove
<1>5. M[n].script = Kind(a)
  <2> DEFINE t == U[n]
             l == Len(t)
  <2>1. U # <<>> /\ l >= 1 /\ t[l] = a
    BY <1>2, <1>4 DEF LastEnds
  <2>2. n # 0
    <3> HIDE DEF n, U, t
    <3> QED BY <1>1, <1>2, <2>1
  <2>3. n \in 1..n /\ l \in Nat
    <3>1. n \in 1..n
      BY <1>2, <2>2
    <3>2. t \in Seq(C)
      BY <1>2, <3>1
    <3> HIDE DEF t
    <3> QED BY <3>1, <3>2
  <2>4. t = M[n].text /\ l \in 1..l
    <3>1. l \in 1..l
      <4> HIDE DEF l
      <4> QED BY <2>1, <2>3
    <3> QED BY <1>2, <2>3, <3>1
  <2> HIDE DEF t, n
  <2>5. \A i \in 1..Len(M[n].text) : Base(M[n].text[i]) => M[n].script = Kind(M[n].text[i])
    BY <2>3 DEF ScriptsTrue, n
  <2> QED BY <2>1, <2>4, <2>5
<1>6. Kind(a) # NoScript
  BY KindsAre
<1>7. ASSUME Kind(a) = Kind(b) PROVE PairEnds(V, a, b)
  <2>1. ~Starts(M, N, b)
    BY <1>5, <1>7 DEF Starts
  <2>2. Joins(M, N, b)
    BY <2>1 DEF SegmentStep
  <2>3. Extended(U, V, b)
    BY <1>1, <2>2, TextsMove DEF V
  <2> HIDE DEF U
  <2> QED BY <1>1, <1>4, <2>3, EndsMove
<1>8. ASSUME Kind(a) # Kind(b) PROVE HalvesEnd(V, a, b)
  <2>1. ~Joins(M, N, b)
    BY <1>5, <1>6, <1>8 DEF Joins
  <2>2. Starts(M, N, b)
    BY <2>1 DEF SegmentStep
  <2>3. Added(U, V, <<b>>)
    BY <1>1, <2>2, TextsMove DEF V
  <2> HIDE DEF U
  <2> QED BY <1>1, <1>4, <2>3, EndsMove
<1> QED BY <1>7, <1>8 DEF V

\* Segmentation keeps adjacent letters of one script together.
LEMMA SegmentsSplit ==
    ASSUME NEW C, NEW s \in Seq(C), Headed(s)
    PROVE  SegmentsFit(Segments(s), s, C)
<1> DEFINE n == Len(s)
<1>1. n \in Nat /\ n # 0 /\ \A k \in 1..n : s[k] \in C
  <2>1. s # <<>>
    BY DEF Headed
  <2> QED BY <2>1
<1>2. PICK h : SegmentTrace(h, s, C)
  BY SegmentsTrace
<1>3. /\ \A k \in 0..n : h[k] \in SegLists(C)
      /\ \A k \in 1..n : SegmentStep(h[k - 1], h[k], s[k])
      /\ Segments(s) = h[n]
  BY <1>2 DEF SegmentTrace
<1>4. \A m \in 1..n : ScriptsTrue(h[m]) /\ TextsHeaded(h[m])
  BY <1>2, SegmentsOnTheWay
<1> HIDE DEF n
<1> DEFINE T == [k \in 0..n |-> TextsOf(h[k])]
           S == Segments(s)
           U == T[n]
<1>5. \A k \in 0..n : T[k] = TextsOf(h[k]) /\ T[k] \in Seq(Seq(C))
  <2>1. ASSUME NEW k \in 0..n PROVE T[k] = TextsOf(h[k]) /\ T[k] \in Seq(Seq(C))
    <3>1. h[k] \in Seq(Segs(C))
      BY <1>3 DEF SegLists
    <3>2. TextsOf(h[k]) \in Seq(Seq(C))
      BY <3>1, TextsAre
    <3>3. T[k] = TextsOf(h[k])
      OBVIOUS
    <3> HIDE DEF T
    <3> QED BY <3>2, <3>3
  <2> HIDE DEF T
  <2> QED BY <2>1
<1>6. n \in 0..n /\ n \in 1..n
  BY <1>1
<1>7. S \in Seq(Segs(C)) /\ U = TextsOf(S) /\ ScriptsTrue(S) /\ TextsHeaded(S)
  <2>1. S \in SegLists(C)
    BY <1>3, <1>6
  <2> QED BY <1>3, <1>4, <1>5, <1>6, <2>1 DEF SegLists
<1>8. Len(U) = Len(S) /\ Len(S) \in Nat /\ \A j \in 1..Len(S) : U[j] = S[j].text /\ U[j] \in Seq(C)
  <2> HIDE DEF S, U
  <2>1. /\ Len(TextsOf(S)) = Len(S) /\ Len(S) \in Nat
        /\ \A j \in 1..Len(S) : TextsOf(S)[j] = S[j].text /\ S[j].text \in Seq(C)
    BY <1>7, TextsAre
  <2> QED BY <1>7, <2>1
<1> HIDE DEF T
<1>9. \A k \in 1..n : Moved(T[k - 1], T[k], s[k])
  <2>1. ASSUME NEW k \in 1..n PROVE Moved(T[k - 1], T[k], s[k])
    <3> DEFINE i == k - 1
    <3>1. i \in 0..n /\ k \in 0..n
      BY <1>1
    <3>2. SegmentStep(h[i], h[k], s[k])
      BY <1>3
    <3> HIDE DEF i
    <3>3. h[i] \in Seq(Segs(C)) /\ h[k] \in Seq(Segs(C)) /\ T[i] = TextsOf(h[i]) /\ T[k] = TextsOf(h[k])
      BY <1>3, <1>5, <3>1 DEF SegLists
    <3>4. Extended(T[i], T[k], s[k]) \/ Added(T[i], T[k], <<s[k]>>)
      BY <3>2, <3>3, TextsMove DEF SegmentStep
    <3> QED BY <3>4 DEF Moved, i
  <2> QED BY <2>1
<1>10. ASSUME NEW a, NEW b, Pair(s, a, b), Base(a), Base(b)
       PROVE  /\ Kind(a) = Kind(b) => \E j \in 1..Len(U) : Pair(U[j], a, b)
              /\ Kind(a) # Kind(b) => \E j \in 1..(Len(U) - 1) : Meet(U[j], U[j + 1], a, b)
  <2>1. PICK p \in 1..(n - 1) : s[p] = a /\ s[p + 1] = b /\ (p + 1 < n => ~IsMark(s[p + 2]))
    BY <1>10 DEF Pair, n
  <2> DEFINE m == p - 1
             q == p + 1
  <2>2. m \in 0..n /\ p \in 0..n /\ q \in 0..n /\ p \in 1..n /\ q \in 1..n /\ q - 1 = p
    BY <1>1, <2>1
  <2>3. a \in C /\ b \in C
    BY <1>1, <2>1, <2>2
  <2>4. SegmentStep(h[m], h[p], a)
    BY <1>3, <2>1, <2>2
  <2> HIDE DEF m
  <2>5. SegmentStep(h[p], h[q], b)
    <3>1. s[q] = b
      BY <2>1
    <3> HIDE DEF q
    <3>2. SegmentStep(h[q - 1], h[q], s[q])
      BY <1>3, <2>2
    <3> QED BY <2>2, <3>1, <3>2
  <2>6. h[m] \in SegLists(C) /\ h[p] \in SegLists(C) /\ h[q] \in SegLists(C) /\ ScriptsTrue(h[p])
    BY <1>3, <1>4, <2>2
  <2>7. /\ Kind(a) = Kind(b) => PairEnds(T[q], a, b)
        /\ Kind(a) # Kind(b) => HalvesEnd(T[q], a, b)
    <3>1. T[q] = TextsOf(h[q])
      BY <1>5, <2>2
    <3> HIDE DEF q
    <3> QED BY <1>10, <2>3, <2>4, <2>5, <2>6, <3>1, NeighboursCome
  <2>8. (\A k \in 0..n : T[k] \in Seq(Seq(C)))
    BY <1>5
  <2>9. ASSUME Kind(a) = Kind(b) PROVE \E j \in 1..Len(T[n]) : Pair(T[n][j], a, b)
    <3>1. PairEnds(T[p + 1], a, b)
      BY <2>7, <2>9
    <3> QED BY <1>9, <2>1, <2>8, <3>1, PairStays DEF n
  <2>10. ASSUME Kind(a) # Kind(b) PROVE \E j \in 1..(Len(T[n]) - 1) : Meet(T[n][j], T[n][j + 1], a, b)
    <3>1. HalvesEnd(T[p + 1], a, b)
      BY <2>7, <2>10
    <3> QED BY <1>9, <2>1, <2>3, <2>8, <3>1, HalvesKeepApart DEF n
  <2> QED BY <2>9, <2>10
<1> HIDE DEF U, S
<1>11. ASSUME NEW j \in 1..Len(S), NEW i, i \in 1..Len(U[j]), Base(U[j][i])
       PROVE  S[j].script = Kind(U[j][i])
  BY <1>7, <1>8, <1>11 DEF ScriptsTrue
<1>12. ASSUME NEW a, NEW b, Pair(s, a, b), Base(a), Base(b), Kind(a) = Kind(b)
       PROVE  \E j \in 1..Len(S) : Pair(S[j].text, a, b) /\ S[j].script = Kind(a)
  <2>1. PICK j \in 1..Len(U) : Pair(U[j], a, b)
    BY <1>10, <1>12
  <2>2. PICK i \in 1..(Len(U[j]) - 1) : U[j][i] = a
    BY <2>1 DEF Pair
  <2>3. j \in 1..Len(S) /\ i \in 1..Len(U[j])
    <3>1. j \in 1..Len(S)
      BY <1>8
    <3>2. Len(U[j]) \in Nat
      BY <1>8, <3>1
    <3> QED BY <2>2, <3>1, <3>2
  <2>4. S[j].script = Kind(U[j][i])
    BY <1>11, <1>12, <2>2, <2>3
  <2> QED BY <1>8, <2>1, <2>2, <2>3, <2>4
<1>13. ASSUME NEW a, NEW b, Pair(s, a, b), Base(a), Base(b), Kind(a) # Kind(b)
       PROVE  \E j \in 1..(Len(S) - 1) :
                  /\ Meet(S[j].text, S[j + 1].text, a, b)
                  /\ S[j].script = Kind(a) /\ S[j + 1].script = Kind(b)
  <2>1. PICK j \in 1..(Len(U) - 1) : Meet(U[j], U[j + 1], a, b)
    BY <1>10, <1>13
  <2> DEFINE q == j + 1
             l == Len(U[j])
             r == Len(U[q])
  <2>2. j \in 1..Len(S) /\ q \in 1..Len(S) /\ j \in 1..(Len(S) - 1)
    BY <1>8
  <2>3. U[j] \in Seq(C) /\ U[q] \in Seq(C) /\ U[j] = S[j].text /\ U[q] = S[q].text
    BY <1>8, <2>2
  <2>4. l \in Nat /\ r \in Nat
    <3> DEFINE u == U[j]
               v == U[q]
    <3>1. u \in Seq(C) /\ v \in Seq(C)
      BY <2>3
    <3> HIDE DEF u, v
    <3>2. Len(u) \in Nat /\ Len(v) \in Nat
      BY <3>1
    <3> QED BY <3>2 DEF u, v
  <2>5. l >= 1 /\ U[j][l] = a /\ r >= 1 /\ U[q][1] = b
    BY <2>1 DEF Meet
  <2>6. l \in 1..l /\ 1 \in 1..r
    <3> HIDE DEF l, r
    <3> QED BY <2>4, <2>5
  <2> HIDE DEF q
  <2>7. S[j].script = Kind(a)
    BY <1>11, <1>13, <2>2, <2>5, <2>6
  <2>8. S[q].script = Kind(b)
    BY <1>11, <1>13, <2>2, <2>5, <2>6
  <2>9. Meet(S[j].text, S[q].text, a, b)
    BY <2>1, <2>3 DEF q
  <2> QED BY <2>2, <2>7, <2>8, <2>9 DEF q
<1> QED BY <1>7, <1>12, <1>13 DEF SegmentsFit, S

------------------------------------------------------------------------------
\* The runs of segments: kanji and kana are one.

\* One text after another keeps what is in either, and joins what meets.
LEMMA TextsConcat ==
    ASSUME NEW C, NEW u \in Seq(C), NEW v \in Seq(C), Headed(u), Headed(v), NEW a, NEW b
    PROVE  /\ u \o v \in Seq(C) /\ Headed(u \o v)
           /\ Pair(u, a, b) => Pair(u \o v, a, b)
           /\ Pair(v, a, b) => Pair(u \o v, a, b)
           /\ Meet(u, v, a, b) => Pair(u \o v, a, b)
           /\ (u \o v)[Len(u \o v)] = v[Len(v)]
<1> DEFINE p == Len(u)
           q == Len(v)
           w == u \o v
<1>1. p \in Nat /\ q \in Nat /\ p # 0 /\ q # 0 /\ ~IsMark(u[1]) /\ ~IsMark(v[1])
  <2>1. u # <<>> /\ v # <<>>
    BY DEF Headed
  <2>2. p \in Nat /\ q \in Nat /\ p # 0 /\ q # 0
    BY <2>1
  <2> QED BY <2>2 DEF Headed
<1>2. w \in Seq(C) /\ Len(w) = p + q /\ \A i \in 1..(p + q) : w[i] = IF i <= p THEN u[i] ELSE v[i - p]
  BY ConcatProperties
<1>3. w # <<>>
  <2> HIDE DEF w, p, q
  <2>1. Len(w) # 0
    BY <1>1, <1>2
  <2>2. Len(<<>>) = 0
    OBVIOUS
  <2> QED BY <2>1, <2>2
<1> HIDE DEF p, q, w
<1>4. \A i \in 1..p : i \in 1..(p + q) /\ w[i] = u[i]
  BY <1>1, <1>2
<1>5. ASSUME NEW i \in 1..q PROVE p + i \in 1..(p + q) /\ w[p + i] = v[i]
  <2> DEFINE k == p + i
  <2>1. k \in 1..(p + q) /\ ~(k <= p) /\ k - p = i
    BY <1>1
  <2> HIDE DEF k
  <2>2. w[k] = v[i]
    BY <1>2, <2>1
  <2> QED BY <2>1, <2>2 DEF k
<1>6. w[1] = u[1] /\ w[p + 1] = v[1] /\ w[p + q] = v[q]
  <2>1. 1 \in 1..p /\ 1 \in 1..q /\ q \in 1..q
    BY <1>1
  <2> QED BY <1>4, <1>5, <2>1
<1>7. Headed(w)
  BY <1>1, <1>3, <1>6 DEF Headed
<1>8. ASSUME Pair(u, a, b) PROVE Pair(w, a, b)
  <2>1. PICK i \in 1..(p - 1) : u[i] = a /\ u[i + 1] = b /\ (i + 1 < p => ~IsMark(u[i + 2]))
    BY <1>8 DEF Pair, p
  <2> DEFINE j == i + 1
             k == i + 2
  <2>2. i \in 1..p /\ j \in 1..p /\ i \in 1..(p + q - 1) /\ (i + 1 < p => k \in 1..p)
        /\ (~(i + 1 < p) => k = p + 1)
    BY <1>1
  <2>3. w[i] = a /\ w[j] = b
    <3> HIDE DEF j, k
    <3> QED BY <1>4, <2>1, <2>2 DEF j
  <2>4. ~IsMark(w[k])
    <3>1. CASE i + 1 < p
      <4>1. k \in 1..p /\ ~IsMark(u[k])
        BY <2>1, <2>2, <3>1
      <4> HIDE DEF k
      <4> QED BY <1>4, <4>1
    <3>2. CASE ~(i + 1 < p)
      BY <1>1, <1>6, <2>2, <3>2
    <3> QED BY <3>1, <3>2
  <2> HIDE DEF j, k
  <2>5. i \in 1..(Len(w) - 1) /\ w[i] = a /\ w[i + 1] = b /\ ~IsMark(w[i + 2])
    BY <1>1, <1>2, <2>2, <2>3, <2>4 DEF j, k
  <2> QED BY <2>5, Zenon DEF Pair
<1>9. ASSUME Pair(v, a, b) PROVE Pair(w, a, b)
  <2>1. PICK i \in 1..(q - 1) : v[i] = a /\ v[i + 1] = b /\ (i + 1 < q => ~IsMark(v[i + 2]))
    BY <1>9 DEF Pair, q
  <2> DEFINE x0 == p + i
  <2>2. i \in 1..q /\ i + 1 \in 1..q /\ x0 \in 1..(p + q - 1) /\ (x0 + 1 < p + q => i + 1 < q /\ i + 2 \in 1..q)
    BY <1>1
  <2>3. p + (i + 1) = x0 + 1 /\ p + (i + 2) = x0 + 2
    BY <1>1
  <2>4. w[x0] = a /\ w[x0 + 1] = b
    <3>1. w[p + i] = v[i] /\ w[p + (i + 1)] = v[i + 1]
      BY <1>5, <2>2
    <3> QED BY <2>1, <2>3, <3>1
  <2>5. x0 + 1 < p + q => ~IsMark(w[x0 + 2])
    <3>1. SUFFICES ASSUME x0 + 1 < p + q PROVE ~IsMark(w[x0 + 2])
      OBVIOUS
    <3>2. i + 1 < q /\ i + 2 \in 1..q
      BY <2>2, <3>1
    <3>3. w[p + (i + 2)] = v[i + 2]
      BY <1>5, <3>2
    <3>4. w[x0 + 2] = v[i + 2]
      BY <2>3, <3>3
    <3> QED BY <2>1, <3>2, <3>4
  <2> HIDE DEF x0
  <2>6. x0 \in 1..(Len(w) - 1) /\ w[x0] = a /\ w[x0 + 1] = b
        /\ (x0 + 1 < Len(w) => ~IsMark(w[x0 + 2]))
    BY <1>1, <1>2, <2>2, <2>4, <2>5
  <2> QED BY <2>6, Zenon DEF Pair
<1>10. ASSUME Meet(u, v, a, b) PROVE Pair(w, a, b)
  <2>1. u[p] = a /\ v[1] = b /\ (q > 1 => ~IsMark(v[2]))
    BY <1>10 DEF Meet, p, q
  <2>2. p \in 1..p /\ p \in 1..(p + q - 1) /\ (p + 1 < p + q => q > 1 /\ 2 \in 1..q)
    BY <1>1
  <2>3. w[p] = a /\ w[p + 1] = b
    BY <1>4, <1>6, <2>1, <2>2
  <2>4. p + 1 < p + q => ~IsMark(w[p + 2])
    <3>1. 2 \in 1..q => w[p + 2] = v[2]
      BY <1>5
    <3> QED BY <2>1, <2>2, <3>1
  <2>5. p \in 1..(Len(w) - 1) /\ w[p] = a /\ w[p + 1] = b /\ (p + 1 < Len(w) => ~IsMark(w[p + 2]))
    BY <1>1, <1>2, <2>2, <2>3, <2>4
  <2> QED BY <2>5, Zenon DEF Pair
<1> QED BY <1>2, <1>6, <1>7, <1>8, <1>9, <1>10 DEF w, p, q

\* What a segment does to the runs before it.
Lengthened(L, M, e) ==
    LET n == Len(L) IN
    /\ Len(M) = n /\ \A j \in 1..(n - 1) : M[j] = L[j]
    /\ M[n].text = L[n].text \o e.text /\ M[n].script = L[n].script
Japanese(L, e) == L # <<>> /\ e.script \in JapaneseScripts /\ L[Len(L)].script \in JapaneseScripts
RunStep(L, M, e) ==
    \/ Japanese(L, e) /\ Lengthened(L, M, e)
    \/ ~Japanese(L, e) /\ Added(L, M, e)
RunList(s) == FoldLeft(JoinJapanese, <<>>, s)

\* A segment joins the Japanese run before it or starts a run.
LEMMA RunsStep ==
    ASSUME NEW C, NEW L \in Seq(Segs(C)), NEW c \in Segs(C)
    PROVE  JoinJapanese(L, c) \in Seq(Segs(C)) /\ RunStep(L, JoinJapanese(L, c), c)
<1> DEFINE M == JoinJapanese(L, c)
           E == Segs(C)
           n == Len(L)
           e == [Last(L) EXCEPT !.text = @ \o c.text]
<1>1. n \in Nat /\ (L # <<>> => n # 0 /\ L[n] \in E)
  <2> HIDE DEF E
  <2> QED BY DEF E
<1>2. Last(L) = L[n]
  BY DEF Last
<1>3. M = IF Japanese(L, c) THEN Append(Front(L), e) ELSE Append(L, c)
  BY <1>2 DEF JoinJapanese, Japanese
<1> HIDE DEF M
<1>4. CASE Japanese(L, c)
  <2>1. L # <<>>
    BY <1>4 DEF Japanese
  <2>2. e \in E /\ e.text = L[n].text \o c.text /\ e.script = L[n].script
    <3> DEFINE t == L[n].text
               u == c.text
    <3>1. L[n] \in [text : Seq(C), script : Scripts(C)] /\ u \in Seq(C) /\ t \in Seq(C)
      BY <1>1, <2>1 DEF Segs
    <3>2. t \o u \in Seq(C)
      <4> HIDE DEF t, u
      <4> QED BY <3>1
    <3>3. e = [L[n] EXCEPT !.text = t \o u]
      BY <1>2
    <3> HIDE DEF e, u
    <3> QED BY <3>1, <3>2, <3>3 DEF u, Segs
  <2> HIDE DEF e, E, n
  <2>3. M = Append(Front(L), e)
    BY <1>3, <1>4
  <2>4. Replaced(L, Append(Front(L), e), e, E)
    BY <2>1, <2>2, ReplaceLast DEF E
  <2>5. M \in Seq(E) /\ Len(M) = n /\ \A j \in 1..n : M[j] = IF j < n THEN L[j] ELSE e
    BY <2>3, <2>4 DEF Replaced, n
  <2>6. (\A j \in 1..(n - 1) : M[j] = L[j]) /\ M[n] = e
    <3>1. \A j \in 1..(n - 1) : j \in 1..n /\ j < n
      BY <1>1
    <3>2. n \in 1..n /\ ~(n < n)
      BY <1>1, <2>1
    <3> QED BY <2>5, <3>1, <3>2
  <2>7. Lengthened(L, M, c)
    BY <2>2, <2>5, <2>6 DEF Lengthened, n
  <2> QED BY <1>4, <2>5, <2>7 DEF RunStep, M, E
<1>5. CASE ~Japanese(L, c)
  <2> HIDE DEF e, E, n
  <2>1. M = Append(L, c)
    BY <1>3, <1>5
  <2>2. M \in Seq(E) /\ Len(M) = n + 1 /\ \A j \in 1..(n + 1) : M[j] = IF j <= n THEN L[j] ELSE c
    BY <2>1, AddLast DEF E, n
  <2>3. (\A j \in 1..n : M[j] = L[j]) /\ M[n + 1] = c
    <3>1. \A j \in 1..n : j \in 1..(n + 1) /\ j <= n
      BY <1>1
    <3>2. n + 1 \in 1..(n + 1) /\ ~(n + 1 <= n)
      BY <1>1
    <3> QED BY <2>2, <3>1, <3>2
  <2>4. Added(L, M, c)
    BY <2>2, <2>3 DEF Added, n
  <2> QED BY <1>5, <2>2, <2>4 DEF RunStep, M, E
<1> QED BY <1>4, <1>5

\* The runs of the segments at the places in a set.
RunSteps(f, s) ==
    f = [d \in SUBSET DOMAIN s |->
            IF d = {} THEN <<>> ELSE JoinJapanese(f[d \ {Max(d)}], s[Max(d)])]
RunsOf(s) == (CHOOSE f : RunSteps(f, s))[DOMAIN s]

\* The runs of a word, as the value of their steps on all its segments.
LEMMA RunsAre ==
    ASSUME NEW s
    PROVE  RunList(s) = RunsOf(s)
BY Zenon DEF RunsOf, RunSteps, FoldLeft, MapThenFoldSet, RunList

\* The steps that build runs have a value on every list of segments.
LEMMA RunsExist ==
    ASSUME NEW C, NEW s \in Seq(Segs(C))
    PROVE  \E f : RunSteps(f, s)
<1> DEFINE n == Len(s)
           V == Seq(Segs(C))
           step == [p \in (1..n) \X V |-> JoinJapanese(p[2], s[p[1]])]
<1>1. n \in Nat /\ DOMAIN s = 1..n /\ \A k \in 1..n : s[k] \in Segs(C)
  OBVIOUS
<1>2. step \in [(1..n) \X V -> V]
  <2>1. ASSUME NEW k \in 1..n, NEW h \in V PROVE JoinJapanese(h, s[k]) \in V
    BY <1>1, RunsStep
  <2> HIDE DEF n, V
  <2> QED BY <2>1
<1>3. <<>> \in V
  OBVIOUS
<1>4. PICK f \in [SUBSET (1..n) -> V] : FoldSteps(f, <<>>, step, n)
  <2> HIDE DEF V, step, n
  <2> QED BY <1>1, <1>2, <1>3, FoldExists
<1> HIDE DEF n, V
<1>5. ASSUME NEW d \in SUBSET (1..n), d # {}
      PROVE  f[d] = JoinJapanese(f[d \ {Max(d)}], s[Max(d)])
  <2> DEFINE m == Max(d)
             e == d \ {m}
  <2>1. m \in 1..n /\ e \in SUBSET (1..n)
    BY <1>1, <1>5, MaxUpTo
  <2>2. f[d] = step[<<m, f[e]>>]
    BY <1>4, <1>5 DEF FoldSteps
  <2>3. f[e] \in V
    BY <1>4, <2>1
  <2> HIDE DEF m, e
  <2>4. step[<<m, f[e]>>] = JoinJapanese(f[e], s[m])
    BY <2>1, <2>3
  <2> QED BY <2>2, <2>4 DEF m, e
<1>6. f[{}] = <<>>
  BY <1>4 DEF FoldSteps
<1> DEFINE g == [d \in SUBSET (1..n) |->
                   IF d = {} THEN <<>> ELSE JoinJapanese(f[d \ {Max(d)}], s[Max(d)])]
<1>7. f = g
  <2>1. ASSUME NEW d \in SUBSET (1..n) PROVE f[d] = g[d]
    <3>1. g[d] = IF d = {} THEN <<>> ELSE JoinJapanese(f[d \ {Max(d)}], s[Max(d)])
      OBVIOUS
    <3> HIDE DEF g
    <3> QED BY <1>5, <1>6, <3>1
  <2>2. f = [d \in SUBSET (1..n) |-> f[d]] /\ g = [d \in SUBSET (1..n) |-> g[d]]
    OBVIOUS
  <2> HIDE DEF g
  <2> QED BY <2>1, <2>2, Zenon
<1>8. RunSteps(f, s)
  BY <1>1, <1>7, Zenon DEF RunSteps
<1> QED BY <1>8

\* The runs after every prefix, each from the one before.
RunsUpTo(h, s) ==
    /\ h[0] = <<>>
    /\ \A k \in 1..Len(s) : h[k] = JoinJapanese(h[k - 1], s[k])
    /\ RunsOf(s) = h[Len(s)]

\* The runs of every prefix of the segments, each from those of the prefix before it.
LEMMA RunsByPrefix ==
    ASSUME NEW C, NEW s \in Seq(Segs(C))
    PROVE  \E h : RunsUpTo(h, s)
<1> DEFINE n == Len(s)
           F == CHOOSE f : RunSteps(f, s)
           h == [k \in 0..n |-> F[1..k]]
<1>1. n \in Nat /\ DOMAIN s = 1..n
  OBVIOUS
<1>2. RunSteps(F, s)
  BY RunsExist
<1>3. RunsOf(s) = F[1..n]
  BY <1>1, Zenon DEF RunsOf
<1> HIDE DEF F, n
<1>4. \A d \in SUBSET (1..n) :
         F[d] = IF d = {} THEN <<>> ELSE JoinJapanese(F[d \ {Max(d)}], s[Max(d)])
  BY <1>1, <1>2 DEF RunSteps
<1>5. h[0] = <<>>
  <2>1. 1..0 = {} /\ {} \in SUBSET (1..n) /\ 0 \in 0..n
    BY <1>1
  <2> QED BY <1>4, <2>1
<1>6. ASSUME NEW k \in 1..n PROVE h[k] = JoinJapanese(h[k - 1], s[k])
  <2> DEFINE m == k - 1
  <2>1. m \in Nat /\ m < n /\ m + 1 = k /\ k \in 0..n /\ m \in 0..n
    BY <1>1
  <2> HIDE DEF m
  <2>2. 1..k \in SUBSET (1..n) /\ 1..k # {} /\ Max(1..k) = k /\ (1..k) \ {k} = 1..m
    BY <1>1, <2>1, PrefixIs
  <2>3. F[1..k] = JoinJapanese(F[1..m], s[k])
    BY <1>4, <2>2
  <2>4. h[k] = F[1..k] /\ h[m] = F[1..m]
    BY <2>1
  <2> HIDE DEF h
  <2> QED BY <2>3, <2>4 DEF m
<1>7. h[n] = F[1..n]
  <2>1. n \in 0..n
    BY <1>1
  <2> QED BY <2>1
<1> HIDE DEF h
<1>8. RunsUpTo(h, s)
  BY <1>3, <1>5, <1>6, <1>7 DEF RunsUpTo, n
<1> QED BY <1>8
RunTrace(h, s, C) ==
    /\ h[0] = <<>>
    /\ \A k \in 0..Len(s) : h[k] \in Seq(Segs(C))
    /\ \A k \in 1..Len(s) : RunStep(h[k - 1], h[k], s[k])
    /\ RunList(s) = h[Len(s)]

\* The same with the lists typed: the history an induction on the length follows.
LEMMA RunsTrace ==
    ASSUME NEW C, NEW s \in Seq(Segs(C))
    PROVE  \E h : RunTrace(h, s, C)
<1> DEFINE n == Len(s)
<1>1. n \in Nat /\ \A k \in 1..n : s[k] \in Segs(C)
  OBVIOUS
<1>2. PICK h : RunsUpTo(h, s)
  BY RunsByPrefix
<1>3. h[0] = <<>> /\ (\A k \in 1..n : h[k] = JoinJapanese(h[k - 1], s[k])) /\ RunsOf(s) = h[n]
  BY <1>2 DEF RunsUpTo
<1> HIDE DEF n
<1> DEFINE P == {m \in Nat : m <= n => h[m] \in Seq(Segs(C))}
<1>4. 0 \in P
  <2>1. <<>> \in Seq(Segs(C))
    OBVIOUS
  <2> QED BY <1>3, <2>1
<1>5. ASSUME NEW m \in P PROVE m + 1 \in P
  <2> DEFINE k == m + 1
  <2>1. SUFFICES ASSUME k <= n PROVE h[k] \in Seq(Segs(C))
    OBVIOUS
  <2>2. m \in Nat /\ m <= n /\ k \in 1..n /\ k - 1 = m
    BY <1>1, <2>1
  <2>3. h[m] \in Seq(Segs(C))
    BY <2>2
  <2> HIDE DEF P, k
  <2>4. h[k] = JoinJapanese(h[m], s[k]) /\ s[k] \in Segs(C)
    BY <1>1, <1>3, <2>2
  <2> QED BY <2>3, <2>4, RunsStep
<1>6. P = Nat
  <2>1. P \in SUBSET Nat
    OBVIOUS
  <2> HIDE DEF P
  <2> QED BY <1>4, <1>5, <2>1, NaturalsBySteps
<1>7. ASSUME NEW m \in 0..n PROVE h[m] \in Seq(Segs(C))
  <2>1. m \in P /\ m <= n
    BY <1>1, <1>6
  <2> QED BY <2>1
<1>8. ASSUME NEW k \in 1..n PROVE RunStep(h[k - 1], h[k], s[k])
  <2> DEFINE m == k - 1
  <2>1. m \in 0..n
    BY <1>1
  <2> HIDE DEF m
  <2>2. h[m] \in Seq(Segs(C)) /\ h[k] = JoinJapanese(h[m], s[k]) /\ s[k] \in Segs(C)
    BY <1>1, <1>3, <1>7, <2>1 DEF m
  <2> QED BY <2>2, RunsStep DEF m
<1> QED BY <1>3, <1>7, <1>8, RunsAre DEF RunTrace, n

\* A run of a script without spaces has the two neighbours.
InRun(L, a, b) == \E k \in 1..Len(L) : Pair(L[k].text, a, b) /\ L[k].script \in NGramScripts
\* The last run ends as a segment does, in one of the Japanese scripts.
EndsAs(L, e) ==
    LET n == Len(L) IN
    /\ L # <<>> /\ L[n].script \in JapaneseScripts
    /\ L[n].text[Len(L[n].text)] = e.text[Len(e.text)]

\* What a further segment does to the runs: pairs stay, and Japanese segments meet in one run.
LEMMA RunsMove ==
    ASSUME NEW C, NEW L \in Seq(Segs(C)), NEW M \in Seq(Segs(C)), NEW e \in Segs(C),
           RunStep(L, M, e), TextsHeaded(L), Headed(e.text), NEW a, NEW b
    PROVE  /\ TextsHeaded(M)
           /\ InRun(L, a, b) => InRun(M, a, b)
           /\ Pair(e.text, a, b) /\ e.script \in NGramScripts => InRun(M, a, b)
           /\ e.script \in JapaneseScripts => EndsAs(M, e)
           /\ \A d : EndsAs(L, d) /\ e.script \in JapaneseScripts /\ Len(d.text) >= 1
                     /\ Meet(d.text, e.text, a, b) => InRun(M, a, b)
<1> DEFINE n == Len(L)
           v == e.text
<1>1. n \in Nat /\ (\A j \in 1..n : L[j].text \in Seq(C)) /\ (L # <<>> <=> n # 0)
      /\ v \in Seq(C) /\ (M # <<>> <=> Len(M) # 0)
  <2>1. (L # <<>> <=> n # 0) /\ (M # <<>> <=> Len(M) # 0)
    <3> DEFINE E == Segs(C)
    <3>1. L \in Seq(E) /\ M \in Seq(E)
      OBVIOUS
    <3> HIDE DEF E
    <3> QED BY <3>1
  <2>2. v \in Seq(C)
    BY DEF Segs
  <2> QED BY <2>1, <2>2, TextsAre
<1>2. JapaneseScripts \subseteq NGramScripts
  BY DEF JapaneseScripts, NGramScripts
<1>3. CASE ~Japanese(L, e) /\ Added(L, M, e)
  <2>1. Len(M) = n + 1 /\ (\A j \in 1..n : M[j] = L[j]) /\ M[n + 1] = e
    BY <1>3 DEF Added
  <2> DEFINE q == n + 1
  <2> HIDE DEF n
  <2>2. q \in 1..q /\ (\A j \in 1..n : j \in 1..q) /\ (\A j \in 1..q : j \in 1..n \/ j = q) /\ q # 0
    BY <1>1
  <2> HIDE DEF q, v
  <2>3. Len(M) = q /\ M[q] = e
    BY <2>1 DEF q
  <2>4. TextsHeaded(M)
    <3>1. \A j \in 1..n : Headed(L[j].text)
      BY DEF TextsHeaded, n
    <3> QED BY <2>1, <2>2, <2>3, <3>1 DEF TextsHeaded
  <2>5. ASSUME InRun(L, a, b) PROVE InRun(M, a, b)
    <3>1. PICK k \in 1..n : Pair(L[k].text, a, b) /\ L[k].script \in NGramScripts
      BY <2>5 DEF InRun, n
    <3>2. k \in 1..Len(M) /\ M[k] = L[k]
      BY <2>1, <2>2, <2>3
    <3> QED BY <3>1, <3>2 DEF InRun
  <2>6. ASSUME Pair(e.text, a, b), e.script \in NGramScripts PROVE InRun(M, a, b)
    BY <2>2, <2>3, <2>6 DEF InRun
  <2>7. ASSUME e.script \in JapaneseScripts PROVE EndsAs(M, e)
    BY <1>1, <2>2, <2>3, <2>7 DEF EndsAs
  <2>8. ASSUME NEW d, EndsAs(L, d), e.script \in JapaneseScripts PROVE FALSE
    BY <1>3, <2>8 DEF EndsAs, Japanese
  <2> QED BY <2>4, <2>5, <2>6, <2>7, <2>8
<1>4. CASE Japanese(L, e) /\ Lengthened(L, M, e)
  <2> DEFINE u == L[n].text
             w == u \o v
  <2>1. /\ Len(M) = n /\ (\A j \in 1..(n - 1) : M[j] = L[j])
        /\ M[n].text = w /\ M[n].script = L[n].script
    BY <1>4 DEF Lengthened
  <2>2. L # <<>> /\ e.script \in JapaneseScripts /\ L[n].script \in JapaneseScripts
    BY <1>4 DEF Japanese
  <2>3. n # 0 /\ n \in 1..n /\ (\A j \in 1..(n - 1) : j \in 1..n) /\ (\A j \in 1..n : j \in 1..(n - 1) \/ j = n)
    <3>1. n # 0 /\ n \in Nat
      BY <1>1, <2>2
    <3> HIDE DEF n
    <3> QED BY <3>1
  <2>4. u \in Seq(C) /\ v \in Seq(C) /\ Headed(u) /\ Headed(v)
    BY <1>1, <2>3 DEF TextsHeaded
  <2> HIDE DEF u, v
  <2>5. /\ Headed(w)
        /\ Pair(u, a, b) => Pair(w, a, b)
        /\ Pair(v, a, b) => Pair(w, a, b)
        /\ Meet(u, v, a, b) => Pair(w, a, b)
        /\ w[Len(w)] = v[Len(v)]
    BY <2>4, TextsConcat
  <2> HIDE DEF n, w
  <2>6. M[n].script \in JapaneseScripts /\ M[n].script \in NGramScripts
    BY <1>2, <2>1, <2>2
  <2>7. TextsHeaded(M)
    <3>1. \A j \in 1..(n - 1) : Headed(L[j].text)
      BY <2>3 DEF TextsHeaded, n
    <3> QED BY <2>1, <2>3, <2>5, <3>1 DEF TextsHeaded
  <2>8. Pair(w, a, b) => InRun(M, a, b)
    BY <2>1, <2>3, <2>6 DEF InRun
  <2>9. ASSUME InRun(L, a, b) PROVE InRun(M, a, b)
    <3>1. PICK k \in 1..n : Pair(L[k].text, a, b) /\ L[k].script \in NGramScripts
      BY <2>9 DEF InRun, n
    <3>2. CASE k \in 1..(n - 1)
      BY <2>1, <3>1, <3>2 DEF InRun
    <3>3. CASE k = n
      BY <2>5, <2>8, <3>1, <3>3 DEF u
    <3> QED BY <2>3, <3>2, <3>3
  <2>10. Pair(v, a, b) => InRun(M, a, b)
    BY <2>5, <2>8
  <2>11. EndsAs(M, e)
    <3>1. M # <<>>
      BY <1>1, <2>1, <2>3
    <3> QED BY <2>1, <2>5, <2>6, <3>1 DEF EndsAs, v
  <2>12. ASSUME NEW d, EndsAs(L, d), Len(d.text) >= 1, Meet(d.text, e.text, a, b)
         PROVE  InRun(M, a, b)
    <3>1. u[Len(u)] = a
      BY <2>12 DEF EndsAs, Meet, u, n
    <3>2. Len(u) >= 1
      <4>1. u # <<>>
        BY <2>4 DEF Headed
      <4> QED BY <2>4, <4>1
    <3>3. Meet(u, v, a, b)
      BY <2>12, <3>1, <3>2 DEF Meet, v
    <3> QED BY <2>5, <2>8, <3>3
  <2> QED BY <2>7, <2>9, <2>10, <2>11, <2>12 DEF v
<1> QED BY <1>3, <1>4 DEF RunStep

\* The runs of segments have every neighbours of a segment, and of two.
RunsFit(R, S, C) ==
    /\ R \in Seq(Segs(C)) /\ TextsHeaded(R)
    /\ \A a, b : \A j \in 1..Len(S) :
          Pair(S[j].text, a, b) /\ S[j].script \in NGramScripts => InRun(R, a, b)
    /\ \A a, b : \A j \in 1..(Len(S) - 1) :
          /\ Meet(S[j].text, S[j + 1].text, a, b)
          /\ S[j].script \in JapaneseScripts /\ S[j + 1].script \in JapaneseScripts
          => InRun(R, a, b)

\* The runs of a list of segments keep its pairs, also across Japanese scripts.
LEMMA RunsSplit ==
    ASSUME NEW C, NEW S \in Seq(Segs(C)), TextsHeaded(S)
    PROVE  RunsFit(RunList(S), S, C)
<1> DEFINE n == Len(S)
<1>1. n \in Nat /\ \A k \in 1..n : S[k] \in Segs(C) /\ Headed(S[k].text)
  <2> DEFINE E == Segs(C)
  <2>1. S \in Seq(E)
    OBVIOUS
  <2> HIDE DEF E
  <2>2. n \in Nat /\ \A k \in 1..n : S[k] \in E
    BY <2>1
  <2> QED BY <2>2 DEF TextsHeaded, E
<1>2. PICK h : RunTrace(h, S, C)
  BY RunsTrace
<1>3. /\ h[0] = <<>> /\ \A k \in 0..n : h[k] \in Seq(Segs(C))
      /\ \A k \in 1..n : RunStep(h[k - 1], h[k], S[k])
      /\ RunList(S) = h[n]
  BY <1>2 DEF RunTrace
<1> HIDE DEF n
<1>4. ASSUME NEW m \in Nat, m + 1 <= n
      PROVE  /\ h[m] \in Seq(Segs(C)) /\ h[m + 1] \in Seq(Segs(C)) /\ S[m + 1] \in Segs(C)
             /\ RunStep(h[m], h[m + 1], S[m + 1]) /\ Headed(S[m + 1].text)
  <2> DEFINE k == m + 1
  <2>1. k \in 1..n /\ k - 1 = m /\ k \in 0..n /\ m \in 0..n
    BY <1>1, <1>4
  <2> HIDE DEF k
  <2>2. RunStep(h[k - 1], h[k], S[k])
    BY <1>3, <2>1
  <2>3. RunStep(h[m], h[k], S[k])
    BY <2>1, <2>2
  <2>4. h[m] \in Seq(Segs(C)) /\ h[k] \in Seq(Segs(C)) /\ S[k] \in Segs(C) /\ Headed(S[k].text)
    BY <1>1, <1>3, <2>1
  <2> QED BY <2>3, <2>4 DEF k
<1> DEFINE P == {m \in Nat : m <= n => TextsHeaded(h[m])}
<1>5. 0 \in P
  <2>1. Len(<<>>) = 0 /\ 1..0 = {}
    OBVIOUS
  <2> QED BY <1>3, <2>1 DEF TextsHeaded
<1>6. ASSUME NEW m \in P PROVE m + 1 \in P
  <2> DEFINE k == m + 1
  <2>1. SUFFICES ASSUME k <= n PROVE TextsHeaded(h[k])
    OBVIOUS
  <2>2. m \in Nat /\ m <= n
    BY <1>1, <2>1
  <2>3. TextsHeaded(h[m])
    BY <2>2
  <2> HIDE DEF P
  <2>4. h[m] \in Seq(Segs(C)) /\ h[k] \in Seq(Segs(C)) /\ S[k] \in Segs(C)
        /\ RunStep(h[m], h[k], S[k]) /\ Headed(S[k].text)
    BY <1>4, <2>1, <2>2
  <2> HIDE DEF k
  <2> QED BY <2>3, <2>4, RunsMove
<1>7. P = Nat
  <2>1. P \in SUBSET Nat
    OBVIOUS
  <2> HIDE DEF P
  <2> QED BY <1>5, <1>6, <2>1, NaturalsBySteps
<1>8. ASSUME NEW m \in Nat, m <= n PROVE TextsHeaded(h[m])
  <2>1. m \in P
    <3> HIDE DEF P
    <3> QED BY <1>7
  <2> QED BY <1>8, <2>1
<1> HIDE DEF P
<1>9. ASSUME NEW a, NEW b, NEW j \in Nat, j <= n, InRun(h[j], a, b) PROVE InRun(h[n], a, b)
  <2> DEFINE Q == {m \in Nat : m <= n /\ j <= m => InRun(h[m], a, b)}
  <2>1. 0 \in Q
    <3>1. j <= 0 => j = 0
      OBVIOUS
    <3> QED BY <1>9, <3>1
  <2>2. ASSUME NEW m \in Q PROVE m + 1 \in Q
    <3> DEFINE k == m + 1
    <3>1. SUFFICES ASSUME k <= n, j <= k PROVE InRun(h[k], a, b)
      OBVIOUS
    <3>2. m \in Nat /\ m <= n
      BY <1>1, <3>1
    <3>3. j <= m => InRun(h[m], a, b)
      BY <3>2
    <3> HIDE DEF Q
    <3>4. CASE j = k
      BY <1>9, <3>4
    <3>5. CASE j # k
      <4>1. j <= m
        BY <3>1, <3>2, <3>5
      <4>2. InRun(h[m], a, b) /\ TextsHeaded(h[m])
        BY <1>8, <3>2, <3>3, <4>1
      <4>3. h[m] \in Seq(Segs(C)) /\ h[k] \in Seq(Segs(C)) /\ S[k] \in Segs(C)
            /\ RunStep(h[m], h[k], S[k]) /\ Headed(S[k].text)
        BY <1>4, <3>1, <3>2
      <4> HIDE DEF k
      <4> QED BY <4>2, <4>3, RunsMove
    <3> QED BY <3>4, <3>5
  <2>3. Q = Nat
    <3>1. Q \in SUBSET Nat
      OBVIOUS
    <3> HIDE DEF Q
    <3> QED BY <2>1, <2>2, <3>1, NaturalsBySteps
  <2>4. n \in Q
    <3> HIDE DEF Q
    <3> QED BY <1>1, <2>3
  <2> QED BY <1>1, <1>9, <2>4
<1>10. ASSUME NEW a, NEW b, NEW j \in 1..n, Pair(S[j].text, a, b), S[j].script \in NGramScripts
       PROVE  InRun(h[n], a, b)
  <2> DEFINE m == j - 1
  <2>1. m \in Nat /\ m + 1 = j /\ m <= n /\ j \in Nat /\ j <= n
    BY <1>1
  <2> HIDE DEF m
  <2>2. h[m] \in Seq(Segs(C)) /\ h[j] \in Seq(Segs(C)) /\ S[j] \in Segs(C)
        /\ RunStep(h[m], h[j], S[j]) /\ Headed(S[j].text) /\ TextsHeaded(h[m])
    <3>1. h[m + 1] = h[j] /\ S[m + 1] = S[j] /\ m + 1 <= n
      BY <2>1
    <3> QED BY <1>4, <1>8, <2>1, <3>1
  <2>3. InRun(h[j], a, b)
    BY <1>10, <2>2, RunsMove
  <2> QED BY <1>9, <2>1, <2>3
<1>11. ASSUME NEW a, NEW b, NEW j \in 1..(n - 1), Meet(S[j].text, S[j + 1].text, a, b),
              S[j].script \in JapaneseScripts, S[j + 1].script \in JapaneseScripts
       PROVE  InRun(h[n], a, b)
  <2> DEFINE m == j - 1
             k == j + 1
  <2>1. m \in Nat /\ m + 1 = j /\ m <= n /\ j \in Nat /\ j <= n /\ j + 1 <= n /\ k \in Nat /\ k <= n
    BY <1>1
  <2> HIDE DEF m
  <2>2. h[m] \in Seq(Segs(C)) /\ h[j] \in Seq(Segs(C)) /\ S[j] \in Segs(C)
        /\ RunStep(h[m], h[j], S[j]) /\ Headed(S[j].text) /\ TextsHeaded(h[m])
    <3>1. h[m + 1] = h[j] /\ S[m + 1] = S[j] /\ m + 1 <= n
      BY <2>1
    <3> QED BY <1>4, <1>8, <2>1, <3>1
  <2>3. EndsAs(h[j], S[j])
    BY <1>11, <2>2, RunsMove
  <2>4. h[j] \in Seq(Segs(C)) /\ h[k] \in Seq(Segs(C)) /\ S[k] \in Segs(C)
        /\ RunStep(h[j], h[k], S[k]) /\ Headed(S[k].text) /\ TextsHeaded(h[j])
    BY <1>4, <1>8, <2>1
  <2>5. Len(S[j].text) >= 1 /\ Meet(S[j].text, S[k].text, a, b) /\ S[k].script \in JapaneseScripts
    BY <1>11 DEF Meet
  <2> HIDE DEF k
  <2>6. InRun(h[k], a, b)
    BY <2>3, <2>4, <2>5, RunsMove
  <2> QED BY <1>9, <2>1, <2>6
<1>12. RunList(S) \in Seq(Segs(C)) /\ TextsHeaded(RunList(S))
  <2>1. n \in 0..n /\ n \in Nat /\ n <= n
    BY <1>1
  <2> QED BY <1>3, <1>8, <2>1
<1> QED BY <1>3, <1>10, <1>11, <1>12 DEF RunsFit, n

------------------------------------------------------------------------------
\* The clusters of a run: a mark stays with what it marks.

AddToClusters(cs, c) ==
    IF cs # <<>> /\ IsMark(c) THEN Append(Front(cs), Append(Last(cs), c)) ELSE Append(cs, <<c>>)
ClusterStep(L, M, c) ==
    \/ L # <<>> /\ IsMark(c) /\ Extended(L, M, c)
    \/ (L = <<>> \/ ~IsMark(c)) /\ Added(L, M, <<c>>)

\* One character extends the last cluster or starts one.
LEMMA ClustersStep ==
    ASSUME NEW C, NEW L \in Seq(Seq(C)), NEW c \in C
    PROVE  AddToClusters(L, c) \in Seq(Seq(C)) /\ ClusterStep(L, AddToClusters(L, c), c)
<1> DEFINE M == AddToClusters(L, c)
           E == Seq(C)
           n == Len(L)
<1>1. n \in Nat /\ (L # <<>> => n # 0 /\ L[n] \in E)
  <2> HIDE DEF E
  <2> QED BY DEF E
<1>2. Last(L) = L[n]
  BY DEF Last
<1>3. M = IF L # <<>> /\ IsMark(c) THEN Append(Front(L), Append(Last(L), c)) ELSE Append(L, <<c>>)
  BY DEF AddToClusters
<1> HIDE DEF M
<1>4. CASE L # <<>> /\ IsMark(c)
  <2> DEFINE e == Append(Last(L), c)
  <2>1. M = Append(Front(L), e)
    BY <1>3, <1>4
  <2>2. n # 0 /\ L[n] \in Seq(C)
    BY <1>1, <1>4
  <2>3. e \in E /\ e = Append(L[n], c)
    BY <1>2, <2>2, GrownIs
  <2> HIDE DEF e, n, E
  <2>4. Replaced(L, Append(Front(L), e), e, E)
    BY <1>4, <2>3, ReplaceLast DEF E
  <2>5. M \in Seq(E) /\ Len(M) = n /\ \A j \in 1..n : M[j] = IF j < n THEN L[j] ELSE e
    BY <2>1, <2>4 DEF Replaced, n
  <2>6. (\A j \in 1..(n - 1) : M[j] = L[j]) /\ M[n] = e
    <3>1. \A j \in 1..(n - 1) : j \in 1..n /\ j < n
      BY <1>1
    <3>2. n \in 1..n /\ ~(n < n)
      BY <1>1, <2>2
    <3> QED BY <2>5, <3>1, <3>2
  <2>7. Extended(L, M, c)
    BY <1>4, <2>3, <2>5, <2>6 DEF Extended, n
  <2> QED BY <1>4, <2>5, <2>7 DEF ClusterStep, M, E
<1>5. CASE ~(L # <<>> /\ IsMark(c))
  <2> DEFINE e == <<c>>
  <2>1. M = Append(L, e) /\ e \in E
    BY <1>3, <1>5
  <2> HIDE DEF e, E, n
  <2>2. M \in Seq(E) /\ Len(M) = n + 1 /\ \A j \in 1..(n + 1) : M[j] = IF j <= n THEN L[j] ELSE e
    BY <2>1, AddLast DEF E, n
  <2>3. (\A j \in 1..n : M[j] = L[j]) /\ M[n + 1] = e
    <3>1. \A j \in 1..n : j \in 1..(n + 1) /\ j <= n
      BY <1>1
    <3>2. n + 1 \in 1..(n + 1) /\ ~(n + 1 <= n)
      BY <1>1
    <3> QED BY <2>2, <3>1, <3>2
  <2>4. Added(L, M, <<c>>)
    BY <2>2, <2>3 DEF Added, n, e
  <2> QED BY <1>5, <2>2, <2>4 DEF ClusterStep, M, E
<1> QED BY <1>4, <1>5

\* The clusters of the characters at the places in a set.
ClusterSteps(f, s) ==
    f = [d \in SUBSET DOMAIN s |->
            IF d = {} THEN <<>> ELSE AddToClusters(f[d \ {Max(d)}], s[Max(d)])]
ClustersOf(s) == (CHOOSE f : ClusterSteps(f, s))[DOMAIN s]

\* The clusters of a run, as the value of their steps on all its characters.
LEMMA ClustersAre ==
    ASSUME NEW s
    PROVE  Clusters(s) = ClustersOf(s)
BY Zenon DEF ClustersOf, ClusterSteps, FoldLeft, MapThenFoldSet, Clusters, AddToClusters

\* The steps that build clusters have a value on every run.
LEMMA ClustersExist ==
    ASSUME NEW C, NEW s \in Seq(C)
    PROVE  \E f : ClusterSteps(f, s)
<1> DEFINE n == Len(s)
           V == Seq(Seq(C))
           step == [p \in (1..n) \X V |-> AddToClusters(p[2], s[p[1]])]
<1>1. n \in Nat /\ DOMAIN s = 1..n /\ \A k \in 1..n : s[k] \in C
  OBVIOUS
<1>2. step \in [(1..n) \X V -> V]
  <2>1. ASSUME NEW k \in 1..n, NEW h \in V PROVE AddToClusters(h, s[k]) \in V
    BY <1>1, ClustersStep
  <2> HIDE DEF n, V
  <2> QED BY <2>1
<1>3. <<>> \in V
  OBVIOUS
<1>4. PICK f \in [SUBSET (1..n) -> V] : FoldSteps(f, <<>>, step, n)
  <2> HIDE DEF V, step, n
  <2> QED BY <1>1, <1>2, <1>3, FoldExists
<1> HIDE DEF n, V
<1>5. ASSUME NEW d \in SUBSET (1..n), d # {}
      PROVE  f[d] = AddToClusters(f[d \ {Max(d)}], s[Max(d)])
  <2> DEFINE m == Max(d)
             e == d \ {m}
  <2>1. m \in 1..n /\ e \in SUBSET (1..n)
    BY <1>1, <1>5, MaxUpTo
  <2>2. f[d] = step[<<m, f[e]>>]
    BY <1>4, <1>5 DEF FoldSteps
  <2>3. f[e] \in V
    BY <1>4, <2>1
  <2> HIDE DEF m, e
  <2>4. step[<<m, f[e]>>] = AddToClusters(f[e], s[m])
    BY <2>1, <2>3
  <2> QED BY <2>2, <2>4 DEF m, e
<1>6. f[{}] = <<>>
  BY <1>4 DEF FoldSteps
<1> DEFINE g == [d \in SUBSET (1..n) |->
                   IF d = {} THEN <<>> ELSE AddToClusters(f[d \ {Max(d)}], s[Max(d)])]
<1>7. f = g
  <2>1. ASSUME NEW d \in SUBSET (1..n) PROVE f[d] = g[d]
    <3>1. g[d] = IF d = {} THEN <<>> ELSE AddToClusters(f[d \ {Max(d)}], s[Max(d)])
      OBVIOUS
    <3> HIDE DEF g
    <3> QED BY <1>5, <1>6, <3>1
  <2>2. f = [d \in SUBSET (1..n) |-> f[d]] /\ g = [d \in SUBSET (1..n) |-> g[d]]
    OBVIOUS
  <2> HIDE DEF g
  <2> QED BY <2>1, <2>2, Zenon
<1>8. ClusterSteps(f, s)
  BY <1>1, <1>7, Zenon DEF ClusterSteps
<1> QED BY <1>8

\* The clusters after every prefix, each from the one before.
ClustersUpTo(h, s) ==
    /\ h[0] = <<>>
    /\ \A k \in 1..Len(s) : h[k] = AddToClusters(h[k - 1], s[k])
    /\ ClustersOf(s) = h[Len(s)]

\* The clusters of every prefix of a run, each from those of the prefix before it.
LEMMA ClustersByPrefix ==
    ASSUME NEW C, NEW s \in Seq(C)
    PROVE  \E h : ClustersUpTo(h, s)
<1> DEFINE n == Len(s)
           F == CHOOSE f : ClusterSteps(f, s)
           h == [k \in 0..n |-> F[1..k]]
<1>1. n \in Nat /\ DOMAIN s = 1..n
  OBVIOUS
<1>2. ClusterSteps(F, s)
  BY ClustersExist
<1>3. ClustersOf(s) = F[1..n]
  BY <1>1, Zenon DEF ClustersOf
<1> HIDE DEF F, n
<1>4. \A d \in SUBSET (1..n) :
         F[d] = IF d = {} THEN <<>> ELSE AddToClusters(F[d \ {Max(d)}], s[Max(d)])
  BY <1>1, <1>2 DEF ClusterSteps
<1>5. h[0] = <<>>
  <2>1. 1..0 = {} /\ {} \in SUBSET (1..n) /\ 0 \in 0..n
    BY <1>1
  <2> QED BY <1>4, <2>1
<1>6. ASSUME NEW k \in 1..n PROVE h[k] = AddToClusters(h[k - 1], s[k])
  <2> DEFINE m == k - 1
  <2>1. m \in Nat /\ m < n /\ m + 1 = k /\ k \in 0..n /\ m \in 0..n
    BY <1>1
  <2> HIDE DEF m
  <2>2. 1..k \in SUBSET (1..n) /\ 1..k # {} /\ Max(1..k) = k /\ (1..k) \ {k} = 1..m
    BY <1>1, <2>1, PrefixIs
  <2>3. F[1..k] = AddToClusters(F[1..m], s[k])
    BY <1>4, <2>2
  <2>4. h[k] = F[1..k] /\ h[m] = F[1..m]
    BY <2>1
  <2> HIDE DEF h
  <2> QED BY <2>3, <2>4 DEF m
<1>7. h[n] = F[1..n]
  <2>1. n \in 0..n
    BY <1>1
  <2> QED BY <2>1
<1> HIDE DEF h
<1>8. ClustersUpTo(h, s)
  BY <1>3, <1>5, <1>6, <1>7 DEF ClustersUpTo, n
<1> QED BY <1>8
ClusterTrace(h, s, C) ==
    /\ h[0] = <<>>
    /\ \A k \in 0..Len(s) : h[k] \in Seq(Seq(C))
    /\ \A k \in 1..Len(s) : ClusterStep(h[k - 1], h[k], s[k])
    /\ Clusters(s) = h[Len(s)]

\* The same with the lists typed: the history an induction on the length follows.
LEMMA ClustersTrace ==
    ASSUME NEW C, NEW s \in Seq(C)
    PROVE  \E h : ClusterTrace(h, s, C)
<1> DEFINE n == Len(s)
<1>1. n \in Nat /\ \A k \in 1..n : s[k] \in C
  OBVIOUS
<1>2. PICK h : ClustersUpTo(h, s)
  BY ClustersByPrefix
<1>3. h[0] = <<>> /\ (\A k \in 1..n : h[k] = AddToClusters(h[k - 1], s[k])) /\ ClustersOf(s) = h[n]
  BY <1>2 DEF ClustersUpTo
<1> HIDE DEF n
<1> DEFINE P == {m \in Nat : m <= n => h[m] \in Seq(Seq(C))}
<1>4. 0 \in P
  <2>1. <<>> \in Seq(Seq(C))
    OBVIOUS
  <2> QED BY <1>3, <2>1
<1>5. ASSUME NEW m \in P PROVE m + 1 \in P
  <2> DEFINE k == m + 1
  <2>1. SUFFICES ASSUME k <= n PROVE h[k] \in Seq(Seq(C))
    OBVIOUS
  <2>2. m \in Nat /\ m <= n /\ k \in 1..n /\ k - 1 = m
    BY <1>1, <2>1
  <2>3. h[m] \in Seq(Seq(C))
    BY <2>2
  <2> HIDE DEF P, k
  <2>4. h[k] = AddToClusters(h[m], s[k]) /\ s[k] \in C
    BY <1>1, <1>3, <2>2
  <2> QED BY <2>3, <2>4, ClustersStep
<1>6. P = Nat
  <2>1. P \in SUBSET Nat
    OBVIOUS
  <2> HIDE DEF P
  <2> QED BY <1>4, <1>5, <2>1, NaturalsBySteps
<1>7. ASSUME NEW m \in 0..n PROVE h[m] \in Seq(Seq(C))
  <2>1. m \in P /\ m <= n
    BY <1>1, <1>6
  <2> QED BY <2>1
<1>8. ASSUME NEW k \in 1..n PROVE ClusterStep(h[k - 1], h[k], s[k])
  <2> DEFINE m == k - 1
  <2>1. m \in 0..n
    BY <1>1
  <2> HIDE DEF m
  <2>2. h[m] \in Seq(Seq(C)) /\ h[k] = AddToClusters(h[m], s[k]) /\ s[k] \in C
    BY <1>1, <1>3, <1>7, <2>1 DEF m
  <2> QED BY <2>2, ClustersStep DEF m
<1> QED BY <1>3, <1>7, <1>8, ClustersAre DEF ClusterTrace, n

\* No cluster starts with a mark.
AllHeaded(L) == \A j \in 1..Len(L) : Headed(L[j])

\* No cluster begins with a mark when the run does not.
LEMMA ClustersKeepHeads ==
    ASSUME NEW C, NEW L \in Seq(Seq(C)), NEW M \in Seq(Seq(C)), NEW c \in C,
           ClusterStep(L, M, c), AllHeaded(L), L = <<>> => ~IsMark(c)
    PROVE  AllHeaded(M) /\ M # <<>>
<1> DEFINE n == Len(L)
<1>1. n \in Nat /\ (\A j \in 1..n : L[j] \in Seq(C)) /\ (L # <<>> <=> n # 0) /\ (M # <<>> <=> Len(M) # 0)
  OBVIOUS
<1>2. CASE Added(L, M, <<c>>) /\ (L = <<>> \/ ~IsMark(c))
  <2>1. Len(M) = n + 1 /\ (\A j \in 1..n : M[j] = L[j]) /\ M[n + 1] = <<c>> /\ ~IsMark(c)
    BY <1>2 DEF Added
  <2> DEFINE q == n + 1
  <2> HIDE DEF n
  <2>2. (\A j \in 1..q : j \in 1..n \/ j = q) /\ q # 0
    BY <1>1
  <2> HIDE DEF q
  <2>3. Len(M) = q /\ M[q] = <<c>>
    BY <2>1 DEF q
  <2>4. Headed(M[q])
    <3>1. <<c>> # <<>> /\ <<c>>[1] = c
      OBVIOUS
    <3> QED BY <2>1, <2>3, <3>1 DEF Headed
  <2>5. \A j \in 1..n : Headed(M[j])
    BY <2>1 DEF AllHeaded, n
  <2> QED BY <1>1, <2>2, <2>3, <2>4, <2>5 DEF AllHeaded
<1>3. CASE Extended(L, M, c)
  <2>1. L # <<>> /\ Len(M) = n /\ (\A j \in 1..(n - 1) : M[j] = L[j]) /\ M[n] = Append(L[n], c)
    BY <1>3 DEF Extended
  <2> DEFINE t == L[n]
             l == Len(t)
  <2>2. n # 0 /\ n \in 1..n /\ (\A j \in 1..(n - 1) : j \in 1..n) /\ (\A j \in 1..n : j \in 1..(n - 1) \/ j = n)
    <3>1. n # 0 /\ n \in Nat
      BY <1>1, <2>1
    <3> HIDE DEF n
    <3> QED BY <3>1
  <2>3. t \in Seq(C) /\ Headed(t)
    BY <1>1, <2>2 DEF AllHeaded
  <2> HIDE DEF n, t
  <2>4. 1 \in 1..l
    <3>1. t # <<>>
      BY <2>3 DEF Headed
    <3> QED BY <2>3, <3>1
  <2>5. M[n] # <<>> /\ M[n][1] = t[1]
    <3>1. t \in Seq(C)
      BY <2>3, Zenon
    <3>2. Append(t, c) # <<>>
      BY <3>1
    <3>3. \A i \in 1..l : Append(t, c)[i] = t[i]
      BY <3>1
    <3>4. Append(t, c)[1] = t[1]
      <4> HIDE DEF l
      <4> QED BY <2>4, <3>3, Zenon
    <3>5. M[n] = Append(t, c)
      BY <2>1, Zenon DEF t
    <3> QED BY <3>2, <3>4, <3>5, Zenon
  <2>6. Headed(M[n])
    BY <2>3, <2>5 DEF Headed
  <2>7. \A j \in 1..(n - 1) : Headed(M[j])
    BY <2>1, <2>2 DEF AllHeaded, n
  <2> QED BY <1>1, <2>1, <2>2, <2>6, <2>7 DEF AllHeaded
<1> QED BY <1>2, <1>3 DEF ClusterStep

\* Two clusters of a character each, the last ones or for good.
TwoEnd(L, a, b) == LET n == Len(L) IN n >= 2 /\ L[n - 1] = <<a>> /\ L[n] = <<b>>
TwoIn(L, a, b) == \E j \in 1..(Len(L) - 2) : L[j] = <<a>> /\ L[j + 1] = <<b>>

\* Two adjacent clusters stay adjacent, and the last two are settled by the next base character.
LEMMA TwoStay ==
    ASSUME NEW C, NEW L \in Seq(Seq(C)), NEW M \in Seq(Seq(C)), NEW c, ClusterStep(L, M, c),
           NEW a, NEW b
    PROVE  /\ TwoIn(L, a, b) => TwoIn(M, a, b)
           /\ TwoEnd(L, a, b) /\ ~IsMark(c) => TwoIn(M, a, b)
<1> DEFINE n == Len(L)
<1>1. n \in Nat
  OBVIOUS
<1>2. /\ Len(M) = n \/ Len(M) = n + 1
      /\ \A j \in 1..(n - 1) : M[j] = L[j]
      /\ ~IsMark(c) => Len(M) = n + 1 /\ \A j \in 1..n : M[j] = L[j]
  <2>1. \A j \in 1..(n - 1) : j \in 1..n
    BY <1>1
  <2> HIDE DEF n
  <2> QED BY <2>1 DEF ClusterStep, Extended, Added, n
<1> HIDE DEF n
<1>3. ASSUME TwoIn(L, a, b) PROVE TwoIn(M, a, b)
  <2>1. PICK j \in 1..(n - 2) : L[j] = <<a>> /\ L[j + 1] = <<b>>
    BY <1>3 DEF TwoIn, n
  <2> DEFINE k == j + 1
  <2>2. j \in 1..(n - 1) /\ k \in 1..(n - 1) /\ j \in 1..(Len(M) - 2)
    BY <1>1, <1>2
  <2>3. M[j] = <<a>>
    BY <1>2, <2>1, <2>2
  <2>4. L[k] = <<b>>
    BY <2>1
  <2> HIDE DEF k
  <2>5. M[k] = <<b>>
    BY <1>2, <2>2, <2>4
  <2> QED BY <2>2, <2>3, <2>5 DEF TwoIn, k
<1>4. ASSUME TwoEnd(L, a, b), ~IsMark(c) PROVE TwoIn(M, a, b)
  <2> DEFINE j == n - 1
  <2>1. n >= 2 /\ L[j] = <<a>> /\ L[n] = <<b>>
    BY <1>4 DEF TwoEnd, n
  <2>2. j \in 1..n /\ n \in 1..n /\ j + 1 = n /\ j \in 1..(n + 1 - 2)
    BY <1>1, <2>1
  <2> HIDE DEF j
  <2>3. Len(M) = n + 1 /\ M[j] = <<a>> /\ M[j + 1] = <<b>>
    BY <1>2, <1>4, <2>1, <2>2
  <2>4. j \in 1..(Len(M) - 2)
    BY <2>2, <2>3
  <2> QED BY <2>3, <2>4, Zenon DEF TwoIn
<1> QED BY <1>3, <1>4

\* Two neighbours that are no marks are two clusters.
ClustersFit(K, t, C) ==
    /\ K \in Seq(Seq(C)) /\ AllHeaded(K)
    /\ \A a, b : Pair(t, a, b) /\ ~IsMark(a) /\ ~IsMark(b) =>
          \E j \in 1..(Len(K) - 1) : K[j] = <<a>> /\ K[j + 1] = <<b>>

\* The clusters of a run hold each character once, every mark with its base.
LEMMA ClustersSplit ==
    ASSUME NEW C, NEW s \in Seq(C), Headed(s)
    PROVE  ClustersFit(Clusters(s), s, C)
<1> DEFINE n == Len(s)
<1>1. n \in Nat /\ (\A k \in 1..n : s[k] \in C) /\ ~IsMark(s[1])
  BY DEF Headed
<1>2. PICK h : ClusterTrace(h, s, C)
  BY ClustersTrace
<1>3. /\ h[0] = <<>> /\ \A k \in 0..n : h[k] \in Seq(Seq(C))
      /\ \A k \in 1..n : ClusterStep(h[k - 1], h[k], s[k])
      /\ Clusters(s) = h[n]
  BY <1>2 DEF ClusterTrace
<1> HIDE DEF n
<1>4. ASSUME NEW m \in Nat, m + 1 <= n
      PROVE  /\ h[m] \in Seq(Seq(C)) /\ h[m + 1] \in Seq(Seq(C)) /\ s[m + 1] \in C
             /\ ClusterStep(h[m], h[m + 1], s[m + 1])
  <2> DEFINE k == m + 1
  <2>1. k \in 1..n /\ k - 1 = m /\ k \in 0..n /\ m \in 0..n
    BY <1>1, <1>4
  <2> HIDE DEF k
  <2>2. ClusterStep(h[k - 1], h[k], s[k])
    BY <1>3, <2>1
  <2>3. ClusterStep(h[m], h[k], s[k])
    BY <2>1, <2>2
  <2>4. h[m] \in Seq(Seq(C)) /\ h[k] \in Seq(Seq(C)) /\ s[k] \in C
    BY <1>1, <1>3, <2>1
  <2> QED BY <2>3, <2>4 DEF k
<1> DEFINE P == {m \in Nat : m <= n => AllHeaded(h[m]) /\ (m # 0 => h[m] # <<>>)}
<1>5. 0 \in P
  <2>1. Len(<<>>) = 0 /\ 1..0 = {}
    OBVIOUS
  <2> QED BY <1>3, <2>1 DEF AllHeaded
<1>6. ASSUME NEW m \in P PROVE m + 1 \in P
  <2> DEFINE k == m + 1
  <2>1. SUFFICES ASSUME k <= n PROVE AllHeaded(h[k]) /\ h[k] # <<>>
    OBVIOUS
  <2>2. m \in Nat /\ m <= n
    BY <1>1, <2>1
  <2>3. AllHeaded(h[m]) /\ (m # 0 => h[m] # <<>>)
    BY <2>2
  <2> HIDE DEF P
  <2>4. h[m] \in Seq(Seq(C)) /\ h[k] \in Seq(Seq(C)) /\ s[k] \in C /\ ClusterStep(h[m], h[k], s[k])
    BY <1>4, <2>1, <2>2
  <2>5. h[m] = <<>> => ~IsMark(s[k])
    <3>1. m = 0 => k = 1
      OBVIOUS
    <3> QED BY <1>1, <2>3, <3>1
  <2> HIDE DEF k
  <2> QED BY <2>3, <2>4, <2>5, ClustersKeepHeads
<1>7. P = Nat
  <2>1. P \in SUBSET Nat
    OBVIOUS
  <2> HIDE DEF P
  <2> QED BY <1>5, <1>6, <2>1, NaturalsBySteps
<1>8. ASSUME NEW m \in Nat, m <= n PROVE AllHeaded(h[m])
  <2>1. m \in P
    <3> HIDE DEF P
    <3> QED BY <1>7
  <2> QED BY <1>8, <2>1
<1> HIDE DEF P
<1>9. ASSUME NEW a, NEW b, Pair(s, a, b), ~IsMark(a), ~IsMark(b)
      PROVE  \E j \in 1..(Len(h[n]) - 1) : h[n][j] = <<a>> /\ h[n][j + 1] = <<b>>
  <2>1. PICK p \in 1..(n - 1) : s[p] = a /\ s[p + 1] = b /\ (p + 1 < n => ~IsMark(s[p + 2]))
    BY <1>9 DEF Pair, n
  <2> DEFINE m0 == p - 1
             q == p + 1
  <2>2. m0 \in Nat /\ m0 + 1 = p /\ p \in Nat /\ p <= n /\ q \in Nat /\ q <= n
    BY <1>1
  <2> HIDE DEF m0
  <2>3. h[m0] \in Seq(Seq(C)) /\ h[p] \in Seq(Seq(C)) /\ ClusterStep(h[m0], h[p], a)
    <3>1. h[m0 + 1] = h[p] /\ s[m0 + 1] = a /\ m0 + 1 <= n
      BY <2>1, <2>2
    <3> QED BY <1>4, <2>2, <3>1
  <2>4. h[q] \in Seq(Seq(C)) /\ ClusterStep(h[p], h[q], b)
    BY <1>4, <2>1, <2>2
  <2>5. Added(h[m0], h[p], <<a>>)
    BY <1>9, <2>3 DEF ClusterStep
  <2>6. Added(h[p], h[q], <<b>>)
    BY <1>9, <2>4 DEF ClusterStep
  <2>7. TwoEnd(h[q], a, b)
    <3> DEFINE l == Len(h[m0])
               i == l + 1
               k == i + 1
    <3>1. l \in Nat
      BY <2>3
    <3>2. Len(h[p]) = i /\ h[p][i] = <<a>>
      BY <2>5 DEF Added
    <3> HIDE DEF l
    <3>3. i \in 1..i /\ k - 1 = i /\ k >= 2
      BY <3>1
    <3> HIDE DEF i
    <3>4. Len(h[q]) = k /\ h[q][i] = h[p][i] /\ h[q][k] = <<b>>
      BY <2>6, <3>2, <3>3 DEF Added
    <3> HIDE DEF k, q
    <3> QED BY <3>2, <3>3, <3>4 DEF TwoEnd
  <2> DEFINE Q == {m \in Nat : m <= n /\ m > q => TwoIn(h[m], a, b)}
  <2>8. 0 \in Q
    BY <2>2
  <2>9. ASSUME NEW m \in Q PROVE m + 1 \in Q
    <3> DEFINE k == m + 1
    <3>1. SUFFICES ASSUME k <= n, k > q PROVE TwoIn(h[k], a, b)
      OBVIOUS
    <3>2. m \in Nat /\ m <= n
      BY <1>1, <3>1
    <3>3. m > q => TwoIn(h[m], a, b)
      BY <3>2
    <3>4. ~(m > q) => m = q /\ k = p + 2 /\ p + 1 < n
      BY <1>1, <2>2, <3>1, <3>2
    <3> HIDE DEF Q
    <3>5. h[m] \in Seq(Seq(C)) /\ h[k] \in Seq(Seq(C)) /\ ClusterStep(h[m], h[k], s[k])
      BY <1>4, <3>1, <3>2
    <3> HIDE DEF k, q
    <3>6. CASE m > q
      BY <3>3, <3>5, <3>6, TwoStay
    <3>7. CASE ~(m > q)
      BY <2>1, <2>7, <3>4, <3>5, <3>7, TwoStay
    <3> QED BY <3>6, <3>7
  <2>10. Q = Nat
    <3>1. Q \in SUBSET Nat
      OBVIOUS
    <3> HIDE DEF Q
    <3> QED BY <2>8, <2>9, <3>1, NaturalsBySteps
  <2>11. n > q => TwoIn(h[n], a, b)
    <3>1. n \in Q /\ n <= n
      <4> HIDE DEF Q
      <4> QED BY <1>1, <2>10
    <3> QED BY <3>1
  <2> HIDE DEF Q, q
  <2> DEFINE L == h[n]
             z == Len(L)
  <2>12. z \in Nat
    <3>1. n \in 0..n
      BY <1>1
    <3>2. L \in Seq(Seq(C))
      BY <1>3, <3>1
    <3> HIDE DEF L
    <3> QED BY <3>2
  <2>13. CASE n > q
    <3>1. PICK j \in 1..(z - 2) : L[j] = <<a>> /\ L[j + 1] = <<b>>
      BY <2>11, <2>13 DEF TwoIn
    <3> HIDE DEF z
    <3>2. j \in 1..(z - 1)
      BY <2>12
    <3> QED BY <3>1, <3>2 DEF z
  <2>14. CASE ~(n > q)
    <3> DEFINE j == z - 1
    <3>1. n = q
      BY <1>1, <2>2, <2>14
    <3>2. z >= 2 /\ L[j] = <<a>> /\ L[z] = <<b>>
      BY <2>7, <3>1 DEF TwoEnd
    <3> HIDE DEF z, L
    <3>3. j \in 1..(z - 1) /\ j + 1 = z
      BY <2>12, <3>2
    <3> HIDE DEF j
    <3>4. j \in 1..(z - 1) /\ L[j] = <<a>> /\ L[j + 1] = <<b>>
      BY <3>2, <3>3
    <3> QED BY <3>4 DEF z, L
  <2> QED BY <2>13, <2>14
<1>10. Clusters(s) \in Seq(Seq(C)) /\ AllHeaded(Clusters(s))
  <2>1. n \in 0..n /\ n \in Nat /\ n <= n
    BY <1>1
  <2> QED BY <1>3, <1>8, <2>1
<1> DEFINE K == Clusters(s)
<1>11. K = h[n]
  BY <1>3
<1> HIDE DEF K
<1>12. ASSUME NEW a, NEW b, Pair(s, a, b), ~IsMark(a), ~IsMark(b)
       PROVE  \E j \in 1..(Len(K) - 1) : K[j] = <<a>> /\ K[j + 1] = <<b>>
  BY <1>9, <1>11, <1>12
<1>13. ClustersFit(K, s, C)
  BY <1>10, <1>12 DEF ClustersFit, K
<1> QED BY <1>13 DEF K

------------------------------------------------------------------------------
\* The tokens of runs, of words and of a text.

\* Lists of one and two elements.
LEMMA TwosAre ==
    ASSUME NEW a, NEW b
    PROVE  /\ <<a>> \o <<b>> = <<a, b>>
           /\ Append(<<a>>, b) = <<a, b>>
           /\ Append(<<>>, a) = <<a>>
<1> DEFINE A == {a, b}
           w == <<a>> \o <<b>>
           v == Append(<<a>>, b)
           t == <<a, b>>
<1>1. <<a>> \in Seq(A) /\ <<b>> \in Seq(A) /\ Len(<<a>>) = 1 /\ Len(<<b>>) = 1 /\ <<a>>[1] = a /\ <<b>>[1] = b
  OBVIOUS
<1>2. t \in Seq(A) /\ Len(t) = 2 /\ t[1] = a /\ t[2] = b
  OBVIOUS
<1>3. w \in Seq(A) /\ Len(w) = 2 /\ w[1] = a /\ w[2] = b
  BY <1>1, ConcatProperties
<1>4. v \in Seq(A) /\ Len(v) = 2 /\ v[1] = a /\ v[2] = b
  BY <1>1, AppendProperties
<1>5. Append(<<>>, a) = <<a>>
  OBVIOUS
<1> HIDE DEF w, v, t, A
<1>6. \A p \in Seq(A) : Len(p) = 2 /\ p[1] = a /\ p[2] = b => p = t
  <2>1. SUFFICES ASSUME NEW p \in Seq(A), Len(p) = 2, p[1] = a, p[2] = b PROVE p = t
    OBVIOUS
  <2>2. DOMAIN p = 1..2 /\ DOMAIN t = 1..2
    BY <1>2, <2>1
  <2>3. \A i \in 1..2 : p[i] = t[i]
    <3>1. \A i \in 1..2 : i = 1 \/ i = 2
      OBVIOUS
    <3>2. p[1] = t[1] /\ p[2] = t[2]
      BY <1>2, <2>1
    <3> QED BY <3>1, <3>2, Zenon
  <2>4. p = [i \in 1..2 |-> p[i]] /\ t = [i \in 1..2 |-> t[i]]
    <3>1. p = [i \in DOMAIN p |-> p[i]] /\ t = [i \in DOMAIN t |-> t[i]]
      BY <1>2, <2>1
    <3> QED BY <2>2, <3>1, Zenon
  <2> QED BY <2>3, <2>4, Zenon
<1> QED BY <1>3, <1>4, <1>5, <1>6 DEF w, v, t

\* What keyword search promises of two neighbours.
BothTokens(a, b) == {<<a>>, <<b>>, <<a, b>>}
Together(a, b) ==
    /\ Base(a) /\ Base(b)
    /\ Kind(a) = Kind(b) \/ (Kind(a) \in JapaneseScripts /\ Kind(b) \in JapaneseScripts)
TokensFit(T, C) == T \in Seq(Seq(C)) /\ \A t \in ToSet(T) : Headed(t)

\* The tokens of a run: its clusters but for iteration marks, and their pairs.
Spelled(c) == ~(Len(c) = 1 /\ Kind(c[1]) = "INHERIT")

\* The tokens of a run: its text, or its clusters and their pairs in a script without blanks.
LEMMA RunTokensAre ==
    ASSUME NEW C, NEW r \in Segs(C), Headed(r.text)
    PROVE  LET K == Clusters(r.text)
               T == TokensOfRun(r)
           IN  /\ r.script \notin NGramScripts => T = <<r.text>>
               /\ r.script \in NGramScripts =>
                     /\ T \in Seq(Seq(C))
                     /\ ToSet(T) = {K[j] : j \in {i \in 1..Len(K) : Spelled(K[i])}}
                                      \cup {K[j] \o K[j + 1] : j \in 1..(Len(K) - 1)}
<1> DEFINE K == Clusters(r.text)
           T == TokensOfRun(r)
           n == Len(K)
           I == {i \in 1..n : Spelled(K[i])}
           V == [j \in 1..(n - 1) |-> K[j] \o K[j + 1]]
           W == Kept(K, I)
<1>1. r.text \in Seq(C)
  BY DEF Segs
<1>2. K \in Seq(Seq(C))
  BY <1>1, ClustersSplit DEF ClustersFit
<1>3. T = IF r.script \notin NGramScripts THEN <<r.text>>
          ELSE Where(K, LAMBDA c : ~(Len(c) = 1 /\ Kind(c[1]) = "INHERIT")) \o V
  BY Zenon DEF TokensOfRun
<1> HIDE DEF K, T
<1>4. n \in Nat /\ DOMAIN K = 1..n /\ \A j \in 1..n : K[j] \in Seq(C)
  BY <1>2
<1>5. Where(K, LAMBDA c : ~(Len(c) = 1 /\ Kind(c[1]) = "INHERIT")) = W
  <2>1. Where(K, LAMBDA c : ~(Len(c) = 1 /\ Kind(c[1]) = "INHERIT")) =
           Kept(K, {i \in DOMAIN K : Spelled(K[i])})
    BY Zenon DEF Where, Spelled
  <2> QED BY <1>4, <2>1
<1>6. W \in Seq(Seq(C)) /\ ToSet(W) = {K[j] : j \in I}
  <2> DEFINE A == Seq(C)
  <2> HIDE DEF A
  <2>1. K \in Seq(A) /\ I \in SUBSET (1..Len(K))
    BY <1>2 DEF A
  <2> HIDE DEF I
  <2>2. /\ W \in Seq(A)
        /\ \A k \in DOMAIN W : \E p \in I : W[k] = K[p]
        /\ \A p \in I : \E k \in DOMAIN W : W[k] = K[p]
    BY <2>1, KeptElements
  <2> HIDE DEF W
  <2>3. ToSet(W) = {K[j] : j \in I}
    BY <2>2 DEF ToSet
  <2> QED BY <2>2, <2>3 DEF A
<1>7. V \in Seq(Seq(C)) /\ ToSet(V) = {K[j] \o K[j + 1] : j \in 1..(n - 1)}
  <2>1. ASSUME NEW j \in 1..(n - 1) PROVE K[j] \o K[j + 1] \in Seq(C)
    <3> DEFINE u == K[j]
               v == K[j + 1]
    <3>1. u \in Seq(C) /\ v \in Seq(C)
      <4>1. j \in 1..n /\ j + 1 \in 1..n
        BY <1>4
      <4> QED BY <1>4, <4>1
    <3> HIDE DEF u, v
    <3>2. u \o v \in Seq(C)
      BY <3>1
    <3> QED BY <3>2 DEF u, v
  <2> DEFINE m == IF n = 0 THEN 0 ELSE n - 1
  <2>2. m \in Nat /\ 1..(n - 1) = 1..m
    BY <1>4
  <2>3. ToSet(V) = {K[j] \o K[j + 1] : j \in 1..(n - 1)}
    BY DEF ToSet
  <2> DEFINE A == Seq(C)
  <2> HIDE DEF A, m, n
  <2>4. V \in [1..m -> A]
    BY <2>1, <2>2 DEF A
  <2> HIDE DEF V
  <2>5. V \in Seq(A)
    BY <2>2, <2>4
  <2> QED BY <2>3, <2>5 DEF A
<1>8. ASSUME r.script \in NGramScripts
      PROVE  T \in Seq(Seq(C)) /\ ToSet(T) = {K[j] : j \in I} \cup {K[j] \o K[j + 1] : j \in 1..(n - 1)}
  <2>1. T = W \o V
    BY <1>3, <1>5, <1>8
  <2> DEFINE A == Seq(C)
  <2> HIDE DEF A, W, V
  <2>2. W \in Seq(A) /\ V \in Seq(A)
    BY <1>6, <1>7 DEF A
  <2>3. W \o V \in Seq(A) /\ ToSet(W \o V) = ToSet(W) \cup ToSet(V)
    BY <2>2, ConcatElements
  <2> QED BY <1>6, <1>7, <2>1, <2>3 DEF A
<1> QED BY <1>3, <1>8 DEF K, T

\* The tokens of a run are nonempty and hold both tokens of every adjacent pair.
LEMMA RunTokens ==
    ASSUME NEW C, NEW r \in Segs(C), Headed(r.text)
    PROVE  /\ TokensFit(TokensOfRun(r), C)
           /\ \A a, b : Pair(r.text, a, b) /\ Base(a) /\ Base(b) /\ r.script \in NGramScripts
                 => BothTokens(a, b) \subseteq ToSet(TokensOfRun(r))
<1> DEFINE K == Clusters(r.text)
           T == TokensOfRun(r)
           t == r.text
           n == Len(K)
<1>1. /\ r.script \notin NGramScripts => T = <<t>>
      /\ r.script \in NGramScripts =>
            /\ T \in Seq(Seq(C))
            /\ ToSet(T) = {K[j] : j \in {i \in 1..n : Spelled(K[i])}}
                             \cup {K[j] \o K[j + 1] : j \in 1..(n - 1)}
  BY RunTokensAre
<1>2. t \in Seq(C)
  BY DEF Segs
<1>3. /\ K \in Seq(Seq(C)) /\ AllHeaded(K)
      /\ \A a, b : Pair(t, a, b) /\ ~IsMark(a) /\ ~IsMark(b) =>
            \E j \in 1..(n - 1) : K[j] = <<a>> /\ K[j + 1] = <<b>>
  BY <1>2, ClustersSplit DEF ClustersFit
<1> HIDE DEF K, T
<1>4. n \in Nat /\ \A j \in 1..n : K[j] \in Seq(C)
  BY <1>3
<1>5. CASE r.script \notin NGramScripts
  <2> HIDE DEF t
  <2>1. T = <<t>> /\ Headed(t)
    BY <1>1, <1>5 DEF t
  <2> DEFINE A == Seq(C)
  <2> HIDE DEF A
  <2>2. <<t>> \in Seq(A) /\ ToSet(<<t>>) = {t}
    BY <1>2 DEF A, ToSet
  <2>3. TokensFit(T, C)
    BY <2>1, <2>2 DEF TokensFit, A
  <2> QED BY <1>5, <2>3 DEF T
<1>6. CASE r.script \in NGramScripts
  <2> HIDE DEF t, n
  <2>1. TokensFit(T, C)
    <3>1. ASSUME NEW j \in 1..n PROVE Headed(K[j])
      BY <1>3 DEF AllHeaded, n
    <3>2. ASSUME NEW j \in 1..(n - 1) PROVE Headed(K[j] \o K[j + 1])
      <4> DEFINE u == K[j]
                 v == K[j + 1]
      <4>1. u \in Seq(C) /\ v \in Seq(C) /\ Headed(u) /\ Headed(v)
        <5>1. j \in 1..n /\ j + 1 \in 1..n
          BY <1>4
        <5> QED BY <1>4, <3>1, <5>1
      <4> HIDE DEF u, v
      <4>2. Headed(u \o v)
        BY <4>1, TextsConcat
      <4> QED BY <4>2 DEF u, v
    <3> QED BY <1>1, <1>6, <3>1, <3>2 DEF TokensFit
  <2>2. ASSUME NEW a, NEW b, Pair(t, a, b), Base(a), Base(b) PROVE BothTokens(a, b) \subseteq ToSet(T)
    <3>1. ~IsMark(a) /\ ~IsMark(b) /\ Kind(a) # "INHERIT" /\ Kind(b) # "INHERIT"
      BY <2>2, KindsAre
    <3>2. PICK j \in 1..(n - 1) : K[j] = <<a>> /\ K[j + 1] = <<b>>
      BY <1>3, <2>2, <3>1
    <3>3. Spelled(<<a>>) /\ Spelled(<<b>>)
      BY <3>1 DEF Spelled
    <3>4. j \in 1..n /\ j + 1 \in 1..n
      BY <1>4
    <3>5. <<a>> \o <<b>> = <<a, b>>
      BY TwosAre
    <3> DEFINE k == j + 1
    <3> HIDE DEF k
    <3>6. K[k] = <<b>> /\ k \in 1..n
      BY <3>2, <3>4 DEF k
    <3>7. <<a>> \in ToSet(T) /\ <<b>> \in ToSet(T)
      BY <1>1, <1>6, <3>2, <3>3, <3>4, <3>6
    <3>8. <<a, b>> \in ToSet(T)
      <4>1. K[j] \o K[j + 1] = <<a, b>>
        BY <3>2, <3>5
      <4> QED BY <1>1, <1>6, <4>1
    <3> QED BY <3>7, <3>8 DEF BothTokens
  <2> QED BY <2>1, <2>2 DEF t, T
<1> QED BY <1>5, <1>6

\* A list of lists of tokens, flat.
LEMMA FlatTokens ==
    ASSUME NEW C, NEW n \in Nat, NEW F, F = [k \in 1..n |-> F[k]],
           \A k \in 1..n : TokensFit(F[k], C)
    PROVE  /\ TokensFit(FlattenSeq(F), C) /\ \A k \in 1..n : ToSet(F[k]) \subseteq ToSet(FlattenSeq(F))
           /\ \A t \in ToSet(FlattenSeq(F)) : \E k \in 1..n : t \in ToSet(F[k])
<1> DEFINE A == Seq(C)
<1>1. \A k \in 1..n : F[k] \in Seq(A) /\ \A t \in ToSet(F[k]) : Headed(t)
  BY DEF TokensFit
<1> HIDE DEF A
<1>2. F \in [1..n -> Seq(A)]
  BY <1>1
<1>3. F \in Seq(Seq(A)) /\ Len(F) = n
  <2> DEFINE B == Seq(A)
  <2> HIDE DEF B
  <2>1. F \in [1..n -> B]
    BY <1>2 DEF B
  <2>2. F \in Seq(B) /\ Len(F) = n
    BY <2>1
  <2> QED BY <2>2 DEF B
<1>4. /\ FlattenSeq(F) \in Seq(A)
      /\ ToSet(FlattenSeq(F)) = UNION {ToSet(F[k]) : k \in 1..Len(F)}
  BY <1>3, FlatElements
<1>5. \A k \in 1..n : ToSet(F[k]) \subseteq ToSet(FlattenSeq(F))
  BY <1>3, <1>4
<1>6. \A t \in ToSet(FlattenSeq(F)) : Headed(t)
  BY <1>1, <1>3, <1>4
<1>7. \A t \in ToSet(FlattenSeq(F)) : \E k \in 1..n : t \in ToSet(F[k])
  BY <1>3, <1>4
<1> QED BY <1>4, <1>5, <1>6, <1>7 DEF TokensFit, A

\* The runs of a word have its neighbours.
WordRuns(word) == RunList(Segments(word))

\* The runs of a word keep two adjacent characters that belong together.
LEMMA WordRunsAre ==
    ASSUME NEW C, NEW w \in Seq(C), Headed(w)
    PROVE  /\ WordRuns(w) \in Seq(Segs(C)) /\ TextsHeaded(WordRuns(w))
           /\ \A a, b : Pair(w, a, b) /\ Together(a, b) => InRun(WordRuns(w), a, b)
<1> DEFINE S == Segments(w)
           R == RunList(S)
<1>1. /\ S \in Seq(Segs(C)) /\ TextsHeaded(S)
      /\ \A a, b : Pair(w, a, b) /\ Base(a) /\ Base(b) /\ Kind(a) = Kind(b) =>
            \E j \in 1..Len(S) : Pair(S[j].text, a, b) /\ S[j].script = Kind(a)
      /\ \A a, b : Pair(w, a, b) /\ Base(a) /\ Base(b) /\ Kind(a) # Kind(b) =>
            \E j \in 1..(Len(S) - 1) :
                /\ Meet(S[j].text, S[j + 1].text, a, b)
                /\ S[j].script = Kind(a) /\ S[j + 1].script = Kind(b)
  BY SegmentsSplit, Zenon DEF SegmentsFit
<1> HIDE DEF S
<1>2. /\ R \in Seq(Segs(C)) /\ TextsHeaded(R)
      /\ \A a, b : \A j \in 1..Len(S) :
            Pair(S[j].text, a, b) /\ S[j].script \in NGramScripts => InRun(R, a, b)
      /\ \A a, b : \A j \in 1..(Len(S) - 1) :
            /\ Meet(S[j].text, S[j + 1].text, a, b)
            /\ S[j].script \in JapaneseScripts /\ S[j + 1].script \in JapaneseScripts
            => InRun(R, a, b)
  BY <1>1, RunsSplit DEF RunsFit
<1> HIDE DEF R
<1>3. ASSUME NEW a, NEW b, Pair(w, a, b), Together(a, b) PROVE InRun(R, a, b)
  <2>1. Base(a) /\ Base(b) /\ Kind(a) \in NGramScripts
    BY <1>3, KindsAre DEF Together
  <2>2. CASE Kind(a) = Kind(b)
    <3>1. PICK j \in 1..Len(S) : Pair(S[j].text, a, b) /\ S[j].script = Kind(a)
      BY <1>1, <1>3, <2>1, <2>2
    <3> QED BY <1>2, <2>1, <3>1
  <2>3. CASE Kind(a) # Kind(b)
    <3>1. Kind(a) \in JapaneseScripts /\ Kind(b) \in JapaneseScripts
      BY <1>3, <2>3 DEF Together
    <3>2. PICK j \in 1..(Len(S) - 1) :
            /\ Meet(S[j].text, S[j + 1].text, a, b)
            /\ S[j].script = Kind(a) /\ S[j + 1].script = Kind(b)
      BY <1>1, <1>3, <2>1, <2>3
    <3> QED BY <1>2, <3>1, <3>2
  <2> QED BY <2>2, <2>3
<1> QED BY <1>2, <1>3 DEF R, S, WordRuns

\* The tokens of a word hold both tokens of every adjacent pair that belongs together.
LEMMA WordTokens ==
    ASSUME NEW C, NEW w \in Seq(C), Headed(w)
    PROVE  /\ TokensFit(EmitWord(w), C)
           /\ \A a, b : Pair(w, a, b) /\ Together(a, b) => BothTokens(a, b) \subseteq ToSet(EmitWord(w))
<1> DEFINE R == WordRuns(w)
           n == Len(R)
           F == [k \in 1..n |-> TokensOfRun(R[k])]
<1>1. /\ R \in Seq(Segs(C)) /\ TextsHeaded(R)
      /\ \A a, b : Pair(w, a, b) /\ Together(a, b) => InRun(R, a, b)
  BY WordRunsAre
<1>2. EmitWord(w) = FlattenSeq([k \in DOMAIN R |-> TokensOfRun(R[k])])
  BY Zenon DEF EmitWord, WordRuns, RunList
<1> HIDE DEF R
<1>3. n \in Nat /\ DOMAIN R = 1..n /\ \A k \in 1..n : R[k] \in Segs(C)
  <2> DEFINE E == Segs(C)
  <2> HIDE DEF E
  <2>1. R \in Seq(E)
    BY <1>1 DEF E
  <2> QED BY <2>1 DEF E
<1>4. EmitWord(w) = FlattenSeq(F)
  BY <1>2, <1>3
<1> HIDE DEF n
<1>5. \A k \in 1..n : Headed(R[k].text)
  BY <1>1 DEF TextsHeaded, n
<1>6. \A k \in 1..n : F[k] = TokensOfRun(R[k])
  OBVIOUS
<1>7. F = [k \in 1..n |-> F[k]]
  OBVIOUS
<1> HIDE DEF F
<1>8. \A k \in 1..n : TokensFit(F[k], C)
  <2>1. ASSUME NEW k \in 1..n PROVE TokensFit(F[k], C)
    <3>1. TokensFit(TokensOfRun(R[k]), C)
      BY <1>3, <1>5, RunTokens
    <3> QED BY <1>6, <3>1
  <2> QED BY <2>1
<1>9. TokensFit(FlattenSeq(F), C) /\ \A k \in 1..n : ToSet(F[k]) \subseteq ToSet(FlattenSeq(F))
  BY <1>3, <1>7, <1>8, FlatTokens
<1>10. ASSUME NEW a, NEW b, Pair(w, a, b), Together(a, b)
       PROVE  BothTokens(a, b) \subseteq ToSet(EmitWord(w))
  <2>1. PICK k \in 1..n : Pair(R[k].text, a, b) /\ R[k].script \in NGramScripts
    BY <1>1, <1>10, Zenon DEF InRun, n
  <2>2. R[k] \in Segs(C) /\ Headed(R[k].text) /\ Base(a) /\ Base(b)
    BY <1>3, <1>5, <1>10 DEF Together
  <2>3. BothTokens(a, b) \subseteq ToSet(TokensOfRun(R[k]))
    BY <2>1, <2>2, RunTokens
  <2> QED BY <1>4, <1>6, <1>9, <2>3
<1> QED BY <1>4, <1>9, <1>10

\* The tokens of a text hold both tokens of every adjacent pair that belongs together.
LEMMA TextTokens ==
    ASSUME NEW C, NEW s \in Seq(C)
    PROVE  /\ TokensFit(Tokenize(s), C)
           /\ \A a, b : Pair(s, a, b) /\ Together(a, b) => BothTokens(a, b) \subseteq ToSet(Tokenize(s))
<1> DEFINE W == WordList(s)
           n == Len(W)
           F == [k \in 1..n |-> EmitWord(W[k])]
<1>1. /\ W \in Seq(Seq(C)) /\ \A k \in 1..n : Headed(W[k])
      /\ \A a, b : Pair(s, a, b) /\ Base(a) /\ Base(b) => \E k \in 1..n : Pair(W[k], a, b)
  BY WordsSplit, Zenon DEF SplitWell
<1>2. Tokenize(s) = FlattenSeq([k \in DOMAIN W |-> EmitWord(W[k])])
  BY Zenon DEF Tokenize, WordList
<1> HIDE DEF W
<1>3. n \in Nat /\ DOMAIN W = 1..n /\ \A k \in 1..n : W[k] \in Seq(C)
  BY <1>1
<1>4. Tokenize(s) = FlattenSeq(F)
  BY <1>2, <1>3
<1> HIDE DEF n
<1>6. \A k \in 1..n : F[k] = EmitWord(W[k])
  OBVIOUS
<1>7. F = [k \in 1..n |-> F[k]]
  OBVIOUS
<1> HIDE DEF F
<1>8. \A k \in 1..n : TokensFit(F[k], C)
  <2>1. ASSUME NEW k \in 1..n PROVE TokensFit(F[k], C)
    <3>1. W[k] \in Seq(C) /\ Headed(W[k])
      BY <1>1, <1>3
    <3>2. TokensFit(EmitWord(W[k]), C)
      BY <3>1, WordTokens
    <3> QED BY <1>6, <3>2
  <2> QED BY <2>1
<1>9. TokensFit(FlattenSeq(F), C) /\ \A k \in 1..n : ToSet(F[k]) \subseteq ToSet(FlattenSeq(F))
  BY <1>3, <1>7, <1>8, FlatTokens
<1>10. ASSUME NEW a, NEW b, Pair(s, a, b), Together(a, b)
       PROVE  BothTokens(a, b) \subseteq ToSet(Tokenize(s))
  <2>1. PICK k \in 1..n : Pair(W[k], a, b)
    BY <1>1, <1>10 DEF Together
  <2>2. W[k] \in Seq(C) /\ Headed(W[k])
    BY <1>1, <1>3
  <2>3. BothTokens(a, b) \subseteq ToSet(EmitWord(W[k]))
    BY <1>10, <2>1, <2>2, WordTokens
  <2> QED BY <1>4, <1>6, <1>9, <2>3
<1> QED BY <1>4, <1>9, <1>10

------------------------------------------------------------------------------
\* A text of two neighbours: what it is split into, and its tokens.

\* A text of two characters, position by position.
LEMMA TwoIs ==
    ASSUME NEW a, NEW b
    PROVE  /\ <<a, b>> \in Seq({a, b}) /\ Len(<<a, b>>) = 2 /\ <<a, b>>[1] = a /\ <<a, b>>[2] = b
           /\ 1 \in 1..Len(<<a, b>>) /\ 2 \in 1..Len(<<a, b>>) /\ 1 - 1 = 0 /\ 2 - 1 = 1
           /\ 0 \in 0..Len(<<a, b>>) /\ 1 \in 0..Len(<<a, b>>) /\ 2 \in 0..Len(<<a, b>>)
OBVIOUS

\* A first list, and the one after it.
LEMMA FirstAdded ==
    ASSUME NEW M, NEW e, Added(<<>>, M, e)
    PROVE  Len(M) = 1 /\ M[1] = e
BY DEF Added

\* A list of one that gains an element.
LEMMA ThenAdded ==
    ASSUME NEW L, NEW M, NEW e, Added(L, M, e), Len(L) = 1
    PROVE  Len(M) = 2 /\ M[1] = L[1] /\ M[2] = e
BY DEF Added

\* A list of one whose text gains a character.
LEMMA ThenExtended ==
    ASSUME NEW L, NEW M, NEW c, Extended(L, M, c), Len(L) = 1
    PROVE  Len(M) = 1 /\ M[1] = Append(L[1], c)
BY DEF Extended

\* Two letters are one word.
LEMMA WordsOfTwo ==
    ASSUME NEW a, NEW b, IsAlnum(a), IsAlnum(b)
    PROVE  \A k \in 1..Len(WordList(<<a, b>>)) : WordList(<<a, b>>)[k] = <<a, b>>
<1> DEFINE s == <<a, b>>
           C == {a, b}
<1>1. /\ s \in Seq(C) /\ Len(s) = 2 /\ s[1] = a /\ s[2] = b
      /\ 1 \in 1..Len(s) /\ 2 \in 1..Len(s) /\ 1 - 1 = 0 /\ 2 - 1 = 1
      /\ 0 \in 0..Len(s) /\ 1 \in 0..Len(s) /\ 2 \in 0..Len(s)
  BY TwoIs
<1> HIDE DEF s, C
<1>2. PICK h : WordTrace(h, s, C)
  BY <1>1, WordsTrace
<1>3. /\ h[0] = <<>> /\ (\A k \in 0..Len(s) : h[k] \in Seq(Seq(C)))
      /\ (\A k \in 1..Len(s) : WordStep(h[k - 1], h[k], s[k]))
      /\ FoldLeft(AddToWords, <<>>, s) = h[Len(s)]
  BY <1>2 DEF WordTrace
<1>4. WordStep(h[1 - 1], h[1], s[1]) /\ WordStep(h[2 - 1], h[2], s[2])
  BY <1>1, <1>3
<1> DEFINE M == h[1]
           L == h[2]
<1>5. WordStep(<<>>, M, a) /\ WordStep(M, L, b) /\ M \in Seq(Seq(C)) /\ L \in Seq(Seq(C))
      /\ FoldLeft(AddToWords, <<>>, s) = L
  <2>1. WordStep(h[0], h[1], a) /\ WordStep(h[1], h[2], b)
    BY <1>1, <1>4
  <2> QED BY <1>1, <1>3, <2>1
<1> HIDE DEF L, M
<1>6. Len(M) = 1 /\ M[1] = <<a>>
  <2>1. <<>> \in Seq(Seq(C)) /\ <<>> = <<>>
    OBVIOUS
  <2>2. Added(<<>>, M, <<a>>)
    BY <1>5, <2>1, WordsMove DEF Extended
  <2> QED BY <2>2, FirstAdded
<1>7. Len(L) = 1 /\ L[1] = s
  <2>1. M # <<>>
    <3>1. Len(<<>>) = 0
      OBVIOUS
    <3> QED BY <1>6, <3>1
  <2>2. Extended(M, L, b)
    BY <1>5, <2>1, WordsMove
  <2>3. Len(L) = 1 /\ L[1] = Append(M[1], b)
    BY <1>6, <2>2, ThenExtended
  <2> QED BY <1>6, <2>3, TwosAre DEF s
<1> DEFINE W == WordList(s)
           I == {j \in 1..Len(L) : L[j] # <<>>}
<1>8. W = Kept(L, I)
  <2>1. DOMAIN L = 1..Len(L)
    BY <1>5
  <2>2. W = Kept(L, {j \in DOMAIN L : L[j] # <<>>})
    BY <1>5, Zenon DEF WordList, Where
  <2> QED BY <2>1, <2>2
<1> HIDE DEF W
<1>9. DOMAIN W = 1..Len(W) /\ \A k \in DOMAIN W : \E p \in I : W[k] = L[p]
  <2> DEFINE A == Seq(C)
  <2> HIDE DEF A
  <2>1. L \in Seq(A) /\ I \in SUBSET (1..Len(L))
    BY <1>5 DEF A
  <2> HIDE DEF I
  <2>2. DOMAIN Kept(L, I) = 1..Len(Kept(L, I)) /\ \A k \in DOMAIN Kept(L, I) : \E p \in I : Kept(L, I)[k] = L[p]
    BY <2>1, KeptElements
  <2> QED BY <1>8, <2>2
<1>10. \A p \in I : p = 1
  BY <1>7
<1>11. \A k \in 1..Len(W) : W[k] = s
  <2> HIDE DEF I
  <2> QED BY <1>7, <1>9, <1>10
<1> QED BY <1>11 DEF W, s

\* Two characters that belong together are one run.
LEMMA RunsOfTwo ==
    ASSUME NEW a, NEW b, Together(a, b)
    PROVE  \A k \in 1..Len(WordRuns(<<a, b>>)) : WordRuns(<<a, b>>)[k].text = <<a, b>>
<1> DEFINE s == <<a, b>>
           C == {a, b}
<1>1. /\ s \in Seq(C) /\ Len(s) = 2 /\ s[1] = a /\ s[2] = b
      /\ 1 \in 1..Len(s) /\ 2 \in 1..Len(s) /\ 1 - 1 = 0 /\ 2 - 1 = 1
      /\ 0 \in 0..Len(s) /\ 1 \in 0..Len(s) /\ 2 \in 0..Len(s)
  BY TwoIs
<1>2. Base(a) /\ Base(b) /\ Kind(a) # NoScript /\ Kind(b) # NoScript
  BY KindsAre DEF Together
<1> HIDE DEF s, C
<1>3. PICK h : SegmentTrace(h, s, C)
  BY <1>1, SegmentsTrace
<1>4. /\ h[0] = NoSegment /\ (\A k \in 0..Len(s) : h[k] \in SegLists(C))
      /\ (\A k \in 1..Len(s) : SegmentStep(h[k - 1], h[k], s[k]))
      /\ Segments(s) = h[Len(s)]
  BY <1>3 DEF SegmentTrace
<1>5. SegmentStep(h[1 - 1], h[1], s[1]) /\ SegmentStep(h[2 - 1], h[2], s[2])
  BY <1>1, <1>4
<1> DEFINE M == h[1]
           S == h[2]
<1>6. SegmentStep(NoSegment, M, a) /\ SegmentStep(M, S, b) /\ Segments(s) = S /\ S \in Seq(Segs(C))
  <2>1. SegmentStep(h[0], h[1], a) /\ SegmentStep(h[1], h[2], b)
    BY <1>1, <1>5
  <2>2. h[2] \in SegLists(C)
    BY <1>1, <1>4
  <2> QED BY <1>1, <1>4, <2>1, <2>2 DEF SegLists
<1> HIDE DEF M, S
<1>7. Len(M) = 1 /\ M[1].text = <<a>> /\ M[1].script = Kind(a)
  <2> DEFINE none == Segment(<<>>, NoScript)
  <2>1. none.text = <<>> /\ none.script = NoScript
    BY DEF Segment
  <2> HIDE DEF none
  <2>2. Len(NoSegment) = 1 /\ NoSegment[1] = none
    BY DEF NoSegment, none
  <2>3. Joins(NoSegment, M, a)
    BY <1>6, <2>1, <2>2 DEF SegmentStep, Starts
  <2>4. Len(M) = 1 /\ M[1].text = Append(<<>>, a) /\ M[1].script = Kind(a)
    BY <1>2, <2>1, <2>2, <2>3 DEF Joins
  <2> QED BY <2>4, TwosAre
<1> DEFINE R == RunList(S)
<1>8. PICK g : RunTrace(g, S, C)
  BY <1>6, RunsTrace
<1>9. /\ g[0] = <<>> /\ (\A k \in 1..Len(S) : RunStep(g[k - 1], g[k], S[k])) /\ R = g[Len(S)]
  BY <1>8 DEF RunTrace
<1> HIDE DEF R
<1>10. CASE Kind(a) = Kind(b)
  <2>1. Joins(M, S, b)
    BY <1>2, <1>6, <1>7, <1>10 DEF SegmentStep, Starts
  <2>2. Len(S) = 1 /\ S[1].text = Append(<<a>>, b)
    BY <1>7, <2>1 DEF Joins
  <2>3. S[1].text = s
    BY <2>2, TwosAre DEF s
  <2>4. RunStep(g[1 - 1], g[1], S[1]) /\ 1 - 1 = 0 /\ R = g[1]
    BY <1>9, <2>2
  <2>5. RunStep(<<>>, R, S[1])
    BY <1>9, <2>4
  <2>6. Added(<<>>, R, S[1])
    BY <2>5 DEF RunStep, Japanese
  <2>7. Len(R) = 1 /\ R[1] = S[1]
    BY <2>6, FirstAdded
  <2> QED BY <1>6, <2>3, <2>7 DEF s, WordRuns, R
<1>11. CASE Kind(a) # Kind(b)
  <2>1. Starts(M, S, b)
    BY <1>2, <1>6, <1>7, <1>11 DEF SegmentStep, Joins
  <2>2. Len(S) = 2 /\ S[1] = M[1] /\ S[2].text = <<b>> /\ S[2].script = Kind(b)
    BY <1>2, <1>7, <2>1 DEF Starts
  <2>3. Kind(a) \in JapaneseScripts /\ Kind(b) \in JapaneseScripts
    BY <1>11 DEF Together
  <2>4. RunStep(g[1 - 1], g[1], S[1]) /\ 1 - 1 = 0 /\ RunStep(g[2 - 1], g[2], S[2]) /\ 2 - 1 = 1 /\ R = g[2]
    BY <1>9, <2>2
  <2> DEFINE N == g[1]
  <2>5. RunStep(<<>>, N, S[1]) /\ RunStep(N, R, S[2])
    <3>1. RunStep(g[0], g[1], S[1]) /\ RunStep(g[1], g[2], S[2])
      BY <2>4
    <3> QED BY <1>9, <2>4, <3>1
  <2> HIDE DEF N
  <2>6. Added(<<>>, N, S[1])
    BY <2>5 DEF RunStep, Japanese
  <2>7. Len(N) = 1 /\ N[1] = S[1]
    BY <2>6, FirstAdded
  <2>8. N # <<>>
    <3>1. Len(<<>>) = 0
      OBVIOUS
    <3> QED BY <2>7, <3>1
  <2>9. Japanese(N, S[2])
    BY <1>7, <2>2, <2>3, <2>7, <2>8 DEF Japanese
  <2>10. Lengthened(N, R, S[2])
    BY <2>5, <2>9 DEF RunStep
  <2>11. Len(R) = 1 /\ R[1].text = <<a>> \o <<b>>
    BY <1>7, <2>2, <2>7, <2>10 DEF Lengthened
  <2>12. R[1].text = s
    BY <2>11, TwosAre DEF s
  <2> QED BY <1>6, <2>11, <2>12 DEF s, WordRuns, R
<1> QED BY <1>10, <1>11

\* Two characters that are not marks are two clusters.
LEMMA ClustersOfTwo ==
    ASSUME NEW a, NEW b, ~IsMark(a), ~IsMark(b)
    PROVE  LET K == Clusters(<<a, b>>) IN Len(K) = 2 /\ K[1] = <<a>> /\ K[2] = <<b>>
<1> DEFINE s == <<a, b>>
           C == {a, b}
           K == Clusters(s)
<1>1. /\ s \in Seq(C) /\ Len(s) = 2 /\ s[1] = a /\ s[2] = b
      /\ 1 \in 1..Len(s) /\ 2 \in 1..Len(s) /\ 1 - 1 = 0 /\ 2 - 1 = 1
  BY TwoIs
<1> HIDE DEF s, C, K
<1>2. PICK h : ClusterTrace(h, s, C)
  BY <1>1, ClustersTrace
<1>3. /\ h[0] = <<>> /\ (\A k \in 1..Len(s) : ClusterStep(h[k - 1], h[k], s[k])) /\ K = h[Len(s)]
  BY <1>2 DEF ClusterTrace, K
<1>4. ClusterStep(h[1 - 1], h[1], s[1]) /\ ClusterStep(h[2 - 1], h[2], s[2])
  BY <1>1, <1>3
<1> DEFINE M == h[1]
<1>5. ClusterStep(<<>>, M, a) /\ ClusterStep(M, K, b)
  <2>1. ClusterStep(h[0], h[1], a) /\ ClusterStep(h[1], h[2], b)
    BY <1>1, <1>4
  <2> QED BY <1>1, <1>3, <2>1
<1> HIDE DEF M
<1>6. Added(<<>>, M, <<a>>) /\ Added(M, K, <<b>>)
  BY <1>5 DEF ClusterStep
<1>7. Len(M) = 1 /\ M[1] = <<a>>
  BY <1>6, FirstAdded
<1>8. Len(K) = 2 /\ K[1] = <<a>> /\ K[2] = <<b>>
  BY <1>6, <1>7, ThenAdded
<1> QED BY <1>8 DEF K, s

\* What two neighbours are searched for by is in every text that has them.
LEMMA TokensOfTwo ==
    ASSUME NEW a, NEW b, Together(a, b)
    PROVE  ToSet(Tokenize(<<a, b>>)) \subseteq BothTokens(a, b)
<1> DEFINE s == <<a, b>>
           C == {a, b}
<1>1. s \in Seq(C) /\ Len(s) = 2 /\ s[1] = a /\ s[2] = b
  BY TwoIs
<1>2. ~IsMark(a) /\ ~IsMark(b) /\ IsAlnum(a) /\ IsAlnum(b)
  BY KindsAre DEF Together
<1>3. Len(Clusters(s)) = 2 /\ Clusters(s)[1] = <<a>> /\ Clusters(s)[2] = <<b>>
  BY <1>2, ClustersOfTwo
<1>4. <<a>> \o <<b>> = s
  BY TwosAre
<1>5. \A k \in 1..Len(WordList(s)) : WordList(s)[k] = s
  BY <1>2, WordsOfTwo
<1>6. \A k \in 1..Len(WordRuns(s)) : WordRuns(s)[k].text = s
  BY RunsOfTwo
<1>7. BothTokens(a, b) = {<<a>>, <<b>>, s}
  BY DEF BothTokens
<1> HIDE DEF s, C
<1>8. Headed(s)
  <2>1. Len(<<>>) = 0
    OBVIOUS
  <2> QED BY <1>1, <1>2, <2>1 DEF Headed
<1>9. ASSUME NEW r \in Segs(C), r.text = s PROVE ToSet(TokensOfRun(r)) \subseteq BothTokens(a, b)
  <2> DEFINE K == Clusters(r.text)
             T == TokensOfRun(r)
  <2>1. /\ r.script \notin NGramScripts => T = <<r.text>>
        /\ r.script \in NGramScripts =>
              /\ T \in Seq(Seq(C))
              /\ ToSet(T) = {K[j] : j \in {i \in 1..Len(K) : Spelled(K[i])}}
                               \cup {K[j] \o K[j + 1] : j \in 1..(Len(K) - 1)}
    <3>1. Headed(r.text)
      BY <1>8, <1>9
    <3> QED BY <3>1, RunTokensAre
  <2>4. K = Clusters(s)
    BY <1>9
  <2> HIDE DEF T, K
  <2>2. CASE r.script \notin NGramScripts
    <3>1. ToSet(<<s>>) = {s}
      BY DEF ToSet
    <3> QED BY <1>7, <1>9, <2>1, <2>2, <3>1 DEF T
  <2>3. CASE r.script \in NGramScripts
    <3>1. Len(K) = 2 /\ K[1] = <<a>> /\ K[2] = <<b>>
      BY <1>3, <2>4
    <3>2. \A j \in 1..2 : j = 1 \/ j = 2
      OBVIOUS
    <3>3. \A j \in 1..(2 - 1) : j = 1 /\ j + 1 = 2
      OBVIOUS
    <3>4. \A j \in 1..Len(K) : K[j] \in BothTokens(a, b)
      BY <1>7, <3>1, <3>2
    <3>5. \A j \in 1..(Len(K) - 1) : K[j] \o K[j + 1] \in BothTokens(a, b)
      BY <1>4, <1>7, <3>1, <3>3
    <3> QED BY <2>1, <2>3, <3>4, <3>5 DEF T
  <2> QED BY <2>2, <2>3
<1>10. ToSet(EmitWord(s)) \subseteq BothTokens(a, b)
  <2> DEFINE R == WordRuns(s)
             n == Len(R)
             F == [k \in 1..n |-> TokensOfRun(R[k])]
  <2>1. R \in Seq(Segs(C)) /\ TextsHeaded(R)
    BY <1>1, <1>8, WordRunsAre
  <2>2. EmitWord(s) = FlattenSeq([k \in DOMAIN R |-> TokensOfRun(R[k])])
    BY Zenon DEF EmitWord, WordRuns, RunList
  <2> HIDE DEF R
  <2>3. n \in Nat /\ DOMAIN R = 1..n /\ \A k \in 1..n : R[k] \in Segs(C)
    <3> DEFINE E == Segs(C)
    <3> HIDE DEF E
    <3>1. R \in Seq(E)
      BY <2>1 DEF E
    <3> QED BY <3>1 DEF E
  <2>4. EmitWord(s) = FlattenSeq(F)
    BY <2>2, <2>3
  <2>5. \A k \in 1..n : Headed(R[k].text) /\ R[k].text = s
    BY <1>6, <2>1 DEF TextsHeaded, R
  <2> HIDE DEF n
  <2>6. \A k \in 1..n : F[k] = TokensOfRun(R[k])
    OBVIOUS
  <2>7. F = [k \in 1..n |-> F[k]]
    OBVIOUS
  <2> HIDE DEF F
  <2>8. \A k \in 1..n : TokensFit(F[k], C) /\ ToSet(F[k]) \subseteq BothTokens(a, b)
    <3>1. ASSUME NEW k \in 1..n PROVE TokensFit(F[k], C) /\ ToSet(F[k]) \subseteq BothTokens(a, b)
      <4>1. TokensFit(TokensOfRun(R[k]), C)
        BY <2>3, <2>5, RunTokens
      <4>2. ToSet(TokensOfRun(R[k])) \subseteq BothTokens(a, b)
        BY <1>9, <2>3, <2>5
      <4> QED BY <2>6, <4>1, <4>2
    <3> QED BY <3>1
  <2>9. \A t \in ToSet(FlattenSeq(F)) : \E k \in 1..n : t \in ToSet(F[k])
    BY <2>3, <2>7, <2>8, FlatTokens
  <2> QED BY <2>4, <2>8, <2>9
<1>11. ToSet(Tokenize(s)) \subseteq BothTokens(a, b)
  <2> DEFINE W == WordList(s)
             n == Len(W)
             F == [k \in 1..n |-> EmitWord(W[k])]
  <2>1. W \in Seq(Seq(C))
    BY <1>1, WordsSplit DEF SplitWell
  <2>2. Tokenize(s) = FlattenSeq([k \in DOMAIN W |-> EmitWord(W[k])])
    BY Zenon DEF Tokenize, WordList
  <2>3. \A k \in 1..n : W[k] = s
    BY <1>5
  <2> HIDE DEF W
  <2>4. n \in Nat /\ DOMAIN W = 1..n
    BY <2>1
  <2>5. Tokenize(s) = FlattenSeq(F)
    BY <2>2, <2>4
  <2> HIDE DEF n
  <2>6. \A k \in 1..n : F[k] = EmitWord(W[k])
    OBVIOUS
  <2>7. F = [k \in 1..n |-> F[k]]
    OBVIOUS
  <2> HIDE DEF F
  <2>8. TokensFit(EmitWord(s), C)
    BY <1>1, <1>8, WordTokens
  <2>9. \A k \in 1..n : F[k] = EmitWord(s)
    BY <2>3, <2>6
  <2>10. \A k \in 1..n : TokensFit(F[k], C)
    BY <2>8, <2>9
  <2>11. \A t \in ToSet(FlattenSeq(F)) : \E k \in 1..n : t \in ToSet(F[k])
    BY <2>4, <2>7, <2>10, FlatTokens
  <2> QED BY <1>10, <2>5, <2>9, <2>11
<1> QED BY <1>11 DEF s

\* Characters side by side are found by searching for them, and no token

\* starts with a mark.
THEOREM TokenizeHolds ==
    ASSUME NEW C, NEW s \in Seq(C)
    PROVE  AdjacentMatch(s) /\ MarksKeepTheirBase(s)
<1> DEFINE n == Len(s)
           T == Tokenize(s)
<1>1. n \in Nat
  OBVIOUS
<1>2. /\ TokensFit(T, C)
      /\ \A a, b : Pair(s, a, b) /\ Together(a, b) => BothTokens(a, b) \subseteq ToSet(T)
  BY TextTokens
<1> HIDE DEF T
<1>3. MarksKeepTheirBase(s)
  <2>1. \A k \in DOMAIN T : Headed(T[k])
    BY <1>2 DEF TokensFit, ToSet
  <2> QED BY <2>1 DEF MarksKeepTheirBase, Headed, T
<1>4. ASSUME NEW k \in 1..(n - 1), Base(s[k]), Base(s[k + 1]),
             s[k] \div 10 = s[k + 1] \div 10 \/ {Kind(s[k]), Kind(s[k + 1])} = JapaneseScripts,
             k + 1 = n \/ ~IsMark(s[k + 2])
      PROVE  {<<s[k], s[k + 1]>>} \cup ToSet(Tokenize(<<s[k], s[k + 1]>>)) \subseteq ToSet(T)
  <2> DEFINE a == s[k]
             b == s[k + 1]
  <2>1. Pair(s, a, b)
    <3>1. k + 1 < n => ~IsMark(s[k + 2])
      BY <1>1, <1>4
    <3> QED BY <3>1 DEF Pair
  <2>2. Together(a, b)
    <3> HIDE DEF a, b
    <3>1. Base(a) /\ Base(b) /\ (a \div 10 = b \div 10 \/ {Kind(a), Kind(b)} = JapaneseScripts)
      BY <1>4 DEF a, b
    <3>2. \A c : Base(c) => c # 0
      BY DEF Base, Kind, NGramScripts
    <3>3. a \div 10 = b \div 10 => Kind(a) = Kind(b)
      BY <3>1, <3>2 DEF Kind
    <3>4. {Kind(a), Kind(b)} = JapaneseScripts => Kind(a) \in JapaneseScripts /\ Kind(b) \in JapaneseScripts
      OBVIOUS
    <3> QED BY <3>1, <3>3, <3>4 DEF Together
  <2> HIDE DEF a, b
  <2>3. BothTokens(a, b) \subseteq ToSet(T)
    BY <1>2, <2>1, <2>2
  <2>4. ToSet(Tokenize(<<a, b>>)) \subseteq BothTokens(a, b)
    BY <2>2, TokensOfTwo
  <2>5. <<a, b>> \in BothTokens(a, b)
    BY DEF BothTokens
  <2>6. {<<a, b>>} \cup ToSet(Tokenize(<<a, b>>)) \subseteq ToSet(T)
    BY <2>3, <2>4, <2>5
  <2> QED BY <2>6 DEF a, b
<1>5. AdjacentMatch(s)
  BY <1>4, Zenon DEF AdjacentMatch, T
<1> QED BY <1>3, <1>5

------------------------------------------------------------------------------
\* Retrieval, in the specification.

\* What a call of retrieval returns for its arguments.
SearchReturns(r, o) ==
    /\ o.dense = DenseRetrieve(r.index, 2 * r.k, r.filter)
    /\ o.keyword = KeywordRetrieve(r.corpus, r.query, 2 * r.k, r.filter)
    /\ o.hybrid = Retrieve(r.index, r.corpus, r.query, "hybrid", r.k, r.filter)
RescoreReturns(r, o) ==
    /\ o.plain = CrossEncode(r.candidates, r.scores, r.k, FALSE)
    /\ o.unit = CrossEncode(r.candidates, r.scores, r.k, TRUE)
LookupReturns(r, o) ==
    /\ o.ready = RetrieverReady(r.chunks, EmbeddingConfig, r.first)
    /\ o.rows = RetrieveWithScores(r.chunks, r.query, r.sim, r.k, o.ready, EmbeddingConfig, r.later)
    /\ o.models = CompareModels(r.chunks, r.query, [nomic |-> r.sim], r.k, [nomic |-> o.ready],
                                EmbeddingConfig, r.later)
EmbedReturns(r, o) ==
    /\ o.batched = EmbedBatch(r.texts, r.size, FALSE, EmbeddingConfig, r.server)
    /\ o.whole = EmbedDocuments(r.texts, EmbeddingConfig, r.server)

\* What a job of retrieval returned.
RetrievalInv ==
    /\ JobTyped
    /\ out # None =>
          /\ job.call = "search" => SearchReturns(job.of, out)
          /\ job.call = "rescore" => RescoreReturns(job.of, out)
          /\ job.call = "lookup" => LookupReturns(job.of, out)
          /\ job.call = "embed" => EmbedReturns(job.of, out)

\* A step of each call returns that.
LEMMA StepsReturn ==
    /\ Find => SearchReturns(job.of, out')
    /\ Rescore => RescoreReturns(job.of, out')
    /\ LookUp => LookupReturns(job.of, out')
    /\ EmbedSome => EmbedReturns(job.of, out')
<1>1. ASSUME Find PROVE SearchReturns(job.of, out')
  <2>1. out' = [dense |-> DenseRetrieve(job.of.index, 2 * job.of.k, job.of.filter),
                keyword |-> KeywordRetrieve(job.of.corpus, job.of.query, 2 * job.of.k, job.of.filter),
                hybrid |-> Retrieve(job.of.index, job.of.corpus, job.of.query, "hybrid",
                                    job.of.k, job.of.filter)]
    BY <1>1, Zenon DEF Find, Return, x
  <2> QED BY <2>1 DEF SearchReturns
<1>2. ASSUME Rescore PROVE RescoreReturns(job.of, out')
  <2>1. out' = [plain |-> CrossEncode(job.of.candidates, job.of.scores, job.of.k, FALSE),
                unit |-> CrossEncode(job.of.candidates, job.of.scores, job.of.k, TRUE)]
    BY <1>2, Zenon DEF Rescore, Return, x
  <2> QED BY <2>1 DEF RescoreReturns
<1>3. ASSUME LookUp PROVE LookupReturns(job.of, out')
  <2> DEFINE ready == RetrieverReady(job.of.chunks, EmbeddingConfig, job.of.first)
             rows == RetrieveWithScores(job.of.chunks, job.of.query, job.of.sim, job.of.k, ready,
                                        EmbeddingConfig, job.of.later)
             models == CompareModels(job.of.chunks, job.of.query, [nomic |-> job.of.sim], job.of.k,
                                     [nomic |-> ready], EmbeddingConfig, job.of.later)
             vector == TfidfVector(Column(job.of.chunks, "text"), job.of.query, 3,
                                   [t \in ToSet(job.of.query) |-> t])
  <2>1. out' = [ready |-> ready, rows |-> rows, models |-> models, vector |-> vector]
    BY <1>3, Zenon DEF LookUp, Return, x
  <2> HIDE DEF ready, rows, models, vector
  <2>2. out'.ready = ready /\ out'.rows = rows /\ out'.models = models
    BY <2>1
  <2> QED BY <2>2, Zenon DEF LookupReturns, ready, rows, models
<1>4. ASSUME EmbedSome PROVE EmbedReturns(job.of, out')
  <2>1. out' = [batched |-> EmbedBatch(job.of.texts, job.of.size, FALSE, EmbeddingConfig, job.of.server),
                whole |-> EmbedDocuments(job.of.texts, EmbeddingConfig, job.of.server)]
    BY <1>4, Zenon DEF EmbedSome, Return, x
  <2> QED BY <2>1 DEF EmbedReturns
<1> QED BY <1>1, <1>2, <1>3, <1>4

\* Whatever the corpora, fusion and filters keep to the contract.
LEMMA SearchContract ==
    ASSUME NEW r \in Corpora, NEW o, SearchReturns(r, o)
    PROVE  /\ FusionRespectsBoth(o.dense, o.keyword, o.hybrid)
           /\ FilterLosesNothing(o.keyword, r.corpus, r.query, 2 * r.k, r.filter)
<1> DEFINE index == r.index
           corpus == r.corpus
           query == r.query
           k == r.k
           filter == r.filter
<1>1. /\ Indexable(index) /\ Indexable(corpus) /\ k \in Nat
      /\ \A i \in DOMAIN index : index[i].sim \in Int
      /\ \A i \in DOMAIN corpus : corpus[i].text \in Seq(ToSet(corpus[i].text))
      /\ query \in Seq(ToSet(query))
  <2>1. /\ query \in Seq(ToSet(query)) /\ k \in Nat
        /\ \A i \in DOMAIN index : index[i].sim \in Int
        /\ \A i \in DOMAIN corpus : corpus[i].text \in Seq(ToSet(corpus[i].text))
    BY CorporaAreIndexed
  <2>2. ASSUME NEW chunks \in {index, corpus} PROVE Indexable(chunks)
    <3>1. /\ chunks \in Seq(ToSet(chunks))
          /\ \A i, j \in DOMAIN chunks : chunks[i].id = chunks[j].id => i = j
      BY CorporaAreIndexed
    <3>2. DOMAIN chunks = 1..Len(chunks)
      BY <3>1
    <3> QED BY <3>1, <3>2 DEF Indexable, Unique
  <2> HIDE DEF index, corpus, query, k, filter
  <2> QED BY <2>1, <2>2
<1>2. o.dense = DenseRetrieve(index, 2 * k, filter) /\ o.keyword = KeywordRetrieve(corpus, query, 2 * k, filter)
      /\ o.hybrid = Retrieve(index, corpus, query, "hybrid", k, filter)
  BY DEF SearchReturns
<1> HIDE DEF index, corpus, query, k, filter
<1>3. /\ FusionRespectsBoth(DenseRetrieve(index, 2 * k, filter),
                            KeywordRetrieve(corpus, query, 2 * k, filter),
                            Retrieve(index, corpus, query, "hybrid", k, filter))
      /\ FilterLosesNothing(KeywordRetrieve(corpus, query, 2 * k, filter), corpus, query, 2 * k, filter)
  BY <1>1, SearchHolds
<1>4. /\ FusionRespectsBoth(o.dense, o.keyword, o.hybrid)
      /\ FilterLosesNothing(o.keyword, corpus, query, 2 * k, filter)
  BY <1>2, <1>3
<1> QED BY <1>4 DEF corpus, query, k, filter

\* Normalized scores rank as the model's do.
LEMMA RescoredContract ==
    ASSUME NEW r \in Rescored, NEW o, RescoreReturns(r, o)
    PROVE  /\ Ids(o.plain) = Ids(o.unit)
           /\ \A k \in DOMAIN o.unit : o.unit[k].score \in 0..Scale \/ Len(r.scores) = 1
<1> DEFINE candidates == r.candidates
           scores == r.scores
           k == r.k
<1>1. Rescorable(candidates, scores) /\ k \in Nat
  BY CandidatesAreScored DEF Rescorable
<1>2. o.plain = CrossEncode(candidates, scores, k, FALSE) /\ o.unit = CrossEncode(candidates, scores, k, TRUE)
  BY DEF RescoreReturns
<1> HIDE DEF candidates, scores, k
<1>3. RescoreContract(candidates, scores, k)
  BY <1>1, RescoreHolds
<1>4. /\ Ids(o.plain) = Ids(o.unit)
      /\ \A i \in DOMAIN o.unit : o.unit[i].score \in 0..Scale \/ Len(scores) = 1
  BY <1>2, <1>3, Zenon DEF RescoreContract
<1> QED BY <1>4 DEF scores

\* A retriever falls back to words only if its model was not there at first.
LEMMA LookedUpContract ==
    ASSUME NEW r, NEW o, LookupReturns(r, o)
    PROVE  /\ o.rows.ok <=> ~o.ready \/ r.later = "up"
           /\ o.rows.ok => Column(o.rows.vectors, "text") = o.models.nomic.vectors
<1>1. LookupContract(r.chunks, r.query, r.sim, r.k, o.ready, EmbeddingConfig, r.later)
  BY LookupHolds
<1> QED BY <1>1, Zenon DEF LookupContract, LookupReturns

\* Whatever the inputs, what each call of retrieval returns keeps to the contract.
THEOREM RetrievalKeepsTheContract == Spec => []RetrievalContract
<1>1. Init => RetrievalInv
  BY InitialJob DEF RetrievalInv
<1>2. RetrievalInv /\ [Next]_vars => RetrievalInv'
  <2> SUFFICES ASSUME RetrievalInv, [Next]_vars PROVE RetrievalInv'
    OBVIOUS
  <2>1. CASE Next
    <3>1. job' = job /\ ReturnsItsCall
      BY <2>1, CallsReturn
    <3>2. JobTyped'
      BY <3>1 DEF RetrievalInv, JobTyped
    <3>3. /\ job.call = "search" => SearchReturns(job.of, out')
          /\ job.call = "rescore" => RescoreReturns(job.of, out')
          /\ job.call = "lookup" => LookupReturns(job.of, out')
          /\ job.call = "embed" => EmbedReturns(job.of, out')
      BY <3>1, StepsReturn DEF ReturnsItsCall
    <3> QED BY <3>1, <3>2, <3>3 DEF RetrievalInv
  <2>2. CASE UNCHANGED vars
    BY <2>2 DEF vars, RetrievalInv, JobTyped
  <2> QED BY <2>1, <2>2
<1>3. RetrievalInv => RetrievalContract
  <2> SUFFICES ASSUME RetrievalInv PROVE RetrievalContract
    OBVIOUS
  <2> DEFINE r == job.of
  <2>1. ASSUME Returned("search")
        PROVE  /\ FusionRespectsBoth(out.dense, out.keyword, out.hybrid)
               /\ FilterLosesNothing(out.keyword, r.corpus, r.query, 2 * r.k, r.filter)
    <3>1. r \in Corpora /\ SearchReturns(r, out)
      BY <2>1 DEF RetrievalInv, JobTyped, Returned
    <3> HIDE DEF r
    <3> QED BY <3>1, SearchContract
  <2>2. ASSUME Returned("rescore")
        PROVE  /\ Ids(out.plain) = Ids(out.unit)
               /\ \A k \in DOMAIN out.unit : out.unit[k].score \in 0..Scale \/ Len(r.scores) = 1
    <3>1. r \in Rescored /\ RescoreReturns(r, out)
      BY <2>2 DEF RetrievalInv, JobTyped, Returned
    <3> HIDE DEF r
    <3> QED BY <3>1, RescoredContract
  <2>3. ASSUME Returned("lookup")
        PROVE  /\ out.rows.ok <=> ~out.ready \/ r.later = "up"
               /\ out.rows.ok => Column(out.rows.vectors, "text") = out.models.nomic.vectors
    <3>1. LookupReturns(r, out)
      BY <2>3 DEF RetrievalInv, Returned
    <3> HIDE DEF r
    <3> QED BY <3>1, LookedUpContract
  <2>4. ASSUME Returned("embed") PROVE out.batched = out.whole
    <3>1. r \in Batched /\ EmbedReturns(r, out)
      BY <2>4 DEF RetrievalInv, JobTyped, Returned
    <3> HIDE DEF r
    <3>2. r.texts \in Seq(ToSet(r.texts)) /\ r.size \in Nat \ {0}
      BY <3>1, TextsAreLists
    <3> DEFINE texts == r.texts
               size == r.size
               server == r.server
    <3>3. out.batched = EmbedBatch(texts, size, FALSE, EmbeddingConfig, server)
          /\ out.whole = EmbedDocuments(texts, EmbeddingConfig, server)
      BY <3>1 DEF EmbedReturns
    <3>4. texts \in Seq(ToSet(texts)) /\ size \in Nat \ {0}
      BY <3>2
    <3> HIDE DEF texts, size, server
    <3>5. EmbedBatch(texts, size, FALSE, EmbeddingConfig, server)
            = EmbedDocuments(texts, EmbeddingConfig, server)
      BY <3>4, EmbedHolds
    <3> QED BY <3>3, <3>5
  <2>5. ASSUME Returned("tokenize") PROVE AdjacentMatch(r) /\ MarksKeepTheirBase(r)
    <3>1. r \in Words_
      BY <2>5 DEF RetrievalInv, JobTyped, Returned
    <3> HIDE DEF r
    <3>2. r \in Seq(ToSet(r))
      BY <3>1, TextsAreLists
    <3> QED BY <3>2, TokenizeHolds
  <2> QED BY <2>1, <2>2, <2>3, <2>4, <2>5, Zenon DEF RetrievalContract, x
<1> QED BY <1>1, <1>2, <1>3, PTL DEF Spec
==============================================================================
