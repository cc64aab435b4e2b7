-------------------------- MODULE AnswerCacheProofs --------------------------
(***************************************************************************)
(* Whatever an instance holds under the fingerprint of the corpus was read *)
(* from that corpus, for any number of instances, requests and changes.    *)
(*                                                                         *)
(* The argument follows the fingerprint, never the requests: a list of     *)
(* versions that was once true can only fall behind (Past), and a text     *)
(* read after it belongs to the listed version or to a later one, so that  *)
(* it is the current text whenever the listed version is the current one   *)
(* (Backed).  Both survive every change of the corpus, except for a slug   *)
(* that lost its document.  The second half of the module is about the     *)
(* cached answers themselves: which entries there are, and how they stay   *)
(* rated.                                                                  *)
(***************************************************************************)
EXTENDS AnswerCache, SequenceTheorems, WellFoundedInduction, TLAPS

\* In corpus c, with the slugs g gone.
NamedIn(c, s) == c[s] # None

Past(c, g, fp) ==
    /\ fp \in Prints
    /\ \A s \in Slugs : fp[s] # None =>
          \/ s \in g
          \/ NamedIn(c, s) /\ fp[s][1] <= c[s].version

\* A text kept for a slug that a list of versions names, or does not name.
Backed(c, g, fp, s, b) ==
    fp[s] # None =>
        \/ s \in g
        \/ NamedIn(c, s) /\ (fp[s][1] = c[s].version => b = c[s].body)

Fetched(c, g, fp, s, b) ==
    /\ fp[s] = None => b = None
    /\ Backed(c, g, fp, s, b)

Learned(c, g, fp, v) ==
    /\ v[1] \in Slugs
    /\ v[1] \in g \/ NamedIn(c, v[1])
    /\ Backed(c, g, fp, v[1], v[2])

StateFields == {"fp", "graph", "cache", "vectors"}
IsState(st) == st = [f \in StateFields |-> st[f]]

GoodState(c, g, st) ==
    /\ IsState(st)
    /\ st.fp # None =>
          /\ Past(c, g, st.fp)
          /\ \A s \in Slugs : Fetched(c, g, st.fp, s, st.graph[s])
          /\ \A v \in st.vectors : Learned(c, g, st.fp, v)

------------------------------------------------------------------------------
Awaiting == {"loading", "listed", "fetching", "saving"}

RequestFields == {"pc", "ret", "key", "rating", "using", "fp", "left", "bodies", "basis",
                  "asOf", "mark", "rows", "payload"}
IsRequest(q) == q = [f \in RequestFields |-> q[f]]

\* Rows are loaded after a fingerprint is noted.
GoodMark(c, g, q) ==
    q.mark # None => /\ Past(c, g, q.mark)
                     /\ \A v \in q.rows : Learned(c, g, q.mark, v)

\* A request that goes on where it awaited, or awaits ensureGraph next.
Ready(c, g, q) ==
    /\ IsRequest(q)
    /\ GoodMark(c, g, q)
    /\ q.bodies = NoBodies

GoodFetch(c, g, q) ==
    /\ Past(c, g, q.fp)
    /\ q.left \subseteq Listed(q.fp)
    /\ q.bodies = [s \in Slugs |-> q.bodies[s]]
    /\ \A s \in Slugs \ q.left : Fetched(c, g, q.fp, s, q.bodies[s])

GoodRequest(c, g, q) ==
    /\ IsRequest(q)
    /\ GoodMark(c, g, q)
    /\ q.rows = {} \/ q.pc = "loaded_rows" \/ (q.ret = "learn" /\ q.pc \in Awaiting)
    /\ q.pc \notin {"idle", "loading"} => q.using \in Requests
    /\ q.pc # "fetching" => q.bodies = NoBodies
    /\ q.pc = "listed" => Past(c, g, q.fp)
    /\ q.pc = "fetching" => GoodFetch(c, g, q)
    /\ q.pc = "saving" => GoodState(c, g, q.payload)

TwoLevels(f, S, T) == f = [i \in S |-> [r \in T |-> f[i][r]]]

Inv ==
    /\ TypeOKCorpus
    /\ TwoLevels(state, Instances, Requests)
    /\ TwoLevels(request, Instances, Requests)
    /\ global \in [Instances -> Requests \cup {None}]
    /\ stored # None => GoodState(corpus, gone, stored)
    /\ \A i \in Instances, r \in Requests :
          /\ GoodState(corpus, gone, state[i][r])
          /\ GoodRequest(corpus, gone, request[i][r])

------------------------------------------------------------------------------
\* A change of the corpus.

\* A document that was not removed keeps its text or gets a later version.
MovesOn(c, g, d, h) ==
    /\ g \subseteq h
    /\ d \in [Slugs -> Revision \cup {None}]
    /\ \A s \in Slugs : s \notin h /\ NamedIn(c, s) =>
          /\ NamedIn(d, s)
          /\ \/ d[s].version > c[s].version
             \/ d[s].version = c[s].version /\ d[s].body = c[s].body

\* Every change of the corpus moves on.
LEMMA ChangeMovesOn ==
    ASSUME TypeOKCorpus, CorpusChange
    PROVE  MovesOn(corpus, gone, corpus', gone')
<1>1. PICK s \in Slugs :
          \/ /\ \/ \E b \in Bodies : Add(s, b) \/ Revise(s, b)
                \/ \E m \in Models : Index(s, m)
             /\ UNCHANGED gone
          \/ Remove(s) /\ gone' = gone \cup {s}
  BY DEF CorpusChange
<1>2. None \notin Revision
  BY AnswerCacheAssumption
<1>3. corpus = [t \in Slugs |-> corpus[t]] /\ \A t \in Slugs : corpus[t] \in Revision \cup {None}
  BY DEF TypeOKCorpus
<1>4. CASE \E b \in Bodies : Add(s, b) /\ UNCHANGED gone
  <2>1. PICK b \in Bodies : Add(s, b) /\ UNCHANGED gone
    BY <1>4
  <2>2. [version |-> 1, body |-> b, model |-> None] \in Revision
    BY DEF Revision
  <2> QED BY <2>1, <2>2, <1>2, <1>3 DEF Add, Named, MovesOn, NamedIn
<1>5. CASE \E b \in Bodies : Revise(s, b) /\ UNCHANGED gone
  <2>1. PICK b \in Bodies : Revise(s, b) /\ UNCHANGED gone
    BY <1>5
  <2>2. corpus[s].version \in Nat \ {0}
    BY <2>1, <1>3 DEF Revise, Named, Revision
  <2> DEFINE next == [version |-> corpus[s].version + 1, body |-> b, model |-> None]
  <2>3. next \in Revision /\ next.version > corpus[s].version
    BY <2>2 DEF Revision
  <2>4. corpus' = [corpus EXCEPT ![s] = next]
    BY <2>1 DEF Revise
  <2> HIDE DEF next
  <2>5. corpus'[s] = next /\ \A t \in Slugs \ {s} : corpus'[t] = corpus[t]
    BY <2>4, <1>3
  <2>6. corpus' \in [Slugs -> Revision \cup {None}]
    BY <2>3, <2>4, <1>3
  <2> QED BY <2>1, <2>3, <2>5, <2>6, <1>2 DEF MovesOn, NamedIn
<1>6. CASE \E m \in Models : Index(s, m) /\ UNCHANGED gone
  <2>1. PICK m \in Models : Index(s, m) /\ UNCHANGED gone
    BY <1>6
  <2>2. corpus[s] \in Revision
    BY <2>1, <1>3 DEF Index, Named
  <2> DEFINE next == [corpus[s] EXCEPT !.model = m]
  <2>3. next \in Revision /\ next.version = corpus[s].version /\ next.body = corpus[s].body
    BY <2>2 DEF Revision
  <2>4. corpus' = [corpus EXCEPT ![s] = next]
    BY <2>1 DEF Index
  <2> HIDE DEF next
  <2>5. corpus'[s] = next /\ \A t \in Slugs \ {s} : corpus'[t] = corpus[t]
    BY <2>4, <1>3
  <2>6. corpus' \in [Slugs -> Revision \cup {None}]
    BY <2>3, <2>4, <1>3
  <2>7. \A t \in Slugs : NamedIn(corpus, t) => NamedIn(corpus', t)
    BY <2>3, <2>5, <1>2 DEF NamedIn
  <2> QED BY <2>1, <2>3, <2>5, <2>6, <2>7 DEF MovesOn
<1>7. CASE Remove(s) /\ gone' = gone \cup {s}
  BY <1>7, <1>3 DEF Remove, MovesOn, NamedIn
<1> QED BY <1>1, <1>4, <1>5, <1>6, <1>7

\* A list of versions and what was read after it stay true of a corpus that moves on.
LEMMA PastMovesOn ==
    ASSUME NEW c \in [Slugs -> Revision \cup {None}], NEW g, NEW d, NEW h,
           MovesOn(c, g, d, h), NEW fp, Past(c, g, fp)
    PROVE  /\ Past(d, h, fp)
           /\ \A s \in Slugs : \A b : Backed(c, g, fp, s, b) => Backed(d, h, fp, s, b)
<1>1. \A s \in Slugs : /\ NamedIn(c, s) => c[s].version \in Nat
                       /\ NamedIn(d, s) => d[s].version \in Nat
  BY DEF MovesOn, NamedIn, Revision
<1>2. \A s \in Slugs : fp[s] # None => fp[s][1] \in Nat
  BY DEF Past, Prints, VersionPrint
<1>3. ASSUME NEW s \in Slugs, fp[s] # None, s \notin h
      PROVE  /\ NamedIn(d, s) /\ NamedIn(c, s)
             /\ fp[s][1] <= c[s].version
             /\ \/ d[s].version > c[s].version
                \/ d[s].version = c[s].version /\ d[s].body = c[s].body
  <2>1. s \notin g
    BY <1>3 DEF MovesOn
  <2>2. NamedIn(c, s) /\ fp[s][1] <= c[s].version
    BY <2>1, <1>3 DEF Past
  <2> QED BY <2>2, <1>3 DEF MovesOn
<1>4. Past(d, h, fp)
  BY <1>1, <1>2, <1>3 DEF Past
<1>5. ASSUME NEW s \in Slugs, NEW b, Backed(c, g, fp, s, b), fp[s] # None, s \notin h
      PROVE  NamedIn(d, s) /\ (fp[s][1] = d[s].version => b = d[s].body)
  <2>1. s \notin g
    BY <1>5 DEF MovesOn
  <2> QED BY <2>1, <1>1, <1>2, <1>3, <1>5 DEF Backed
<1> QED BY <1>4, <1>5 DEF Backed

LEMMA StateMovesOn ==
    ASSUME NEW c \in [Slugs -> Revision \cup {None}], NEW g, NEW d, NEW h,
           MovesOn(c, g, d, h), NEW st, GoodState(c, g, st)
    PROVE  GoodState(d, h, st)
<1>1. CASE st.fp = None
  BY <1>1 DEF GoodState
<1>2. CASE st.fp # None
  <2>1. Past(c, g, st.fp)
    BY <1>2 DEF GoodState
  <2>2. /\ Past(d, h, st.fp)
        /\ \A s \in Slugs : \A b : Backed(c, g, st.fp, s, b) => Backed(d, h, st.fp, s, b)
    BY <2>1, PastMovesOn
  <2>3. ASSUME NEW v \in st.vectors PROVE Learned(d, h, st.fp, v)
    <3>1. Learned(c, g, st.fp, v)
      BY <1>2 DEF GoodState
    <3> QED BY <3>1, <2>2 DEF Learned, MovesOn
  <2>4. ASSUME NEW s \in Slugs PROVE Fetched(d, h, st.fp, s, st.graph[s])
    BY <1>2, <2>2 DEF GoodState, Fetched
  <2> QED BY <2>2, <2>3, <2>4 DEF GoodState
<1> QED BY <1>1, <1>2

LEMMA RequestMovesOn ==
    ASSUME NEW c \in [Slugs -> Revision \cup {None}], NEW g, NEW d, NEW h,
           MovesOn(c, g, d, h), NEW q, GoodRequest(c, g, q)
    PROVE  GoodRequest(d, h, q)
<1>1. GoodMark(d, h, q)
  <2>1. SUFFICES ASSUME q.mark # None PROVE GoodMark(d, h, q)
    BY DEF GoodMark
  <2>2. Past(c, g, q.mark)
    BY <2>1 DEF GoodRequest, GoodMark
  <2>3. /\ Past(d, h, q.mark)
        /\ \A s \in Slugs : \A b : Backed(c, g, q.mark, s, b) => Backed(d, h, q.mark, s, b)
    BY <2>2, PastMovesOn
  <2>4. ASSUME NEW v \in q.rows PROVE Learned(d, h, q.mark, v)
    <3>1. Learned(c, g, q.mark, v)
      BY <2>1 DEF GoodRequest, GoodMark
    <3> QED BY <3>1, <2>3 DEF Learned, MovesOn
  <2> QED BY <2>3, <2>4 DEF GoodMark
<1>2. q.pc = "listed" => Past(d, h, q.fp)
  BY PastMovesOn DEF GoodRequest
<1>3. q.pc = "fetching" => GoodFetch(d, h, q)
  <2>1. SUFFICES ASSUME q.pc = "fetching" PROVE GoodFetch(d, h, q)
    OBVIOUS
  <2>2. GoodFetch(c, g, q)
    BY <2>1 DEF GoodRequest
  <2>3. /\ Past(d, h, q.fp)
        /\ \A s \in Slugs : \A b : Backed(c, g, q.fp, s, b) => Backed(d, h, q.fp, s, b)
    BY <2>2, PastMovesOn DEF GoodFetch
  <2> QED BY <2>2, <2>3 DEF GoodFetch, Fetched
<1>4. q.pc = "saving" => GoodState(d, h, q.payload)
  BY StateMovesOn DEF GoodRequest
<1> QED BY <1>1, <1>2, <1>3, <1>4 DEF GoodRequest

------------------------------------------------------------------------------
\* What one request does.

\* The documents as they are listed are a list of the past.
LEMMA FingerprintIsPast ==
    ASSUME TypeOKCorpus
    PROVE  Fingerprint \in Prints /\ Past(corpus, gone, Fingerprint)
<1>1. \A s \in Slugs : Named(s) => /\ corpus[s].version \in Nat \ {0}
                                   /\ corpus[s].model \in Models \cup {None}
  BY DEF TypeOKCorpus, Named, Revision
<1>2. Fingerprint \in Prints
  BY <1>1 DEF Fingerprint, Prints, VersionPrint
<1>3. ASSUME NEW s \in Slugs, Fingerprint[s] # None
      PROVE  NamedIn(corpus, s) /\ Fingerprint[s][1] <= corpus[s].version
  BY <1>1, <1>3 DEF Fingerprint, Named, NamedIn
<1> QED BY <1>2, <1>3 DEF Past

\* Awaiting ensureGraph keeps a request good.
LEMMA EnsuringGood ==
    ASSUME Inv, NEW i \in Instances, NEW q, NEW ret,
           Ready(corpus, gone, q), q.rows = {} \/ ret = "learn"
    PROVE  GoodRequest(corpus, gone, Ensuring(i, q, ret))
<1>1. Past(corpus, gone, Fingerprint)
  BY FingerprintIsPast DEF Inv
<1>2. global[i] \in Requests \cup {None}
  BY DEF Inv
<1>3. IsRequest(q) /\ GoodMark(corpus, gone, q) /\ q.bodies = NoBodies
  BY DEF Ready
<1> DEFINE m == [q EXCEPT !.ret = ret, !.pc = "loading"]
           n == [q EXCEPT !.ret = ret, !.pc = "listed", !.using = global[i], !.fp = Fingerprint]
<1>4. /\ IsRequest(m) /\ m.pc = "loading" /\ m.bodies = q.bodies /\ m.ret = ret
      /\ m.rows = q.rows /\ m.mark = q.mark
  BY <1>3 DEF IsRequest, RequestFields
<1>5. /\ IsRequest(n) /\ n.pc = "listed" /\ n.bodies = q.bodies /\ n.ret = ret
      /\ n.rows = q.rows /\ n.mark = q.mark /\ n.using = global[i] /\ n.fp = Fingerprint
  BY <1>3 DEF IsRequest, RequestFields
<1> HIDE DEF m, n
<1>6. GoodRequest(corpus, gone, m)
  BY <1>3, <1>4 DEF GoodRequest, GoodMark, Awaiting
<1>7. global[i] # None => GoodRequest(corpus, gone, n)
  BY <1>1, <1>2, <1>3, <1>5 DEF GoodRequest, GoodMark, Awaiting
<1> QED BY <1>6, <1>7 DEF Ensuring, m, n

\* So does saving a good state, by a request that has chosen its instance's.
LEMMA PersistingGood ==
    ASSUME NEW c, NEW g, NEW q, NEW st, NEW next,
           Ready(c, g, q), q.rows = {} \/ next = "learn",
           q.using \in Requests, GoodState(c, g, st)
    PROVE  GoodRequest(c, g, Persisting(q, st, next))
<1> DEFINE n == [q EXCEPT !.pc = "saving", !.payload = st, !.ret = next]
<1>1. /\ IsRequest(n) /\ n.pc = "saving" /\ n.bodies = q.bodies /\ n.ret = next
      /\ n.rows = q.rows /\ n.mark = q.mark /\ n.using = q.using /\ n.payload = st
  BY DEF Ready, IsRequest, RequestFields
<1> HIDE DEF n
<1>2. GoodRequest(c, g, n)
  BY <1>1 DEF Ready, GoodRequest, GoodMark, Awaiting
<1> QED BY <1>2 DEF Persisting, n

LEMMA IdleGood ==
    ASSUME NEW c, NEW g
    PROVE  /\ GoodRequest(c, g, Idle)
           /\ \A u \in Requests : Ready(c, g, [Idle EXCEPT !.using = u])
           /\ \A u \in Requests : /\ [Idle EXCEPT !.using = u].using = u
                                  /\ [Idle EXCEPT !.using = u].rows = {}
           /\ Ready(c, g, Idle) /\ Idle.rows = {}
BY DEF Idle, GoodRequest, Ready, IsRequest, RequestFields, GoodMark

\* A request that does not await goes on with what it has.
LEMMA OnGood ==
    ASSUME NEW c, NEW g, NEW q, NEW pc, Ready(c, g, q), q.using \in Requests,
           q.rows = {}, pc \notin Awaiting
    PROVE  GoodRequest(c, g, [q EXCEPT !.pc = pc])
<1> DEFINE n == [q EXCEPT !.pc = pc]
<1>1. /\ IsRequest(n) /\ n.pc = pc /\ n.bodies = q.bodies
      /\ n.rows = q.rows /\ n.mark = q.mark /\ n.using = q.using
  BY DEF Ready, IsRequest, RequestFields
<1> HIDE DEF n
<1>2. GoodRequest(c, g, n)
  BY <1>1 DEF Ready, GoodRequest, GoodMark, Awaiting
<1> QED BY <1>2 DEF n

\* A step of one request that leaves the corpus alone keeps the invariant, if
\* what it writes is good.
Writes(i, r) ==
    /\ UNCHANGED <<corpus, gone>>
    /\ \E q : Become(i, r, q) /\ GoodRequest(corpus, gone, q)
    /\ \/ UNCHANGED state
       \/ \E u \in Requests : \E st : /\ state' = [state EXCEPT ![i][u] = st]
                                     /\ GoodState(corpus, gone, st)

LEMMA WritesKeep ==
    ASSUME Inv, NEW i \in Instances, NEW r \in Requests, Writes(i, r),
           stored' # None => GoodState(corpus, gone, stored'),
           global' \in [Instances -> Requests \cup {None}]
    PROVE  Inv'
<1>1. /\ TwoLevels(request', Instances, Requests)
      /\ \A j \in Instances, p \in Requests : GoodRequest(corpus, gone, request'[j][p])
  <2>1. PICK q : Become(i, r, q) /\ GoodRequest(corpus, gone, q)
    BY DEF Writes
  <2>2. request' = [request EXCEPT ![i][r] = q]
    BY <2>1 DEF Become
  <2>3. request = [j \in Instances |-> [p \in Requests |-> request[j][p]]]
    BY DEF Inv, TwoLevels
  <2>4. request' = [j \in Instances |-> [p \in Requests |->
                      IF j = i /\ p = r THEN q ELSE request[j][p]]]
    BY <2>2, <2>3
  <2> QED BY <2>1, <2>4 DEF TwoLevels, Inv
<1>2. /\ TwoLevels(state', Instances, Requests)
      /\ \A j \in Instances, p \in Requests : GoodState(corpus, gone, state'[j][p])
  <2>1. CASE UNCHANGED state
    BY <2>1 DEF Inv
  <2>2. CASE \E u \in Requests : \E st : /\ state' = [state EXCEPT ![i][u] = st]
                                         /\ GoodState(corpus, gone, st)
    <3>3. PICK u \in Requests :
             \E st : state' = [state EXCEPT ![i][u] = st] /\ GoodState(corpus, gone, st)
      BY <2>2
    <3>4. PICK st : state' = [state EXCEPT ![i][u] = st] /\ GoodState(corpus, gone, st)
      BY <3>3
    <3>1. state = [j \in Instances |-> [p \in Requests |-> state[j][p]]]
      BY DEF Inv, TwoLevels
    <3>2. state' = [j \in Instances |-> [p \in Requests |->
                      IF j = i /\ p = u THEN st ELSE state[j][p]]]
      BY <3>4, <3>1
    <3>5. TwoLevels(state', Instances, Requests)
      BY <3>2 DEF TwoLevels
    <3>6. ASSUME NEW j \in Instances, NEW p \in Requests
          PROVE  GoodState(corpus, gone, state'[j][p])
      <4>1. state'[j][p] = IF j = i /\ p = u THEN st ELSE state[j][p]
        BY <3>2
      <4> QED BY <4>1, <3>4 DEF Inv
    <3> QED BY <3>5, <3>6
  <2> QED BY <2>1, <2>2 DEF Writes
<1>3. UNCHANGED <<corpus, gone>>
  BY DEF Writes
<1>4. TypeOKCorpus'
  BY <1>3 DEF Inv, TypeOKCorpus
<1> QED BY <1>1, <1>2, <1>3, <1>4 DEF Inv

\* The cache is no part of what was read from the corpus.
LEMMA CacheIsFree ==
    ASSUME NEW c, NEW g, NEW st, GoodState(c, g, st), NEW cache
    PROVE  GoodState(c, g, [st EXCEPT !.cache = cache])
<1> DEFINE n == [st EXCEPT !.cache = cache]
<1>1. IsState(n) /\ n.fp = st.fp /\ n.graph = st.graph /\ n.vectors = st.vectors
  BY DEF GoodState, IsState, StateFields
<1> HIDE DEF n
<1>2. GoodState(c, g, n)
  BY <1>1 DEF GoodState
<1> QED BY <1>2 DEF n

\* Learning keeps a state good: the rows belong to the fingerprint it has.
LEMMA LearnWrites ==
    ASSUME Inv, NEW i \in Instances, NEW r \in Requests, NEW q,
           Ready(corpus, gone, q), q.using \in Requests, UNCHANGED <<corpus, gone>>,
           Learn(i, r, q, state[i][q.using])
    PROVE  Writes(i, r)
<1> DEFINE st == state[i][q.using]
           next == [q EXCEPT !.rows = {}, !.mark = None]
           learned == [st EXCEPT !.vectors = @ \cup q.rows]
<1>1. GoodState(corpus, gone, st)
  BY DEF Inv
<1>2. /\ IsRequest(next) /\ next.rows = {} /\ next.mark = None
      /\ next.bodies = q.bodies /\ next.using = q.using
  BY DEF Ready, IsRequest, RequestFields
<1>3. /\ IsState(learned) /\ learned.fp = st.fp /\ learned.graph = st.graph
      /\ learned.vectors = st.vectors \cup q.rows
  BY <1>1 DEF GoodState, IsState, StateFields
<1>4. CASE /\ SameRevision(st, q)
           /\ StateBecomes(i, q, learned)
           /\ Become(i, r, Persisting(next, learned, "answering"))
  <2> HIDE DEF st, next, learned
  <2>1. GoodState(corpus, gone, learned)
    BY <1>1, <1>3, <1>4 DEF GoodState, Ready, GoodMark, SameRevision
  <2>2. Ready(corpus, gone, next)
    BY <1>2 DEF Ready, GoodMark
  <2>3. GoodRequest(corpus, gone, Persisting(next, learned, "answering"))
    BY <1>2, <2>1, <2>2, PersistingGood
  <2> QED BY <1>4, <2>1, <2>3 DEF Writes, StateBecomes
<1>5. CASE Become(i, r, [next EXCEPT !.pc = "answering"]) /\ UNCHANGED state
  <2> HIDE DEF st, next, learned
  <2>1. Ready(corpus, gone, next)
    BY <1>2 DEF Ready, GoodMark
  <2>2. GoodRequest(corpus, gone, [next EXCEPT !.pc = "answering"])
    BY <1>2, <2>1, OnGood DEF Awaiting
  <2> QED BY <1>5, <2>2 DEF Writes
<1> QED BY <1>4, <1>5 DEF Learn

\* Wherever a request goes on, what it writes is good.
LEMMA ResumeWrites ==
    ASSUME Inv, NEW i \in Instances, NEW r \in Requests, NEW q,
           Ready(corpus, gone, q), q.using \in Requests, q.rows = {} \/ q.ret = "learn",
           UNCHANGED <<corpus, gone>>, Resume(i, r, q)
    PROVE  Writes(i, r)
<1> DEFINE st == state[i][q.using]
<1>1. GoodState(corpus, gone, st)
  BY DEF Inv
<1>2. q.ret # "learn" => q.rows = {}
  OBVIOUS
<1> HIDE DEF st
<1>3. CASE q.ret = "lookup" /\ Lookup(i, r, q, st)
  <2> DEFINE m == Missed(st, q)
             n == [q EXCEPT !.key = None]
  <2>1. q.rows = {}
    BY <1>2, <1>3
  <2>2. /\ IsRequest(n) /\ n.rows = {} /\ n.mark = q.mark /\ n.ret = q.ret
        /\ n.bodies = q.bodies /\ n.using = q.using
    BY <2>1 DEF Ready, IsRequest, RequestFields
  <2>3. m \in {q, n}
    BY DEF Missed
  <2>4. \/ Become(i, r, Ensuring(i, q, "bump"))
        \/ Become(i, r, Ensuring(i, m, "retrieve"))
        \/ Become(i, r, [m EXCEPT !.pc = "retrieve"])
    BY <1>3 DEF Lookup
  <2>5. UNCHANGED state
    BY <1>3 DEF Lookup
  <2> HIDE DEF m, n
  <2>6. Ready(corpus, gone, n)
    BY <2>1, <2>2 DEF Ready, GoodMark
  <2>7. Ready(corpus, gone, m) /\ m.rows = {} /\ m.using \in Requests
    BY <2>1, <2>2, <2>3, <2>6
  <2>8. /\ GoodRequest(corpus, gone, Ensuring(i, q, "bump"))
        /\ GoodRequest(corpus, gone, Ensuring(i, m, "retrieve"))
    BY <2>1, <2>7, EnsuringGood
  <2>9. GoodRequest(corpus, gone, [m EXCEPT !.pc = "retrieve"])
    BY <2>7, OnGood DEF Awaiting
  <2> QED BY <2>4, <2>5, <2>8, <2>9 DEF Writes
<1>4. CASE q.ret = "bump" /\ Bump(i, r, q, st)
  <2>1. q.rows = {}
    BY <1>2, <1>4
  <2>2. GoodRequest(corpus, gone, Persisting(q, st, "end"))
    BY <2>1, <1>1, PersistingGood
  <2>3. GoodRequest(corpus, gone, Idle)
    BY IdleGood
  <2> QED BY <1>4, <2>2, <2>3 DEF Bump, Writes
<1>5. CASE q.ret = "retrieve" /\ Become(i, r, [q EXCEPT !.pc = "retrieve"]) /\ UNCHANGED state
  <2>1. GoodRequest(corpus, gone, [q EXCEPT !.pc = "retrieve"])
    BY <1>2, <1>5, OnGood DEF Awaiting
  <2> QED BY <1>5, <2>1 DEF Writes
<1>6. CASE /\ q.ret = "remember"
           /\ Become(i, r, [q EXCEPT !.pc = "load_rows", !.mark = st.fp])
           /\ UNCHANGED state
  <2> DEFINE n == [q EXCEPT !.pc = "load_rows", !.mark = st.fp]
  <2>1. /\ IsRequest(n) /\ n.pc = "load_rows" /\ n.mark = st.fp /\ n.rows = q.rows
        /\ n.bodies = q.bodies /\ n.using = q.using
    BY DEF Ready, IsRequest, RequestFields
  <2> HIDE DEF n
  <2>2. q.rows = {}
    BY <1>2, <1>6
  <2>3. GoodMark(corpus, gone, n)
    BY <1>1, <2>1, <2>2 DEF GoodMark, GoodState
  <2>4. GoodRequest(corpus, gone, n)
    BY <2>1, <2>2, <2>3 DEF GoodRequest, Ready
  <2>5. Become(i, r, n)
    BY <1>6 DEF n
  <2> QED BY <1>6, <2>4, <2>5 DEF Writes
<1>7. CASE q.ret = "learn" /\ Learn(i, r, q, st)
  BY <1>7, LearnWrites DEF st
<1>8. CASE q.ret = "answering" /\ Become(i, r, [q EXCEPT !.pc = "answering"]) /\ UNCHANGED state
  <2>1. GoodRequest(corpus, gone, [q EXCEPT !.pc = "answering"])
    BY <1>2, <1>8, OnGood DEF Awaiting
  <2> QED BY <1>8, <2>1 DEF Writes
<1>9. CASE q.ret = "save" /\ SaveAnswer(i, r, q, st)
  <2>1. PICK cache : LET saved == [st EXCEPT !.cache = cache]
                     IN  /\ StateBecomes(i, q, saved)
                         /\ Become(i, r, Persisting([Idle EXCEPT !.using = q.using], saved, "end"))
    BY <1>9 DEF SaveAnswer
  <2> DEFINE saved == [st EXCEPT !.cache = cache]
             n == [Idle EXCEPT !.using = q.using]
  <2>2. GoodState(corpus, gone, saved)
    BY <1>1, CacheIsFree
  <2>3. Ready(corpus, gone, n) /\ n.using = q.using /\ n.rows = {}
    BY IdleGood
  <2>4. StateBecomes(i, q, saved) /\ Become(i, r, Persisting(n, saved, "end"))
    BY <2>1
  <2> HIDE DEF saved, n
  <2>5. GoodRequest(corpus, gone, Persisting(n, saved, "end"))
    BY <2>2, <2>3, PersistingGood
  <2> QED BY <2>2, <2>4, <2>5 DEF Writes, StateBecomes
<1>10. CASE q.ret = "rate" /\ RecordOutcome(i, r, q, st)
  <2>1. PICK cache : LET rated == [st EXCEPT !.cache = cache]
                     IN  /\ StateBecomes(i, q, rated)
                         /\ Become(i, r, Persisting([q EXCEPT !.key = None, !.rating = None],
                                                    rated, "snapshot"))
    BY <1>10 DEF RecordOutcome
  <2> DEFINE rated == [st EXCEPT !.cache = cache]
             n == [q EXCEPT !.key = None, !.rating = None]
  <2>2. GoodState(corpus, gone, rated)
    BY <1>1, CacheIsFree
  <2>3. /\ IsRequest(n) /\ n.rows = q.rows /\ n.mark = q.mark /\ n.ret = q.ret
        /\ n.bodies = q.bodies /\ n.using = q.using
    BY DEF Ready, IsRequest, RequestFields
  <2>4. StateBecomes(i, q, rated) /\ Become(i, r, Persisting(n, rated, "snapshot"))
    BY <2>1
  <2> HIDE DEF rated, n
  <2>5. Ready(corpus, gone, n) /\ n.rows = {}
    BY <1>2, <1>10, <2>3 DEF Ready, GoodMark
  <2>6. GoodRequest(corpus, gone, Persisting(n, rated, "snapshot"))
    BY <2>2, <2>3, <2>5, PersistingGood
  <2> QED BY <2>2, <2>4, <2>6 DEF Writes, StateBecomes
<1>11. CASE q.ret = "snapshot" /\ Become(i, r, Ensuring(i, q, "end")) /\ UNCHANGED state
  <2>1. GoodRequest(corpus, gone, Ensuring(i, q, "end"))
    BY <1>2, <1>11, EnsuringGood
  <2> QED BY <1>11, <2>1 DEF Writes
<1>12. CASE q.ret = "end" /\ Become(i, r, Idle) /\ UNCHANGED state
  BY <1>12, IdleGood DEF Writes
<1> QED
  BY <1>3, <1>4, <1>5, <1>6, <1>7, <1>8, <1>9, <1>10, <1>11, <1>12 DEF Resume, st

------------------------------------------------------------------------------
\* One lemma for every action.

LEMMA InvInit == Init => Inv
<1> SUFFICES ASSUME Init PROVE Inv
  OBVIOUS
<1>1. TypeOKCorpus
  BY DEF Init, TypeOKCorpus, Revision
<1>2. GoodState(corpus, gone, Empty)
  BY DEF Empty, GoodState, IsState, StateFields
<1>3. GoodRequest(corpus, gone, Idle)
  BY IdleGood
<1> QED BY <1>1, <1>2, <1>3 DEF Init, Inv, TwoLevels

LEMMA LoadStateStep ==
    ASSUME Inv, NEW i \in Instances, NEW r \in Requests, LoadState(i, r)
    PROVE  Inv'
<1> DEFINE q == request[i][r]
           n == [q EXCEPT !.pc = "listed", !.using = r, !.fp = Fingerprint]
<1>1. GoodRequest(corpus, gone, q) /\ q.pc = "loading"
  BY DEF Inv, LoadState, At, Req
<1>2. Become(i, r, n)
  BY DEF LoadState, Req
<1>3. /\ IsRequest(n) /\ n.pc = "listed" /\ n.using = r /\ n.fp = Fingerprint
      /\ n.rows = q.rows /\ n.mark = q.mark /\ n.ret = q.ret /\ n.bodies = q.bodies
  BY <1>1 DEF GoodRequest, IsRequest, RequestFields
<1> HIDE DEF n, q
<1>4. Past(corpus, gone, Fingerprint)
  BY FingerprintIsPast DEF Inv
<1>5. GoodRequest(corpus, gone, n)
  BY <1>1, <1>3, <1>4 DEF GoodRequest, GoodMark, Awaiting
<1>6. GoodState(corpus, gone, Empty)
  BY DEF Empty, GoodState, IsState, StateFields
<1>7. PICK st : state' = [state EXCEPT ![i][r] = st] /\ GoodState(corpus, gone, st)
  BY <1>6 DEF LoadState, Inv
<1>8. Writes(i, r)
  BY <1>2, <1>5, <1>7 DEF LoadState, Writes
<1>9. global' \in [Instances -> Requests \cup {None}]
  BY DEF LoadState, Inv
<1> QED BY <1>8, <1>9, WritesKeep DEF LoadState, Inv

LEMMA CompareFingerprintStep ==
    ASSUME Inv, NEW i \in Instances, NEW r \in Requests, CompareFingerprint(i, r)
    PROVE  Inv'
<1> DEFINE q == request[i][r]
           cleared == [q EXCEPT !.fp = None]
           n == [q EXCEPT !.pc = "fetching", !.left = Listed(q.fp)]
<1>1. GoodRequest(corpus, gone, q) /\ q.pc = "listed"
  BY DEF Inv, CompareFingerprint, At, Req
<1>2. /\ IsRequest(cleared) /\ cleared.using = q.using /\ cleared.rows = q.rows
      /\ cleared.mark = q.mark /\ cleared.ret = q.ret /\ cleared.bodies = q.bodies
  BY <1>1 DEF GoodRequest, IsRequest, RequestFields
<1>3. /\ IsRequest(n) /\ n.pc = "fetching" /\ n.using = q.using /\ n.fp = q.fp
      /\ n.rows = q.rows /\ n.mark = q.mark /\ n.ret = q.ret /\ n.bodies = q.bodies
      /\ n.left = Listed(q.fp)
  BY <1>1 DEF GoodRequest, IsRequest, RequestFields
<1>4. Resume(i, r, cleared) \/ (Become(i, r, n) /\ UNCHANGED state)
  BY DEF CompareFingerprint, Req
<1>5. UNCHANGED <<corpus, global, stored, gone>>
  BY DEF CompareFingerprint, OnlyState
<1> HIDE DEF q, cleared, n
<1>6. CASE Resume(i, r, cleared)
  <2>1. /\ Ready(corpus, gone, cleared) /\ cleared.using \in Requests
        /\ cleared.rows = {} \/ cleared.ret = "learn"
    BY <1>1, <1>2 DEF GoodRequest, Ready, GoodMark
  <2>2. Writes(i, r)
    BY <2>1, <1>5, <1>6, ResumeWrites
  <2> QED BY <2>2, <1>5, WritesKeep DEF Inv
<1>7. CASE Become(i, r, n) /\ UNCHANGED state
  <2>1. \A s \in Slugs : NoBodies[s] = None
    BY DEF NoBodies
  <2>2. NoBodies = [s \in Slugs |-> NoBodies[s]]
    BY DEF NoBodies
  <2>3. GoodFetch(corpus, gone, n)
    BY <1>1, <1>3, <2>1, <2>2 DEF GoodRequest, GoodFetch, Fetched, Backed, Listed
  <2>4. GoodRequest(corpus, gone, n)
    BY <1>1, <1>3, <2>3 DEF GoodRequest, GoodMark, Awaiting
  <2>5. Writes(i, r)
    BY <2>4, <1>5, <1>7 DEF Writes
  <2> QED BY <2>5, <1>5, WritesKeep DEF Inv
<1> QED BY <1>4, <1>6, <1>7

\* A text is read after the list: it belongs to the listed version or a later one.
LEMMA FetchDocumentStep ==
    ASSUME Inv, NEW i \in Instances, NEW r \in Requests,
           NEW s \in Req(i, r).left, FetchDocument(i, r, s)
    PROVE  Inv'
<1> DEFINE q == request[i][r]
           n == [q EXCEPT !.left = @ \ {s}, !.bodies[s] = BodyOf(s)]
<1>1. GoodRequest(corpus, gone, q) /\ q.pc = "fetching" /\ s \in q.left
  BY DEF Inv, FetchDocument, At, Req
<1>2. Become(i, r, n)
  BY DEF FetchDocument, Req
<1>3. /\ IsRequest(n) /\ n.pc = "fetching" /\ n.using = q.using /\ n.fp = q.fp
      /\ n.rows = q.rows /\ n.mark = q.mark /\ n.ret = q.ret
      /\ n.left = q.left \ {s} /\ n.bodies = [q.bodies EXCEPT ![s] = BodyOf(s)]
  BY <1>1 DEF GoodRequest, IsRequest, RequestFields
<1>4. UNCHANGED <<corpus, state, global, stored, gone>>
  BY DEF FetchDocument, OnlyRequest
<1> HIDE DEF q, n
<1>5. GoodFetch(corpus, gone, q)
  BY <1>1 DEF GoodRequest
<1>6. s \in Slugs /\ q.fp[s] # None
  BY <1>1, <1>5 DEF GoodFetch, Listed
<1>7. Fetched(corpus, gone, q.fp, s, BodyOf(s))
  BY <1>5, <1>6 DEF GoodFetch, Past, Fetched, Backed, BodyOf, Named, NamedIn
<1>8. n.bodies = [t \in Slugs |-> n.bodies[t]]
  BY <1>3, <1>5, <1>6 DEF GoodFetch
<1>9. \A t \in Slugs : n.bodies[t] = IF t = s THEN BodyOf(s) ELSE q.bodies[t]
  BY <1>3, <1>5, <1>6 DEF GoodFetch
<1>10. GoodFetch(corpus, gone, n)
  BY <1>3, <1>5, <1>7, <1>8, <1>9 DEF GoodFetch
<1>11. GoodRequest(corpus, gone, n)
  BY <1>1, <1>3, <1>10 DEF GoodRequest, GoodMark, Awaiting
<1>12. Writes(i, r)
  BY <1>2, <1>4, <1>11 DEF Writes
<1> QED BY <1>4, <1>12, WritesKeep DEF Inv

LEMMA RebuildStep ==
    ASSUME Inv, NEW i \in Instances, NEW r \in Requests, Rebuild(i, r)
    PROVE  Inv'
<1> DEFINE q == request[i][r]
           used == state[i][q.using]
           st == Derived(used, q)
           n == [q EXCEPT !.fp = None, !.bodies = NoBodies]
<1>1. GoodRequest(corpus, gone, q) /\ q.pc = "fetching" /\ q.left = {}
  BY DEF Inv, Rebuild, At, Req
<1>2. /\ IsRequest(n) /\ n.using = q.using /\ n.ret = q.ret
      /\ n.rows = q.rows /\ n.mark = q.mark /\ n.bodies = NoBodies
  BY <1>1 DEF GoodRequest, IsRequest, RequestFields
<1>3. StateBecomes(i, q, st) /\ Become(i, r, Persisting(n, st, q.ret))
  BY DEF Rebuild, Req, Used
<1>4. UNCHANGED <<corpus, global, stored, gone>>
  BY DEF Rebuild, OnlyState
<1>5. /\ IsState(st) /\ st.fp = q.fp /\ st.graph = q.bodies /\ st.vectors = {}
  BY DEF Derived, IsState, StateFields
<1> HIDE DEF q, used, st, n
<1>6. GoodFetch(corpus, gone, q)
  BY <1>1 DEF GoodRequest
<1>7. GoodState(corpus, gone, st)
  BY <1>1, <1>5, <1>6 DEF GoodState, GoodFetch
<1>8. Ready(corpus, gone, n) /\ n.using \in Requests /\ (n.rows = {} \/ q.ret = "learn")
  BY <1>1, <1>2 DEF GoodRequest, Ready, GoodMark
<1>9. GoodRequest(corpus, gone, Persisting(n, st, q.ret))
  BY <1>7, <1>8, PersistingGood
<1>10. q.using \in Requests
  BY <1>1 DEF GoodRequest
<1>11. Writes(i, r)
  BY <1>3, <1>4, <1>7, <1>9, <1>10 DEF Writes, StateBecomes
<1> QED BY <1>4, <1>11, WritesKeep DEF Inv

LEMMA SaveRowStep ==
    ASSUME Inv, NEW i \in Instances, NEW r \in Requests, SaveRow(i, r)
    PROVE  Inv'
<1> DEFINE q == request[i][r]
           n == [q EXCEPT !.payload = None]
<1>1. GoodRequest(corpus, gone, q) /\ q.pc = "saving"
  BY DEF Inv, SaveRow, At, Req
<1>2. /\ IsRequest(n) /\ n.using = q.using /\ n.ret = q.ret
      /\ n.rows = q.rows /\ n.mark = q.mark /\ n.bodies = q.bodies
  BY <1>1 DEF GoodRequest, IsRequest, RequestFields
<1>3. Resume(i, r, n) /\ (stored' = q.payload \/ UNCHANGED stored)
  BY DEF SaveRow, Req
<1>4. UNCHANGED <<corpus, global, gone>>
  BY DEF SaveRow
<1> HIDE DEF q, n
<1>5. /\ Ready(corpus, gone, n) /\ n.using \in Requests
      /\ n.rows = {} \/ n.ret = "learn"
  BY <1>1, <1>2 DEF GoodRequest, Ready, GoodMark
<1>6. Writes(i, r)
  BY <1>3, <1>4, <1>5, ResumeWrites
<1>7. stored' # None => GoodState(corpus, gone, stored')
  BY <1>1, <1>3 DEF GoodRequest, Inv
<1> QED BY <1>4, <1>6, <1>7, WritesKeep DEF Inv

\* A request that only moves on.
LEMMA OnlyRequestStep ==
    ASSUME Inv, NEW i \in Instances, NEW r \in Requests, NEW q,
           Become(i, r, q), GoodRequest(corpus, gone, q),
           UNCHANGED <<corpus, state, global, stored, gone>>
    PROVE  Inv'
BY WritesKeep DEF Writes, Inv

LEMMA AskStep ==
    ASSUME Inv, NEW i \in Instances, NEW r \in Requests, NEW k, Ask(i, r, k)
    PROVE  Inv'
<1> DEFINE q == [Idle EXCEPT !.key = k]
<1>1. Ready(corpus, gone, q) /\ q.rows = {}
  BY DEF Ready, Idle, IsRequest, RequestFields, GoodMark
<1>2. Become(i, r, Ensuring(i, q, "lookup"))
  BY DEF Ask
<1> HIDE DEF q
<1> QED BY <1>1, <1>2, EnsuringGood, OnlyRequestStep DEF Ask

LEMMA RateStep ==
    ASSUME Inv, NEW i \in Instances, NEW r \in Requests, NEW question, NEW outcome,
           Rate(i, r, question, outcome)
    PROVE  Inv'
<1>1. PICK p \in Policies :
          Become(i, r, Ensuring(i, [Idle EXCEPT !.key = <<question, p>>, !.rating = outcome], "rate"))
  BY DEF Rate
<1> DEFINE q == [Idle EXCEPT !.key = <<question, p>>, !.rating = outcome]
<1>2. Ready(corpus, gone, q) /\ q.rows = {}
  BY DEF Ready, Idle, IsRequest, RequestFields, GoodMark
<1>3. Become(i, r, Ensuring(i, q, "rate"))
  BY <1>1
<1> HIDE DEF q
<1> QED BY <1>2, <1>3, EnsuringGood, OnlyRequestStep DEF Rate

LEMMA RetrieveStep ==
    ASSUME Inv, NEW i \in Instances, NEW r \in Requests, Retrieve(i, r)
    PROVE  Inv'
<1> DEFINE q == request[i][r]
           n == [q EXCEPT !.pc = "retrieved", !.asOf = Fingerprint,
                          !.basis = [s \in Slugs |-> BodyOf(s)]]
<1>1. GoodRequest(corpus, gone, q) /\ q.pc = "retrieve"
  BY DEF Inv, Retrieve, At, Req
<1>2. /\ IsRequest(n) /\ n.pc = "retrieved" /\ n.using = q.using /\ n.ret = q.ret
      /\ n.rows = q.rows /\ n.mark = q.mark /\ n.bodies = q.bodies
  BY <1>1 DEF GoodRequest, IsRequest, RequestFields
<1>3. Become(i, r, n) /\ UNCHANGED <<corpus, state, global, stored, gone>>
  BY DEF Retrieve, OnlyRequest, Req
<1> HIDE DEF q, n
<1>4. GoodRequest(corpus, gone, n)
  BY <1>1, <1>2 DEF GoodRequest, GoodMark, Awaiting
<1> QED BY <1>3, <1>4, OnlyRequestStep

LEMMA LoadRowsStep ==
    ASSUME Inv, NEW i \in Instances, NEW r \in Requests, LoadRows(i, r)
    PROVE  Inv'
<1> DEFINE q == request[i][r]
<1>1. GoodRequest(corpus, gone, q) /\ q.pc = "load_rows"
  BY DEF Inv, LoadRows, At, Req
<1>2. PICK vectors \in SUBSET {s \in Slugs : Named(s)} :
          Become(i, r, [q EXCEPT !.pc = "loaded_rows",
                                 !.rows = {<<s, BodyOf(s)>> : s \in vectors}])
  BY DEF LoadRows, Req
<1> DEFINE rows == {<<s, BodyOf(s)>> : s \in vectors}
           n == [q EXCEPT !.pc = "loaded_rows", !.rows = rows]
<1>3. /\ IsRequest(n) /\ n.pc = "loaded_rows" /\ n.using = q.using
      /\ n.rows = rows /\ n.mark = q.mark /\ n.bodies = q.bodies
  BY <1>1 DEF GoodRequest, IsRequest, RequestFields
<1>4. Become(i, r, n) /\ UNCHANGED <<corpus, state, global, stored, gone>>
  BY <1>2 DEF LoadRows, OnlyRequest
<1>5. ASSUME NEW v \in rows PROVE Learned(corpus, gone, q.mark, v)
  <2>1. PICK s \in vectors : v = <<s, BodyOf(s)>>
    BY <1>5
  <2>2. s \in Slugs /\ Named(s) /\ v[1] = s /\ v[2] = corpus[s].body
    BY <2>1 DEF BodyOf
  <2> QED BY <2>2 DEF Learned, Backed, Named, NamedIn
<1> HIDE DEF q, n, rows
<1>6. GoodMark(corpus, gone, n)
  BY <1>1, <1>3, <1>5 DEF GoodRequest, GoodMark
<1>7. GoodRequest(corpus, gone, n)
  BY <1>1, <1>3, <1>6 DEF GoodRequest
<1> QED BY <1>4, <1>7, OnlyRequestStep

\* Remember, CheckRevision and Answer await ensureGraph.
LEMMA EnsureStep ==
    ASSUME Inv, NEW i \in Instances, NEW r \in Requests, NEW ret,
           Req(i, r).pc \notin {"idle"} \cup Awaiting,
           Req(i, r).pc = "loaded_rows" => ret = "learn",
           Become(i, r, Ensuring(i, Req(i, r), ret)), OnlyRequest
    PROVE  Inv'
<1>1. Ready(corpus, gone, Req(i, r)) /\ (Req(i, r).rows = {} \/ ret = "learn")
  BY DEF Inv, Req, GoodRequest, Ready, Awaiting
<1> QED BY <1>1, EnsuringGood, OnlyRequestStep DEF OnlyRequest

LEMMA EndUnsavedStep ==
    ASSUME Inv, NEW i \in Instances, NEW r \in Requests, EndUnsaved(i, r)
    PROVE  Inv'
BY IdleGood, OnlyRequestStep DEF EndUnsaved, OnlyRequest

LEMMA RestartStep ==
    ASSUME Inv, NEW i \in Instances, Restart(i)
    PROVE  Inv'
<1>1. UNCHANGED <<corpus, stored, gone>>
  BY DEF Restart
<1>2. GoodState(corpus, gone, Empty) /\ GoodRequest(corpus, gone, Idle)
  BY IdleGood DEF Empty, GoodState, IsState, StateFields
<1>3. /\ TwoLevels(state', Instances, Requests)
      /\ \A j \in Instances, p \in Requests : GoodState(corpus, gone, state'[j][p])
  <2>1. state = [j \in Instances |-> [p \in Requests |-> state[j][p]]]
    BY DEF Inv, TwoLevels
  <2>2. state' = [j \in Instances |-> [p \in Requests |-> IF j = i THEN Empty ELSE state[j][p]]]
    BY <2>1 DEF Restart
  <2>3. \A j \in Instances, p \in Requests :
            state'[j][p] = IF j = i THEN Empty ELSE state[j][p]
    BY <2>2
  <2>4. TwoLevels(state', Instances, Requests)
    BY <2>2 DEF TwoLevels
  <2> QED BY <2>3, <2>4, <1>2 DEF Inv
<1>4. /\ TwoLevels(request', Instances, Requests)
      /\ \A j \in Instances, p \in Requests : GoodRequest(corpus, gone, request'[j][p])
  <2>1. request = [j \in Instances |-> [p \in Requests |-> request[j][p]]]
    BY DEF Inv, TwoLevels
  <2>2. request' = [j \in Instances |-> [p \in Requests |-> IF j = i THEN Idle ELSE request[j][p]]]
    BY <2>1 DEF Restart
  <2>3. \A j \in Instances, p \in Requests :
            request'[j][p] = IF j = i THEN Idle ELSE request[j][p]
    BY <2>2
  <2>4. TwoLevels(request', Instances, Requests)
    BY <2>2 DEF TwoLevels
  <2> QED BY <2>3, <2>4, <1>2 DEF Inv
<1>5. global' \in [Instances -> Requests \cup {None}]
  BY DEF Restart, Inv
<1> QED BY <1>1, <1>3, <1>4, <1>5 DEF Inv, TypeOKCorpus

LEMMA CorpusChangeStep ==
    ASSUME Inv, CorpusChange
    PROVE  Inv'
<1>1. MovesOn(corpus, gone, corpus', gone')
  BY ChangeMovesOn DEF Inv
<1>2. UNCHANGED <<state, global, stored, request>>
  BY DEF CorpusChange
<1>3. corpus \in [Slugs -> Revision \cup {None}]
  BY DEF Inv, TypeOKCorpus
<1>4. \A i \in Instances, r \in Requests :
          /\ GoodState(corpus', gone', state[i][r])
          /\ GoodRequest(corpus', gone', request[i][r])
  BY <1>1, <1>3, StateMovesOn, RequestMovesOn DEF Inv
<1>5. stored # None => GoodState(corpus', gone', stored)
  BY <1>1, <1>3, StateMovesOn DEF Inv
<1>6. TypeOKCorpus'
  BY <1>1 DEF MovesOn, TypeOKCorpus
<1> QED BY <1>2, <1>4, <1>5, <1>6 DEF Inv

LEMMA InvStep == Inv /\ [Next]_vars => Inv'
<1> SUFFICES ASSUME Inv, [Next]_vars PROVE Inv'
  OBVIOUS
<1>1. ASSUME NEW i \in Instances, NEW r \in Requests, Step(i, r) PROVE Inv'
  <2>1. CASE LoadState(i, r)
    BY <2>1, LoadStateStep
  <2>2. CASE CompareFingerprint(i, r)
    BY <2>2, CompareFingerprintStep
  <2>3. CASE \E s \in Req(i, r).left : FetchDocument(i, r, s)
    BY <2>3, FetchDocumentStep
  <2>4. CASE Rebuild(i, r)
    BY <2>4, RebuildStep
  <2>5. CASE SaveRow(i, r)
    BY <2>5, SaveRowStep
  <2>6. CASE Retrieve(i, r)
    BY <2>6, RetrieveStep
  <2>7. CASE Remember(i, r)
    BY <2>7, EnsureStep DEF Remember, At, Awaiting
  <2>8. CASE LoadRows(i, r)
    BY <2>8, LoadRowsStep
  <2>9. CASE CheckRevision(i, r)
    BY <2>9, EnsureStep DEF CheckRevision, At, Awaiting
  <2>10. CASE EndUnsaved(i, r)
    BY <2>10, EndUnsavedStep
  <2>11. CASE Answer(i, r)
    BY <2>11, EnsureStep DEF Answer, Answering, At, Awaiting
  <2> QED
    BY <1>1, <2>1, <2>2, <2>3, <2>4, <2>5, <2>6, <2>7, <2>8, <2>9, <2>10, <2>11 DEF Step
<1>2. CASE UNCHANGED vars
  BY <1>2 DEF vars, Inv, TypeOKCorpus
<1> QED
  BY <1>1, <1>2, AskStep, RateStep, CorpusChangeStep, RestartStep DEF Next

------------------------------------------------------------------------------
\* What a request finds under the fingerprint of the corpus.

LEMMA InvHolds == Spec => []Inv
BY InvInit, InvStep, PTL DEF Spec

\* Every copy an instance can answer from is a good state with a fingerprint.
LEMMA CurrentGood ==
    ASSUME Inv, NEW st \in Current
    PROVE  /\ GoodState(corpus, gone, st)
           /\ st.fp = Fingerprint /\ Fingerprint # None
<1>1. GoodState(corpus, gone, st) /\ st.fp = Fingerprint
  <2>1. /\ st.fp = Fingerprint
        /\ \/ st = stored /\ stored # None
           \/ st \in UNION {{state[i][r] : r \in Requests} : i \in Instances}
    BY DEF Current
  <2>2. CASE st \in UNION {{state[i][r] : r \in Requests} : i \in Instances}
    <3>1. PICK i \in Instances : st \in {state[i][r] : r \in Requests}
      BY <2>2
    <3>2. PICK r \in Requests : st = state[i][r]
      BY <3>1
    <3> QED BY <2>1, <3>2 DEF Inv
  <2> QED BY <2>1, <2>2 DEF Inv
<1>2. Fingerprint \in Prints
  BY FingerprintIsPast DEF Inv
<1> QED BY <1>1, <1>2, NoneIsNoPrint

\* A graph whose fingerprint is that of the corpus is the graph of the corpus,
\* although ensureGraph reads versions and bodies by separate queries, for any
\* number of instances and requests.
THEOREM GraphIsCurrent == Spec => []GraphFollowsCorpus
<1>1. ASSUME Inv, NEW st \in Current, NEW s \in Traceable
      PROVE  st.graph[s] = BodyOf(s)
  <2>1. s \in Slugs /\ (s \in gone => ~Named(s))
    BY <1>1 DEF Traceable
  <2>2. st.fp = Fingerprint /\ Fetched(corpus, gone, st.fp, s, st.graph[s])
    BY <1>1, <2>1, CurrentGood DEF GoodState
  <2>3. CASE Named(s)
    <3>1. st.fp[s] = <<corpus[s].version, corpus[s].model>>
      BY <2>1, <2>2, <2>3 DEF Fingerprint
    <3>2. st.fp[s] # None
      <4>1. corpus[s].version \in Nat \ {0} /\ corpus[s].model \in Models \cup {None}
        BY <2>1, <2>3, <1>1 DEF Inv, TypeOKCorpus, Revision, Named
      <4>2. st.fp[s] \in VersionPrint
        BY <3>1, <4>1 DEF VersionPrint
      <4> QED BY <4>2, NoneIsNoPrint
    <3> QED BY <2>1, <2>2, <2>3, <3>1, <3>2 DEF Fetched, Backed, BodyOf
  <2>4. CASE ~Named(s)
    BY <2>1, <2>2, <2>4 DEF Fingerprint, Fetched, BodyOf
  <2> QED BY <2>3, <2>4
<1>2. Inv => GraphFollowsCorpus
  BY <1>1 DEF GraphFollowsCorpus
<1> QED BY <1>2, InvHolds, PTL

\* So are the vectors an instance learned, except those of a document that came and
\* went: rows that rememberRetrievedVectors loaded around a change are not kept
\* under the fingerprint that follows it.
THEOREM VectorsAreCurrent == Spec => []VectorsFollowCorpus
<1>1. ASSUME Inv, NEW st \in Current, NEW v \in st.vectors, v[1] \notin gone
      PROVE  v[2] = BodyOf(v[1])
  <2>1. st.fp = Fingerprint /\ Learned(corpus, gone, st.fp, v)
    BY <1>1, CurrentGood DEF GoodState
  <2>2. v[1] \in Slugs /\ Named(v[1])
    BY <2>1, <1>1 DEF Learned, Named, NamedIn
  <2>3. st.fp[v[1]] = <<corpus[v[1]].version, corpus[v[1]].model>>
    BY <2>1, <2>2 DEF Fingerprint
  <2>4. corpus[v[1]].version \in Nat \ {0} /\ corpus[v[1]].model \in Models \cup {None}
    BY <2>2, <1>1 DEF Inv, TypeOKCorpus, Revision, Named
  <2>5. st.fp[v[1]] # None
    BY <2>3, <2>4, NoneIsNoPrint DEF VersionPrint
  <2> QED BY <1>1, <2>1, <2>2, <2>3, <2>5 DEF Learned, Backed, BodyOf
<1>2. Inv => VectorsFollowCorpus
  BY <1>1 DEF VectorsFollowCorpus
<1> QED BY <1>2, InvHolds, PTL

------------------------------------------------------------------------------
(***************************************************************************)
(* The cached answers of the graph state, for any number of instances,     *)
(* requests, questions and changes.                                        *)
(***************************************************************************)

\* Induction, as a fact about a set of naturals.
LEMMA LeastNatural ==
    ASSUME NEW T \in SUBSET Nat, T # {}
    PROVE  \E m \in T : \A k \in T : m <= k
<1>1. PICK m \in T : \A k \in T : <<k, m>> \notin OpToRel(<, Nat)
  BY WFMin, NatLessThanWellFounded
<1>2. \A k \in T : ~(k < m)
  BY <1>1 DEF OpToRel
<1> QED BY <1>2

LEMMA NaturalsBySteps ==
    ASSUME NEW P \in SUBSET Nat, 0 \in P, \A n \in P : n + 1 \in P
    PROVE  P = Nat
<1> SUFFICES ASSUME Nat \ P # {} PROVE FALSE
  OBVIOUS
<1>1. PICK m \in Nat \ P : \A k \in Nat \ P : m <= k
  BY LeastNatural
<1>2. m # 0 /\ m - 1 \in Nat
  BY <1>1
<1>3. m - 1 \in P
  BY <1>1, <1>2
<1> QED BY <1>1, <1>2, <1>3

\* The function Others is defined by exists.
Filters(f, c, k, m) ==
    f = [n \in 0..m |->
            IF n = 0 THEN <<>>
            ELSE IF c[n].key = k THEN f[n - 1] ELSE Append(f[n - 1], c[n])]

LEMMA FilterExists ==
    ASSUME NEW c, NEW k, NEW l \in Nat
    PROVE  \E f : Filters(f, c, k, l)
<1> DEFINE P == {m \in Nat : \E f : Filters(f, c, k, m)}
<1>1. 0 \in P
  <2>1. Filters([n \in 0..0 |-> <<>>], c, k, 0)
    BY DEF Filters
  <2> QED BY <2>1
<1>2. ASSUME NEW m \in P PROVE m + 1 \in P
  <2>1. PICK f : Filters(f, c, k, m)
    OBVIOUS
  <2> DEFINE last == IF c[m + 1].key = k THEN f[m] ELSE Append(f[m], c[m + 1])
             g == [n \in 0..(m + 1) |-> IF n = m + 1 THEN last ELSE f[n]]
  <2>2. m \in Nat
    OBVIOUS
  <2>3. \A n \in 0..m : g[n] = f[n]
    BY <2>2
  <2>4. \A n \in 0..m : f[n] = IF n = 0 THEN <<>>
                               ELSE IF c[n].key = k THEN f[n - 1] ELSE Append(f[n - 1], c[n])
    BY <2>1 DEF Filters
  <2>5. ASSUME NEW n \in 0..(m + 1)
        PROVE  g[n] = IF n = 0 THEN <<>>
                      ELSE IF c[n].key = k THEN g[n - 1] ELSE Append(g[n - 1], c[n])
    <3>1. CASE n = m + 1
      <4>1. n # 0 /\ n - 1 = m /\ m \in 0..m
        BY <2>2, <3>1
      <4>2. g[n - 1] = f[m] /\ g[n] = last
        BY <2>2, <2>3, <3>1, <4>1
      <4> QED BY <3>1, <4>1, <4>2
    <3>2. CASE n \in 0..m
      <4>1. n # 0 => n - 1 \in 0..m
        BY <2>2, <3>2
      <4> QED BY <2>3, <2>4, <3>2, <4>1
    <3> QED BY <2>2, <3>1, <3>2
  <2> HIDE DEF last
  <2>6. Filters(g, c, k, m + 1)
    BY <2>5 DEF Filters
  <2> QED BY <2>2, <2>6
<1> HIDE DEF P
<1>3. P = Nat
  <2>1. P \in SUBSET Nat
    BY DEF P
  <2> QED BY <1>1, <1>2, <2>1, NaturalsBySteps
<1> QED BY <1>3 DEF P

LEMMA OthersIsFilter ==
    ASSUME NEW c, NEW k, Len(c) \in Nat
    PROVE  \E f : Filters(f, c, k, Len(c)) /\ Others(c, k) = f[Len(c)]
<1>1. PICK f : Filters(f, c, k, Len(c))
  BY FilterExists
<1> DEFINE g == CHOOSE h : Filters(h, c, k, Len(c))
<1>2. Filters(g, c, k, Len(c))
  BY <1>1
<1>3. Others(c, k) = g[Len(c)]
  BY Zenon DEF Others, Filters
<1> QED BY <1>2, <1>3

------------------------------------------------------------------------------
\* The caches a save and a rating write.

\* At most one entry a key.
OneEach(c) == \A m, n \in DOMAIN c : c[m].key = c[n].key => m = n

\* A filtered cache is a part of the cache without the key, in entries of their own.
Part(o, c, k, m) ==
    /\ o \in Seq(CacheRow) /\ Len(o) <= m
    /\ \A a \in 1..Len(o) : \E n \in 1..m : o[a] = c[n] /\ c[n].key # k
    /\ OneEach(o)

LEMMA PartStep ==
    ASSUME NEW c \in Seq(CacheRow), OneEach(c), NEW k, NEW m \in Nat, m + 1 <= Len(c),
           NEW o, Part(o, c, k, m)
    PROVE  /\ Part(o, c, k, m + 1)
           /\ c[m + 1].key # k => Part(Append(o, c[m + 1]), c, k, m + 1)
<1>1. o \in Seq(CacheRow) /\ Len(o) \in Nat /\ Len(o) <= m /\ DOMAIN o = 1..Len(o)
  BY DEF Part
<1>2. Part(o, c, k, m + 1)
  BY <1>1 DEF Part
<1>3. ASSUME c[m + 1].key # k PROVE Part(Append(o, c[m + 1]), c, k, m + 1)
  <2> DEFINE x == c[m + 1]
             a == Append(o, x)
             l == Len(o)
  <2>1. x \in CacheRow
    OBVIOUS
  <2>2. /\ a \in Seq(CacheRow) /\ Len(a) = l + 1 /\ a[l + 1] = x
        /\ \A j \in 1..l : a[j] = o[j]
    BY <1>1, <2>1
  <2>3. \A j \in 1..l : \E n \in 1..m : a[j] = c[n] /\ c[n].key # k
    BY <2>2 DEF Part
  <2>4. \A j \in 1..(l + 1) : \E n \in 1..(m + 1) : a[j] = c[n] /\ c[n].key # k
    <3>1. ASSUME NEW j \in 1..(l + 1), j # l + 1
          PROVE  \E n \in 1..(m + 1) : a[j] = c[n] /\ c[n].key # k
      <4>1. j \in 1..l
        BY <1>1, <3>1
      <4> QED BY <4>1, <2>3
    <3>2. x = c[m + 1] /\ m + 1 \in 1..(m + 1)
      OBVIOUS
    <3> HIDE DEF x, a
    <3> QED BY <1>3, <2>2, <3>1, <3>2
  <2>5. ASSUME NEW j \in 1..l PROVE a[j].key # x.key
    <3>1. PICK n \in 1..m : a[j] = c[n]
      BY <2>3
    <3>2. n \in DOMAIN c /\ m + 1 \in DOMAIN c /\ n # m + 1
      OBVIOUS
    <3> QED BY <3>1, <3>2 DEF OneEach
  <2>6. ASSUME NEW i \in 1..(l + 1), NEW j \in 1..(l + 1), a[i].key = a[j].key PROVE i = j
    <3>1. \A n \in 1..(l + 1) : n # l + 1 => n \in 1..l
      BY <1>1
    <3>2. CASE i = l + 1 /\ j # l + 1
      BY <2>2, <2>5, <2>6, <3>1, <3>2
    <3>3. CASE j = l + 1 /\ i # l + 1
      BY <2>2, <2>5, <2>6, <3>1, <3>3
    <3>4. CASE i # l + 1 /\ j # l + 1
      <4>1. i \in 1..l /\ j \in 1..l /\ o[i].key = o[j].key
        BY <2>2, <2>6, <3>1, <3>4
      <4> QED BY <1>1, <4>1 DEF Part, OneEach
    <3> QED BY <3>2, <3>3, <3>4
  <2>7. OneEach(a) /\ Len(a) <= m + 1
    BY <1>1, <2>2, <2>6 DEF OneEach
  <2> HIDE DEF a, x
  <2>8. \A j \in 1..Len(a) : \E n \in 1..(m + 1) : a[j] = c[n] /\ c[n].key # k
    BY <2>2, <2>4
  <2>9. Part(a, c, k, m + 1)
    BY <2>2, <2>7, <2>8 DEF Part
  <2> QED BY <2>9 DEF a, x
<1> QED BY <1>2, <1>3

LEMMA OthersIsPart ==
    ASSUME NEW c \in Seq(CacheRow), OneEach(c), NEW k
    PROVE  Part(Others(c, k), c, k, Len(c))
<1>1. Len(c) \in Nat
  OBVIOUS
<1>2. PICK f : Filters(f, c, k, Len(c)) /\ Others(c, k) = f[Len(c)]
  BY <1>1, OthersIsFilter
<1> DEFINE P == {m \in Nat : m <= Len(c) => Part(f[m], c, k, m)}
<1>3. 0 \in P
  <2>1. f[0] = <<>>
    BY <1>1, <1>2 DEF Filters
  <2>2. Part(<<>>, c, k, 0)
    BY DEF Part, OneEach
  <2> QED BY <2>1, <2>2
<1>4. ASSUME NEW m \in P PROVE m + 1 \in P
  <2>1. SUFFICES ASSUME m + 1 <= Len(c) PROVE Part(f[m + 1], c, k, m + 1)
    OBVIOUS
  <2>2. m \in Nat /\ Part(f[m], c, k, m)
    BY <1>1, <2>1
  <2>3. m + 1 \in 0..Len(c) /\ m + 1 # 0 /\ (m + 1) - 1 = m
    BY <1>1, <2>1, <2>2
  <2>4. f[m + 1] = IF c[m + 1].key = k THEN f[m] ELSE Append(f[m], c[m + 1])
    BY <1>2, <2>3 DEF Filters
  <2>5. /\ Part(f[m], c, k, m + 1)
        /\ c[m + 1].key # k => Part(Append(f[m], c[m + 1]), c, k, m + 1)
    BY <2>1, <2>2, PartStep
  <2> QED BY <2>4, <2>5
<1> HIDE DEF P
<1>5. P = Nat
  <2>1. P \in SUBSET Nat
    BY DEF P
  <2> QED BY <1>3, <1>4, <2>1, NaturalsBySteps
<1> QED BY <1>1, <1>2, <1>5 DEF P

\* The entry found for the key of an entry is that entry.
LEMMA EntryFound ==
    ASSUME NEW st, st.cache \in Seq(CacheRow), OneEach(st.cache), NEW k
    PROVE  /\ \A n \in DOMAIN st.cache : st.cache[n].key = k => Entry(st, k) = st.cache[n]
           /\ Cached(st, k) => \E n \in DOMAIN st.cache : Entry(st, k) = st.cache[n] /\ st.cache[n].key = k
<1>1. ASSUME NEW n \in DOMAIN st.cache, st.cache[n].key = k PROVE Entry(st, k) = st.cache[n]
  <2>1. Positions(st, k) = {n}
    BY <1>1 DEF Positions, OneEach
  <2>2. n <= n
    OBVIOUS
  <2> DEFINE p == CHOOSE m \in {n} : \A j \in {n} : m <= j
  <2>3. p = n
    BY <2>2
  <2>4. Entry(st, k) = st.cache[p]
    BY <2>1, Zenon DEF Entry
  <2> QED BY <2>3, <2>4
<1>2. Cached(st, k) => \E n \in DOMAIN st.cache : st.cache[n].key = k
  BY DEF Cached, Positions
<1> QED BY <1>1, <1>2

\* What an entry became: the answers of a state that keep its fingerprint keep
\* their ratings.
Rates(st, next) ==
    next.fp = st.fp =>
        \A n \in DOMAIN st.cache :
            st.cache[n].outcome # None /\ Cached(next, st.cache[n].key)
                => Entry(next, st.cache[n].key).outcome # None

\* A state that keeps its cache keeps its ratings.
LEMMA SameCacheRates ==
    ASSUME NEW st, StateOK(st), NEW next, next.cache = st.cache
    PROVE  Rates(st, next)
<1>1. st.cache \in Seq(CacheRow) /\ OneEach(st.cache)
  BY DEF StateOK, OneEach
<1>2. ASSUME NEW n \in DOMAIN st.cache PROVE Entry(next, st.cache[n].key) = st.cache[n]
  BY <1>1, EntryFound
<1> QED BY <1>2 DEF Rates

\* The cache saveQueryResult makes: its first entry is the new answer, the others
\* are entries of the old cache with another key.
Saved(st, q, next) ==
    /\ Len(next) \in 1..CacheLimit /\ next \in Seq(CacheRow) /\ OneEach(next)
    /\ next[1] = CacheEntry(st, q)
    /\ \A a \in 2..Len(next) : \E n \in DOMAIN st.cache :
          next[a] = st.cache[n] /\ st.cache[n].key # q.key

LEMMA EntryMade ==
    ASSUME NEW st, StateOK(st), NEW q, q.key \in Keys, q.basis \in BodyMap
    PROVE  CacheEntry(st, q) \in CacheRow /\ CacheEntry(st, q).key = q.key
<1>1. InheritedOutcome(st, q.key) \in Outcomes \cup {None}
  <2>1. st.cache \in Seq(CacheRow) /\ OneEach(st.cache)
    BY DEF StateOK, OneEach
  <2>2. ASSUME Cached(st, q.key) PROVE Entry(st, q.key).outcome \in Outcomes \cup {None}
    <3>1. PICK n \in DOMAIN st.cache : Entry(st, q.key) = st.cache[n]
      BY <2>1, <2>2, EntryFound
    <3>2. st.cache[n] \in CacheRow
      BY <2>1
    <3> QED BY <3>1, <3>2 DEF CacheRow
  <2> QED BY <2>2 DEF InheritedOutcome
<1>2. (q.asOf # st.fp) \in BOOLEAN
  OBVIOUS
<1> QED BY <1>1, <1>2 DEF CacheEntry, CacheRow

LEMMA SavedCache ==
    ASSUME NEW st, StateOK(st), NEW q, q.key \in Keys, q.basis \in BodyMap,
           NEW l, l = (IF Len(Replaced(st, q)) < CacheLimit THEN Len(Replaced(st, q)) ELSE CacheLimit)
    PROVE  Saved(st, q, SubSeq(Replaced(st, q), 1, l))
<1> DEFINE c == st.cache
           e == CacheEntry(st, q)
           o == Others(c, q.key)
           w == <<e>> \o o
<1>1. c \in Seq(CacheRow) /\ OneEach(c) /\ Len(c) \in Nat /\ DOMAIN c = 1..Len(c)
  BY DEF StateOK, OneEach
<1>2. e \in CacheRow /\ e.key = q.key
  BY EntryMade
<1>3. Part(o, c, q.key, Len(c))
  BY <1>1, OthersIsPart
<1>4. Replaced(st, q) = w
  BY DEF Replaced
<1> HIDE DEF e, o, c
<1>5. o \in Seq(CacheRow) /\ OneEach(o) /\ Len(o) \in Nat /\ DOMAIN o = 1..Len(o)
  BY <1>3 DEF Part
<1>6. ASSUME NEW a \in 1..Len(o) PROVE \E n \in DOMAIN c : o[a] = c[n] /\ c[n].key # q.key
  BY <1>1, <1>3 DEF Part
<1>7. /\ w \in Seq(CacheRow) /\ Len(w) = Len(o) + 1 /\ w[1] = e
      /\ \A a \in 2..Len(w) : a - 1 \in 1..Len(o) /\ w[a] = o[a - 1]
  BY <1>2, <1>5
<1> HIDE DEF w
<1>8. l \in 1..CacheLimit /\ l <= Len(w) /\ l \in Nat
  BY <1>4, <1>5, <1>7, AnswerCacheAssumption
<1> DEFINE t == SubSeq(w, 1, l)
<1>9. t \in Seq(CacheRow) /\ Len(t) = l /\ DOMAIN t = 1..l /\ \A a \in 1..l : t[a] = w[a]
  BY <1>7, <1>8
<1> HIDE DEF t
<1>10. t[1] = e
  BY <1>7, <1>8, <1>9
<1>11. ASSUME NEW a \in 2..l PROVE \E n \in DOMAIN c : t[a] = c[n] /\ c[n].key # q.key
  <2>1. a \in 1..l /\ a \in 2..Len(w)
    BY <1>7, <1>8, <1>5
  <2>2. a - 1 \in 1..Len(o) /\ t[a] = o[a - 1]
    BY <2>1, <1>7, <1>9
  <2> QED BY <2>2, <1>6
<1>12. ASSUME NEW a \in 1..l, NEW b \in 1..l, t[a].key = t[b].key PROVE a = b
  <2>1. CASE a = 1 /\ b # 1
    <3>1. b \in 2..l
      BY <1>8, <2>1
    <3> QED BY <3>1, <1>2, <1>10, <1>11, <1>12, <2>1
  <2>2. CASE b = 1 /\ a # 1
    <3>1. a \in 2..l
      BY <1>8, <2>2
    <3> QED BY <3>1, <1>2, <1>10, <1>11, <1>12, <2>2
  <2>3. CASE a # 1 /\ b # 1
    <3>1. a \in 2..Len(w) /\ b \in 2..Len(w)
      BY <1>5, <1>7, <1>8, <2>3
    <3>2. /\ a - 1 \in DOMAIN o /\ b - 1 \in DOMAIN o
          /\ o[a - 1].key = o[b - 1].key
      BY <3>1, <1>5, <1>7, <1>9, <1>12
    <3>3. a - 1 = b - 1
      BY <3>2, <1>5 DEF OneEach
    <3> QED BY <3>1, <3>3
  <2> QED BY <2>1, <2>2, <2>3
<1>13. Saved(st, q, t)
  BY <1>8, <1>9, <1>10, <1>11, <1>12 DEF Saved, OneEach, e, c
<1> QED BY <1>13, <1>4 DEF t

\* A new answer inherits the rating of the one it replaces, and the others keep theirs.
LEMMA SavedRates ==
    ASSUME NEW st, StateOK(st), NEW q, q.key \in Keys, q.basis \in BodyMap,
           NEW next, Saved(st, q, next.cache)
    PROVE  Rates(st, next)
<1>1. /\ st.cache \in Seq(CacheRow) /\ OneEach(st.cache)
      /\ next.cache \in Seq(CacheRow) /\ OneEach(next.cache)
      /\ DOMAIN next.cache = 1..Len(next.cache) /\ 1 \in DOMAIN next.cache
      /\ next.cache[1] = CacheEntry(st, q)
  BY DEF StateOK, OneEach, Saved
<1>2. CacheEntry(st, q).key = q.key /\ CacheEntry(st, q).outcome = InheritedOutcome(st, q.key)
  BY DEF CacheEntry
<1>3. ASSUME NEW n \in DOMAIN st.cache, st.cache[n].outcome # None,
             Cached(next, st.cache[n].key)
      PROVE  Entry(next, st.cache[n].key).outcome # None
  <2> DEFINE k == st.cache[n].key
  <2>1. Entry(st, k) = st.cache[n] /\ Cached(st, k)
    BY <1>1, EntryFound DEF Cached, Positions
  <2>2. CASE k = q.key
    <3>1. Entry(next, k) = CacheEntry(st, q)
      BY <1>1, <1>2, <2>2, EntryFound
    <3> QED BY <1>2, <1>3, <2>1, <2>2, <3>1 DEF InheritedOutcome
  <2>3. CASE k # q.key
    <3>1. PICK a \in DOMAIN next.cache : Entry(next, k) = next.cache[a] /\ next.cache[a].key = k
      BY <1>1, <1>3, EntryFound
    <3>2. a \in 2..Len(next.cache)
      <4>1. a # 1
        BY <1>1, <1>2, <2>3, <3>1
      <4>2. a \in 1..Len(next.cache) /\ Len(next.cache) \in Nat
        BY <1>1
      <4> QED BY <4>1, <4>2
    <3>3. PICK j \in DOMAIN st.cache : next.cache[a] = st.cache[j]
      BY <3>2 DEF Saved
    <3>4. j = n
      BY <1>1, <3>1, <3>3 DEF OneEach
    <3> QED BY <1>3, <3>1, <3>3, <3>4
  <2> QED BY <2>2, <2>3
<1> QED BY <1>3 DEF Rates

\* A rating changes what is said of an entry, and neither its key nor its basis.
RatedInto(c, d, question, outcome) ==
    /\ d = [n \in DOMAIN c |-> d[n]]
    /\ \A n \in DOMAIN c : d[n] = Rated(c[n], question, outcome)

LEMMA RatedCache ==
    ASSUME NEW st, StateOK(st), NEW question, NEW outcome \in Outcomes,
           NEW next, RatedInto(st.cache, next.cache, question, outcome)
    PROVE  /\ next.cache \in Seq(CacheRow) /\ OneEach(next.cache) /\ Len(next.cache) = Len(st.cache)
           /\ DOMAIN next.cache = DOMAIN st.cache
           /\ \A n \in DOMAIN st.cache : /\ next.cache[n].key = st.cache[n].key
                                         /\ next.cache[n].basis = st.cache[n].basis
                                         /\ next.cache[n].late = st.cache[n].late
           /\ Rates(st, next)
<1> DEFINE c == st.cache
           d == next.cache
<1>1. c \in Seq(CacheRow) /\ OneEach(c) /\ Len(c) \in Nat /\ DOMAIN c = 1..Len(c)
  BY DEF StateOK, OneEach
<1>2. ASSUME NEW e \in CacheRow
      PROVE  /\ Rated(e, question, outcome) \in CacheRow
             /\ Rated(e, question, outcome).key = e.key
             /\ Rated(e, question, outcome).basis = e.basis
             /\ Rated(e, question, outcome).late = e.late
             /\ e.outcome # None => Rated(e, question, outcome).outcome # None
  <2>1. outcome # None
    BY AnswerCacheAssumption
  <2>2. \A e1 \in BOOLEAN : (e1 /\ outcome # "dead_end") \in BOOLEAN
    OBVIOUS
  <2> QED BY <2>1, <2>2 DEF CacheRow, Rated
<1>3. \A n \in DOMAIN c : c[n] \in CacheRow /\ d[n] = Rated(c[n], question, outcome)
  <2>1. RatedInto(c, d, question, outcome)
    OBVIOUS
  <2> HIDE DEF c, d
  <2> QED BY <1>1, <2>1 DEF RatedInto
<1>4. d = [n \in 1..Len(c) |-> d[n]]
  BY <1>1 DEF RatedInto
<1> HIDE DEF d, c
<1>5. \A n \in 1..Len(c) : d[n] \in CacheRow
  BY <1>1, <1>2, <1>3
<1>6. d \in Seq(CacheRow) /\ Len(d) = Len(c) /\ DOMAIN d = DOMAIN c
  BY <1>1, <1>4, <1>5
<1>7. \A n \in DOMAIN c : /\ d[n].key = c[n].key /\ d[n].basis = c[n].basis /\ d[n].late = c[n].late
                          /\ c[n].outcome # None => d[n].outcome # None
  BY <1>2, <1>3
<1>8. OneEach(d)
  BY <1>1, <1>6, <1>7 DEF OneEach
<1>9. ASSUME NEW n \in DOMAIN c, c[n].outcome # None
      PROVE  Entry(next, c[n].key).outcome # None
  <2>1. Entry(next, c[n].key) = d[n]
    BY <1>6, <1>7, <1>8, EntryFound DEF d
  <2> QED BY <2>1, <1>7, <1>9
<1>10. Rates(st, next)
  BY <1>9 DEF Rates, c
<1> QED BY <1>6, <1>7, <1>8, <1>10 DEF d, c

------------------------------------------------------------------------------
\* The invariant: what a cached answer says is kept under its fingerprint.
Keyed == {"lookup", "bump", "retrieve", "remember", "learn", "answering", "save", "rate"}

\* A query that bypasses the cache has no key, and saves nothing.
NeedsKey == {"save", "rate"}

Quoted(c, g, fp, basis) == \A s \in Slugs : Fetched(c, g, fp, s, basis[s])

Kept(c, g, st) ==
    /\ StateOK(st)
    /\ st.fp # None =>
          \A n \in DOMAIN st.cache : ~st.cache[n].late => Quoted(c, g, st.fp, st.cache[n].basis)

\* What a request carries through the awaits of ensureGraph.
Furnished(c, g, q) ==
    /\ q.basis \in BodyMap /\ q.bodies \in BodyMap
    /\ q.rows \subseteq Slugs \X Bodies
    /\ q.asOf # None => Past(c, g, q.asOf) /\ Quoted(c, g, q.asOf, q.basis)
    /\ q.ret \in Keyed => q.key \in Keys \cup {None}
    /\ q.ret \in NeedsKey => q.key \in Keys
    /\ q.ret = "rate" => q.rating \in Outcomes

\* Between its awaits a request works on a question.
Working == {"retrieve", "retrieved", "load_rows", "loaded_rows", "answering"}

KeptRequest(c, g, q) ==
    /\ Furnished(c, g, q)
    /\ q.pc \in Working => q.ret \in Keyed
    /\ q.pc = "saving" => Kept(c, g, q.payload)

\* The state of a request that has not loaded one: nobody has it.
Untouched(i, r) ==
    /\ state[i][r] = Empty
    /\ global[i] # r
    /\ \A p \in Requests : request[i][p].using # r

FreshStates ==
    \A i \in Instances, r \in Requests :
        global[i] = None \/ request[i][r].pc = "loading" => Untouched(i, r)

KeptStates ==
    /\ stored # None => Kept(corpus, gone, stored)
    /\ \A i \in Instances, r \in Requests :
          /\ Kept(corpus, gone, state[i][r])
          /\ KeptRequest(corpus, gone, request[i][r])

CacheInv == Inv /\ KeptStates /\ FreshStates

\* What was read stays true of a corpus that moves on.
LEMMA QuotedMovesOn ==
    ASSUME NEW c \in [Slugs -> Revision \cup {None}], NEW g, NEW d, NEW h,
           MovesOn(c, g, d, h), NEW fp, Past(c, g, fp), NEW basis, Quoted(c, g, fp, basis)
    PROVE  Quoted(d, h, fp, basis)
<1>1. \A s \in Slugs : \A b : Backed(c, g, fp, s, b) => Backed(d, h, fp, s, b)
  BY PastMovesOn
<1> QED BY <1>1 DEF Quoted, Fetched

LEMMA KeptMovesOn ==
    ASSUME NEW c \in [Slugs -> Revision \cup {None}], NEW g, NEW d, NEW h,
           MovesOn(c, g, d, h), NEW st, GoodState(c, g, st), Kept(c, g, st)
    PROVE  Kept(d, h, st)
<1>1. ASSUME st.fp # None, NEW n \in DOMAIN st.cache, ~st.cache[n].late
      PROVE  Quoted(d, h, st.fp, st.cache[n].basis)
  BY <1>1, QuotedMovesOn DEF Kept, GoodState
<1> QED BY <1>1 DEF Kept

LEMMA KeptRequestMovesOn ==
    ASSUME NEW c \in [Slugs -> Revision \cup {None}], NEW g, NEW d, NEW h,
           MovesOn(c, g, d, h), NEW q, GoodRequest(c, g, q), KeptRequest(c, g, q)
    PROVE  KeptRequest(d, h, q)
<1>1. q.asOf # None => Past(d, h, q.asOf) /\ Quoted(d, h, q.asOf, q.basis)
  BY QuotedMovesOn, PastMovesOn DEF KeptRequest, Furnished
<1>2. q.pc = "saving" => Kept(d, h, q.payload)
  BY KeptMovesOn DEF KeptRequest, GoodRequest
<1> QED BY <1>1, <1>2 DEF KeptRequest, Furnished

\* A state without answers has nothing to keep.
LEMMA KeptEmpty ==
    ASSUME NEW c, NEW g, NEW st, StateOK(st), st.cache = <<>>
    PROVE  Kept(c, g, st)
BY DEF Kept

LEMMA EmptyOK == StateOK(Empty) /\ Empty.cache = <<>>
<1>1. NoBodies \in BodyMap
  BY DEF NoBodies, BodyMap
<1> QED BY <1>1, AnswerCacheAssumption DEF StateOK, Empty

\* What a request carries stays when it awaits, saves or goes on.
Same(q, n) ==
    /\ n.basis = q.basis /\ n.bodies = q.bodies /\ n.rows = q.rows
    /\ n.asOf = q.asOf /\ n.key = q.key /\ n.rating = q.rating

\* Where a request can go on with the key it has.
MayGoOn(q, ret) ==
    \/ ret = q.ret \/ ret \notin Keyed
    \/ ret \notin NeedsKey /\ q.key \in Keys \cup {None}
    \/ ret # "rate" /\ q.key \in Keys

LEMMA FurnishedAsIs ==
    ASSUME NEW c, NEW g, NEW q, Furnished(c, g, q), NEW n, Same(q, n), MayGoOn(q, n.ret)
    PROVE  Furnished(c, g, n)
BY DEF Furnished, Same, Keyed, NeedsKey, MayGoOn

LEMMA EnsuringKept ==
    ASSUME NEW c, NEW g, NEW i \in Instances, NEW q, NEW ret, IsRequest(q),
           Furnished(c, g, [q EXCEPT !.ret = ret])
    PROVE  /\ KeptRequest(c, g, Ensuring(i, q, ret))
           /\ Ensuring(i, q, ret).using \in {q.using, global[i]}
           /\ Ensuring(i, q, ret).pc = "loading" => global[i] = None
<1> DEFINE p == [q EXCEPT !.ret = ret]
           m == [q EXCEPT !.ret = ret, !.pc = "loading"]
           n == [q EXCEPT !.ret = ret, !.pc = "listed", !.using = global[i], !.fp = Fingerprint]
<1>1. p.ret = ret
  BY DEF IsRequest, RequestFields
<1>2. Same(p, m) /\ m.ret = p.ret /\ m.pc = "loading" /\ m.using = q.using
  BY DEF IsRequest, RequestFields, Same
<1>3. Same(p, n) /\ n.ret = p.ret /\ n.pc = "listed" /\ n.using = global[i]
  BY DEF IsRequest, RequestFields, Same
<1> HIDE DEF p, m, n
<1>4. Furnished(c, g, p)
  BY DEF p
<1>5. KeptRequest(c, g, m) /\ KeptRequest(c, g, n)
  BY <1>2, <1>3, <1>4, FurnishedAsIs DEF KeptRequest, Working, MayGoOn
<1> QED BY <1>2, <1>3, <1>5 DEF Ensuring, m, n

LEMMA PersistingKept ==
    ASSUME NEW c, NEW g, NEW q, NEW st, NEW next, IsRequest(q),
           Furnished(c, g, [q EXCEPT !.ret = next]), Kept(c, g, st)
    PROVE  /\ KeptRequest(c, g, Persisting(q, st, next))
           /\ Persisting(q, st, next).using = q.using
           /\ Persisting(q, st, next).pc = "saving"
<1> DEFINE p == [q EXCEPT !.ret = next]
           n == [q EXCEPT !.pc = "saving", !.payload = st, !.ret = next]
<1>1. /\ Same(p, n) /\ n.ret = p.ret /\ n.pc = "saving" /\ n.using = q.using
      /\ n.payload = st
  BY DEF IsRequest, RequestFields, Same
<1> HIDE DEF p, n
<1>2. Furnished(c, g, p)
  BY DEF p
<1>3. KeptRequest(c, g, n)
  BY <1>1, <1>2, FurnishedAsIs DEF KeptRequest, Working, MayGoOn
<1> QED BY <1>1, <1>3 DEF Persisting, n

\* Awaiting ensureGraph changes where a request goes on.
LEMMA RetFurnished ==
    ASSUME NEW c, NEW g, NEW q, IsRequest(q), Furnished(c, g, q), NEW ret, MayGoOn(q, ret)
    PROVE  Furnished(c, g, [q EXCEPT !.ret = ret])
<1> DEFINE n == [q EXCEPT !.ret = ret]
<1>1. Same(q, n) /\ n.ret = ret
  BY DEF IsRequest, RequestFields, Same
<1> HIDE DEF n
<1>2. Furnished(c, g, n)
  BY <1>1, FurnishedAsIs DEF MayGoOn
<1> QED BY <1>2 DEF n

LEMMA IdleKept ==
    ASSUME NEW c, NEW g
    PROVE  /\ KeptRequest(c, g, Idle) /\ Furnished(c, g, Idle) /\ IsRequest(Idle)
           /\ Idle.using = None /\ Idle.pc = "idle" /\ Idle.ret = "none"
           /\ \A u : LET n == [Idle EXCEPT !.using = u]
                     IN  /\ IsRequest(n) /\ Furnished(c, g, n)
                         /\ n.using = u /\ n.ret = "none"
<1>1. NoBodies \in BodyMap
  BY DEF NoBodies, BodyMap
<1> QED BY <1>1 DEF Idle, KeptRequest, Working, Furnished, IsRequest, RequestFields, Keyed, NeedsKey

------------------------------------------------------------------------------
\* A step of one request that leaves the corpus and the instance's state alone
\* keeps the invariant, if what it writes is kept.
KeptWrites(i, r) ==
    /\ UNCHANGED <<corpus, gone, global>>
    /\ \E q : /\ Become(i, r, q) /\ KeptRequest(corpus, gone, q)
              /\ q.using \in {Req(i, r).using, global[i], None}
              /\ q.pc = "loading" => global[i] = None
    /\ \/ UNCHANGED state
       \/ /\ Req(i, r).using \in Requests
          /\ \E st : /\ state' = [state EXCEPT ![i][Req(i, r).using] = st]
                     /\ Kept(corpus, gone, st)
                     /\ Rates(state[i][Req(i, r).using], st)

RatingsKept == \A i \in Instances, r \in Requests : Rates(state[i][r], state'[i][r])

\* Nothing happens to the answers of a state that stays.
LEMMA StaysRated ==
    ASSUME CacheInv, NEW i \in Instances, NEW r \in Requests, state'[i][r] = state[i][r]
    PROVE  Rates(state[i][r], state'[i][r])
<1>1. StateOK(state[i][r])
  BY DEF CacheInv, KeptStates, Kept
<1> QED BY <1>1, SameCacheRates

LEMMA KeptWritesKeep ==
    ASSUME CacheInv, Inv', NEW i \in Instances, NEW r \in Requests, KeptWrites(i, r),
           stored' # None => Kept(corpus, gone, stored')
    PROVE  CacheInv' /\ RatingsKept
<1> DEFINE u == request[i][r].using
<1>1. UNCHANGED <<corpus, gone, global>>
  BY DEF KeptWrites
<1>2. PICK q : /\ Become(i, r, q) /\ KeptRequest(corpus, gone, q)
               /\ q.using \in {u, global[i], None}
               /\ q.pc = "loading" => global[i] = None
  BY DEF KeptWrites, Req
<1>3. \A j \in Instances, p \in Requests :
          request'[j][p] = IF j = i /\ p = r THEN q ELSE request[j][p]
  <2>1. request' = [request EXCEPT ![i][r] = q]
    BY <1>2 DEF Become
  <2>2. request = [j \in Instances |-> [p \in Requests |-> request[j][p]]]
    BY DEF CacheInv, Inv, TwoLevels
  <2> QED BY <2>1, <2>2
<1>4. \A j \in Instances, p \in Requests :
          \/ state'[j][p] = state[j][p]
          \/ /\ j = i /\ p = u
             /\ Kept(corpus, gone, state'[j][p])
             /\ Rates(state[j][p], state'[j][p])
  <2>1. CASE UNCHANGED state
    BY <2>1
  <2>2. CASE u \in Requests /\ \E st : /\ state' = [state EXCEPT ![i][u] = st]
                                       /\ Kept(corpus, gone, st)
                                       /\ Rates(state[i][u], st)
    <3>1. PICK st : /\ state' = [state EXCEPT ![i][u] = st]
                    /\ Kept(corpus, gone, st)
                    /\ Rates(state[i][u], st)
      BY <2>2
    <3>2. state = [j \in Instances |-> [p \in Requests |-> state[j][p]]]
      BY DEF CacheInv, Inv, TwoLevels
    <3> HIDE DEF u
    <3>3. ASSUME NEW j \in Instances, NEW p \in Requests
          PROVE  state'[j][p] = IF j = i /\ p = u THEN st ELSE state[j][p]
      BY <3>1, <3>2
    <3> QED BY <3>1, <3>3
  <2> QED BY <2>1, <2>2 DEF KeptWrites, Req
<1> HIDE DEF u
<1>5. RatingsKept
  BY <1>4, StaysRated DEF RatingsKept
<1>6. KeptStates'
  <2>1. \A j \in Instances, p \in Requests : Kept(corpus, gone, state'[j][p])
    BY <1>4 DEF CacheInv, KeptStates
  <2>2. \A j \in Instances, p \in Requests : KeptRequest(corpus, gone, request'[j][p])
    BY <1>2, <1>3 DEF CacheInv, KeptStates
  <2>3. corpus' = corpus /\ gone' = gone
    BY <1>1
  <2> QED BY <2>1, <2>2, <2>3 DEF KeptStates
<1>7. ASSUME NEW j \in Instances, NEW p \in Requests,
             global'[j] = None \/ request'[j][p].pc = "loading"
      PROVE  Untouched(j, p)'
  <2>1. global[j] = None \/ request[j][p].pc = "loading"
    BY <1>1, <1>2, <1>3, <1>7
  <2>2. Untouched(j, p)
    BY <2>1 DEF CacheInv, FreshStates
  <2>3. p # None
    BY AnswerCacheAssumption
  <2>4. ASSUME NEW k \in Requests PROVE request'[j][k].using # p
    BY <1>2, <1>3, <2>2, <2>3 DEF Untouched, u
  <2>5. state'[j][p] = state[j][p]
    BY <1>4, <2>2 DEF Untouched, u
  <2> QED BY <1>1, <2>2, <2>4, <2>5 DEF Untouched
<1>8. FreshStates'
  BY <1>7 DEF FreshStates
<1> QED BY <1>5, <1>6, <1>8 DEF CacheInv

------------------------------------------------------------------------------
\* What the callers of ensureGraph write.

\* Learning touches the vectors only.
LEMMA KeptLearns ==
    ASSUME NEW c, NEW g, NEW st, IsState(st), Kept(c, g, st), NEW rows \in SUBSET (Slugs \X Bodies)
    PROVE  LET next == [st EXCEPT !.vectors = @ \cup rows]
           IN  Kept(c, g, next) /\ Rates(st, next)
<1> DEFINE next == [st EXCEPT !.vectors = @ \cup rows]
<1>1. /\ DOMAIN next = DOMAIN st /\ next.fp = st.fp /\ next.graph = st.graph
      /\ next.cache = st.cache /\ next.vectors = st.vectors \cup rows
  BY DEF IsState, StateFields
<1> HIDE DEF next
<1>2. StateOK(next)
  BY <1>1 DEF Kept, StateOK
<1>3. Rates(st, next)
  BY <1>1, SameCacheRates DEF Kept
<1>4. Kept(c, g, next)
  BY <1>1, <1>2 DEF Kept
<1> QED BY <1>3, <1>4 DEF next

\* A new answer was retrieved under the fingerprint it is saved under, or is late.
LEMMA KeptSaves ==
    ASSUME NEW c, NEW g, NEW st, IsState(st), Kept(c, g, st),
           NEW q, Furnished(c, g, q), q.ret = "save",
           NEW cache, Saved(st, q, cache)
    PROVE  LET next == [st EXCEPT !.cache = cache]
           IN  Kept(c, g, next) /\ Rates(st, next)
<1> DEFINE next == [st EXCEPT !.cache = cache]
<1>1. /\ DOMAIN next = DOMAIN st /\ next.fp = st.fp /\ next.graph = st.graph
      /\ next.cache = cache /\ next.vectors = st.vectors
  BY DEF IsState, StateFields
<1>2. q.key \in Keys /\ q.basis \in BodyMap
  BY DEF Furnished, Keyed, NeedsKey
<1> HIDE DEF next
<1>3. StateOK(st) /\ StateOK(next)
  <2>1. Len(cache) <= CacheLimit
    BY AnswerCacheAssumption DEF Saved
  <2>2. cache \in Seq(CacheRow)
    BY DEF Saved
  <2> QED BY <1>1, <2>1, <2>2 DEF Kept, StateOK, Saved, OneEach
<1>4. Rates(st, next)
  BY <1>1, <1>2, <1>3, SavedRates
<1>5. ASSUME next.fp # None, NEW a \in DOMAIN cache, ~cache[a].late
      PROVE  Quoted(c, g, next.fp, cache[a].basis)
  <2>1. CASE a = 1
    <3>1. cache[a].late = (q.asOf # st.fp) /\ cache[a].basis = q.basis
      BY <2>1 DEF Saved, CacheEntry
    <3>2. q.asOf = st.fp
      BY <3>1, <1>5
    <3> QED BY <1>1, <1>5, <3>1, <3>2 DEF Furnished
  <2>2. CASE a # 1
    <3>1. a \in 2..Len(cache)
      BY <1>5, <2>2 DEF Saved
    <3>2. PICK n \in DOMAIN st.cache : cache[a] = st.cache[n]
      BY <3>1 DEF Saved
    <3> QED BY <1>1, <1>5, <3>2 DEF Kept
  <2> QED BY <2>1, <2>2
<1>6. Kept(c, g, next)
  BY <1>1, <1>3, <1>5 DEF Kept
<1> QED BY <1>4, <1>6 DEF next

LEMMA KeptRates ==
    ASSUME NEW c, NEW g, NEW st, IsState(st), Kept(c, g, st),
           NEW question, NEW outcome \in Outcomes
    PROVE  LET next == [st EXCEPT !.cache = [n \in DOMAIN @ |-> Rated(@[n], question, outcome)]]
           IN  Kept(c, g, next) /\ Rates(st, next)
<1> DEFINE cache == [n \in DOMAIN st.cache |-> Rated(st.cache[n], question, outcome)]
           next == [st EXCEPT !.cache = cache]
<1>1. /\ DOMAIN next = DOMAIN st /\ next.fp = st.fp /\ next.graph = st.graph
      /\ next.cache = cache /\ next.vectors = st.vectors
  <2> HIDE DEF cache
  <2> QED BY DEF IsState, StateFields
<1> HIDE DEF next
<1>2. StateOK(st)
  BY DEF Kept
<1>3. /\ next.cache \in Seq(CacheRow) /\ OneEach(next.cache) /\ Len(next.cache) = Len(st.cache)
      /\ DOMAIN next.cache = DOMAIN st.cache
      /\ \A n \in DOMAIN st.cache : /\ next.cache[n].basis = st.cache[n].basis
                                    /\ next.cache[n].late = st.cache[n].late
      /\ Rates(st, next)
  <2>1. RatedInto(st.cache, next.cache, question, outcome)
    BY <1>1 DEF RatedInto
  <2> HIDE DEF cache
  <2>2. /\ next.cache \in Seq(CacheRow) /\ OneEach(next.cache) /\ Len(next.cache) = Len(st.cache)
        /\ DOMAIN next.cache = DOMAIN st.cache
        /\ \A n \in DOMAIN st.cache : /\ next.cache[n].key = st.cache[n].key
                                      /\ next.cache[n].basis = st.cache[n].basis
                                      /\ next.cache[n].late = st.cache[n].late
        /\ Rates(st, next)
    BY <1>2, <2>1, RatedCache, SMTT(30)
  <2> QED BY <2>2
<1> HIDE DEF cache
<1>4. StateOK(next)
  BY <1>1, <1>2, <1>3 DEF StateOK, OneEach
<1>5. Kept(c, g, next)
  BY <1>1, <1>3, <1>4 DEF Kept
<1> QED BY <1>3, <1>5 DEF next, cache

\* A request that goes on with what it has.
LEMMA KeptGoes ==
    ASSUME NEW c, NEW g, NEW q, IsRequest(q), Furnished(c, g, q), NEW pc, pc # "saving",
           pc \in Working => q.ret \in Keyed
    PROVE  /\ KeptRequest(c, g, [q EXCEPT !.pc = pc])
           /\ [q EXCEPT !.pc = pc].using = q.using
           /\ [q EXCEPT !.pc = pc].pc = pc
<1> DEFINE n == [q EXCEPT !.pc = pc]
<1>1. Same(q, n) /\ n.ret = q.ret /\ n.pc = pc /\ n.using = q.using
  BY DEF IsRequest, RequestFields, Same
<1> HIDE DEF n
<1>2. KeptRequest(c, g, n)
  BY <1>1, FurnishedAsIs DEF KeptRequest, Working, MayGoOn
<1> QED BY <1>1, <1>2 DEF n

\* A query that bypasses the cache carries what it did, but for its key.
LEMMA MissedFurnished ==
    ASSUME NEW c, NEW g, NEW st, NEW q, IsRequest(q), Furnished(c, g, q), q.ret = "lookup"
    PROVE  LET m == Missed(st, q)
           IN  /\ IsRequest(m) /\ Furnished(c, g, m) /\ m.using = q.using
               /\ m.ret = "lookup" /\ m.key \in Keys \cup {None}
<1> DEFINE n == [q EXCEPT !.key = None]
<1>1. /\ IsRequest(n) /\ n.basis = q.basis /\ n.bodies = q.bodies /\ n.rows = q.rows
      /\ n.asOf = q.asOf /\ n.rating = q.rating /\ n.ret = q.ret /\ n.using = q.using
      /\ n.key = None
  BY DEF IsRequest, RequestFields
<1>2. Missed(st, q) \in {q, n}
  BY DEF Missed
<1> HIDE DEF n
<1>3. Furnished(c, g, n)
  BY <1>1 DEF Furnished, NeedsKey
<1>4. q.key \in Keys \cup {None}
  BY DEF Furnished, Keyed
<1> QED BY <1>1, <1>2, <1>3, <1>4

LEMMA KeptLearnWrites ==
    ASSUME CacheInv, NEW i \in Instances, NEW r \in Requests, NEW q,
           IsRequest(q), Furnished(corpus, gone, q), q.using = Req(i, r).using,
           q.using \in Requests, UNCHANGED <<corpus, gone, global>>, q.ret = "learn",
           Learn(i, r, q, state[i][q.using])
    PROVE  KeptWrites(i, r)
<1> DEFINE st == state[i][q.using]
           next == [q EXCEPT !.rows = {}, !.mark = None]
           learned == [st EXCEPT !.vectors = @ \cup q.rows]
           saving == [next EXCEPT !.ret = "answering"]
<1>1. IsState(st) /\ Kept(corpus, gone, st)
  BY DEF CacheInv, Inv, GoodState, KeptStates
<1>2. /\ IsRequest(next) /\ next.rows = {} /\ next.basis = q.basis /\ next.bodies = q.bodies
      /\ next.asOf = q.asOf /\ next.key = q.key /\ next.rating = q.rating
      /\ next.ret = q.ret /\ next.using = q.using
  BY DEF IsRequest, RequestFields
<1>3. q.rows \in SUBSET (Slugs \X Bodies) /\ q.key \in Keys \cup {None}
  BY DEF Furnished, Keyed, NeedsKey
<1> HIDE DEF st
<1>4. Kept(corpus, gone, learned) /\ Rates(st, learned)
  BY <1>1, <1>3, KeptLearns
<1> HIDE DEF next, learned
<1>5. Furnished(corpus, gone, next)
  BY <1>2 DEF Furnished
<1>6. Furnished(corpus, gone, saving)
  BY <1>2, <1>3, <1>5, RetFurnished DEF NeedsKey, MayGoOn
<1>7. CASE /\ StateBecomes(i, q, learned)
           /\ Become(i, r, Persisting(next, learned, "answering"))
  <2>1. /\ KeptRequest(corpus, gone, Persisting(next, learned, "answering"))
        /\ Persisting(next, learned, "answering").using = next.using
        /\ Persisting(next, learned, "answering").pc = "saving"
    BY <1>2, <1>4, <1>6, PersistingKept
  <2> QED BY <1>2, <1>4, <1>7, <2>1 DEF KeptWrites, StateBecomes, st
<1>8. CASE Become(i, r, [next EXCEPT !.pc = "answering"]) /\ UNCHANGED state
  <2>1. /\ KeptRequest(corpus, gone, [next EXCEPT !.pc = "answering"])
        /\ [next EXCEPT !.pc = "answering"].using = next.using
        /\ [next EXCEPT !.pc = "answering"].pc = "answering"
    BY <1>2, <1>5, KeptGoes DEF Keyed
  <2> QED BY <1>2, <1>8, <2>1 DEF KeptWrites
<1> QED BY <1>7, <1>8 DEF Learn, next, learned, st

LEMMA KeptSaveWrites ==
    ASSUME CacheInv, NEW i \in Instances, NEW r \in Requests, NEW q,
           IsRequest(q), Furnished(corpus, gone, q), q.using = Req(i, r).using,
           q.using \in Requests, UNCHANGED <<corpus, gone, global>>, q.ret = "save",
           SaveAnswer(i, r, q, state[i][q.using])
    PROVE  KeptWrites(i, r)
<1> DEFINE st == state[i][q.using]
           cache == Replaced(st, q)
           l == IF Len(cache) < CacheLimit THEN Len(cache) ELSE CacheLimit
           saved == [st EXCEPT !.cache = SubSeq(cache, 1, l)]
           next == [Idle EXCEPT !.using = q.using]
           saving == [next EXCEPT !.ret = "end"]
<1>1. IsState(st) /\ Kept(corpus, gone, st)
  BY DEF CacheInv, Inv, GoodState, KeptStates
<1>2. StateBecomes(i, q, saved) /\ Become(i, r, Persisting(next, saved, "end"))
  BY DEF SaveAnswer
<1>3. IsRequest(next) /\ Furnished(corpus, gone, next) /\ next.using = q.using /\ next.ret = "none"
  BY IdleKept
<1>4. q.key \in Keys /\ q.basis \in BodyMap
  BY DEF Furnished, Keyed, NeedsKey
<1> HIDE DEF st, next
<1>5. Saved(st, q, SubSeq(cache, 1, l))
  <2>1. StateOK(st)
    BY <1>1 DEF Kept
  <2>2. l = IF Len(Replaced(st, q)) < CacheLimit THEN Len(Replaced(st, q)) ELSE CacheLimit
    OBVIOUS
  <2> HIDE DEF l
  <2> QED BY <1>4, <2>1, <2>2, SavedCache
<1> DEFINE kept == SubSeq(cache, 1, l)
<1>6. saved = [st EXCEPT !.cache = kept]
  OBVIOUS
<1>7. Saved(st, q, kept)
  BY <1>5
<1> HIDE DEF kept, saved, l
<1>8. Kept(corpus, gone, saved) /\ Rates(st, saved)
  BY <1>1, <1>6, <1>7, KeptSaves
<1>9. Furnished(corpus, gone, saving)
  BY <1>3, RetFurnished DEF Keyed, NeedsKey, MayGoOn
<1>10. /\ KeptRequest(corpus, gone, Persisting(next, saved, "end"))
       /\ Persisting(next, saved, "end").using = next.using
       /\ Persisting(next, saved, "end").pc = "saving"
  BY <1>3, <1>8, <1>9, PersistingKept
<1> QED BY <1>2, <1>3, <1>8, <1>10 DEF KeptWrites, StateBecomes, st

LEMMA KeptRateWrites ==
    ASSUME CacheInv, NEW i \in Instances, NEW r \in Requests, NEW q,
           IsRequest(q), Furnished(corpus, gone, q), q.using = Req(i, r).using,
           q.using \in Requests, UNCHANGED <<corpus, gone, global>>, q.ret = "rate",
           RecordOutcome(i, r, q, state[i][q.using])
    PROVE  KeptWrites(i, r)
<1> DEFINE st == state[i][q.using]
           rated == [st EXCEPT !.cache = [n \in DOMAIN @ |-> Rated(@[n], q.key[1], q.rating)]]
           next == [q EXCEPT !.key = None, !.rating = None]
           saving == [next EXCEPT !.ret = "snapshot"]
<1>1. IsState(st) /\ Kept(corpus, gone, st)
  BY DEF CacheInv, Inv, GoodState, KeptStates
<1>2. StateBecomes(i, q, rated) /\ Become(i, r, Persisting(next, rated, "snapshot"))
  BY DEF RecordOutcome
<1>3. IsRequest(next) /\ next.using = q.using
  BY DEF IsRequest, RequestFields
<1>4. /\ saving.basis = q.basis /\ saving.bodies = q.bodies /\ saving.rows = q.rows
      /\ saving.asOf = q.asOf /\ saving.ret = "snapshot"
  BY DEF IsRequest, RequestFields
<1> HIDE DEF st, next, saving
<1>5. q.rating \in Outcomes
  BY DEF Furnished
<1>6. Kept(corpus, gone, rated) /\ Rates(st, rated)
  BY <1>1, <1>5, KeptRates
<1> HIDE DEF rated
<1>7. Furnished(corpus, gone, saving)
  BY <1>4 DEF Furnished, Keyed, NeedsKey
<1>8. /\ KeptRequest(corpus, gone, Persisting(next, rated, "snapshot"))
      /\ Persisting(next, rated, "snapshot").using = next.using
      /\ Persisting(next, rated, "snapshot").pc = "saving"
  BY <1>3, <1>6, <1>7, PersistingKept DEF saving
<1> QED BY <1>2, <1>3, <1>6, <1>8 DEF KeptWrites, StateBecomes, st

\* Wherever a request goes on, what it writes is kept.
LEMMA KeptResumes ==
    ASSUME CacheInv, NEW i \in Instances, NEW r \in Requests, NEW q,
           IsRequest(q), Furnished(corpus, gone, q), q.using = Req(i, r).using,
           q.using \in Requests, UNCHANGED <<corpus, gone, global>>, Resume(i, r, q)
    PROVE  KeptWrites(i, r)
<1> DEFINE st == state[i][q.using]
<1>1. Kept(corpus, gone, st)
  BY DEF CacheInv, KeptStates
<1>2. ASSUME NEW ret, MayGoOn(q, ret),
             Become(i, r, Ensuring(i, q, ret)), UNCHANGED state
      PROVE  KeptWrites(i, r)
  <2>1. Furnished(corpus, gone, [q EXCEPT !.ret = ret])
    BY <1>2, RetFurnished DEF MayGoOn
  <2>2. /\ KeptRequest(corpus, gone, Ensuring(i, q, ret))
        /\ Ensuring(i, q, ret).using \in {q.using, global[i]}
        /\ Ensuring(i, q, ret).pc = "loading" => global[i] = None
    BY <2>1, EnsuringKept
  <2> QED BY <1>2, <2>2 DEF KeptWrites
<1>3. ASSUME NEW pc, pc \notin {"saving", "loading"}, q.ret \in Keyed,
             Become(i, r, [q EXCEPT !.pc = pc]), UNCHANGED state
      PROVE  KeptWrites(i, r)
  <2>1. /\ KeptRequest(corpus, gone, [q EXCEPT !.pc = pc])
        /\ [q EXCEPT !.pc = pc].using = q.using
        /\ [q EXCEPT !.pc = pc].pc = pc
    BY <1>3, KeptGoes
  <2> QED BY <1>3, <2>1 DEF KeptWrites
<1>4. ASSUME Become(i, r, Idle), UNCHANGED state PROVE KeptWrites(i, r)
  BY <1>4, IdleKept DEF KeptWrites
<1>5. q.ret \in Keyed => q.key \in Keys \cup {None}
  BY DEF Furnished
<1> HIDE DEF st
<1>6. CASE q.ret = "lookup" /\ Lookup(i, r, q, st)
  <2> DEFINE m == Missed(st, q)
  <2>1. /\ IsRequest(m) /\ Furnished(corpus, gone, m) /\ m.using = q.using
        /\ m.ret = "lookup" /\ m.key \in Keys \cup {None}
    BY <1>6, MissedFurnished
  <2>2. \/ Become(i, r, Ensuring(i, q, "bump"))
        \/ Become(i, r, Ensuring(i, m, "retrieve"))
        \/ Become(i, r, [m EXCEPT !.pc = "retrieve"])
    BY <1>6 DEF Lookup
  <2>3. UNCHANGED state
    BY <1>6 DEF Lookup
  <2> HIDE DEF m
  <2>4. CASE Become(i, r, Ensuring(i, q, "bump"))
    BY <1>2, <1>5, <1>6, <2>3, <2>4 DEF Keyed, NeedsKey, MayGoOn
  <2>5. CASE Become(i, r, Ensuring(i, m, "retrieve"))
    <3>1. Furnished(corpus, gone, [m EXCEPT !.ret = "retrieve"])
      BY <2>1, RetFurnished DEF NeedsKey, MayGoOn
    <3>2. /\ KeptRequest(corpus, gone, Ensuring(i, m, "retrieve"))
          /\ Ensuring(i, m, "retrieve").using \in {m.using, global[i]}
          /\ Ensuring(i, m, "retrieve").pc = "loading" => global[i] = None
      BY <2>1, <3>1, EnsuringKept
    <3> QED BY <2>1, <2>3, <2>5, <3>2 DEF KeptWrites
  <2>6. CASE Become(i, r, [m EXCEPT !.pc = "retrieve"])
    <3>1. /\ KeptRequest(corpus, gone, [m EXCEPT !.pc = "retrieve"])
          /\ [m EXCEPT !.pc = "retrieve"].using = m.using
          /\ [m EXCEPT !.pc = "retrieve"].pc = "retrieve"
      BY <2>1, KeptGoes DEF Keyed
    <3> QED BY <2>1, <2>3, <2>6, <3>1 DEF KeptWrites
  <2> QED BY <2>2, <2>4, <2>5, <2>6
<1>7. CASE q.ret = "bump" /\ Bump(i, r, q, st)
  <2>1. CASE Become(i, r, Persisting(q, st, "end"))
    <3>1. Furnished(corpus, gone, [q EXCEPT !.ret = "end"])
      BY RetFurnished DEF Keyed, NeedsKey, MayGoOn
    <3>2. /\ KeptRequest(corpus, gone, Persisting(q, st, "end"))
          /\ Persisting(q, st, "end").using = q.using
          /\ Persisting(q, st, "end").pc = "saving"
      BY <1>1, <3>1, PersistingKept
    <3> QED BY <1>7, <2>1, <3>2 DEF Bump, KeptWrites
  <2> QED BY <1>4, <1>7, <2>1 DEF Bump
<1>8. CASE q.ret = "retrieve" /\ Become(i, r, [q EXCEPT !.pc = "retrieve"]) /\ UNCHANGED state
  BY <1>3, <1>8 DEF Keyed
<1>9. CASE /\ q.ret = "remember"
           /\ Become(i, r, [q EXCEPT !.pc = "load_rows", !.mark = st.fp])
           /\ UNCHANGED state
  <2> DEFINE n == [q EXCEPT !.pc = "load_rows", !.mark = st.fp]
  <2>1. Same(q, n) /\ n.ret = q.ret /\ n.pc = "load_rows" /\ n.using = q.using
    BY DEF IsRequest, RequestFields, Same
  <2>2. Become(i, r, n)
    BY <1>9
  <2> HIDE DEF n
  <2>3. KeptRequest(corpus, gone, n)
    BY <1>9, <2>1, FurnishedAsIs DEF KeptRequest, Keyed, NeedsKey, MayGoOn
  <2> QED BY <1>9, <2>1, <2>2, <2>3 DEF KeptWrites
<1>10. CASE q.ret = "learn" /\ Learn(i, r, q, st)
  BY <1>10, KeptLearnWrites DEF st
<1>11. CASE q.ret = "answering" /\ Become(i, r, [q EXCEPT !.pc = "answering"]) /\ UNCHANGED state
  BY <1>3, <1>11 DEF Keyed
<1>12. CASE q.ret = "save" /\ SaveAnswer(i, r, q, st)
  BY <1>12, KeptSaveWrites DEF st
<1>13. CASE q.ret = "rate" /\ RecordOutcome(i, r, q, st)
  BY <1>13, KeptRateWrites DEF st
<1>14. CASE q.ret = "snapshot" /\ Become(i, r, Ensuring(i, q, "end")) /\ UNCHANGED state
  BY <1>2, <1>14 DEF Keyed, NeedsKey, MayGoOn
<1>15. CASE q.ret = "end" /\ Become(i, r, Idle) /\ UNCHANGED state
  BY <1>4, <1>15
<1> QED
  BY <1>6, <1>7, <1>8, <1>9, <1>10, <1>11, <1>12, <1>13, <1>14, <1>15 DEF Resume, st

------------------------------------------------------------------------------
\* One lemma for every action.

LEMMA CacheInit == Init => CacheInv
<1> SUFFICES ASSUME Init PROVE CacheInv
  OBVIOUS
<1>1. Kept(corpus, gone, Empty)
  BY EmptyOK, KeptEmpty
<1>2. KeptStates
  BY <1>1, IdleKept DEF Init, KeptStates
<1>3. None \notin Requests
  BY AnswerCacheAssumption
<1>4. FreshStates
  BY <1>3, IdleKept DEF Init, FreshStates, Untouched
<1> QED BY <1>2, <1>4, InvInit DEF CacheInv

\* What a request knows when it goes on.
LEMMA CarriedOn ==
    ASSUME CacheInv, NEW i \in Instances, NEW r \in Requests, NEW n,
           Same(request[i][r], n), n.ret = request[i][r].ret
    PROVE  Furnished(corpus, gone, n)
BY FurnishedAsIs DEF CacheInv, KeptStates, KeptRequest, MayGoOn

\* The first request of an instance gives it a state nobody has written to.
LEMMA LoadStateKeeps ==
    ASSUME CacheInv, Inv', NEW i \in Instances, NEW r \in Requests, LoadState(i, r)
    PROVE  CacheInv' /\ RatingsKept
<1> DEFINE q == request[i][r]
           n == [q EXCEPT !.pc = "listed", !.using = r, !.fp = Fingerprint]
<1>1. IsRequest(q) /\ q.pc = "loading"
  BY DEF CacheInv, Inv, GoodRequest, LoadState, At, Req
<1>2. /\ request' = [request EXCEPT ![i][r] = n] /\ global' = [global EXCEPT ![i] = r]
      /\ UNCHANGED <<corpus, stored, gone>>
  BY DEF LoadState, Become, Req
<1>3. Same(q, n) /\ n.ret = q.ret /\ n.pc = "listed" /\ n.using = r
  BY <1>1 DEF IsRequest, RequestFields, Same
<1>4. Untouched(i, r)
  BY <1>1 DEF CacheInv, FreshStates
<1>5. Kept(corpus, gone, Empty)
  BY EmptyOK, KeptEmpty
<1>6. PICK st : state' = [state EXCEPT ![i][r] = st] /\ Kept(corpus, gone, st)
  BY <1>5 DEF LoadState, CacheInv, KeptStates
<1>7. \A j \in Instances, p \in Requests :
          /\ state'[j][p] = IF j = i /\ p = r THEN st ELSE state[j][p]
          /\ request'[j][p] = IF j = i /\ p = r THEN n ELSE request[j][p]
          /\ global'[j] = IF j = i THEN r ELSE global[j]
  <2>1. /\ state = [j \in Instances |-> [p \in Requests |-> state[j][p]]]
        /\ request = [j \in Instances |-> [p \in Requests |-> request[j][p]]]
        /\ global = [j \in Instances |-> global[j]]
    BY DEF CacheInv, Inv, TwoLevels
  <2> HIDE DEF q, n
  <2> QED BY <1>2, <1>6, <2>1
<1>8. KeptRequest(corpus, gone, n)
  BY <1>3, CarriedOn DEF KeptRequest, Working
<1> HIDE DEF q, n
<1>9. KeptStates'
  <2>1. \A j \in Instances, p \in Requests :
            Kept(corpus, gone, state'[j][p]) /\ KeptRequest(corpus, gone, request'[j][p])
    BY <1>6, <1>7, <1>8 DEF CacheInv, KeptStates
  <2>2. corpus' = corpus /\ gone' = gone /\ stored' = stored
    BY <1>2
  <2> QED BY <2>1, <2>2 DEF CacheInv, KeptStates
<1>10. ASSUME NEW j \in Instances, NEW p \in Requests,
              global'[j] = None \/ request'[j][p].pc = "loading"
       PROVE  Untouched(j, p)'
  <2>1. r # None
    BY AnswerCacheAssumption
  <2>2. global[j] = None \/ request[j][p].pc = "loading"
    BY <1>3, <1>7, <1>10, <2>1
  <2>3. ~(j = i /\ p = r)
    BY <1>3, <1>7, <1>10, <2>1
  <2>4. Untouched(j, p)
    BY <2>2 DEF CacheInv, FreshStates
  <2>5. \A k \in Requests : request'[j][k].using # p
    BY <1>3, <1>7, <2>3, <2>4 DEF Untouched
  <2>6. state'[j][p] = state[j][p] /\ global'[j] # p
    BY <1>7, <2>3, <2>4 DEF Untouched
  <2> QED BY <2>4, <2>5, <2>6 DEF Untouched
<1>11. RatingsKept
  <2>1. Rates(state[i][r], state'[i][r])
    BY <1>4, EmptyOK DEF Untouched, Rates
  <2> QED BY <1>7, <2>1, StaysRated DEF RatingsKept
<1> QED BY <1>9, <1>10, <1>11 DEF CacheInv, FreshStates

LEMMA CompareFingerprintKeeps ==
    ASSUME CacheInv, Inv', NEW i \in Instances, NEW r \in Requests, CompareFingerprint(i, r)
    PROVE  CacheInv' /\ RatingsKept
<1> DEFINE q == request[i][r]
           cleared == [q EXCEPT !.fp = None]
           n == [q EXCEPT !.pc = "fetching", !.left = Listed(q.fp)]
<1>1. IsRequest(q) /\ q.using \in Requests
  BY DEF CacheInv, Inv, GoodRequest, CompareFingerprint, At, Req
<1>2. IsRequest(cleared) /\ Same(q, cleared) /\ cleared.ret = q.ret /\ cleared.using = q.using
  BY <1>1 DEF IsRequest, RequestFields, Same
<1>3. Same(q, n) /\ n.ret = q.ret /\ n.pc = "fetching" /\ n.using = q.using
  BY <1>1 DEF IsRequest, RequestFields, Same
<1>4. Resume(i, r, cleared) \/ (Become(i, r, n) /\ UNCHANGED state)
  BY DEF CompareFingerprint, Req
<1>5. UNCHANGED <<corpus, gone, global>> /\ stored' = stored
  BY DEF CompareFingerprint, OnlyState
<1>6. Furnished(corpus, gone, cleared) /\ Furnished(corpus, gone, n)
  BY <1>2, <1>3, CarriedOn
<1>7. q = Req(i, r)
  BY DEF Req
<1> HIDE DEF q, cleared, n
<1>8. KeptWrites(i, r)
  <2>1. CASE Resume(i, r, cleared)
    BY <1>1, <1>2, <1>5, <1>6, <1>7, <2>1, KeptResumes
  <2>2. CASE Become(i, r, n) /\ UNCHANGED state
    <3>1. KeptRequest(corpus, gone, n)
      BY <1>3, <1>6 DEF KeptRequest, Working
    <3> QED BY <1>3, <1>5, <1>7, <2>2, <3>1 DEF KeptWrites
  <2> QED BY <1>4, <2>1, <2>2
<1> QED BY <1>5, <1>8, KeptWritesKeep DEF CacheInv, KeptStates

LEMMA FetchDocumentKeeps ==
    ASSUME CacheInv, Inv', NEW i \in Instances, NEW r \in Requests,
           NEW s \in Req(i, r).left, FetchDocument(i, r, s)
    PROVE  CacheInv' /\ RatingsKept
<1> DEFINE q == request[i][r]
           n == [q EXCEPT !.left = @ \ {s}, !.bodies[s] = BodyOf(s)]
<1>1. GoodRequest(corpus, gone, q) /\ KeptRequest(corpus, gone, q) /\ q.pc = "fetching"
  BY DEF CacheInv, Inv, KeptStates, FetchDocument, At, Req
<1>2. Become(i, r, n) /\ UNCHANGED <<corpus, state, global, stored, gone>>
  BY DEF FetchDocument, OnlyRequest, Req
<1>3. /\ n.basis = q.basis /\ n.rows = q.rows /\ n.asOf = q.asOf /\ n.key = q.key
      /\ n.rating = q.rating /\ n.ret = q.ret /\ n.pc = "fetching" /\ n.using = q.using
      /\ n.bodies = [q.bodies EXCEPT ![s] = BodyOf(s)]
  BY <1>1 DEF GoodRequest, IsRequest, RequestFields
<1>4. q = Req(i, r)
  BY DEF Req
<1> HIDE DEF q, n
<1>5. BodyOf(s) \in Bodies \cup {None} /\ s \in Slugs
  <2>1. s \in Slugs
    BY <1>1, <1>4 DEF GoodRequest, GoodFetch, Listed
  <2> QED BY <2>1 DEF CacheInv, Inv, TypeOKCorpus, Revision, BodyOf, Named
<1>6. n.bodies \in BodyMap
  BY <1>1, <1>3, <1>5 DEF KeptRequest, Furnished, BodyMap
<1>7. KeptRequest(corpus, gone, n)
  BY <1>1, <1>3, <1>6 DEF KeptRequest, Furnished, Working
<1>8. KeptWrites(i, r)
  BY <1>2, <1>3, <1>4, <1>7 DEF KeptWrites
<1> QED BY <1>2, <1>8, KeptWritesKeep DEF CacheInv, KeptStates

\* A new graph has no answers yet.
LEMMA RebuildKeeps ==
    ASSUME CacheInv, Inv', NEW i \in Instances, NEW r \in Requests, Rebuild(i, r)
    PROVE  CacheInv' /\ RatingsKept
<1> DEFINE q == request[i][r]
           st == Derived(state[i][q.using], q)
           n == [q EXCEPT !.fp = None, !.bodies = NoBodies]
           saving == [n EXCEPT !.ret = q.ret]
<1>1. GoodRequest(corpus, gone, q) /\ KeptRequest(corpus, gone, q) /\ q.pc = "fetching"
  BY DEF CacheInv, Inv, KeptStates, Rebuild, At, Req
<1>2. /\ StateBecomes(i, q, st) /\ Become(i, r, Persisting(n, st, q.ret))
      /\ UNCHANGED <<corpus, gone, global>> /\ stored' = stored
  BY DEF Rebuild, Req, Used, OnlyState
<1>3. IsRequest(n) /\ n.using = q.using
  BY <1>1 DEF GoodRequest, IsRequest, RequestFields
<1>4. /\ saving.basis = q.basis /\ saving.rows = q.rows /\ saving.asOf = q.asOf
      /\ saving.key = q.key /\ saving.rating = q.rating /\ saving.ret = q.ret
      /\ saving.bodies = NoBodies
  BY <1>1 DEF GoodRequest, IsRequest, RequestFields
<1>5. /\ DOMAIN st = {"fp", "graph", "cache", "vectors"} /\ st.fp = q.fp
      /\ st.graph = q.bodies /\ st.cache = <<>> /\ st.vectors = {}
  BY DEF Derived
<1>6. q = Req(i, r)
  BY DEF Req
<1> HIDE DEF q, st, n, saving
<1>7. StateOK(st)
  <2>1. q.fp \in Prints /\ q.bodies \in BodyMap
    BY <1>1 DEF GoodRequest, GoodFetch, Past, KeptRequest, Furnished
  <2> QED BY <1>5, <2>1, AnswerCacheAssumption DEF StateOK
<1>8. Kept(corpus, gone, st)
  BY <1>5, <1>7, KeptEmpty
<1>9. Rates(state[i][q.using], st)
  BY <1>5 DEF Rates, Cached, Positions
<1>10. NoBodies \in BodyMap
  BY DEF NoBodies, BodyMap
<1>11. Furnished(corpus, gone, saving)
  BY <1>1, <1>4, <1>10 DEF KeptRequest, Furnished
<1>12. /\ KeptRequest(corpus, gone, Persisting(n, st, q.ret))
       /\ Persisting(n, st, q.ret).using = n.using
       /\ Persisting(n, st, q.ret).pc = "saving"
  BY <1>3, <1>8, <1>11, PersistingKept DEF saving
<1>13. q.using \in Requests
  BY <1>1 DEF GoodRequest
<1>14. KeptWrites(i, r)
  BY <1>2, <1>3, <1>6, <1>8, <1>9, <1>12, <1>13 DEF KeptWrites, StateBecomes
<1> QED BY <1>2, <1>14, KeptWritesKeep DEF CacheInv, KeptStates

LEMMA SaveRowKeeps ==
    ASSUME CacheInv, Inv', NEW i \in Instances, NEW r \in Requests, SaveRow(i, r)
    PROVE  CacheInv' /\ RatingsKept
<1> DEFINE q == request[i][r]
           n == [q EXCEPT !.payload = None]
<1>1. /\ IsRequest(q) /\ q.using \in Requests
      /\ Kept(corpus, gone, q.payload)
  BY DEF CacheInv, Inv, KeptStates, KeptRequest, GoodRequest, SaveRow, At, Req
<1>2. IsRequest(n) /\ Same(q, n) /\ n.ret = q.ret /\ n.using = q.using
  BY <1>1 DEF IsRequest, RequestFields, Same
<1>3. /\ Resume(i, r, n) /\ UNCHANGED <<corpus, gone, global>>
      /\ stored' = q.payload \/ stored' = stored
  BY DEF SaveRow, Req
<1>4. Furnished(corpus, gone, n)
  BY <1>2, CarriedOn
<1>5. q = Req(i, r)
  BY DEF Req
<1> HIDE DEF q, n
<1>6. KeptWrites(i, r)
  BY <1>1, <1>2, <1>3, <1>4, <1>5, KeptResumes
<1>7. stored' # None => Kept(corpus, gone, stored')
  BY <1>1, <1>3 DEF CacheInv, KeptStates
<1> QED BY <1>6, <1>7, KeptWritesKeep

\* A request that awaits ensureGraph with what it has.
LEMMA EnsuringKeeps ==
    ASSUME CacheInv, Inv', NEW i \in Instances, NEW r \in Requests, NEW q, NEW ret,
           IsRequest(q), Furnished(corpus, gone, [q EXCEPT !.ret = ret]),
           q.using \in {Req(i, r).using, None},
           Become(i, r, Ensuring(i, q, ret)), UNCHANGED <<corpus, state, global, stored, gone>>
    PROVE  CacheInv' /\ RatingsKept
<1>1. /\ KeptRequest(corpus, gone, Ensuring(i, q, ret))
      /\ Ensuring(i, q, ret).using \in {q.using, global[i]}
      /\ Ensuring(i, q, ret).pc = "loading" => global[i] = None
  BY EnsuringKept
<1>2. KeptWrites(i, r)
  BY <1>1 DEF KeptWrites
<1> QED BY <1>2, KeptWritesKeep DEF CacheInv, KeptStates

\* Remember, CheckRevision and Answer.
LEMMA EnsureKeeps ==
    ASSUME CacheInv, Inv', NEW i \in Instances, NEW r \in Requests, NEW ret, ret # "rate",
           Req(i, r).pc \in Working, ret = "save" => Req(i, r).key # None,
           Become(i, r, Ensuring(i, Req(i, r), ret)), OnlyRequest
    PROVE  CacheInv' /\ RatingsKept
<1>1. IsRequest(Req(i, r)) /\ KeptRequest(corpus, gone, Req(i, r))
  BY DEF CacheInv, Inv, GoodRequest, KeptStates, Req
<1>2. Furnished(corpus, gone, [Req(i, r) EXCEPT !.ret = ret])
  BY <1>1, RetFurnished DEF KeptRequest, Furnished, NeedsKey, MayGoOn
<1> QED BY <1>1, <1>2, EnsuringKeeps DEF OnlyRequest

LEMMA AskKeeps ==
    ASSUME CacheInv, Inv', NEW i \in Instances, NEW r \in Requests, NEW k \in Keys, Ask(i, r, k)
    PROVE  CacheInv' /\ RatingsKept
<1> DEFINE q == [Idle EXCEPT !.key = k]
           n == [q EXCEPT !.ret = "lookup"]
<1>1. IsRequest(q) /\ q.using = None
  BY DEF Idle, IsRequest, RequestFields
<1>2. /\ n.basis = NoBodies /\ n.bodies = NoBodies /\ n.rows = {} /\ n.asOf = None
      /\ n.key = k /\ n.ret = "lookup"
  BY DEF Idle
<1>3. /\ Become(i, r, Ensuring(i, q, "lookup"))
      /\ UNCHANGED <<corpus, state, global, stored, gone>>
  BY DEF Ask
<1> HIDE DEF n
<1>4. NoBodies \in BodyMap
  BY DEF NoBodies, BodyMap
<1>5. Furnished(corpus, gone, n)
  BY <1>2, <1>4 DEF Furnished
<1>6. Furnished(corpus, gone, [q EXCEPT !.ret = "lookup"])
  BY <1>5 DEF n
<1> HIDE DEF q
<1> QED BY <1>1, <1>3, <1>6, EnsuringKeeps

LEMMA RateKeeps ==
    ASSUME CacheInv, Inv', NEW i \in Instances, NEW r \in Requests,
           NEW question \in Questions, NEW outcome \in Outcomes, Rate(i, r, question, outcome)
    PROVE  CacheInv' /\ RatingsKept
<1>1. PICK p \in Policies :
          Become(i, r, Ensuring(i, [Idle EXCEPT !.key = <<question, p>>, !.rating = outcome], "rate"))
  BY DEF Rate
<1> DEFINE q == [Idle EXCEPT !.key = <<question, p>>, !.rating = outcome]
           n == [q EXCEPT !.ret = "rate"]
<1>2. IsRequest(q) /\ q.using = None
  BY DEF Idle, IsRequest, RequestFields
<1>3. /\ n.basis = NoBodies /\ n.bodies = NoBodies /\ n.rows = {} /\ n.asOf = None
      /\ n.key = <<question, p>> /\ n.rating = outcome
  BY DEF Idle
<1>4. /\ Become(i, r, Ensuring(i, q, "rate"))
      /\ UNCHANGED <<corpus, state, global, stored, gone>>
  BY <1>1 DEF Rate
<1> HIDE DEF n
<1>5. NoBodies \in BodyMap
  BY DEF NoBodies, BodyMap
<1>6. Furnished(corpus, gone, n)
  BY <1>3, <1>5 DEF Furnished, Keys
<1>7. Furnished(corpus, gone, [q EXCEPT !.ret = "rate"])
  BY <1>6 DEF n
<1> HIDE DEF q
<1> QED BY <1>2, <1>4, <1>7, EnsuringKeeps

\* Passages are read from the corpus of the fingerprint they are kept under.
LEMMA RetrieveKeeps ==
    ASSUME CacheInv, Inv', NEW i \in Instances, NEW r \in Requests, Retrieve(i, r)
    PROVE  CacheInv' /\ RatingsKept
<1> DEFINE q == request[i][r]
           basis == [s \in Slugs |-> BodyOf(s)]
           n == [q EXCEPT !.pc = "retrieved", !.asOf = Fingerprint, !.basis = basis]
<1>1. IsRequest(q) /\ KeptRequest(corpus, gone, q) /\ q.pc = "retrieve"
  BY DEF CacheInv, Inv, GoodRequest, KeptStates, Retrieve, At, Req
<1>2. /\ n.bodies = q.bodies /\ n.rows = q.rows /\ n.key = q.key /\ n.rating = q.rating
      /\ n.ret = q.ret /\ n.pc = "retrieved" /\ n.using = q.using
      /\ n.asOf = Fingerprint /\ n.basis = basis
  BY <1>1 DEF IsRequest, RequestFields
<1>3. Become(i, r, n) /\ UNCHANGED <<corpus, state, global, stored, gone>>
  BY DEF Retrieve, OnlyRequest, Req
<1>4. q = Req(i, r)
  BY DEF Req
<1>5. \A s \in Slugs : BodyOf(s) \in Bodies \cup {None}
  BY DEF CacheInv, Inv, TypeOKCorpus, Revision, BodyOf, Named
<1>6. basis \in BodyMap /\ \A s \in Slugs : basis[s] = BodyOf(s)
  BY <1>5 DEF BodyMap
<1> HIDE DEF q, n, basis
<1>7. Past(corpus, gone, Fingerprint)
  BY FingerprintIsPast DEF CacheInv, Inv
<1>8. ASSUME NEW s \in Slugs PROVE Fetched(corpus, gone, Fingerprint, s, basis[s])
  <2>1. CASE Named(s)
    <3>1. Fingerprint[s] # None
      <4>1. corpus[s] \in Revision
        BY <2>1 DEF CacheInv, Inv, TypeOKCorpus, Named
      <4>2. Fingerprint[s] \in VersionPrint
        BY <2>1, <4>1 DEF Fingerprint, VersionPrint, Revision
      <4> QED BY <4>2, NoneIsNoPrint
    <3> QED BY <1>6, <2>1, <3>1 DEF Fetched, Backed, BodyOf, Named, NamedIn
  <2>2. CASE ~Named(s)
    BY <1>6, <2>2 DEF Fetched, Backed, BodyOf, Fingerprint
  <2> QED BY <2>1, <2>2
<1>9. KeptRequest(corpus, gone, n)
  BY <1>1, <1>2, <1>6, <1>7, <1>8 DEF KeptRequest, Furnished, Quoted, Working
<1>10. KeptWrites(i, r)
  BY <1>2, <1>3, <1>4, <1>9 DEF KeptWrites
<1> QED BY <1>3, <1>10, KeptWritesKeep DEF CacheInv, KeptStates

LEMMA LoadRowsKeeps ==
    ASSUME CacheInv, Inv', NEW i \in Instances, NEW r \in Requests, LoadRows(i, r)
    PROVE  CacheInv' /\ RatingsKept
<1> DEFINE q == request[i][r]
<1>1. IsRequest(q) /\ KeptRequest(corpus, gone, q) /\ q.pc = "load_rows"
  BY DEF CacheInv, Inv, GoodRequest, KeptStates, LoadRows, At, Req
<1>2. PICK vectors \in SUBSET {s \in Slugs : Named(s)} :
          Become(i, r, [q EXCEPT !.pc = "loaded_rows",
                                 !.rows = {<<s, BodyOf(s)>> : s \in vectors}])
  BY DEF LoadRows, Req
<1> DEFINE rows == {<<s, BodyOf(s)>> : s \in vectors}
           n == [q EXCEPT !.pc = "loaded_rows", !.rows = rows]
<1>3. /\ n.basis = q.basis /\ n.bodies = q.bodies /\ n.asOf = q.asOf /\ n.key = q.key
      /\ n.rating = q.rating /\ n.ret = q.ret /\ n.pc = "loaded_rows" /\ n.using = q.using
      /\ n.rows = rows
  BY <1>1 DEF IsRequest, RequestFields
<1>4. Become(i, r, n) /\ UNCHANGED <<corpus, state, global, stored, gone>>
  BY <1>2 DEF LoadRows, OnlyRequest
<1>5. q = Req(i, r)
  BY DEF Req
<1>6. rows \subseteq Slugs \X Bodies
  <2>1. ASSUME NEW s \in vectors PROVE s \in Slugs /\ BodyOf(s) \in Bodies
    BY <2>1 DEF CacheInv, Inv, TypeOKCorpus, Revision, BodyOf, Named
  <2> QED BY <2>1
<1> HIDE DEF q, n, rows
<1>7. KeptRequest(corpus, gone, n)
  BY <1>1, <1>3, <1>6 DEF KeptRequest, Furnished, Working
<1>8. KeptWrites(i, r)
  BY <1>3, <1>4, <1>5, <1>7 DEF KeptWrites
<1> QED BY <1>4, <1>8, KeptWritesKeep DEF CacheInv, KeptStates

LEMMA EndUnsavedKeeps ==
    ASSUME CacheInv, Inv', NEW i \in Instances, NEW r \in Requests, EndUnsaved(i, r)
    PROVE  CacheInv' /\ RatingsKept
<1>1. KeptWrites(i, r)
  BY IdleKept DEF EndUnsaved, OnlyRequest, KeptWrites
<1> QED BY <1>1, KeptWritesKeep DEF EndUnsaved, OnlyRequest, CacheInv, KeptStates

LEMMA RestartKeeps ==
    ASSUME CacheInv, Inv', NEW i \in Instances, Restart(i)
    PROVE  CacheInv' /\ RatingsKept
<1>1. UNCHANGED <<corpus, stored, gone>>
  BY DEF Restart
<1>2. \A j \in Instances, p \in Requests :
          /\ state'[j][p] = IF j = i THEN Empty ELSE state[j][p]
          /\ request'[j][p] = IF j = i THEN Idle ELSE request[j][p]
          /\ global'[j] = IF j = i THEN None ELSE global[j]
  <2>1. /\ state = [j \in Instances |-> [p \in Requests |-> state[j][p]]]
        /\ request = [j \in Instances |-> [p \in Requests |-> request[j][p]]]
        /\ global = [j \in Instances |-> global[j]]
    BY DEF CacheInv, Inv, TwoLevels
  <2> QED BY <2>1 DEF Restart
<1>3. Kept(corpus, gone, Empty)
  BY EmptyOK, KeptEmpty
<1>4. KeptStates'
  <2>1. \A j \in Instances, p \in Requests :
            Kept(corpus, gone, state'[j][p]) /\ KeptRequest(corpus, gone, request'[j][p])
    BY <1>2, <1>3, IdleKept DEF CacheInv, KeptStates
  <2> QED BY <1>1, <2>1 DEF CacheInv, KeptStates
<1>5. ASSUME NEW j \in Instances, NEW p \in Requests,
             global'[j] = None \/ request'[j][p].pc = "loading"
      PROVE  Untouched(j, p)'
  <2>1. p # None
    BY AnswerCacheAssumption
  <2>2. CASE j = i
    BY <1>2, <2>1, <2>2, IdleKept DEF Untouched
  <2>3. CASE j # i
    <3>1. Untouched(j, p)
      BY <1>2, <1>5, <2>3 DEF CacheInv, FreshStates
    <3> QED BY <1>2, <2>3, <3>1 DEF Untouched
  <2> QED BY <2>2, <2>3
<1>6. ASSUME NEW j \in Instances, NEW p \in Requests PROVE Rates(state[j][p], state'[j][p])
  <2>1. CASE j = i
    <3>1. state'[j][p].cache = <<>>
      BY <1>2, <2>1, EmptyOK
    <3> QED BY <3>1 DEF Rates, Cached, Positions
  <2>2. CASE j # i
    BY <1>2, <2>2, StaysRated
  <2> QED BY <2>1, <2>2
<1> QED BY <1>4, <1>5, <1>6 DEF CacheInv, FreshStates, RatingsKept

LEMMA CorpusChangeKeeps ==
    ASSUME CacheInv, Inv', CorpusChange
    PROVE  CacheInv' /\ RatingsKept
<1>1. MovesOn(corpus, gone, corpus', gone')
  BY ChangeMovesOn DEF CacheInv, Inv
<1>2. UNCHANGED <<state, global, stored, request>>
  BY DEF CorpusChange
<1>3. corpus \in [Slugs -> Revision \cup {None}]
  BY DEF CacheInv, Inv, TypeOKCorpus
<1>4. \A i \in Instances, r \in Requests :
          /\ Kept(corpus', gone', state[i][r])
          /\ KeptRequest(corpus', gone', request[i][r])
  BY <1>1, <1>3, KeptMovesOn, KeptRequestMovesOn DEF CacheInv, Inv, KeptStates
<1>5. stored # None => Kept(corpus', gone', stored)
  BY <1>1, <1>3, KeptMovesOn DEF CacheInv, Inv, KeptStates
<1>6. KeptStates'
  BY <1>2, <1>4, <1>5 DEF KeptStates
<1>7. FreshStates'
  BY <1>2 DEF CacheInv, FreshStates, Untouched
<1>8. RatingsKept
  BY <1>2, StaysRated DEF RatingsKept
<1> QED BY <1>6, <1>7, <1>8 DEF CacheInv

LEMMA CacheStep == CacheInv /\ [Next]_vars => CacheInv' /\ RatingsKept
<1> SUFFICES ASSUME CacheInv, [Next]_vars PROVE CacheInv' /\ RatingsKept
  OBVIOUS
<1>1. Inv'
  BY InvStep DEF CacheInv
<1>2. ASSUME NEW i \in Instances, NEW r \in Requests, Step(i, r)
      PROVE  CacheInv' /\ RatingsKept
  <2>1. CASE LoadState(i, r)
    BY <1>1, <2>1, LoadStateKeeps
  <2>2. CASE CompareFingerprint(i, r)
    BY <1>1, <2>2, CompareFingerprintKeeps
  <2>3. CASE \E s \in Req(i, r).left : FetchDocument(i, r, s)
    BY <1>1, <2>3, FetchDocumentKeeps
  <2>4. CASE Rebuild(i, r)
    BY <1>1, <2>4, RebuildKeeps
  <2>5. CASE SaveRow(i, r)
    BY <1>1, <2>5, SaveRowKeeps
  <2>6. CASE Retrieve(i, r)
    BY <1>1, <2>6, RetrieveKeeps
  <2>7. CASE Remember(i, r)
    BY <1>1, <2>7, EnsureKeeps DEF Remember, At, Working
  <2>8. CASE LoadRows(i, r)
    BY <1>1, <2>8, LoadRowsKeeps
  <2>9. CASE CheckRevision(i, r)
    BY <1>1, <2>9, EnsureKeeps DEF CheckRevision, At, Working
  <2>10. CASE EndUnsaved(i, r)
    BY <1>1, <2>10, EndUnsavedKeeps
  <2>11. CASE Answer(i, r)
    BY <1>1, <2>11, EnsureKeeps DEF Answer, Answering, At, Working
  <2> QED
    BY <1>2, <2>1, <2>2, <2>3, <2>4, <2>5, <2>6, <2>7, <2>8, <2>9, <2>10, <2>11 DEF Step
<1>3. CASE UNCHANGED vars
  <2>1. CacheInv'
    BY <1>1, <1>3 DEF vars, CacheInv, KeptStates, FreshStates, Untouched
  <2>2. RatingsKept
    BY <1>3, StaysRated DEF vars, RatingsKept
  <2> QED BY <2>1, <2>2
<1> QED
  BY <1>1, <1>2, <1>3, AskKeeps, RateKeeps, CorpusChangeKeeps, RestartKeeps DEF Next

LEMMA CacheInvHolds == Spec => []CacheInv
BY CacheInit, CacheStep, PTL DEF Spec

------------------------------------------------------------------------------
\* What a request finds in the cache.

\* Every copy of the graph state, loaded, being saved or stored, is well formed:
\* within the limit of saveQueryResult and with one answer per question and variant,
\* for any number of instances, requests and questions.
THEOREM GraphStatesAreWellFormed == Spec => []TypeOK
<1>1. CacheInv => TypeOK
  BY DEF CacheInv, Inv, KeptStates, KeptRequest, Kept, TypeOK, At, Req
<1> QED BY <1>1, CacheInvHolds, PTL

\* A cached answer that was retrieved under the fingerprint it was saved under
\* quotes the corpus whenever its state has the fingerprint of the corpus
\* (saveQueryResult after ensureGraph), however many requests rebuild the state.
THEOREM CachedAnswersFollow == Spec => []CacheFollowsCorpus
<1>1. ASSUME CacheInv, NEW st \in Current, NEW n \in DOMAIN st.cache, ~st.cache[n].late,
             NEW s \in Traceable
      PROVE  st.cache[n].basis[s] = BodyOf(s)
  <2>1. s \in Slugs /\ (s \in gone => ~Named(s))
    BY <1>1 DEF Traceable
  <2>2. Kept(corpus, gone, st)
    <3>1. CASE st \in UNION {{state[i][r] : r \in Requests} : i \in Instances}
      <4>1. PICK i \in Instances : st \in {state[i][r] : r \in Requests}
        BY <3>1
      <4>2. PICK r \in Requests : st = state[i][r]
        BY <4>1
      <4> QED BY <1>1, <4>2 DEF CacheInv, KeptStates
    <3>2. CASE st = stored /\ stored # None
      BY <1>1, <3>2 DEF CacheInv, KeptStates
    <3> QED BY <1>1, <3>1, <3>2 DEF Current
  <2>3. st.fp = Fingerprint /\ Fingerprint # None
    BY <1>1, CurrentGood DEF CacheInv
  <2>4. Fetched(corpus, gone, st.fp, s, st.cache[n].basis[s])
    BY <1>1, <2>1, <2>2, <2>3 DEF Kept, Quoted
  <2>5. CASE Named(s)
    <3>1. st.fp[s] = <<corpus[s].version, corpus[s].model>>
      BY <2>1, <2>3, <2>5 DEF Fingerprint
    <3>2. st.fp[s] # None
      <4>1. corpus[s].version \in Nat \ {0} /\ corpus[s].model \in Models \cup {None}
        BY <2>1, <2>5, <1>1 DEF CacheInv, Inv, TypeOKCorpus, Revision, Named
      <4>2. st.fp[s] \in VersionPrint
        BY <3>1, <4>1 DEF VersionPrint
      <4> QED BY <4>2, NoneIsNoPrint
    <3> QED BY <2>1, <2>4, <2>5, <3>1, <3>2 DEF Fetched, Backed, BodyOf
  <2>6. CASE ~Named(s)
    BY <2>1, <2>3, <2>4, <2>6 DEF Fingerprint, Fetched, BodyOf
  <2> QED BY <2>5, <2>6
<1>2. CacheInv => CacheFollowsCorpus
  BY <1>1 DEF CacheFollowsCorpus
<1> QED BY <1>2, CacheInvHolds, PTL

\* No step of any request removes the rating of an answer that stays cached under
\* the same corpus: neither recordOutcome nor a saveQueryResult that was on its way
\* when the rating came, nor the load of a state by a request that found none.
THEOREM RatingsStay == Spec => RatingsOutliveAnswers
<1>1. CacheInv /\ [Next]_vars =>
        [\A i \in Instances, r \in Requests : \A n \in DOMAIN state[i][r].cache :
            LET e == state[i][r].cache[n]
                next == state'[i][r]
            IN  e.outcome # None /\ next.fp = state[i][r].fp /\ Cached(next, e.key)
                => Entry(next, e.key).outcome # None]_vars
  BY CacheStep DEF RatingsKept, Rates
<1> QED BY <1>1, CacheInvHolds, PTL DEF Spec, RatingsOutliveAnswers
==============================================================================
