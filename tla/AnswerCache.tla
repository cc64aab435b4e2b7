----------------------------- MODULE AnswerCache -----------------------------
(***************************************************************************)
(* The graph sidecar of the web application: a knowledge graph, learned    *)
(* vectors and cached answers, all derived from the corpus and kept in the *)
(* memory of every server instance, with a copy in Postgres that an        *)
(* instance loads when it starts.                                          *)
(*                                                                         *)
(* JavaScript runs a request without interruption up to its next await, so *)
(* a step is what one request does between two awaits.  Every entry point  *)
(* first awaits ensureGraph, which compares the fingerprint of the         *)
(* documents with the one the state was derived under.                     *)
(*                                                                         *)
(* A document is its body; an answer is the bodies it was retrieved from.  *)
(* Feedback memory, hit counts and the query nodes of the graph are left   *)
(* out, and so is the copy in /tmp, which is loaded, and checked, as the   *)
(* one in Postgres is.                                                     *)
(***************************************************************************)
EXTENDS CorpusRevisions, Sequences

CONSTANTS
    Instances,    \* server processes
    Requests,     \* requests an instance serves at the same time
    Questions,    \* questions asked
    Outcomes,     \* ratings: "useful" and "dead_end"; "corrected" acts as the latter
    Policies,     \* answer variants: mode, depth and models
    CacheLimit,   \* cached answers kept (80)
    MaxAsks, MaxRatings, MaxChanges, MaxFaults   \* bounds

Keys == Questions \X Policies

ASSUME AnswerCacheAssumption ==
    /\ CacheLimit \in Nat \ {0}
    /\ \A n \in {MaxAsks, MaxRatings, MaxChanges, MaxFaults} : n \in Nat
    /\ None \notin Requests \cup Bodies \cup Models \cup Revision \cup Outcomes \cup Keys

VARIABLES
    state,        \* the GraphState each request of an instance loaded, if it did
    global,       \* per instance, the request whose state is __intelliragGraph
    stored,       \* graphify_state: the row in Postgres, None before the first save
    request,      \* what each request of an instance is doing
    gone,         \* history: slugs that named a document and lost it
    asks, ratings, changes, faults

counters == <<asks, ratings, changes, faults>>
vars == <<corpus, state, global, stored, request, gone, counters>>

BodyOf(s) == IF Named(s) THEN corpus[s].body ELSE None
BodyMap == [Slugs -> Bodies \cup {None}]

\* listGraphDocumentVersions: slug, version and embedding model.
Fingerprint ==
    [s \in Slugs |-> IF Named(s) THEN <<corpus[s].version, corpus[s].model>> ELSE None]
VersionPrint == (Nat \ {0}) \X (Models \cup {None})
Prints == [Slugs -> {None} \cup VersionPrint]

ASSUME NoneIsNoPrint == None \notin VersionPrint \cup Prints

NoBodies == [s \in Slugs |-> None]
Empty == [fp |-> None, graph |-> NoBodies, cache |-> <<>>, vectors |-> {}]

Idle == [pc |-> "idle", ret |-> "none", key |-> None, rating |-> None,
         using |-> None, fp |-> None, left |-> {}, bodies |-> NoBodies,
         basis |-> NoBodies, asOf |-> None, mark |-> None, rows |-> {}, payload |-> None]

\* listDocuments, which every query calls first, seeds the corpus.
Init ==
    /\ corpus \in [Slugs -> [version : {1}, body : Bodies, model : {None}]]
    /\ state = [i \in Instances |-> [r \in Requests |-> Empty]]
    /\ global = [i \in Instances |-> None]
    /\ stored = None
    /\ request = [i \in Instances |-> [r \in Requests |-> Idle]]
    /\ gone = {}
    /\ asks = 0 /\ ratings = 0 /\ changes = 0 /\ faults = 0

------------------------------------------------------------------------------
Req(i, r) == request[i][r]
At(i, r, pc) == Req(i, r).pc = pc
Become(i, r, q) == request' = [request EXCEPT ![i][r] = q]
Used(i, r) == state[i][Req(i, r).using]
StateBecomes(i, q, st) == state' = [state EXCEPT ![i][q.using] = st]

\* Waiting for ensureGraph, to go on at ret.  The documents are listed when the
\* query is issued: at once, or when the instance has loaded a state.
Ensuring(i, q, ret) ==
    IF global[i] = None THEN [q EXCEPT !.ret = ret, !.pc = "loading"]
    ELSE [q EXCEPT !.ret = ret, !.pc = "listed", !.using = global[i], !.fp = Fingerprint]

\* A state is written to Postgres as it is now, by a statement that takes time.
Persisting(q, st, next) == [q EXCEPT !.pc = "saving", !.payload = st, !.ret = next]

OnlyRequest == UNCHANGED <<corpus, state, global, stored, gone, counters>>
OnlyState == UNCHANGED <<corpus, global, stored, gone, counters>>

------------------------------------------------------------------------------
\* What the callers of ensureGraph do with the state it returns: st is the state
\* request r of instance i uses, q the request without what it awaited.

\* Array.find: the first entry of a question and variant.
Positions(st, k) == {n \in DOMAIN st.cache : st.cache[n].key = k}
Cached(st, k) == Positions(st, k) # {}
Entry(st, k) ==
    st.cache[CHOOSE n \in Positions(st, k) : \A m \in Positions(st, k) : n <= m]

\* lookupCache: a rejected or blanked answer is not reused.
Hit(st, k) ==
    /\ Cached(st, k)
    /\ Entry(st, k).answered /\ Entry(st, k).outcome # "dead_end"

\* A query with skipCache ignores the hit, if there is one, and then keeps no
\* answer: it goes on without a key.  Without a hit EndUnsaved is its end.
Missed(st, q) == IF Hit(st, q.key) THEN [q EXCEPT !.key = None] ELSE q

\* A query with a query vector consults the vectors of the graph before it reads
\* passages.
Lookup(i, r, q, st) ==
    /\ \/ Hit(st, q.key) /\ Become(i, r, Ensuring(i, q, "bump"))
       \/ Become(i, r, Ensuring(i, Missed(st, q), "retrieve"))
       \/ Become(i, r, [Missed(st, q) EXCEPT !.pc = "retrieve"])
    /\ UNCHANGED state

\* bumpCacheHit saves the state again, when the answer is still cached.
Bump(i, r, q, st) ==
    /\ Become(i, r, IF Cached(st, q.key) THEN Persisting(q, st, "end") ELSE Idle)
    /\ UNCHANGED state

\* Mutant: whatever was loaded is learned.
AnyRevision(st, q) == TRUE

SameRevision(st, q) == st.fp = q.mark

\* rememberRetrievedVectors: the rows loaded are learned if the fingerprint is
\* the one noted before.
Learn(i, r, q, st) ==
    LET next == [q EXCEPT !.rows = {}, !.mark = None]
        learned == [st EXCEPT !.vectors = @ \cup q.rows]
    IN  \/ /\ SameRevision(st, q)
           /\ StateBecomes(i, q, learned)
           /\ Become(i, r, Persisting(next, learned, "answering"))
        \/ /\ ~SameRevision(st, q) \/ (q.rows # {} /\ q.rows \subseteq st.vectors)
           /\ Become(i, r, [next EXCEPT !.pc = "answering"])
           /\ UNCHANGED state

\* Mutant: a new answer starts unrated.
NoOutcome(st, k) == None

\* A new answer inherits the rating of the one it replaces.
InheritedOutcome(st, k) == IF Cached(st, k) THEN Entry(st, k).outcome ELSE None

\* late: retrieved under another fingerprint than it is saved under.
CacheEntry(st, q) ==
    [key |-> q.key, basis |-> q.basis, late |-> q.asOf # st.fp, answered |-> TRUE,
     outcome |-> InheritedOutcome(st, q.key)]

\* Mutant: the answer that was cached is not taken out.
Pushed(st, q) == <<CacheEntry(st, q)>> \o st.cache

\* Array.filter: what of a cache has another key, in its order.
Others(cache, k) ==
    LET kept[n \in 0..Len(cache)] ==
            IF n = 0 THEN <<>>
            ELSE IF cache[n].key = k THEN kept[n - 1] ELSE Append(kept[n - 1], cache[n])
    IN  kept[Len(cache)]

Replaced(st, q) == <<CacheEntry(st, q)>> \o Others(st.cache, q.key)

\* saveQueryResult
SaveAnswer(i, r, q, st) ==
    LET cache == Replaced(st, q)
        saved == [st EXCEPT !.cache =
                     SubSeq(cache, 1, IF Len(cache) < CacheLimit THEN Len(cache) ELSE CacheLimit)]
    IN  /\ StateBecomes(i, q, saved)
        /\ Become(i, r, Persisting([Idle EXCEPT !.using = q.using], saved, "end"))

\* A rating applies to every variant of the question; a rejected answer is blanked.
Rated(e, question, outcome) ==
    IF e.key[1] # question THEN e
    ELSE [e EXCEPT !.outcome = outcome, !.answered = @ /\ outcome # "dead_end"]

RecordOutcome(i, r, q, st) ==
    LET rated == [st EXCEPT !.cache =
                     [n \in DOMAIN @ |-> Rated(@[n], q.key[1], q.rating)]]
    IN  /\ StateBecomes(i, q, rated)
        /\ Become(i, r, Persisting([q EXCEPT !.key = None, !.rating = None], rated, "snapshot"))

\* A request goes on where it awaited.
Resume(i, r, q) ==
    LET st == state[i][q.using]
        On(next) == Become(i, r, next) /\ UNCHANGED state
    IN  \/ q.ret = "lookup" /\ Lookup(i, r, q, st)
        \/ q.ret = "bump" /\ Bump(i, r, q, st)
        \/ q.ret = "retrieve" /\ On([q EXCEPT !.pc = "retrieve"])
        \/ q.ret = "remember" /\ On([q EXCEPT !.pc = "load_rows", !.mark = st.fp])
        \/ q.ret = "learn" /\ Learn(i, r, q, st)
        \/ q.ret = "answering" /\ On([q EXCEPT !.pc = "answering"])
        \/ q.ret = "save" /\ SaveAnswer(i, r, q, st)
        \/ q.ret = "rate" /\ RecordOutcome(i, r, q, st)
        \/ q.ret = "snapshot" /\ On(Ensuring(i, q, "end"))
        \/ q.ret = "end" /\ On(Idle)

------------------------------------------------------------------------------
\* ensureGraph.

\* The state an instance starts from; a row that cannot be read is ignored.
\* A second request that was loading too installs its own copy.
LoadState(i, r) ==
    /\ At(i, r, "loading")
    /\ \/ /\ state' = [state EXCEPT ![i][r] = IF stored = None THEN Empty ELSE stored]
          /\ UNCHANGED faults
       \/ /\ stored # None /\ faults < MaxFaults
          /\ faults' = faults + 1
          /\ state' = [state EXCEPT ![i][r] = Empty]
    /\ global' = [global EXCEPT ![i] = r]
    /\ Become(i, r, [Req(i, r) EXCEPT !.pc = "listed", !.using = r, !.fp = Fingerprint])
    /\ UNCHANGED <<corpus, stored, gone, asks, ratings, changes>>

Listed(fp) == {s \in Slugs : fp[s] # None}

CompareFingerprint(i, r) ==
    LET q == Req(i, r)
    IN  /\ At(i, r, "listed")
        /\ IF Used(i, r).fp = q.fp
           THEN Resume(i, r, [q EXCEPT !.fp = None])
           ELSE Become(i, r, [q EXCEPT !.pc = "fetching", !.left = Listed(q.fp)]) /\ UNCHANGED state
        /\ OnlyState

\* Each listed document is read by a query of its own, and may be gone.
FetchDocument(i, r, s) ==
    LET q == Req(i, r)
    IN  /\ At(i, r, "fetching")
        /\ s \in q.left
        /\ Become(i, r, [q EXCEPT !.left = @ \ {s}, !.bodies[s] = BodyOf(s)])
        /\ OnlyRequest

\* Mutant: cached answers survive a change of the corpus.
DerivedKeepingCache(st, q) == [st EXCEPT !.fp = q.fp, !.graph = q.bodies, !.vectors = {}]

\* Mutant: the versions are listed after the bodies are read.
DerivedListedLate(st, q) == [fp |-> Fingerprint, graph |-> q.bodies, cache |-> <<>>, vectors |-> {}]

\* What a state becomes under a new fingerprint.
Derived(st, q) == [fp |-> q.fp, graph |-> q.bodies, cache |-> <<>>, vectors |-> {}]

Rebuild(i, r) ==
    LET q == Req(i, r)
        st == Derived(Used(i, r), q)
    IN  /\ At(i, r, "fetching")
        /\ q.left = {}
        /\ StateBecomes(i, q, st)
        /\ Become(i, r, Persisting([q EXCEPT !.fp = None, !.bodies = NoBodies], st, q.ret))
        /\ OnlyState

\* A failed save is ignored.
SaveRow(i, r) ==
    LET q == Req(i, r)
    IN  /\ At(i, r, "saving")
        /\ \/ stored' = q.payload /\ UNCHANGED faults
           \/ faults < MaxFaults /\ faults' = faults + 1 /\ UNCHANGED stored
        /\ Resume(i, r, [q EXCEPT !.payload = None])
        /\ UNCHANGED <<corpus, global, gone, asks, ratings, changes>>

------------------------------------------------------------------------------
\* Requests: runQueryStream and recordOutcome.

Ask(i, r, k) ==
    /\ At(i, r, "idle")
    /\ asks < MaxAsks
    /\ asks' = asks + 1
    /\ Become(i, r, Ensuring(i, [Idle EXCEPT !.key = k], "lookup"))
    /\ UNCHANGED <<corpus, state, global, stored, gone, ratings, changes, faults>>

\* One statement reads the passages.
Retrieve(i, r) ==
    /\ At(i, r, "retrieve")
    /\ Become(i, r, [Req(i, r) EXCEPT !.pc = "retrieved", !.asOf = Fingerprint,
                                      !.basis = [s \in Slugs |-> BodyOf(s)]])
    /\ OnlyRequest

\* With a query vector and enough evidence their vectors are learned first.
Remember(i, r) ==
    /\ At(i, r, "retrieved") /\ Req(i, r).ret = "retrieve"
    /\ Become(i, r, Ensuring(i, Req(i, r), "remember"))
    /\ OnlyRequest

\* The retrieved chunks that are still there, with or without a vector of the
\* query's model.
LoadRows(i, r) ==
    LET q == Req(i, r)
        there == {s \in Slugs : /\ Named(s) /\ q.asOf[s] # None
                                /\ q.asOf[s][1] = corpus[s].version}
    IN  /\ At(i, r, "load_rows")
        /\ \E vectors \in SUBSET there :
              Become(i, r, [q EXCEPT !.pc = "loaded_rows",
                                     !.rows = {<<s, BodyOf(s)>> : s \in vectors}])
        /\ OnlyRequest

CheckRevision(i, r) ==
    /\ At(i, r, "loaded_rows")
    /\ Become(i, r, Ensuring(i, Req(i, r), "learn"))
    /\ OnlyRequest

Answering(i, r) == At(i, r, "retrieved") \/ At(i, r, "answering")

\* No evidence, a failed generation, or a query that bypasses the cache: nothing
\* is kept.
EndUnsaved(i, r) == Answering(i, r) /\ Become(i, r, Idle) /\ OnlyRequest

Answer(i, r) ==
    /\ Answering(i, r) /\ Req(i, r).key # None
    /\ Become(i, r, Ensuring(i, Req(i, r), "save"))
    /\ OnlyRequest

Rate(i, r, question, outcome) ==
    /\ At(i, r, "idle")
    /\ ratings < MaxRatings
    /\ ratings' = ratings + 1
    /\ \E p \in Policies :
          Become(i, r, Ensuring(i, [Idle EXCEPT !.key = <<question, p>>, !.rating = outcome], "rate"))
    /\ UNCHANGED <<corpus, state, global, stored, gone, asks, changes, faults>>

------------------------------------------------------------------------------
\* The corpus store, and instances that come and go.

CorpusChange ==
    /\ changes < MaxChanges
    /\ changes' = changes + 1
    /\ \E s \in Slugs :
          \/ /\ \/ \E b \in Bodies : Add(s, b) \/ Revise(s, b)
                \/ \E m \in Models : Index(s, m)
             /\ UNCHANGED gone
          \/ Remove(s) /\ gone' = gone \cup {s}
    /\ UNCHANGED <<state, global, stored, request, asks, ratings, faults>>

Restart(i) ==
    /\ faults < MaxFaults
    /\ faults' = faults + 1
    /\ global' = [global EXCEPT ![i] = None]
    /\ state' = [state EXCEPT ![i] = [r \in Requests |-> Empty]]
    /\ request' = [request EXCEPT ![i] = [r \in Requests |-> Idle]]
    /\ UNCHANGED <<corpus, stored, gone, asks, ratings, changes>>

Step(i, r) ==
    \/ LoadState(i, r) \/ CompareFingerprint(i, r)
    \/ \E s \in Req(i, r).left : FetchDocument(i, r, s)
    \/ Rebuild(i, r) \/ SaveRow(i, r)
    \/ Retrieve(i, r) \/ Remember(i, r) \/ LoadRows(i, r) \/ CheckRevision(i, r)
    \/ EndUnsaved(i, r) \/ Answer(i, r)

Next ==
    \/ \E i \in Instances, r \in Requests :
          \/ Step(i, r)
          \/ \E k \in Keys : Ask(i, r, k)
          \/ \E question \in Questions, outcome \in Outcomes : Rate(i, r, question, outcome)
    \/ CorpusChange
    \/ \E i \in Instances : Restart(i)

Spec == Init /\ [][Next]_vars

------------------------------------------------------------------------------
\* Properties.

CacheRow == [key : Keys, basis : BodyMap, late : BOOLEAN, answered : BOOLEAN,
             outcome : Outcomes \cup {None}]
StateOK(st) ==
    /\ DOMAIN st = {"fp", "graph", "cache", "vectors"}
    /\ st.fp \in Prints \cup {None}
    /\ st.graph \in BodyMap
    /\ st.cache \in Seq(CacheRow) /\ Len(st.cache) <= CacheLimit
    /\ \A m, n \in DOMAIN st.cache : st.cache[m].key = st.cache[n].key => m = n
    /\ st.vectors \subseteq Slugs \X Bodies

\* Every copy of the graph state, loaded or stored, is well formed: within its
\* limit, and with one cached answer per question and variant.
TypeOK ==
    /\ TypeOKCorpus
    /\ \A i \in Instances, r \in Requests :
          /\ StateOK(state[i][r])
          /\ At(i, r, "saving") => StateOK(Req(i, r).payload)
          /\ global[i] \in Requests \cup {None}
    /\ stored # None => StateOK(stored)

\* The states a later request can be answered from, when it finds the
\* fingerprint unchanged.
Current ==
    {st \in (UNION {{state[i][r] : r \in Requests} : i \in Instances}) \cup ({stored} \ {None}) :
        st.fp = Fingerprint}

\* A slug that was removed and added again may repeat a version.
Traceable == {s \in Slugs : ~(s \in gone /\ Named(s))}

\* A graph whose fingerprint is that of the corpus is the graph of the corpus,
\* although versions and bodies are read by separate queries, while requests
\* with older lists rebuild the same object (ensureGraph).
GraphFollowsCorpus ==
    \A st \in Current, s \in Traceable : st.graph[s] = BodyOf(s)

\* So are its vectors: rows that were loaded around a change are not learned
\* (rememberRetrievedVectors).  A document that came and went is left out: a request
\* with a list from before it can rebuild the state for a request that then learns its
\* vectors, and after its removal that list is the current one again.
VectorsFollowCorpus ==
    \A st \in Current : \A v \in st.vectors : v[1] \notin gone => v[2] = BodyOf(v[1])

\* And so are its cached answers, if they were retrieved under the fingerprint
\* they were saved under.
CacheFollowsCorpus ==
    \A st \in Current : \A n \in DOMAIN st.cache :
        ~st.cache[n].late => \A s \in Traceable : st.cache[n].basis[s] = BodyOf(s)

\* A rating outlives the answer it was given for: until the corpus changes or
\* the entry is evicted, an answer generated meanwhile does not reopen a rejected
\* question, whatever the order in which the rating and the answer arrive.
RatingsOutliveAnswers ==
    [][\A i \in Instances, r \in Requests : \A n \in DOMAIN state[i][r].cache :
          LET e == state[i][r].cache[n]
              next == state'[i][r]
          IN  e.outcome # None /\ next.fp = state[i][r].fp /\ Cached(next, e.key)
              => Entry(next, e.key).outcome # None]_vars

\* "A changed source invalidates cached answers" (persist.server.ts): no cached
\* answer a request can be given quotes a text the corpus has replaced.
CachedAnswersAreCurrent ==
    \A st \in Current : \A n \in DOMAIN st.cache :
        \A s \in Traceable : st.cache[n].basis[s] = BodyOf(s)
==============================================================================
