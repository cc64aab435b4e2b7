-------------------------- MODULE QueryServiceProofs --------------------------
(***************************************************************************)
(* Proofs about QueryService, for any number of requests, traces, tokens   *)
(* and starts.                                                             *)
(***************************************************************************)
EXTENDS QueryService, FiniteSetTheorems, SequenceTheorems, TLAPS

(***************************************************************************)
(* Types.                                                                  *)
(***************************************************************************)
\* The places of an actor with a pipeline.
Attached == {"client", "publish"} \cup Running
\* An actor that has not begun, or has ended, holds none.
Holding == \A a \in Actors : /\ pc[a] \in {"idle", "over"} => pipe[a] = 0
                             /\ pc[a] \in Attached => pipe[a] # 0
TypeInv == TypeOK /\ Holding

LEMMA LayersAre ==
    /\ DOMAIN Layers = 1..5
    /\ \A i \in 1..5 : Layers[i] \in SpanNames
BY DEF Layers, SpanNames

LEMMA TypeInit == Init => TypeInv
<1> SUFFICES ASSUME Init PROVE TypeInv
  OBVIOUS
<1>1. Zero \in Pair /\ NoSpan \in [root : SpanNames, name : SpanNames]
  BY DEF Zero, Pair, NoSpan, SpanNames
<1>2. <<>> \in Seq(Backends) /\ Len(<<>>) = 0
  OBVIOUS
<1>3. /\ starts \in 1..(MaxStarts + 1) /\ cold \in BOOLEAN
      /\ clients \in Seq(Backends) /\ pipeline \in 0..Len(clients)
      /\ backend \in {"uninitialized", "mock", "ollama"}
  <2>1. starts = 1 /\ cold = FALSE /\ pipeline = 0 /\ clients = <<>> /\ backend = "uninitialized"
    BY DEF Init
  <2>2. 1 \in 1..(MaxStarts + 1)
    BY LimitsAreNumbers
  <2>3. 0 \in 0..Len(<<>>) /\ <<>> \in Seq(Backends)
    BY <1>2
  <2>4. clients \in Seq(Backends) /\ pipeline \in 0..Len(clients)
    BY <2>1, <2>3, Zenon
  <2> QED BY <2>1, <2>2, <2>4
<1>4. /\ totals \in Pair /\ rate \in Pair /\ measured \in [Actors -> Pair]
      /\ span \in [Actors -> [root : SpanNames, name : SpanNames]]
      /\ doomed \in [Actors -> Seq([of : Requests, root : SpanNames])]
  BY <1>1 DEF Init
<1>8. counts \in Seq(Pair) /\ Len(counts) = Len(clients) /\ traces \in Seq(TraceRows)
  <2>1. counts = <<>> /\ clients = <<>> /\ traces = <<>>
    BY DEF Init
  <2>2. <<>> \in Seq(Pair) /\ <<>> \in Seq(TraceRows)
    OBVIOUS
  <2> QED BY <2>1, <2>2, Zenon
<1>5. /\ feed \in [state : {"whole", "empty", "garbled"}, records : SUBSET Requests]
      /\ raced \in BOOLEAN /\ seen \in [Actors -> SUBSET Requests]
  BY DEF Init
<1>6. /\ pc \in [Actors -> Places] /\ ask \in [Actors -> Asks \cup {NoAsk}]
      /\ layer \in [Actors -> 0..5]
      /\ reply \in [Actors -> {"none", "answer", "guide", "error"}]
  BY DEF Init, Places
<1>7. /\ pipe \in [Actors -> 0..Len(clients)] /\ client \in [Actors -> Backends]
      /\ result \in [Actors -> Results] /\ Holding
  BY <1>2 DEF Init, Backends, Results, Holding, Attached, Running, Stages
<1> QED BY <1>3, <1>4, <1>5, <1>6, <1>7, <1>8 DEF TypeInv, TypeOK

\* Leaving a call keeps the types of its locals.
LEMMA LeaveType ==
    ASSUME TypeInv, NEW a \in Actors, NEW place \in {"over", "gone"}, Leave(a, place)
    PROVE  /\ pc' \in [Actors -> Places]
           /\ pipe' \in [Actors -> 0..Len(clients)] /\ client' \in [Actors -> Backends]
           /\ layer' \in [Actors -> 0..5] /\ Holding'
BY DEF Leave, Goto, TypeInv, TypeOK, Holding, Places, Backends, Attached, Running, Stages

\* The parts of the type that only few actions change.
ServiceOK ==
    /\ starts \in 1..(MaxStarts + 1) /\ cold \in BOOLEAN
    /\ clients \in Seq(Backends) /\ pipeline \in 0..Len(clients)
    /\ backend \in {"uninitialized", "mock", "ollama"}
MetricsOK ==
    /\ counts \in Seq(Pair) /\ Len(counts) = Len(clients)
    /\ totals \in Pair /\ rate \in Pair /\ measured \in [Actors -> Pair]
FeedOK ==
    /\ feed \in [state : {"whole", "empty", "garbled"}, records : SUBSET Requests]
    /\ raced \in BOOLEAN /\ seen \in [Actors -> SUBSET Requests]
SpanOK ==
    /\ span \in [Actors -> [root : SpanNames, name : SpanNames]]
    /\ doomed \in [Actors -> Seq([of : Requests, root : SpanNames])]
    /\ traces \in Seq(TraceRows)
LocalsOK ==
    /\ pc \in [Actors -> Places] /\ ask \in [Actors -> Asks \cup {NoAsk}]
    /\ pipe \in [Actors -> 0..Len(clients)] /\ client \in [Actors -> Backends]
    /\ layer \in [Actors -> 0..5] /\ result \in [Actors -> Results]
    /\ reply \in [Actors -> {"none", "answer", "guide", "error"}]

LEMMA TypeParts ==
    /\ TypeOK <=> ServiceOK /\ MetricsOK /\ FeedOK /\ SpanOK /\ LocalsOK
    /\ TypeOK' <=> (ServiceOK /\ MetricsOK /\ FeedOK /\ SpanOK /\ LocalsOK)'
BY DEF TypeOK, ServiceOK, MetricsOK, FeedOK, SpanOK, LocalsOK

LEMMA PartsKept ==
    /\ ServiceOK /\ UNCHANGED service => ServiceOK'
    /\ MetricsOK /\ UNCHANGED metrics /\ (UNCHANGED clients \/ Len(clients') = Len(clients))
          => MetricsOK'
    /\ MetricsOK /\ UNCHANGED metrics /\ UNCHANGED service => MetricsOK'
    /\ FeedOK /\ UNCHANGED recording => FeedOK'
    /\ SpanOK /\ UNCHANGED tracing => SpanOK'
BY DEF service, metrics, recording, tracing, ServiceOK, MetricsOK, FeedOK, SpanOK

LEMMA OverType ==
    ASSUME TypeInv, NEW a \in Actors, NEW what \in {"answer", "guide", "error"}, Over(a, what),
           UNCHANGED clients, UNCHANGED ask, UNCHANGED result
    PROVE  LocalsOK' /\ Holding'
<1>1. Leave(a, "over")
  BY DEF Over
<1>2. reply' \in [Actors -> {"none", "answer", "guide", "error"}]
  BY DEF Over, TypeInv, TypeOK
<1> QED BY <1>1, <1>2, LeaveType DEF LocalsOK, TypeInv, TypeOK

\* Moving on to a place of a running call keeps them.
LEMMA GotoType ==
    ASSUME TypeInv, NEW a \in Actors, NEW place \in Places \ {"idle", "over"}, Goto(a, place),
           place \in Attached => pc[a] \in Attached
    PROVE  pc' \in [Actors -> Places] /\ (UNCHANGED pipe => Holding')
BY DEF Goto, TypeInv, TypeOK, Holding, Places

LEMMA EnsureType == ASSUME TypeInv, NEW a \in Actors, Ensure(a) PROVE TypeInv'
<1> USE DEF TypeInv
<1>0. ServiceOK /\ MetricsOK /\ FeedOK /\ SpanOK /\ LocalsOK
  BY TypeParts
<1>1. ASSUME NEW b \in 1..Len(clients'), WithPipeline(a, b), clients' \in Seq(Backends),
             Len(clients') = Len(clients), UNCHANGED ask, UNCHANGED result
      PROVE  LocalsOK' /\ Holding'
  <2>1. CASE Over(a, "answer")
    <3>1. Leave(a, "over")
      BY <2>1 DEF Over
    <3>2. reply' \in [Actors -> {"none", "answer", "guide", "error"}]
      BY <1>0, <2>1 DEF Over, LocalsOK
    <3> QED BY <1>0, <1>1, <3>1, <3>2, LeaveType DEF LocalsOK
  <2>2. CASE /\ pipe' = [pipe EXCEPT ![a] = b] /\ client' = [client EXCEPT ![a] = "none"]
             /\ UNCHANGED layer /\ UNCHANGED reply
             /\ \E p \in {"retrieving", "root"} : Goto(a, p)
    <3>1. pc' \in [Actors -> Places] /\ Holding'
      BY <1>0, <1>1, <2>2 DEF Goto, Places, Stages, LocalsOK, Holding
    <3>2. pipe' \in [Actors -> 0..Len(clients')] /\ client' \in [Actors -> Backends]
      BY <1>0, <1>1, <2>2 DEF LocalsOK, Backends
    <3> QED BY <1>0, <1>1, <2>2, <3>1, <3>2 DEF LocalsOK
  <2> QED BY <1>1, <2>1, <2>2 DEF WithPipeline
<1>2. ASSUME Check(a) PROVE TypeInv'
  <2>1. ServiceOK' /\ MetricsOK' /\ FeedOK' /\ SpanOK'
    BY <1>0, <1>2, PartsKept DEF Check, service
  <2>2. UNCHANGED clients /\ UNCHANGED ask /\ UNCHANGED result
    BY <1>2 DEF Check, service
  <2>3. CASE pipeline # 0
    <3>1. WithPipeline(a, pipeline) /\ pipeline \in 1..Len(clients') /\ clients' \in Seq(Backends)
      BY <1>0, <1>2, <2>2, <2>3 DEF Check, ServiceOK
    <3> QED BY <1>1, <2>1, <2>2, <3>1, TypeParts
  <2>4. CASE pipeline = 0
    <3>1. Goto(a, "build") /\ UNCHANGED <<pipe, client, layer, reply>>
      BY <1>2, <2>4 DEF Check
    <3>2. pc' \in [Actors -> Places] /\ Holding'
      BY <3>1, GotoType DEF Places, Attached, Running, Stages
    <3>3. LocalsOK'
      BY <1>0, <2>2, <3>1, <3>2 DEF LocalsOK
    <3> QED BY <2>1, <3>2, <3>3, TypeParts
  <2> QED BY <1>0, <2>3, <2>4
<1>3. ASSUME Build(a) PROVE TypeInv'
  <2>1. clients' \in Seq(Backends) /\ Len(clients') = Len(clients) + 1
    BY <1>0, <1>3 DEF Build, ServiceOK, Backends
  <2>2. ServiceOK'
    BY <1>0, <1>3, <2>1 DEF Build, ServiceOK
  <2>3. FeedOK' /\ SpanOK'
    BY <1>0, <1>3, PartsKept DEF Build
  <2>8. MetricsOK'
    <3>1. Zero \in Pair
      BY DEF Zero, Pair
    <3>2. counts' \in Seq(Pair) /\ Len(counts') = Len(counts) + 1
      BY <1>0, <1>3, <3>1 DEF Build, MetricsOK
    <3> QED BY <1>0, <1>3, <2>1, <3>2 DEF Build, MetricsOK
  <2>4. pc' \in [Actors -> Places] /\ Holding'
    <3>1. Len(clients) \in Nat
      BY <1>0 DEF ServiceOK
    <3> QED BY <1>0, <1>3, <3>1 DEF Build, Goto, Places, LocalsOK, Holding
  <2>5. pipe' \in [Actors -> 0..Len(clients')]
    BY <1>0, <1>3, <2>1 DEF Build, LocalsOK
  <2>6. client' \in [Actors -> Backends]
    <3>1. WantedClients \subseteq Backends
      BY DEF WantedClients, Backends
    <3> QED BY <1>0, <1>3, <3>1 DEF Build, LocalsOK
  <2>7. LocalsOK'
    BY <1>0, <1>3, <2>4, <2>5, <2>6 DEF Build, LocalsOK
  <2> QED BY <2>2, <2>3, <2>4, <2>7, <2>8, TypeParts
<1>4. ASSUME BuildRaises(a) PROVE TypeInv'
  <2>1. ServiceOK'
    BY <1>0, <1>4 DEF BuildRaises, ServiceOK
  <2>2. MetricsOK' /\ FeedOK' /\ SpanOK'
    BY <1>0, <1>4, PartsKept DEF BuildRaises
  <2>3. LocalsOK' /\ Holding'
    BY <1>4, OverType DEF BuildRaises
  <2> QED BY <2>1, <2>2, <2>3, TypeParts
<1>5. ASSUME ChooseClient(a) PROVE TypeInv'
  <2>1. client' \in [Actors -> Backends] /\ client'[a] \in {"ollama", "mock"}
    BY <1>0, <1>5 DEF ChooseClient, LocalsOK, Backends
  <2>2. ServiceOK'
    BY <1>0, <1>5, <2>1 DEF ChooseClient, ServiceOK
  <2>3. MetricsOK' /\ FeedOK' /\ SpanOK'
    BY <1>0, <1>5, PartsKept DEF ChooseClient
  <2>4. pc' \in [Actors -> Places] /\ Holding'
    BY <1>5, GotoType DEF ChooseClient, Places, Attached
  <2>5. LocalsOK'
    BY <1>0, <1>5, <2>1, <2>4 DEF ChooseClient, LocalsOK
  <2> QED BY <2>2, <2>3, <2>4, <2>5, TypeParts
<1>6. ASSUME Publish(a) PROVE TypeInv'
  <2>1. clients' \in Seq(Backends) /\ Len(clients') = Len(clients) /\ pipe[a] \in 1..Len(clients)
    <3>1. clients \in Seq(Backends) /\ client[a] \in Backends
          /\ clients' = [clients EXCEPT ![pipe[a]] = client[a]]
      BY <1>0, <1>6 DEF Publish, ServiceOK, LocalsOK
    <3>2. pipe[a] # 0 /\ pipe[a] \in 0..Len(clients) /\ Len(clients) \in Nat
      BY <1>0, <1>6 DEF Publish, ServiceOK, LocalsOK, Holding, Attached
    <3>3. pipe[a] \in 1..Len(clients)
      BY <3>2
    <3> QED BY <3>1, <3>3, ExceptSeq
  <2>2. pipe[a] \in 1..Len(clients')
    BY <2>1
  <2>3. ServiceOK'
    BY <1>0, <1>6, <2>1, <2>2 DEF Publish, ServiceOK
  <2>4. MetricsOK' /\ FeedOK' /\ SpanOK'
    BY <1>0, <1>6, <2>1, PartsKept DEF Publish
  <2>5. LocalsOK' /\ Holding'
    BY <1>1, <1>6, <2>1, <2>2 DEF Publish
  <2> QED BY <2>3, <2>4, <2>5, TypeParts
<1> QED BY <1>2, <1>3, <1>4, <1>5, <1>6 DEF Ensure

\* A step that moves a call on and changes neither service nor other locals.
LEMMA MoveType ==
    ASSUME TypeInv, NEW a \in Actors, NEW place \in Places \ {"idle", "over"}, Goto(a, place),
           place \in Attached => pc[a] \in Attached,
           UNCHANGED service, UNCHANGED <<ask, pipe, client, reply>>
    PROVE  /\ ServiceOK' /\ Holding'
           /\ UNCHANGED <<layer, result>> => LocalsOK'
           /\ layer' \in [Actors -> 0..5] /\ result' \in [Actors -> Results] => LocalsOK'
<1>1. ServiceOK /\ LocalsOK
  BY TypeParts DEF TypeInv
<1>2. pc' \in [Actors -> Places] /\ Holding'
  BY GotoType
<1> QED BY <1>1, <1>2, PartsKept DEF LocalsOK, service

\* What the steps of tracing.py make of the rows of traces.
LEMMA StartedRows ==
    ASSUME traces \in Seq(TraceRows), NEW a \in Requests, NEW name \in SpanNames, StartTrace(a, name)
    PROVE  /\ traces' \in Seq(TraceRows)
           /\ \A i \in DOMAIN traces' :
                 \/ i \in DOMAIN traces /\ traces'[i] = traces[i]
                 \/ traces'[i] = [of |-> a, root |-> name, spans |-> {}, failed |-> FALSE]
<1> DEFINE t == [of |-> a, root |-> name, spans |-> {}, failed |-> FALSE]
<1>1. t \in TraceRows
  BY DEF TraceRows
<1>2. traces' = Append(traces, t)
  BY DEF StartTrace
<1> HIDE DEF t
<1>3. traces' \in Seq(TraceRows)
      /\ \A i \in DOMAIN traces' : (i \in DOMAIN traces /\ traces'[i] = traces[i]) \/ traces'[i] = t
  BY <1>1, <1>2
<1> QED BY <1>3 DEF t

LEMMA TrimmedRows ==
    ASSUME traces \in Seq(TraceRows), NEW a \in Requests, Trim(a)
    PROVE  /\ traces' \in Seq(TraceRows)
           /\ \A i \in DOMAIN traces' : \E j \in DOMAIN traces : traces'[i] = traces[j]
<1>1. PICK k \in DOMAIN traces : traces' = Without(k)
  BY DEF Trim, Condemned
<1>2. DOMAIN traces = 1..Len(traces) /\ Len(traces) \in Nat
      /\ \A j \in 1..Len(traces) : traces[j] \in TraceRows
  OBVIOUS
<1>3. /\ DOMAIN Without(k) = 1..(Len(traces) - 1)
      /\ \A i \in 1..(Len(traces) - 1) : Without(k)[i] = traces[IF i < k THEN i ELSE i + 1]
  BY DEF Without
<1>4. \A i \in 1..(Len(traces) - 1) : (IF i < k THEN i ELSE i + 1) \in 1..Len(traces)
  BY <1>2
<1>5. Without(k) \in [1..(Len(traces) - 1) -> TraceRows]
  BY <1>2, <1>3, <1>4 DEF Without
<1>6. Without(k) \in Seq(TraceRows)
  <2>1. Len(traces) - 1 \in Nat
    BY <1>1, <1>2
  <2> QED BY <1>5, <2>1, SeqDef
<1> QED BY <1>1, <1>2, <1>3, <1>4, <1>6

LEMMA AddedRows ==
    ASSUME traces \in Seq(TraceRows), NEW a \in Requests, NEW root, NEW name \in SpanNames,
           AddSpan(a, root, name)
    PROVE  /\ traces' \in Seq(TraceRows) /\ DOMAIN traces' = DOMAIN traces
           /\ \A i \in DOMAIN traces :
                 /\ traces'[i].of = traces[i].of /\ traces'[i].root = traces[i].root
                 /\ traces'[i].failed = traces[i].failed
                 /\ traces[i].of # a => traces'[i] = traces[i]
                 /\ i \in Stored(a, root) => traces'[i].spans = traces[i].spans \cup {name}
<1>1. traces' = [i \in DOMAIN traces |->
            IF i \in Stored(a, root)
            THEN [traces[i] EXCEPT !.spans = @ \cup {name}] ELSE traces[i]]
  BY DEF AddSpan
<1>2. ASSUME NEW i \in DOMAIN traces
      PROVE  /\ traces'[i] \in TraceRows
             /\ traces'[i].of = traces[i].of /\ traces'[i].root = traces[i].root
             /\ traces'[i].failed = traces[i].failed
             /\ traces[i].of # a => traces'[i] = traces[i]
             /\ i \in Stored(a, root) => traces'[i].spans = traces[i].spans \cup {name}
  <2>1. traces[i] \in TraceRows
    OBVIOUS
  <2>2. i \in Stored(a, root) => traces[i].of = a
    BY DEF Stored
  <2> QED BY <1>1, <2>1, <2>2 DEF TraceRows
<1>3. traces' \in Seq(TraceRows)
  <2>1. DOMAIN traces = 1..Len(traces) /\ Len(traces) \in Nat
    OBVIOUS
  <2>2. traces' \in [1..Len(traces) -> TraceRows]
    BY <1>1, <1>2, <2>1
  <2> QED BY <2>1, <2>2, SeqDef
<1> QED BY <1>1, <1>2, <1>3

LEMMA FailedRows ==
    ASSUME traces \in Seq(TraceRows), NEW a \in Requests, SpansFailed(a)
    PROVE  /\ traces' \in Seq(TraceRows) /\ DOMAIN traces' = DOMAIN traces
           /\ \A i \in DOMAIN traces :
                 /\ traces'[i].of = traces[i].of /\ traces'[i].root = traces[i].root
                 /\ traces[i].of # a => traces'[i] = traces[i]
<1>1. traces' = [i \in DOMAIN traces |->
            IF i \in Stored(a, span[a].root) \cup Stored(a, "rag_query")
            THEN [traces[i] EXCEPT !.failed = TRUE] ELSE traces[i]]
  BY DEF SpansFailed
<1>2. ASSUME NEW i \in DOMAIN traces
      PROVE  /\ traces'[i] \in TraceRows
             /\ traces'[i].of = traces[i].of /\ traces'[i].root = traces[i].root
             /\ traces[i].of # a => traces'[i] = traces[i]
  <2>1. traces[i] \in TraceRows
    OBVIOUS
  <2> QED BY <1>1, <2>1 DEF Stored, TraceRows
<1>3. traces' \in Seq(TraceRows)
  <2>1. DOMAIN traces = 1..Len(traces) /\ Len(traces) \in Nat
    OBVIOUS
  <2>2. traces' \in [1..Len(traces) -> TraceRows]
    BY <1>1, <1>2, <2>1
  <2> QED BY <2>1, <2>2, SeqDef
<1> QED BY <1>1, <1>2, <1>3

LEMMA QueryType == ASSUME TypeInv, NEW a \in Requests, Query(a) PROVE TypeInv'
<1> a \in Actors
  BY DEF Actors
<1>0. ServiceOK /\ MetricsOK /\ FeedOK /\ SpanOK /\ LocalsOK
  BY TypeParts DEF TypeInv
<1>1. ASSUME ServiceOK', MetricsOK', FeedOK', SpanOK', LocalsOK', Holding' PROVE TypeInv'
  BY <1>1, TypeParts DEF TypeInv
\* A step that moves on and changes only the tracing.
<1>10. ASSUME NEW place \in {"choose", "trim"}, Goto(a, place), pc[a] \in Attached, SpanOK', Stay,
              UNCHANGED <<service, metrics, recording, events, reply>>
       PROVE  TypeInv'
  <2>1. LocalsOK' /\ Holding' /\ ServiceOK'
    BY <1>10, MoveType DEF Places, Stay
  <2> QED BY <1>0, <1>1, <1>10, <2>1, PartsKept
<1>2. ASSUME Root(a) PROVE TypeInv'
  <2>1. SpanOK'
    <3>1. "rag_query" \in SpanNames
      BY DEF SpanNames
    <3>2. traces' \in Seq(TraceRows)
      BY <1>0, <1>2, <3>1, StartedRows DEF Root, SpanOK
    <3> QED BY <1>0, <1>2, <3>2 DEF Root, SpanOK
  <2> QED BY <1>2, <1>10, <2>1 DEF Root, StartTrace, Attached, Running
<1>11. ASSUME Choose(a) PROVE TypeInv'
  <2> DEFINE rows == [of : Requests, root : SpanNames]
             excess == IF Len(traces) > MaxTraces THEN Len(traces) - MaxTraces ELSE 0
             ids == [i \in 1..excess |-> Id(traces[i])]
  <2>1. traces \in Seq(TraceRows) /\ Len(traces) \in Nat
    BY <1>0 DEF SpanOK
  <2>2. excess \in Nat /\ excess <= Len(traces)
    BY <2>1, LimitsAreNumbers
  <2> HIDE DEF excess
  <2>3. \A i \in 1..excess : Id(traces[i]) \in rows
    <3> TAKE i \in 1..excess
    <3>1. traces[i] \in TraceRows
      BY <2>1, <2>2
    <3> QED BY <3>1 DEF Id, TraceRows
  <2>4. ids \in Seq(rows)
    <3>1. ids \in [1..excess -> rows]
      BY <2>3
    <3> QED BY <2>2, <3>1, SeqDef
  <2>5. doomed' = [doomed EXCEPT ![a] = ids] /\ UNCHANGED <<traces, span>>
    BY <1>11 DEF Choose, excess
  <2> HIDE DEF ids
  <2>6. SpanOK'
    BY <1>0, <2>4, <2>5 DEF SpanOK
  <2> QED BY <1>10, <1>11, <2>6 DEF Choose, Attached, Running
<1>12. ASSUME Trim(a) PROVE TypeInv'
  <2>1. SpanOK'
    <3>1. traces' \in Seq(TraceRows)
      BY <1>0, <1>12, TrimmedRows DEF SpanOK
    <3>2. Tail(doomed[a]) \in Seq([of : Requests, root : SpanNames])
      <4> DEFINE rows == [of : Requests, root : SpanNames]
      <4>1. doomed[a] \in Seq(rows) /\ doomed[a] # <<>>
        BY <1>0, <1>12 DEF Trim, SpanOK
      <4> HIDE DEF rows
      <4>2. Tail(doomed[a]) \in Seq(rows)
        BY <4>1
      <4> QED BY <4>2 DEF rows
    <3> QED BY <1>0, <1>12, <3>1, <3>2 DEF Trim, SpanOK
  <2>2. Goto(a, "trim")
    BY <1>0, <1>12 DEF Trim, Goto, LocalsOK
  <2> QED BY <1>10, <1>12, <2>1, <2>2 DEF Trim, Attached, Running
<1>13. ASSUME TrimRaises(a) PROVE TypeInv'
  <2>1. LocalsOK' /\ Holding'
    BY <1>13, OverType DEF TrimRaises, service
  <2>2. SpanOK'
    <3>1. <<>> \in Seq([of : Requests, root : SpanNames])
      OBVIOUS
    <3> QED BY <1>0, <1>13, <3>1 DEF TrimRaises, SpanOK
  <2> QED BY <1>0, <1>1, <1>13, <2>1, <2>2, PartsKept DEF TrimRaises
<1>14. ASSUME Started(a) PROVE TypeInv'
  <2>1. layer' \in [Actors -> 0..5] /\ UNCHANGED result
    BY <1>0, <1>14 DEF Started, LocalsOK
  <2>2. LocalsOK' /\ Holding' /\ ServiceOK'
    BY <1>0, <1>14, <2>1, MoveType DEF Started, Places, LocalsOK, Attached, Running
  <2>3. SpanOK'
    <3>1. CASE layer[a] = 0
      <4>1. AddSpan(a, "rag_query", Layers[1]) /\ "rag_query" \in SpanNames /\ Layers[1] \in SpanNames
        BY <1>14, <3>1, LayersAre DEF Started, SpanNames
      <4>2. traces' \in Seq(TraceRows)
        BY <1>0, <4>1, AddedRows DEF SpanOK
      <4> QED BY <1>0, <1>14, <4>1, <4>2 DEF Started, AddSpan, SpanOK
    <3>2. CASE layer[a] # 0
      <4> DEFINE name == Layers[layer[a]]
      <4>1. layer[a] \in 1..5
        BY <1>0, <3>2 DEF LocalsOK
      <4>2. name \in SpanNames
        BY <4>1, LayersAre
      <4>3. /\ span' = [span EXCEPT ![a] = [root |-> name, name |-> name]]
            /\ UNCHANGED <<traces, doomed>>
        BY <1>14, <3>2, Zenon DEF Started
      <4> HIDE DEF name
      <4> QED BY <1>0, <4>2, <4>3 DEF SpanOK
    <3> QED BY <3>1, <3>2
  <2> QED BY <1>0, <1>1, <1>14, <2>2, <2>3, PartsKept DEF Started
<1>3. ASSUME EndLayer(a) PROVE TypeInv'
  <2>1. result' \in [Actors -> Results]
    <3>1. Outcome(a) \subseteq Results
      <4>1. /\ {"good", "refused"} \subseteq Results /\ {"good"} \cup Scores \subseteq Results
            /\ {result[a]} \subseteq Results
        BY <1>0, BoundsAreKnown DEF Results, LocalsOK
      <4>2. \/ Outcome(a) = {"good", "refused"} \/ Outcome(a) = {"good"} \cup Scores
            \/ Outcome(a) = {result[a]}
        BY Zenon DEF Outcome
      <4> QED BY <4>1, <4>2
    <3> QED BY <1>0, <1>3, <3>1 DEF EndLayer, LocalsOK
  <2>2. NoSpan \in [root : SpanNames, name : SpanNames]
        /\ AfterSpan(a) \in [root : SpanNames, name : SpanNames]
    BY <1>0 DEF NoSpan, SpanNames, AfterSpan, SpanOK
  <2>3. CASE layer[a] < LastLayer(a)
    <3>1. layer[a] + 1 \in 1..5 /\ layer' \in [Actors -> 0..5]
      <4>1. LastLayer(a) \in {4, 5} /\ layer[a] \in 0..5
        BY <1>0 DEF LastLayer, LocalsOK
      <4>2. layer' = [layer EXCEPT ![a] = layer[a] + 1]
        BY <1>3, <2>3, Zenon DEF EndLayer
      <4> QED BY <1>0, <2>3, <4>1, <4>2 DEF LocalsOK
    <3>2. StartSpan(a, AfterSpan(a), Layers[layer[a] + 1]) /\ Layers[layer[a] + 1] \in SpanNames
      BY <1>3, <2>3, <3>1, LayersAre DEF EndLayer
    <3>3. SpanOK' /\ (Goto(a, "choose") \/ Goto(a, "layer"))
      <4> DEFINE name == Layers[layer[a] + 1]
                 current == AfterSpan(a)
      <4> HIDE DEF name, current
      <4>1. StartSpan(a, current, name) /\ name \in SpanNames
            /\ current \in [root : SpanNames, name : SpanNames]
        BY <2>2, <3>2 DEF name, current
      <4>2. CASE StartTrace(a, name) /\ span' = [span EXCEPT ![a] = NoSpan]
        <5>1. traces' \in Seq(TraceRows)
          BY <1>0, <4>1, <4>2, StartedRows DEF SpanOK
        <5> QED BY <1>0, <1>3, <2>2, <4>2, <5>1 DEF EndLayer, SpanOK, StartTrace
      <4>3. CASE AddSpan(a, current.root, name) /\ UNCHANGED pc
        <5>1. traces' \in Seq(TraceRows) /\ current.root \in SpanNames
          BY <1>0, <4>1, <4>3, AddedRows DEF SpanOK
        <5>2. Goto(a, "layer")
          BY <1>0, <1>3, <4>3 DEF EndLayer, Goto, LocalsOK
        <5> QED BY <1>0, <1>3, <4>1, <4>3, <5>1, <5>2 DEF EndLayer, SpanOK, AddSpan
      <4> QED BY <4>1, <4>2, <4>3 DEF StartSpan
    <3>4. LocalsOK' /\ Holding' /\ ServiceOK'
      BY <1>0, <1>3, <2>1, <3>1, <3>3, MoveType DEF EndLayer, LocalsOK, Places, Attached, Running
    <3> QED BY <1>0, <1>1, <1>3, <3>3, <3>4, PartsKept DEF EndLayer
  <2>4. CASE ~(layer[a] < LastLayer(a))
    <3>1. SpanOK' /\ Goto(a, "count") /\ UNCHANGED layer
      BY <1>0, <1>3, <2>2, <2>4 DEF EndLayer, SpanOK
    <3>2. LocalsOK' /\ Holding' /\ ServiceOK'
      BY <1>0, <1>3, <2>1, <3>1, MoveType DEF EndLayer, LocalsOK, Places, Attached, Running
    <3> QED BY <1>0, <1>1, <1>3, <3>1, <3>2, PartsKept DEF EndLayer
  <2> QED BY <2>3, <2>4
<1>4. ASSUME LayerRaises(a) PROVE TypeInv'
  <2>1. LocalsOK' /\ Holding'
    BY <1>4, OverType DEF LayerRaises, service
  <2>2. SpanOK'
    <3>1. traces' \in Seq(TraceRows)
      BY <1>0, <1>4, FailedRows DEF LayerRaises, SpanOK
    <3> QED BY <1>0, <1>4, <3>1 DEF LayerRaises, SpansFailed, SpanOK, NoSpan, SpanNames
  <2> QED BY <1>0, <1>1, <1>4, <2>1, <2>2, PartsKept DEF LayerRaises
<1>5. ASSUME Count(a) \/ Total(a) \/ TotalErrors(a) \/ Measure(a) PROVE TypeInv'
  <2>1. pipe[a] \in 1..Len(counts) /\ counts[pipe[a]] \in Pair /\ counts \in Seq(Pair)
    <3>1. pipe[a] # 0 /\ pipe[a] \in 0..Len(clients)
      BY <1>0, <1>5 DEF TypeInv, Holding, LocalsOK, Count, Total, TotalErrors, Measure, Attached, Running
    <3>2. counts \in Seq(Pair) /\ Len(counts) = Len(clients) /\ Len(counts) \in Nat
      BY <1>0 DEF MetricsOK
    <3>3. pipe[a] \in 1..Len(counts)
      BY <3>1, <3>2
    <3> QED BY <3>2, <3>3
  <2>2. MetricsOK'
    <3>1. UNCHANGED clients
      BY <1>5 DEF Count, Total, TotalErrors, Measure, service
    <3>2. CASE Count(a)
      <4>1. \A n \in Pair : Counted(n, a) \in Pair
        <5> TAKE n \in Pair
        <5>1. n.queries + 1 \in Nat /\ n.errors + 1 \in Nat /\ n.errors + 0 \in Nat
          BY DEF Pair
        <5>2. n.errors + (IF Failed(a) THEN 1 ELSE 0) \in Nat
          BY <5>1, Zenon
        <5> QED BY <5>1, <5>2, Zenon DEF Counted, Pair
      <4>2. counts' = [counts EXCEPT ![pipe[a]] = Counted(counts[pipe[a]], a)]
        BY <3>2, Zenon DEF Count
      <4>3. counts' \in Seq(Pair) /\ Len(counts') = Len(counts)
        BY <2>1, <4>1, <4>2, ExceptSeq
      <4> QED BY <1>0, <3>1, <3>2, <4>3 DEF Count, MetricsOK
    <3>3. CASE Total(a) \/ TotalErrors(a)
      <4>1. totals.queries + 1 \in Nat /\ totals.errors + 1 \in Nat
        BY <1>0 DEF MetricsOK, Pair
      <4>2. \A n \in Nat : [totals EXCEPT !.queries = n] \in Pair /\ [totals EXCEPT !.errors = n] \in Pair
        BY <1>0 DEF MetricsOK, Pair
      <4>3. \/ totals' = [totals EXCEPT !.queries = totals.queries + 1]
            \/ totals' = [totals EXCEPT !.errors = totals.errors + 1]
        BY <3>3, Zenon DEF Total, TotalErrors
      <4>4. totals' \in Pair
        BY <4>1, <4>2, <4>3
      <4>5. UNCHANGED <<counts, rate, measured>>
        BY <3>3 DEF Total, TotalErrors
      <4> QED BY <1>0, <3>1, <4>4, <4>5 DEF MetricsOK
    <3>4. CASE Measure(a)
      BY <1>0, <2>1, <3>1, <3>4 DEF Measure, MetricsOK
    <3> QED BY <1>5, <3>2, <3>3, <3>4
  <2>3. LocalsOK' /\ Holding' /\ ServiceOK'
    BY <1>5, MoveType DEF Count, Total, TotalErrors, Measure, Stay, Places, Attached, Running, Stages
  <2> QED BY <1>0, <1>1, <1>5, <2>2, <2>3, PartsKept DEF Count, Total, TotalErrors, Measure
<1>6. ASSUME SetGauge(a) PROVE TypeInv'
  <2>1. MetricsOK' /\ SpanOK'
    BY <1>0, <1>6 DEF SetGauge, MetricsOK, Pair, Zero, SpanOK, NoSpan, SpanNames, service
  <2>2. LocalsOK' /\ Holding' /\ ServiceOK'
    <3>1. CASE Goto(a, "load") /\ UNCHANGED <<pipe, client, layer, reply>>
      BY <1>6, <3>1, MoveType DEF SetGauge, Places, Attached, Running, Stages
    <3>2. CASE Over(a, "answer")
      BY <1>0, <1>6, <3>2, OverType, PartsKept DEF SetGauge, service
    <3> QED BY <1>6, <3>1, <3>2 DEF SetGauge
  <2> QED BY <1>0, <1>1, <1>6, <2>1, <2>2, PartsKept DEF SetGauge
<1>7. ASSUME Load(a) PROVE TypeInv'
  <2>1. FeedOK'
    BY <1>0, <1>7 DEF Load, FeedOK
  <2>2. LocalsOK' /\ Holding' /\ ServiceOK'
    <3>1. CASE Goto(a, "open") /\ UNCHANGED <<pipe, client, layer, reply>>
      BY <1>7, <3>1, MoveType DEF Load, Places, Attached, Running, Stages
    <3>2. CASE Over(a, "error")
      BY <1>0, <1>7, <3>2, OverType, PartsKept DEF Load, service
    <3> QED BY <1>7, <3>1, <3>2 DEF Load
  <2> QED BY <1>0, <1>1, <1>7, <2>1, <2>2, PartsKept DEF Load
<1>8. ASSUME Open(a) PROVE TypeInv'
  <2>1. FeedOK'
    BY <1>0, <1>8 DEF Open, FeedOK
  <2>2. LocalsOK' /\ Holding' /\ ServiceOK'
    BY <1>8, MoveType DEF Open, Stay, Places, Attached, Running, Stages
  <2> QED BY <1>0, <1>1, <1>8, <2>1, <2>2, PartsKept DEF Open
<1>9. ASSUME Write(a) PROVE TypeInv'
  <2>1. FeedOK'
    BY <1>0, <1>9 DEF Write, FeedOK
  <2>2. LocalsOK' /\ Holding'
    BY <1>9, OverType DEF Write, service
  <2> QED BY <1>0, <1>1, <1>9, <2>1, <2>2, PartsKept DEF Write
<1> QED BY <1>2, <1>3, <1>4, <1>5, <1>6, <1>7, <1>8, <1>9, <1>11, <1>12, <1>13, <1>14 DEF Query

LEMMA StreamType ==
    ASSUME TypeInv, NEW a \in Requests, Stream(a) \/ Disconnect(a) \/ Guide(a) \/ Ask(a)
    PROVE  TypeInv'
<1> a \in Actors
  BY DEF Actors
<1>0. ServiceOK /\ MetricsOK /\ FeedOK /\ SpanOK /\ LocalsOK
  BY TypeParts DEF TypeInv
<1>1. ASSUME LocalsOK', Holding', UNCHANGED <<service, metrics, tracing, recording>> PROVE TypeInv'
  BY <1>0, <1>1, TypeParts, PartsKept DEF TypeInv
<1>2. ASSUME NEW s \in Stages, Advance(a, s), pc[a] \in Stages PROVE TypeInv'
  BY <1>1, <1>2, MoveType DEF Advance, Stay, Stages, Places, Attached, Running
<1>3. ASSUME Done(a) PROVE TypeInv'
  BY <1>1, <1>3, OverType DEF Done, service
<1>4. ASSUME StreamToken(a) PROVE TypeInv'
  BY <1>0, <1>1, <1>4 DEF StreamToken, Stay, LocalsOK, TypeInv, Holding, service
<1>5. ASSUME StreamRaises(a) PROVE TypeInv'
  BY <1>1, <1>5, OverType DEF StreamRaises, service
<1>6. ASSUME Disconnect(a) PROVE TypeInv'
  BY <1>0, <1>1, <1>6, LeaveType DEF Disconnect, LocalsOK, service
<1>7. ASSUME Guide(a) PROVE TypeInv'
  <2>1. Over(a, "guide") /\ UNCHANGED clients /\ UNCHANGED result
    BY <1>7 DEF Guide, service
  <2>2. Leave(a, "over") /\ reply' \in [Actors -> {"none", "answer", "guide", "error"}]
    BY <1>0, <2>1 DEF Over, LocalsOK
  <2>3. ask' \in [Actors -> Asks \cup {NoAsk}]
    BY <1>0, <1>7, BoundsAreKnown DEF Guide, LocalsOK
  <2> QED BY <1>0, <1>1, <1>7, <2>1, <2>2, <2>3, LeaveType DEF Guide, LocalsOK
<1>8. ASSUME Ask(a) PROVE TypeInv'
  <2>1. ask' \in [Actors -> Asks \cup {NoAsk}]
    BY <1>0, <1>8, BoundsAreKnown DEF Ask, LocalsOK
  <2>2. pc' \in [Actors -> Places] /\ Holding'
    BY <1>8, GotoType DEF Ask, Places, Attached, Running, Stages
  <2> QED BY <1>0, <1>1, <1>8, <2>1, <2>2 DEF Ask, LocalsOK, service
<1>9. \/ \E s \in Stages : Advance(a, s) /\ pc[a] \in Stages
      \/ Done(a) \/ StreamToken(a) \/ StreamRaises(a) \/ Disconnect(a) \/ Guide(a) \/ Ask(a)
  BY DEF Stream, StreamRetrieved, StreamReranked, StreamAssembled, StreamGenerated, StreamScored, Stages
<1> QED BY <1>2, <1>3, <1>4, <1>5, <1>6, <1>7, <1>8, <1>9

LEMMA RestartType == ASSUME TypeInv, Restart PROVE TypeInv'
<1>0. ServiceOK /\ MetricsOK /\ FeedOK /\ SpanOK /\ LocalsOK
  BY TypeParts DEF TypeInv
<1>1. clients' = <<>> /\ Len(clients') = 0
  BY DEF Restart
<1>2. ServiceOK'
  <2>1. <<>> \in Seq(Backends) /\ 0 \in 0..Len(<<>>)
    OBVIOUS
  <2>2. clients' \in Seq(Backends) /\ pipeline' \in 0..Len(clients')
    BY <1>1, <2>1, Zenon DEF Restart
  <2>3. starts' \in 1..(MaxStarts + 1)
    BY <1>0, LimitsAreNumbers DEF Restart, ServiceOK
  <2> QED BY <2>2, <2>3 DEF Restart, ServiceOK
<1>3. MetricsOK' /\ SpanOK'
  <2>1. /\ <<>> \in Seq(Pair) /\ <<>> \in Seq(TraceRows)
        /\ <<>> \in Seq([of : Requests, root : SpanNames])
    OBVIOUS
  <2>2. counts' \in Seq(Pair) /\ Len(counts') = Len(clients') /\ traces' \in Seq(TraceRows)
    <3>1. counts' = <<>> /\ clients' = <<>> /\ traces' = <<>>
      BY DEF Restart
    <3> QED BY <2>1, <3>1, Zenon
  <2>3. MetricsOK'
    BY <1>0, <2>2 DEF Restart, MetricsOK, Pair, Zero
  <2>4. span' \in [Actors -> [root : SpanNames, name : SpanNames]]
    BY <1>0 DEF Restart, SpanOK, NoSpan, SpanNames
  <2>5. doomed' \in [Actors -> Seq([of : Requests, root : SpanNames])]
    BY <1>0, <2>1 DEF Restart, SpanOK
  <2> QED BY <2>2, <2>3, <2>4, <2>5 DEF SpanOK
<1>4. FeedOK'
  BY <1>0 DEF Restart, FeedOK
<1>5. pc' \in [Actors -> Places] /\ ask' \in [Actors -> Asks \cup {NoAsk}]
  BY <1>0 DEF Restart, LocalsOK, Places
<1>6. /\ client' \in [Actors -> Backends] /\ layer' \in [Actors -> 0..5]
      /\ result' \in [Actors -> Results]
      /\ reply' \in [Actors -> {"none", "answer", "guide", "error"}]
  BY <1>0 DEF Restart, LocalsOK, Backends, Results
<1>7. pipe' \in [Actors -> 0..Len(clients')] /\ Holding'
  <2>1. pipe' = [a \in Actors |-> 0]
    BY <1>0 DEF Restart, TypeInv, Holding
  <2>2. \A a \in Actors : pc'[a] \notin Attached
    BY DEF Restart, Attached, Running, Stages
  <2> QED BY <1>1, <2>1, <2>2 DEF Holding
<1> QED BY <1>2, <1>3, <1>4, <1>5, <1>6, <1>7, TypeParts DEF LocalsOK, TypeInv

LEMMA TypeStep == ASSUME TypeInv, [Next]_vars PROVE TypeInv'
<1>1. ASSUME NEW a \in Actors, Ensure(a) PROVE TypeInv'
  BY <1>1, EnsureType
<1>2. ASSUME NEW a \in Requests, Query(a) PROVE TypeInv'
  BY <1>2, QueryType
<1>3. ASSUME NEW a \in Requests, Stream(a) \/ Disconnect(a) \/ Guide(a) \/ Ask(a) PROVE TypeInv'
  BY <1>3, StreamType
<1>4. CASE Restart
  BY <1>4, RestartType
<1>5. CASE UNCHANGED vars
  BY <1>5, TypeParts, PartsKept
     DEF vars, service, metrics, tracing, recording, TypeInv, LocalsOK, Holding
<1> QED BY <1>1, <1>2, <1>3, <1>4, <1>5 DEF Next

\* Every variable of the query service keeps the type its Python counterpart
\* is used with.
THEOREM TypeCorrect == Spec => []TypeOK
<1>1. Init => TypeInv
  BY TypeInit
<1>2. TypeInv /\ [Next]_vars => TypeInv'
  BY TypeStep
<1>3. TypeInv => TypeOK
  BY DEF TypeInv
<1> QED BY <1>1, <1>2, <1>3, PTL DEF Spec

(***************************************************************************)
(* One pipeline.                                                           *)
(***************************************************************************)
\* A call past the build has a pipeline of its own, which nobody else sees.
Builder ==
    \A a \in Actors :
        /\ pc[a] \in {"client", "publish"} => pipe[a] \in 1..Len(clients)
        /\ pc[a] = "publish" => client[a] # "none"
\* The warm-up runs alone, and requests begin when it has ended.
WarmUp ==
    /\ pc[Main] \in {"check", "build", "client", "publish", "over"}
    /\ \A a \in Requests : pc[a] \notin {"idle", "over", "gone"} => pc[Main] = "over"
    /\ cold => pc[Main] = "over"
    /\ pc[Main] \in {"check", "build"} => clients = <<>> /\ pipeline = 0
    /\ pc[Main] \in {"client", "publish"} => Len(clients) = 1 /\ pipe[Main] = 1 /\ pipeline = 0
    /\ pc[Main] = "publish" => backend = client[Main]
    /\ pc[Main] = "over" /\ ~cold => pipeline # 0
PipeInv == TypeInv /\ Builder /\ WarmUp /\ OnePipeline

LEMMA PipeInit == Init => PipeInv
<1> SUFFICES ASSUME Init PROVE PipeInv
  OBVIOUS
<1>1. TypeInv
  BY TypeInit
<1>2. /\ \A a \in Requests : a \in Actors /\ pc[a] = "idle"
      /\ Main \in Actors /\ pc[Main] = "check"
  BY MainIsNoRequest DEF Init, Actors
<1>3. \A a \in Actors : pc[a] \in {"idle", "check"}
  BY <1>2 DEF Actors
<1>4. clients = <<>> /\ pipeline = 0 /\ ~cold /\ Len(clients) = 0
  BY DEF Init
<1>5. Builder /\ WarmUp
  BY <1>2, <1>3, <1>4 DEF Builder, WarmUp
<1>6. OnePipeline
  BY <1>2, <1>3, <1>4 DEF OnePipeline, PipelineIsFinished, WarmMeansOnePipeline, Running, Stages
<1> QED BY <1>1, <1>5, <1>6 DEF PipeInv

\* A step outside of _ensure_pipeline: the call moves on with the pipeline it
\* has, or ends.
MovesOn(a, place) ==
    /\ Goto(a, place) /\ UNCHANGED <<pipe, client>>
    /\ place \notin {"build", "client", "publish"}
    /\ place \in Running => pc[a] \in Running
    /\ pc[a] \notin {"idle", "over", "gone"} \/ pc[Main] = "over"
Ends(a) ==
    \E place \in {"over", "gone"} :
        /\ Goto(a, place)
        /\ pipe' = [pipe EXCEPT ![a] = 0] /\ client' = [client EXCEPT ![a] = "none"]
Continues(a) == UNCHANGED service /\ (Ends(a) \/ \E place \in Places : MovesOn(a, place))

LEMMA ContinuesKeeps ==
    ASSUME PipeInv, TypeInv', NEW a \in Requests, Continues(a)
    PROVE  PipeInv'
<1>1. a \in Actors /\ Main \in Actors /\ a # Main
  BY MainIsNoRequest DEF Actors
<1>2. pc \in [Actors -> Places] /\ pipe \in [Actors -> 0..Len(clients)]
      /\ client \in [Actors -> Backends]
  BY DEF PipeInv, TypeInv, TypeOK
<1>3. UNCHANGED <<starts, cold, pipeline, clients, backend>>
  BY DEF Continues, service
<1>4. CASE Ends(a)
  <2>1. Builder'
    BY <1>1, <1>2, <1>3, <1>4 DEF Ends, Goto, PipeInv, Builder
  <2>2. WarmUp'
    BY <1>1, <1>2, <1>3, <1>4 DEF Ends, Goto, PipeInv, WarmUp
  <2>3. OnePipeline'
    BY <1>1, <1>2, <1>3, <1>4
       DEF Ends, Goto, PipeInv, OnePipeline, PipelineIsFinished, WarmMeansOnePipeline, Running, Stages
  <2> QED BY <2>1, <2>2, <2>3 DEF PipeInv
<1>5. ASSUME NEW place \in Places, MovesOn(a, place) PROVE PipeInv'
  <2>1. Builder'
    BY <1>1, <1>2, <1>3, <1>5 DEF MovesOn, Goto, PipeInv, Builder
  <2>2. WarmUp'
    BY <1>1, <1>2, <1>3, <1>5 DEF MovesOn, Goto, PipeInv, WarmUp
  <2>3. OnePipeline'
    BY <1>1, <1>2, <1>3, <1>5
       DEF MovesOn, Goto, PipeInv, OnePipeline, PipelineIsFinished, WarmMeansOnePipeline
  <2> QED BY <2>1, <2>2, <2>3 DEF PipeInv
<1> QED BY <1>4, <1>5 DEF Continues

LEMMA QueryContinues ==
    ASSUME PipeInv, NEW a \in Requests, Query(a) \/ Stream(a) \/ Disconnect(a) \/ Guide(a) \/ Ask(a)
    PROVE  Continues(a)
<1> USE DEF Continues, Places, Stages
<1>1. /\ Root(a) \/ Choose(a) \/ Started(a) \/ Open(a) => Continues(a)
      /\ Count(a) \/ Total(a) \/ TotalErrors(a) \/ Measure(a) => Continues(a)
  BY DEF Root, StartTrace, Choose, Started, Count, Total, TotalErrors, Measure, Open, MovesOn, Goto,
         Stay, Running
<1>9. Trim(a) => Continues(a)
  <2> SUFFICES ASSUME Trim(a) PROVE Continues(a)
    OBVIOUS
  <2>1. pc \in [Actors -> Places] /\ a \in Actors /\ pc[a] = "trim"
        /\ UNCHANGED service /\ UNCHANGED <<pipe, client, pc>>
    BY DEF Trim, Stay, PipeInv, TypeInv, TypeOK, Actors
  <2>2. Goto(a, "trim")
    BY <2>1 DEF Goto
  <2> QED BY <2>1, <2>2 DEF MovesOn, Running
<1>2. EndLayer(a) => Continues(a)
  <2> SUFFICES ASSUME EndLayer(a) PROVE Continues(a)
    OBVIOUS
  <2>1. pc \in [Actors -> Places] /\ a \in Actors /\ pc[a] = "layer"
        /\ UNCHANGED service /\ UNCHANGED <<pipe, client>>
    BY DEF EndLayer, PipeInv, TypeInv, TypeOK, Actors
  <2>2. Goto(a, "layer") \/ Goto(a, "count") \/ Goto(a, "choose")
    BY <2>1 DEF EndLayer, StartSpan, StartTrace, Goto
  <2> QED BY <2>1, <2>2 DEF MovesOn, Running
<1>3. /\ LayerRaises(a) \/ Write(a) \/ TrimRaises(a) => Continues(a)
      /\ StreamRaises(a) \/ Done(a) \/ Guide(a) \/ Disconnect(a) => Continues(a)
  BY DEF LayerRaises, Write, TrimRaises, StreamRaises, Done, Guide, Disconnect, Over, Leave, Ends
<1>4. SetGauge(a) \/ Load(a) => Continues(a)
  BY DEF SetGauge, Load, Over, Leave, Ends, MovesOn, Running
<1>5. Ask(a) => Continues(a)
  BY DEF Ask, MovesOn, Running
<1>6. ASSUME NEW s \in Stages, Advance(a, s), pc[a] \in Stages PROVE Continues(a)
  BY <1>6 DEF Advance, Stay, MovesOn, Running
<1>7. StreamToken(a) => Continues(a)
  <2> SUFFICES ASSUME StreamToken(a) PROVE Continues(a)
    OBVIOUS
  <2>1. pc \in [Actors -> Places] /\ a \in Actors /\ pc[a] = "generating"
        /\ UNCHANGED service /\ UNCHANGED <<pipe, client, pc>>
    BY DEF StreamToken, Stay, PipeInv, TypeInv, TypeOK, Actors
  <2>2. Goto(a, "generating")
    BY <2>1 DEF Goto
  <2> QED BY <2>1, <2>2 DEF MovesOn, Running
<1>8. StreamRetrieved(a) \/ StreamReranked(a) \/ StreamAssembled(a) \/ StreamGenerated(a)
        \/ StreamScored(a) => Continues(a)
  BY <1>3, <1>6 DEF StreamRetrieved, StreamReranked, StreamAssembled, StreamGenerated, StreamScored
<1> QED BY <1>1, <1>2, <1>3, <1>4, <1>5, <1>7, <1>8, <1>9 DEF Query, Stream

\* _ensure_pipeline keeps it: who builds during the warm-up is the warm-up.
LEMMA EnsurePipe == ASSUME PipeInv, TypeInv', NEW a \in Actors, Ensure(a) PROVE PipeInv'
<1>1. /\ Main \in Actors /\ Main \notin Requests /\ Actors = Requests \cup {Main}
      /\ a # Main => a \in Requests
  BY MainIsNoRequest DEF Actors
<1>2. /\ pc \in [Actors -> Places] /\ pipe \in [Actors -> 0..Len(clients)]
      /\ client \in [Actors -> Backends] /\ clients \in Seq(Backends)
      /\ pipeline \in 0..Len(clients) /\ Len(clients) \in Nat
  BY DEF PipeInv, TypeInv, TypeOK
<1>3. pc[a] \in {"check", "build", "client", "publish"} /\ a # Main => pc[Main] = "over"
  BY <1>1 DEF PipeInv, WarmUp
<1>4. ASSUME NEW b, b # 0, clients'[b] # "none", WithPipeline(a, b), pipeline' = b,
             pc[a] \in {"check", "publish"}, Len(clients') = Len(clients),
             \A d \in 0..Len(clients) : clients[d] # "none" => clients'[d] # "none",
             ~cold => Len(clients) <= 1 /\ backend = clients'[b],
             UNCHANGED <<cold, backend>>
      PROVE  PipeInv'
  <2>1. \/ /\ pc' = [pc EXCEPT ![a] = "over"] /\ pipe' = [pipe EXCEPT ![a] = 0]
           /\ client' = [client EXCEPT ![a] = "none"]
        \/ /\ a # Main /\ pipe' = [pipe EXCEPT ![a] = b] /\ client' = [client EXCEPT ![a] = "none"]
           /\ \E p \in {"retrieving", "root"} : pc' = [pc EXCEPT ![a] = p]
    BY <1>4 DEF WithPipeline, Over, Leave, Goto
  <2>2. Builder'
    BY <1>1, <1>2, <1>4, <2>1 DEF PipeInv, Builder
  <2>3. WarmUp'
    BY <1>1, <1>2, <1>3, <1>4, <2>1 DEF PipeInv, WarmUp
  <2>4. PipelineIsFinished'
    BY <1>1, <1>2, <1>4, <2>1 DEF PipeInv, OnePipeline, PipelineIsFinished, Running, Stages
  <2>5. WarmMeansOnePipeline'
    BY <1>1, <1>2, <1>4, <2>1 DEF PipeInv, OnePipeline, WarmMeansOnePipeline
  <2> QED BY <2>2, <2>3, <2>4, <2>5 DEF PipeInv, OnePipeline
<1>5. ASSUME Check(a) PROVE PipeInv'
  <2>1. /\ pc[a] = "check" /\ UNCHANGED <<cold, pipeline, clients, backend>>
    BY <1>5 DEF Check, service
  <2>2. CASE pipeline # 0
    <3>1. WithPipeline(a, pipeline) /\ clients[pipeline] # "none"
      BY <1>5, <2>2 DEF Check, PipeInv, OnePipeline, PipelineIsFinished
    <3>2. ~cold => Len(clients) <= 1 /\ backend = clients[pipeline]
      BY <2>2 DEF PipeInv, OnePipeline, WarmMeansOnePipeline
    <3> QED BY <1>4, <2>1, <2>2, <3>1, <3>2
  <2>3. CASE pipeline = 0
    <3>1. pc' = [pc EXCEPT ![a] = "build"] /\ UNCHANGED <<pipe, client>>
      BY <1>5, <2>3 DEF Check, Goto
    <3>2. Builder' /\ WarmUp'
      BY <1>1, <1>2, <1>3, <2>1, <2>3, <3>1 DEF PipeInv, Builder, WarmUp
    <3>3. PipelineIsFinished'
      BY <1>1, <1>2, <2>1, <2>3, <3>1
         DEF PipeInv, OnePipeline, PipelineIsFinished, Running, Stages
    <3>4. WarmMeansOnePipeline'
      BY <1>1, <1>2, <1>3, <2>1, <2>3, <3>1 DEF PipeInv, WarmUp, OnePipeline, WarmMeansOnePipeline
    <3> QED BY <3>2, <3>3, <3>4 DEF PipeInv, OnePipeline
  <2> QED BY <2>2, <2>3
<1>6. ASSUME Build(a) PROVE PipeInv'
  <2>1. /\ pc[a] = "build" /\ pc' = [pc EXCEPT ![a] = "client"]
        /\ pipe' = [pipe EXCEPT ![a] = Len(clients) + 1]
        /\ UNCHANGED <<cold, pipeline, backend>>
        /\ \E c \in WantedClients : client' = [client EXCEPT ![a] = c]
    BY <1>6 DEF Build, Goto
  <2>2. /\ Len(clients') = Len(clients) + 1
        /\ \A d \in 1..Len(clients) : clients'[d] = clients[d]
    BY <1>2, <1>6 DEF Build, Backends
  <2>3. Builder'
    BY <1>1, <1>2, <2>1, <2>2 DEF PipeInv, Builder
  <2>4. WarmUp'
    BY <1>1, <1>2, <1>3, <2>1, <2>2 DEF PipeInv, WarmUp
  <2>5. PipelineIsFinished'
    BY <1>1, <1>2, <2>1, <2>2 DEF PipeInv, OnePipeline, PipelineIsFinished, Running, Stages
  <2>6. WarmMeansOnePipeline'
    BY <1>1, <1>2, <1>3, <2>1, <2>2 DEF PipeInv, WarmUp, OnePipeline, WarmMeansOnePipeline
  <2> QED BY <2>3, <2>4, <2>5, <2>6 DEF PipeInv, OnePipeline
<1>7. ASSUME BuildRaises(a) PROVE PipeInv'
  <2>1. /\ pc[a] = "build" /\ pc' = [pc EXCEPT ![a] = "over"]
        /\ pipe' = [pipe EXCEPT ![a] = 0] /\ client' = [client EXCEPT ![a] = "none"]
        /\ cold' = (cold \/ a = Main) /\ UNCHANGED <<pipeline, clients, backend>>
    BY <1>7 DEF BuildRaises, Over, Leave, Goto
  <2>2. Builder' /\ WarmUp'
    BY <1>1, <1>2, <1>3, <2>1 DEF PipeInv, Builder, WarmUp
  <2>3. PipelineIsFinished'
    BY <1>1, <1>2, <2>1 DEF PipeInv, OnePipeline, PipelineIsFinished, Running, Stages
  <2>4. WarmMeansOnePipeline'
    BY <1>1, <1>2, <1>3, <2>1 DEF PipeInv, WarmUp, OnePipeline, WarmMeansOnePipeline
  <2> QED BY <2>2, <2>3, <2>4 DEF PipeInv, OnePipeline
<1>8. ASSUME ChooseClient(a) PROVE PipeInv'
  <2>1. /\ pc[a] = "client" /\ pc' = [pc EXCEPT ![a] = "publish"]
        /\ UNCHANGED <<cold, pipeline, clients, pipe>> /\ backend' = client'[a]
        /\ \E c \in {"ollama", "mock"} : client' = [client EXCEPT ![a] = c]
    BY <1>8 DEF ChooseClient, Goto
  <2>2. Builder' /\ WarmUp'
    BY <1>1, <1>2, <1>3, <2>1 DEF PipeInv, Builder, WarmUp
  <2>3. PipelineIsFinished'
    BY <1>1, <1>2, <2>1 DEF PipeInv, OnePipeline, PipelineIsFinished, Running, Stages
  <2>4. WarmMeansOnePipeline'
    BY <1>1, <1>2, <1>3, <2>1 DEF PipeInv, WarmUp, OnePipeline, WarmMeansOnePipeline
  <2> QED BY <2>2, <2>3, <2>4 DEF PipeInv, OnePipeline
<1>9. ASSUME Publish(a) PROVE PipeInv'
  <2>1. /\ pc[a] = "publish" /\ pipe[a] \in 1..Len(clients) /\ client[a] # "none"
        /\ client[a] \in Backends
        /\ WithPipeline(a, pipe[a]) /\ pipeline' = pipe[a] /\ UNCHANGED <<cold, backend>>
        /\ clients' = [clients EXCEPT ![pipe[a]] = client[a]]
    BY <1>2, <1>9 DEF Publish, PipeInv, Builder
  <2>2. /\ Len(clients') = Len(clients) /\ clients'[pipe[a]] = client[a]
        /\ \A d \in 1..Len(clients) : clients'[d] = IF d = pipe[a] THEN client[a] ELSE clients[d]
    BY <1>2, <2>1, ExceptSeq
  <2>3. \A d \in 0..Len(clients) : clients[d] # "none" => clients'[d] # "none"
    <3>1. clients'[0] = clients[0]
      BY <1>2, <2>1
    <3> QED BY <1>2, <2>1, <2>2, <3>1
  <2>4. ~cold => Len(clients) <= 1 /\ backend = clients'[pipe[a]]
    BY <1>1, <2>1, <2>2 DEF PipeInv, OnePipeline, WarmMeansOnePipeline, WarmUp
  <2> QED BY <1>4, <2>1, <2>2, <2>3, <2>4
<1> QED BY <1>5, <1>6, <1>7, <1>8, <1>9 DEF Ensure

LEMMA RestartPipe == ASSUME PipeInv, TypeInv', Restart PROVE PipeInv'
<1>1. /\ Main \in Actors /\ Main \notin Requests /\ Actors = Requests \cup {Main}
  BY MainIsNoRequest DEF Actors
<1>2. /\ clients' = <<>> /\ pipeline' = 0 /\ ~cold'
      /\ pc'[Main] = "check"
      /\ \A a \in Requests : pc'[a] \in {"idle", "over", "gone"}
  BY <1>1 DEF Restart
<1>3. Len(clients') = 0
  BY <1>2
<1>4. Builder' /\ WarmUp'
  BY <1>1, <1>2, <1>3 DEF Builder, WarmUp
<1>5. OnePipeline'
  BY <1>1, <1>2, <1>3 DEF OnePipeline, PipelineIsFinished, WarmMeansOnePipeline, Running, Stages
<1> QED BY <1>4, <1>5 DEF PipeInv

\* No request runs on a pipeline whose generation service is not set, and while
\* no warm-up has failed there is one pipeline, built by the warm-up
\* (_ensure_pipeline).
THEOREM PipelineUnique == Spec => []OnePipeline
<1>1. Init => PipeInv
  BY PipeInit
<1>2. PipeInv /\ [Next]_vars => PipeInv'
  <2> SUFFICES ASSUME PipeInv, [Next]_vars PROVE PipeInv'
    OBVIOUS
  <2>1. TypeInv'
    BY TypeStep DEF PipeInv
  <2>2. ASSUME NEW a \in Actors, Ensure(a) PROVE PipeInv'
    BY <2>1, <2>2, EnsurePipe
  <2>3. ASSUME NEW a \in Requests, Query(a) \/ Stream(a) \/ Disconnect(a) \/ Guide(a) \/ Ask(a)
        PROVE  PipeInv'
    BY <2>1, <2>3, QueryContinues, ContinuesKeeps
  <2>4. CASE Restart
    BY <2>1, <2>4, RestartPipe
  <2>5. CASE UNCHANGED vars
    BY <2>1, <2>5
       DEF vars, service, PipeInv, Builder, WarmUp, OnePipeline, PipelineIsFinished,
           WarmMeansOnePipeline
  <2> QED BY <2>2, <2>3, <2>4, <2>5 DEF Next
<1>3. PipeInv => OnePipeline
  BY DEF PipeInv
<1> QED BY <1>1, <1>2, <1>3, PTL DEF Spec

(***************************************************************************)
(* The protocol of a stream.                                               *)
(***************************************************************************)
Events == {"ready", "done", "error", "token"} \cup Stages
QueryPlaces == {"root", "choose", "trim", "layer", "count", "total", "errors", "measure", "gauge",
                "load", "open", "write"}
\* What the events e of a request say of its place and endpoint.
Consistent(e, place, endpoint) ==
    /\ \A i \in DOMAIN e : e[i] \in Final => i = Len(e) /\ place = "over"
    /\ \A i \in DOMAIN e : e[i] = "token" => \E j \in 1..(i - 1) : e[j] = "generating"
    /\ endpoint = "stream" /\ place = "over" => e # <<>> /\ e[Len(e)] \in Final
    /\ place = "generating" => \E j \in DOMAIN e : e[j] = "generating"
    /\ place \in Stages => endpoint = "stream"
    /\ place \in QueryPlaces => endpoint = "query"
    /\ place = "idle" => e = <<>>
    /\ place \notin {"idle", "gone"} => endpoint # "none"
StreamInv ==
    /\ TypeInv
    /\ events \in [Actors -> Seq(Events)]
    /\ \A a \in Requests : Consistent(events[a], pc[a], ask[a].endpoint)

LEMMA Extended ==
    ASSUME NEW e \in Seq(Events), NEW x \in Events
    PROVE  /\ e \o <<x>> \in Seq(Events) /\ Len(e \o <<x>>) = Len(e) + 1
           /\ (e \o <<x>>)[Len(e) + 1] = x /\ DOMAIN e = 1..Len(e)
           /\ \A i \in 1..Len(e) : (e \o <<x>>)[i] = e[i]
OBVIOUS

\* One more event.
LEMMA ConsistentAfter ==
    ASSUME NEW e \in Seq(Events), NEW x \in Events, NEW p, NEW q, NEW endpoint,
           Consistent(e, p, endpoint), p # "over", q # "idle", p \notin {"idle", "gone"},
           x \in Final => q = "over", x = "token" => p = "generating",
           endpoint = "stream" /\ q = "over" => x \in Final,
           q = "generating" => p = "generating" \/ x = "generating",
           q \in Stages => endpoint = "stream", q \notin QueryPlaces
    PROVE  Consistent(e \o <<x>>, q, endpoint)
<1> DEFINE f == e \o <<x>>
<1> HIDE DEF f
<1>1. /\ f \in Seq(Events) /\ Len(f) = Len(e) + 1 /\ DOMAIN f = 1..Len(f) /\ Len(e) \in Nat
      /\ f[Len(f)] = x /\ DOMAIN e = 1..Len(e) /\ \A i \in 1..Len(e) : f[i] = e[i]
  BY Extended DEF f
<1>2. \A i \in DOMAIN f : f[i] \in Final => i = Len(f) /\ q = "over"
  BY <1>1 DEF Consistent
<1>3. \A i \in DOMAIN f : f[i] = "token" => \E j \in 1..(i - 1) : f[j] = "generating"
  <2> TAKE i \in DOMAIN f
  <2> HAVE f[i] = "token"
  <2>1. CASE i \in 1..Len(e)
    <3>1. PICK j \in 1..(i - 1) : e[j] = "generating"
      BY <1>1, <2>1 DEF Consistent
    <3> QED BY <1>1, <2>1, <3>1
  <2>2. CASE i = Len(f)
    <3>1. PICK j \in DOMAIN e : e[j] = "generating"
      BY <1>1, <2>2 DEF Consistent
    <3> QED BY <1>1, <2>2, <3>1
  <2> QED BY <1>1, <2>1, <2>2
<1>4. q = "generating" => \E j \in DOMAIN f : f[j] = "generating"
  BY <1>1 DEF Consistent
<1>5. f # <<>>
  BY <1>1
<1>6. Consistent(f, q, endpoint)
  BY <1>1, <1>2, <1>3, <1>4, <1>5 DEF Consistent
<1> QED BY <1>6 DEF f

LEMMA NothingAdded == \A e \in Seq(Events) : e \o <<>> = e
OBVIOUS

\* What a step of one actor leaves of the others.
LEMMA OthersKeep ==
    ASSUME StreamInv, TypeInv', NEW a \in Actors,
           pc' = [pc EXCEPT ![a] = pc'[a]], ask' = [ask EXCEPT ![a] = ask'[a]],
           events' = [events EXCEPT ![a] = events'[a]], events'[a] \in Seq(Events),
           a \in Requests => Consistent(events'[a], pc'[a], ask'[a].endpoint)
    PROVE  StreamInv'
<1>1. pc \in [Actors -> Places] /\ ask \in [Actors -> Asks \cup {NoAsk}]
      /\ events \in [Actors -> Seq(Events)]
  BY DEF StreamInv, TypeInv, TypeOK
<1>2. events' \in [Actors -> Seq(Events)]
  BY <1>1
<1>3. ASSUME NEW b \in Requests PROVE Consistent(events'[b], pc'[b], ask'[b].endpoint)
  <2>1. CASE b = a
    BY <2>1
  <2>2. CASE b # a
    <3>1. events'[b] = events[b] /\ pc'[b] = pc[b] /\ ask'[b] = ask[b] /\ b \in Actors
      BY <1>1, <2>2 DEF Actors
    <3> QED BY <3>1 DEF StreamInv
  <2> QED BY <2>1, <2>2
<1> QED BY <1>2, <1>3 DEF StreamInv

\* A step without an event.
LEMMA SilentStep ==
    ASSUME StreamInv, TypeInv', NEW a \in Actors, NEW q, Goto(a, q), UNCHANGED ask,
           UNCHANGED events \/ Emit(a, <<>>),
           a \in Requests => /\ pc[a] \notin {"idle", "over"} /\ q # "idle" /\ q \notin Stages
                             /\ q = "over" => ask[a].endpoint # "stream"
                             /\ q \in QueryPlaces => ask[a].endpoint = "query"
                             /\ pc[a] # "gone"
    PROVE  StreamInv'
<1>1. pc \in [Actors -> Places] /\ ask \in [Actors -> Asks \cup {NoAsk}]
      /\ events \in [Actors -> Seq(Events)]
  BY DEF StreamInv, TypeInv, TypeOK
<1>2. events' = [events EXCEPT ![a] = events'[a]] /\ events'[a] = events[a]
  BY <1>1, NothingAdded DEF Emit
<1>3. pc' = [pc EXCEPT ![a] = pc'[a]] /\ pc'[a] = q /\ ask' = [ask EXCEPT ![a] = ask'[a]]
  BY <1>1 DEF Goto
<1>4. ASSUME a \in Requests PROVE Consistent(events[a], q, ask[a].endpoint)
  <2>1. Consistent(events[a], pc[a], ask[a].endpoint)
    BY <1>4 DEF StreamInv
  <2> QED BY <1>4, <2>1 DEF Consistent, Stages
<1>5. a \in Requests => Consistent(events'[a], pc'[a], ask'[a].endpoint)
  BY <1>2, <1>3, <1>4
<1> QED BY <1>1, <1>2, <1>3, <1>5, OthersKeep

\* A step with one.
LEMMA EmitStep ==
    ASSUME StreamInv, TypeInv', NEW a \in Requests, NEW x \in Events, NEW q,
           Goto(a, q), UNCHANGED ask, Emit(a, <<x>>),
           pc[a] \notin {"idle", "over", "gone"}, q # "idle",
           x \in Final => q = "over", x = "token" => pc[a] = "generating",
           ask[a].endpoint = "stream" /\ q = "over" => x \in Final,
           q = "generating" => pc[a] = "generating" \/ x = "generating",
           q \in Stages => ask[a].endpoint = "stream", q \notin QueryPlaces
    PROVE  StreamInv'
<1>1. pc \in [Actors -> Places] /\ ask \in [Actors -> Asks \cup {NoAsk}]
      /\ events \in [Actors -> Seq(Events)] /\ a \in Actors
  BY DEF StreamInv, TypeInv, TypeOK, Actors
<1>2. events' = [events EXCEPT ![a] = events'[a]] /\ events'[a] = events[a] \o <<x>>
  BY <1>1 DEF Emit
<1>3. pc' = [pc EXCEPT ![a] = pc'[a]] /\ pc'[a] = q /\ ask' = [ask EXCEPT ![a] = ask'[a]]
  BY <1>1 DEF Goto
<1>4. Consistent(events[a] \o <<x>>, q, ask[a].endpoint)
  <2>1. Consistent(events[a], pc[a], ask[a].endpoint) /\ events[a] \in Seq(Events)
    BY <1>1 DEF StreamInv
  <2> QED BY <2>1, ConsistentAfter
<1>5. events'[a] \in Seq(Events)
  BY <1>1, <1>2, Extended
<1> QED BY <1>1, <1>2, <1>3, <1>4, <1>5, OthersKeep

LEMMA EnsureStream == ASSUME StreamInv, TypeInv', NEW a \in Actors, Ensure(a) PROVE StreamInv'
<1>1. a \in Requests \/ (a = Main /\ a \notin Requests)
  BY MainIsNoRequest DEF Actors
<1>2. a \in Requests => ask[a] \in Asks \cup {NoAsk} /\ Consistent(events[a], pc[a], ask[a].endpoint)
  BY DEF StreamInv, TypeInv, TypeOK, Actors
<1>3. ASSUME pc[a] \in {"check", "publish"}, NEW b, WithPipeline(a, b), UNCHANGED ask PROVE StreamInv'
  <2>1. CASE Over(a, "answer") /\ UNCHANGED events /\ (a = Main \/ ask[a].endpoint = "health")
    BY <1>1, MainIsNoRequest, <1>3, <2>1, SilentStep DEF Over, Leave, Stages, QueryPlaces
  <2>2. CASE a # Main /\ ask[a].endpoint # "health"
    <3>1. /\ a \in Requests /\ Emit(a, Closing(a, "retrieving"))
          /\ Goto(a, IF ask[a].endpoint = "stream" THEN "retrieving" ELSE "root")
          /\ ask[a].endpoint \in {"query", "stream"}
      BY <1>1, <1>2, <1>3, <2>2 DEF WithPipeline, Consistent, Asks, NoAsk
    <3>2. CASE ask[a].endpoint = "stream"
      BY <1>3, <3>1, <3>2, EmitStep DEF Closing, Events, Stages, Final, QueryPlaces
    <3>3. CASE ask[a].endpoint = "query"
      BY <1>3, <3>1, <3>3, SilentStep DEF Closing, Stages, QueryPlaces
    <3> QED BY <3>1, <3>2, <3>3
  <2> QED BY <1>3, <2>1, <2>2 DEF WithPipeline
<1>4. ASSUME Check(a) PROVE StreamInv'
  <2>1. CASE pipeline # 0
    BY <1>3, <1>4, <2>1 DEF Check
  <2>2. CASE pipeline = 0
    BY <1>4, <2>2, SilentStep DEF Check, Stages, QueryPlaces
  <2> QED BY <2>1, <2>2
<1>5. ASSUME Build(a) \/ ChooseClient(a) PROVE StreamInv'
  BY <1>5, SilentStep DEF Build, ChooseClient, Stages, QueryPlaces
<1>6. ASSUME BuildRaises(a) PROVE StreamInv'
  <2>1. /\ pc[a] = "build" /\ Goto(a, "over") /\ UNCHANGED ask /\ Emit(a, Closing(a, "error"))
    BY <1>6 DEF BuildRaises, Over, Leave
  <2>2. CASE a \in Requests /\ ask[a].endpoint = "stream"
    BY <2>1, <2>2, EmitStep DEF Closing, Events, Stages, Final, QueryPlaces
  <2>3. CASE a \in Requests /\ ask[a].endpoint # "stream"
    BY <2>1, <2>3, SilentStep DEF Closing, Stages, QueryPlaces
  <2>4. CASE a = Main /\ a \notin Requests
    <3>1. events[a] \in Seq(Events) /\ events' = [events EXCEPT ![a] = events[a] \o Closing(a, "error")]
      BY <2>1 DEF StreamInv, Emit
    <3>2. Closing(a, "error") = <<>> \/ Closing(a, "error") = <<"error">>
      BY DEF Closing
    <3>3. "error" \in Events
      BY DEF Events
    <3>4. events'[a] \in Seq(Events) /\ events' = [events EXCEPT ![a] = events'[a]]
      <4>1. events \in [Actors -> Seq(Events)]
        BY DEF StreamInv
      <4>2. events[a] \o Closing(a, "error") \in Seq(Events)
        BY <3>1, <3>2, <3>3, Extended, NothingAdded
      <4> QED BY <3>1, <4>1, <4>2
    <3>5. pc' = [pc EXCEPT ![a] = pc'[a]] /\ ask' = [ask EXCEPT ![a] = ask'[a]]
      BY <2>1 DEF Goto, StreamInv, TypeInv, TypeOK
    <3> QED BY <2>4, <3>4, <3>5, OthersKeep
  <2> QED BY <1>1, <2>2, <2>3, <2>4
<1>7. ASSUME Publish(a) PROVE StreamInv'
  BY <1>3, <1>7 DEF Publish
<1> QED BY <1>4, <1>5, <1>6, <1>7 DEF Ensure

LEMMA QueryStream == ASSUME StreamInv, TypeInv', NEW a \in Requests, Query(a) PROVE StreamInv'
<1> a \in Actors
  BY DEF Actors
<1>1. /\ pc[a] \in QueryPlaces => ask[a].endpoint = "query"
      /\ pc[a] = "layer" => [pc EXCEPT ![a] = "layer"] = pc
  BY DEF StreamInv, Consistent, TypeInv, TypeOK
<1> USE DEF QueryPlaces, Stages
<1>2. ASSUME Root(a) \/ Choose(a) \/ Started(a) \/ Count(a) \/ Total(a) \/ TotalErrors(a)
               \/ Measure(a) \/ Open(a)
      PROVE  StreamInv'
  <2>1. /\ pc[a] \in QueryPlaces /\ UNCHANGED <<ask, events>>
        /\ \E q \in QueryPlaces : Goto(a, q)
    BY <1>2 DEF Root, StartTrace, Choose, Started, Count, Total, TotalErrors, Measure, Open, Stay
  <2> QED BY <1>1, <2>1, SilentStep
<1>6. ASSUME Trim(a) PROVE StreamInv'
  <2>1. pc[a] = "trim" /\ UNCHANGED <<pc, ask, events>>
    BY <1>6 DEF Trim, Stay
  <2>2. Goto(a, "trim")
    BY <2>1 DEF Goto, StreamInv, TypeInv, TypeOK
  <2> QED BY <1>1, <2>1, <2>2, SilentStep
<1>3. ASSUME EndLayer(a) PROVE StreamInv'
  <2>1. pc[a] = "layer" /\ UNCHANGED <<ask, events>>
    BY <1>3 DEF EndLayer
  <2>2. Goto(a, "layer") \/ Goto(a, "count") \/ Goto(a, "choose")
    BY <1>1, <1>3 DEF EndLayer, StartSpan, StartTrace, Goto
  <2> QED BY <1>1, <2>1, <2>2, SilentStep
<1>4. ASSUME LayerRaises(a) \/ Write(a) \/ TrimRaises(a) PROVE StreamInv'
  BY <1>1, <1>4, SilentStep DEF LayerRaises, Write, TrimRaises, Over, Leave
<1>5. ASSUME SetGauge(a) \/ Load(a) PROVE StreamInv'
  <2>1. /\ pc[a] \in {"gauge", "load"} /\ UNCHANGED <<ask, events>>
        /\ Goto(a, "load") \/ Goto(a, "open") \/ Goto(a, "over")
    BY <1>5 DEF SetGauge, Load, Over, Leave
  <2> QED BY <1>1, <2>1, SilentStep
<1> QED BY <1>2, <1>3, <1>4, <1>5, <1>6 DEF Query

LEMMA StreamStream ==
    ASSUME StreamInv, TypeInv', NEW a \in Requests, Stream(a) \/ Disconnect(a) \/ Guide(a) \/ Ask(a)
    PROVE  StreamInv'
<1> a \in Actors
  BY DEF Actors
<1>1. /\ pc[a] \in Stages => ask[a].endpoint = "stream"
      /\ pc[a] = "idle" => events[a] = <<>>
      /\ pc[a] = "generating" => [pc EXCEPT ![a] = "generating"] = pc
      /\ pc \in [Actors -> Places] /\ ask \in [Actors -> Asks \cup {NoAsk}]
      /\ events \in [Actors -> Seq(Events)]
  BY DEF StreamInv, Consistent, TypeInv, TypeOK
<1>2. ASSUME NEW s \in Stages, Advance(a, s), pc[a] \in Stages PROVE StreamInv'
  BY <1>1, <1>2, EmitStep DEF Advance, Stay, Stages, Events, Final, QueryPlaces
<1>3. ASSUME Done(a) \/ StreamRaises(a), pc[a] \in Stages PROVE StreamInv'
  BY <1>1, <1>3, EmitStep DEF Done, StreamRaises, Over, Leave, Stages, Events, Final, QueryPlaces
<1>4. ASSUME StreamToken(a) PROVE StreamInv'
  <2>1. Goto(a, "generating") /\ pc[a] = "generating" /\ UNCHANGED ask /\ Emit(a, <<"token">>)
    BY <1>1, <1>4 DEF StreamToken, Stay, Goto
  <2> QED BY <1>1, <2>1, EmitStep DEF Stages, Events, Final, QueryPlaces
<1>5. ASSUME Disconnect(a) PROVE StreamInv'
  <2>1. /\ pc' = [pc EXCEPT ![a] = "gone"] /\ UNCHANGED ask /\ events' = [events EXCEPT ![a] = <<>>]
    BY <1>5 DEF Disconnect, Leave, Goto
  <2>2. Consistent(<<>>, "gone", ask[a].endpoint)
    BY DEF Consistent, Stages, QueryPlaces
  <2>3. events'[a] = <<>> /\ pc'[a] = "gone" /\ ask'[a] = ask[a] /\ <<>> \in Seq(Events)
    BY <1>1, <2>1
  <2> QED BY <1>1, <2>1, <2>2, <2>3, OthersKeep
<1>6. ASSUME Guide(a) \/ Ask(a) PROVE StreamInv'
  <2>1. PICK k \in Asks : /\ pc[a] = "idle" /\ ask' = [ask EXCEPT ![a] = k]
                          /\ \/ UNCHANGED events /\ pc' = [pc EXCEPT ![a] = "check"]
                             \/ /\ pc' = [pc EXCEPT ![a] = "over"]
                                /\ Emit(a, IF k.endpoint = "stream" THEN <<"ready", "done">> ELSE <<>>)
    BY <1>6, BoundsAreKnown DEF Guide, Ask, Over, Leave, Goto
  <2>2. k.endpoint # "none"
    BY DEF Asks
  <2>3. CASE UNCHANGED events /\ pc' = [pc EXCEPT ![a] = "check"]
    <3>1. Consistent(<<>>, "check", k.endpoint)
      BY <2>2 DEF Consistent, Stages, QueryPlaces
    <3>2. events'[a] = <<>> /\ pc'[a] = "check" /\ ask'[a] = k /\ <<>> \in Seq(Events)
          /\ events' = [events EXCEPT ![a] = events'[a]]
      BY <1>1, <2>1, <2>3
    <3> QED BY <1>1, <2>1, <2>3, <3>1, <3>2, OthersKeep
  <2>4. CASE pc' = [pc EXCEPT ![a] = "over"]
             /\ Emit(a, IF k.endpoint = "stream" THEN <<"ready", "done">> ELSE <<>>)
    <3>1. CASE k.endpoint = "stream"
      <4>1. /\ <<>> \o <<"ready", "done">> = <<"ready", "done">>
            /\ <<"ready", "done">> \in Seq(Events)
        BY DEF Events
      <4>2. Consistent(<<"ready", "done">>, "over", k.endpoint)
        BY <2>2 DEF Consistent, Final, Stages, QueryPlaces
      <4>3. /\ events'[a] = <<"ready", "done">> /\ pc'[a] = "over" /\ ask'[a] = k
            /\ events' = [events EXCEPT ![a] = events'[a]]
        BY <1>1, <2>1, <2>4, <3>1, <4>1 DEF Emit
      <4> QED BY <1>1, <2>1, <2>4, <4>1, <4>2, <4>3, OthersKeep
    <3>2. CASE k.endpoint # "stream"
      <4>1. Consistent(<<>>, "over", k.endpoint)
        BY <2>2, <3>2 DEF Consistent, Stages, QueryPlaces
      <4>2. /\ events'[a] = <<>> /\ pc'[a] = "over" /\ ask'[a] = k /\ <<>> \in Seq(Events)
            /\ events' = [events EXCEPT ![a] = events'[a]]
        BY <1>1, <2>1, <2>4, <3>2 DEF Emit
      <4> QED BY <1>1, <2>1, <2>4, <4>1, <4>2, OthersKeep
    <3> QED BY <3>1, <3>2
  <2> QED BY <2>1, <2>3, <2>4
<1>7. Stream(a) => \/ \E s \in Stages : Advance(a, s) /\ pc[a] \in Stages
                   \/ (Done(a) \/ StreamRaises(a)) /\ pc[a] \in Stages
                   \/ StreamToken(a)
  BY DEF Stream, StreamRetrieved, StreamReranked, StreamAssembled, StreamGenerated, StreamScored,
         StreamRaises, Stages
<1> QED BY <1>2, <1>3, <1>4, <1>5, <1>6, <1>7

LEMMA RestartStream == ASSUME StreamInv, TypeInv', Restart PROVE StreamInv'
<1>1. events' \in [Actors -> Seq(Events)]
  <2>1. <<>> \in Seq(Events)
    OBVIOUS
  <2> QED BY <2>1 DEF Restart, StreamInv
<1>2. ASSUME NEW a \in Requests PROVE Consistent(events'[a], pc'[a], ask'[a].endpoint)
  <2>1. a \in Actors /\ a # Main
    BY MainIsNoRequest DEF Actors
  <2>2. CASE pc[a] \in {"idle", "over"}
    <3>1. events'[a] = events[a] /\ pc'[a] = pc[a] /\ ask'[a] = ask[a]
      BY <2>1, <2>2 DEF Restart
    <3> QED BY <3>1 DEF StreamInv
  <2>3. CASE pc[a] \notin {"idle", "over"}
    <3>1. events'[a] = <<>> /\ pc'[a] = "gone" /\ ask'[a].endpoint = "none"
      BY <2>1, <2>3 DEF Restart, NoAsk
    <3> QED BY <3>1 DEF Consistent, Stages, QueryPlaces
  <2> QED BY <2>2, <2>3
<1> QED BY <1>1, <1>2 DEF StreamInv

LEMMA StreamInit == Init => StreamInv
<1> SUFFICES ASSUME Init PROVE StreamInv
  OBVIOUS
<1>1. events \in [Actors -> Seq(Events)]
  BY DEF Init
<1>2. ASSUME NEW a \in Requests PROVE Consistent(events[a], pc[a], ask[a].endpoint)
  <2>1. events[a] = <<>> /\ pc[a] = "idle"
    BY MainIsNoRequest DEF Init, Actors
  <2> QED BY <2>1 DEF Consistent, Stages, QueryPlaces
<1> QED BY <1>1, <1>2, TypeInit DEF StreamInv

LEMMA StreamStep == ASSUME StreamInv, [Next]_vars PROVE StreamInv'
<1>1. TypeInv'
  BY TypeStep DEF StreamInv
<1>2. CASE UNCHANGED vars
  BY <1>1, <1>2 DEF vars, StreamInv
<1> QED BY <1>1, <1>2, EnsureStream, QueryStream, StreamStream, RestartStream DEF Next

\* One final event ends a stream, and tokens come after the stage that writes
\* the answer (stream_query and the generator around it).
THEOREM StreamsEndOnce == Spec => []StreamProtocol
<1>1. StreamInv => StreamProtocol
  BY DEF StreamInv, StreamProtocol, Consistent
<1> QED BY <1>1, StreamInit, StreamStep, PTL DEF Spec

(***************************************************************************)
(* The failure feed.                                                       *)
(***************************************************************************)
\* A request whose record is owed to the feed.
Owed(a) == ask[a].endpoint = "query" /\ reply[a] = "answer" /\ result[a] \in Recordable
\* As long as recordings did not overlap: who has opened the file is alone
\* with it, and has read all that was in it.
FeedSerial ==
    /\ \A v, w \in Recording : v = w
    /\ \/ feed.state = "whole" /\ \A w \in Requests : pc[w] # "write"
       \/ feed.state = "empty" /\ feed.records = {} /\ \E w \in Requests : pc[w] = "write"
    /\ \A w \in Requests : pc[w] = "open" => seen[w] = feed.records \cup {w}
    /\ \A w \in Requests : pc[w] = "write" => w \in seen[w]
    /\ \A a \in Requests : Owed(a) =>
          a \in feed.records \/ \E w \in Requests : pc[w] = "write" /\ a \in seen[w]
RepliesLast == \A a \in Actors : reply[a] # "none" => pc[a] = "over"
FeedInv == StreamInv /\ RepliesLast /\ (~raced => FeedSerial)

\* A step that leaves the feed alone and owes it nothing.
LEMMA FeedAlone ==
    ASSUME FeedInv, StreamInv', NEW a \in Actors, NEW q, Goto(a, q), UNCHANGED recording,
           pc[a] \notin {"open", "write", "over"}, q \notin {"open", "write"},
           ask' = [ask EXCEPT ![a] = ask'[a]], reply' = [reply EXCEPT ![a] = reply'[a]],
           result' = [result EXCEPT ![a] = result'[a]],
           reply'[a] # "none" => q = "over", a \in Requests => ~Owed(a)'
    PROVE  FeedInv'
<1>1. /\ pc \in [Actors -> Places] /\ ask \in [Actors -> Asks \cup {NoAsk}]
      /\ reply \in [Actors -> {"none", "answer", "guide", "error"}]
      /\ result \in [Actors -> Results] /\ \A b \in Requests : b \in Actors
  BY DEF FeedInv, StreamInv, TypeInv, TypeOK, Actors
<1>2. UNCHANGED <<feed, raced, seen>> /\ pc' = [pc EXCEPT ![a] = q]
  BY DEF recording, Goto
<1>3. RepliesLast'
  BY <1>1, <1>2 DEF FeedInv, RepliesLast
<1>4. \A b \in Requests : Owed(b)' => Owed(b)
  BY <1>1 DEF Owed
<1>5. \A w \in Requests : (pc'[w] = "open" <=> pc[w] = "open") /\ (pc'[w] = "write" <=> pc[w] = "write")
  BY <1>1, <1>2
<1>6. ASSUME ~raced PROVE FeedSerial'
  <2>1. FeedSerial
    BY <1>6 DEF FeedInv
  <2>2. Recording' = Recording
    BY <1>5 DEF Recording
  <2> QED BY <1>2, <1>4, <1>5, <2>1, <2>2 DEF FeedSerial
<1> QED BY <1>2, <1>3, <1>6 DEF FeedInv

\* The same for a call that ends.
LEMMA FeedOver ==
    ASSUME FeedInv, StreamInv', NEW a \in Actors, NEW what, Over(a, what), UNCHANGED recording,
           pc[a] \notin {"open", "write", "over"}, UNCHANGED <<ask, result>>,
           what = "answer" /\ a \in Requests => ask[a].endpoint # "query" \/ result[a] \notin Recordable
    PROVE  FeedInv'
<1>1. /\ pc \in [Actors -> Places] /\ ask \in [Actors -> Asks \cup {NoAsk}]
      /\ reply \in [Actors -> {"none", "answer", "guide", "error"}]
      /\ result \in [Actors -> Results]
  BY DEF FeedInv, StreamInv, TypeInv, TypeOK
<1>2. Goto(a, "over") /\ reply' = [reply EXCEPT ![a] = what] /\ reply'[a] = what
  BY <1>1 DEF Over, Leave
<1>3. a \in Requests => ~Owed(a)'
  BY <1>2 DEF Owed
<1> QED BY <1>1, <1>2, <1>3, FeedAlone

\* And for one that moves on.
LEMMA FeedGoto ==
    ASSUME FeedInv, StreamInv', NEW a \in Actors, NEW q, Goto(a, q), UNCHANGED recording,
           pc[a] \notin {"open", "write", "over"}, q \notin {"open", "write"},
           ask' = [ask EXCEPT ![a] = ask'[a]], UNCHANGED reply,
           result' = [result EXCEPT ![a] = result'[a]]
    PROVE  FeedInv'
<1>1. reply' = [reply EXCEPT ![a] = reply'[a]] /\ reply'[a] = "none"
  BY DEF FeedInv, RepliesLast, StreamInv, TypeInv, TypeOK
<1>2. ~Owed(a)'
  BY <1>1 DEF Owed
<1> QED BY <1>1, <1>2, FeedAlone

LEMMA EnsureFeed == ASSUME FeedInv, StreamInv', NEW a \in Actors, Ensure(a) PROVE FeedInv'
<1>1. ask = [ask EXCEPT ![a] = ask[a]] /\ result = [result EXCEPT ![a] = result[a]]
      /\ (a \in Requests => a # Main)
  BY MainIsNoRequest DEF FeedInv, StreamInv, TypeInv, TypeOK
<1>2. ASSUME NEW b, WithPipeline(a, b), pc[a] \in {"check", "publish"},
             UNCHANGED <<recording, ask, result>>
      PROVE  FeedInv'
  <2>1. CASE Over(a, "answer") /\ (a = Main \/ ask[a].endpoint = "health")
    BY <1>1, <1>2, <2>1, FeedOver
  <2>2. CASE UNCHANGED reply /\ \E p \in {"retrieving", "root"} : Goto(a, p)
    BY <1>1, <1>2, <2>2, FeedGoto
  <2> QED BY <1>2, <2>1, <2>2 DEF WithPipeline
<1>3. ASSUME Check(a) PROVE FeedInv'
  <2>1. CASE pipeline # 0
    BY <1>2, <1>3, <2>1 DEF Check
  <2>2. CASE pipeline = 0
    BY <1>1, <1>3, <2>2, FeedGoto DEF Check
  <2> QED BY <2>1, <2>2
<1>4. ASSUME Build(a) \/ ChooseClient(a) PROVE FeedInv'
  BY <1>1, <1>4, FeedGoto DEF Build, ChooseClient
<1>5. ASSUME BuildRaises(a) PROVE FeedInv'
  BY <1>5, FeedOver DEF BuildRaises
<1>6. ASSUME Publish(a) PROVE FeedInv'
  BY <1>2, <1>6 DEF Publish
<1> QED BY <1>3, <1>4, <1>5, <1>6 DEF Ensure

LEMMA StreamFeed ==
    ASSUME FeedInv, StreamInv', NEW a \in Requests, Stream(a) \/ Disconnect(a) \/ Guide(a) \/ Ask(a)
    PROVE  FeedInv'
<1> a \in Actors
  BY DEF Actors
<1>1. /\ ask = [ask EXCEPT ![a] = ask[a]] /\ result = [result EXCEPT ![a] = result[a]]
      /\ pc[a] \in Stages => ask[a].endpoint = "stream"
      /\ pc = [pc EXCEPT ![a] = pc[a]]
      /\ pc \in [Actors -> Places] /\ ask \in [Actors -> Asks \cup {NoAsk}]
      /\ reply \in [Actors -> {"none", "answer", "guide", "error"}]
  BY DEF FeedInv, StreamInv, TypeInv, TypeOK, Consistent
<1>2. ASSUME NEW s \in Stages, Advance(a, s), pc[a] \in Stages PROVE FeedInv'
  BY <1>1, <1>2, FeedGoto DEF Advance, Stay, Stages
<1>3. ASSUME Done(a) \/ StreamRaises(a), pc[a] \in Stages PROVE FeedInv'
  BY <1>1, <1>3, FeedOver DEF Done, StreamRaises, Stages
<1>4. ASSUME StreamToken(a) PROVE FeedInv'
  BY <1>1, <1>4, FeedGoto DEF StreamToken, Stay, Goto
<1>5. ASSUME Disconnect(a) PROVE FeedInv'
  BY <1>1, <1>5, FeedGoto DEF Disconnect, Leave, Stages
<1>6. ASSUME Guide(a) \/ Ask(a) PROVE FeedInv'
  <2>1. PICK k \in Asks : pc[a] = "idle" /\ ask' = [ask EXCEPT ![a] = k]
                          /\ UNCHANGED recording /\ UNCHANGED result
    BY <1>6, BoundsAreKnown DEF Guide, Ask
  <2>2. ask' = [ask EXCEPT ![a] = ask'[a]]
    BY <1>1, <2>1
  <2>3. CASE Ask(a)
    BY <1>1, <2>1, <2>2, <2>3, FeedGoto DEF Ask
  <2>4. CASE Guide(a)
    <3>1. Goto(a, "over") /\ reply' = [reply EXCEPT ![a] = "guide"] /\ reply'[a] = "guide"
      BY <1>1, <2>4 DEF Guide, Over, Leave
    <3>2. ~Owed(a)'
      BY <3>1 DEF Owed
    <3> QED BY <1>1, <2>1, <2>2, <3>1, <3>2, FeedAlone
  <2> QED BY <1>6, <2>3, <2>4
<1>7. Stream(a) => \/ \E s \in Stages : Advance(a, s) /\ pc[a] \in Stages
                   \/ (Done(a) \/ StreamRaises(a)) /\ pc[a] \in Stages
                   \/ StreamToken(a)
  BY DEF Stream, StreamRetrieved, StreamReranked, StreamAssembled, StreamGenerated, StreamScored,
         StreamRaises, Stages
<1> QED BY <1>2, <1>3, <1>4, <1>5, <1>6, <1>7

LEMMA QueryFeed == ASSUME FeedInv, StreamInv', NEW a \in Requests, Query(a) PROVE FeedInv'
<1> a \in Actors
  BY DEF Actors
<1>1. /\ ask = [ask EXCEPT ![a] = ask[a]] /\ result = [result EXCEPT ![a] = result[a]]
      /\ pc = [pc EXCEPT ![a] = pc[a]]
      /\ pc \in [Actors -> Places] /\ ask \in [Actors -> Asks \cup {NoAsk}]
      /\ reply \in [Actors -> {"none", "answer", "guide", "error"}]
      /\ seen \in [Actors -> SUBSET Requests] /\ \A b \in Requests : b \in Actors
  BY DEF FeedInv, StreamInv, TypeInv, TypeOK, Actors
<1>2. ASSUME Root(a) \/ Choose(a) \/ Started(a) \/ Count(a) \/ Total(a) \/ TotalErrors(a) \/ Measure(a)
      PROVE  FeedInv'
  <2>1. /\ pc[a] \in {"root", "choose", "trim", "count", "total", "errors", "measure"}
        /\ UNCHANGED <<ask, reply, result>> /\ UNCHANGED recording
        /\ \E q \in {"choose", "trim", "layer", "total", "errors", "measure", "gauge"} : Goto(a, q)
    BY <1>2 DEF Root, StartTrace, Choose, Started, Count, Total, TotalErrors, Measure, Stay
  <2> QED BY <1>1, <2>1, FeedGoto
<1>9. ASSUME Trim(a) PROVE FeedInv'
  <2>1. pc[a] = "trim" /\ UNCHANGED <<pc, ask, reply, result>> /\ UNCHANGED recording
    BY <1>9 DEF Trim, Stay
  <2>2. Goto(a, "trim")
    BY <1>1, <2>1 DEF Goto
  <2> QED BY <1>1, <2>1, <2>2, FeedGoto
<1>10. ASSUME TrimRaises(a) PROVE FeedInv'
  BY <1>10, FeedOver DEF TrimRaises
<1>3. ASSUME EndLayer(a) PROVE FeedInv'
  <2>1. /\ pc[a] = "layer" /\ UNCHANGED <<ask, reply>> /\ UNCHANGED recording
        /\ result' = [result EXCEPT ![a] = result'[a]]
    BY <1>3 DEF EndLayer, FeedInv, StreamInv, TypeInv, TypeOK
  <2>2. Goto(a, "layer") \/ Goto(a, "count") \/ Goto(a, "choose")
    BY <1>1, <1>3 DEF EndLayer, StartSpan, StartTrace, Goto
  <2> QED BY <1>1, <2>1, <2>2, FeedGoto
<1>4. ASSUME LayerRaises(a) PROVE FeedInv'
  BY <1>4, FeedOver DEF LayerRaises
<1>5. ASSUME SetGauge(a) PROVE FeedInv'
  <2>1. CASE result[a] \in Recordable
    BY <1>1, <1>5, <2>1, FeedGoto DEF SetGauge
  <2>2. CASE result[a] \notin Recordable
    BY <1>5, <2>2, FeedOver DEF SetGauge
  <2> QED BY <2>1, <2>2
<1>6. ASSUME Load(a) PROVE FeedInv'
  <2>1. CASE feed.state = "whole"
    <3>1. /\ pc[a] = "load" /\ pc' = [pc EXCEPT ![a] = "open"] /\ UNCHANGED <<feed, reply, ask, result>>
          /\ seen' = [seen EXCEPT ![a] = feed.records \cup {a}]
          /\ raced' = (raced \/ Recording # {})
      BY <1>6, <2>1 DEF Load, Goto
    <3>2. RepliesLast'
      BY <1>1, <3>1 DEF FeedInv, RepliesLast
    <3>3. ASSUME ~raced' PROVE FeedSerial'
      <4>1. FeedSerial /\ Recording = {}
        BY <3>1, <3>3 DEF FeedInv
      <4>2. Recording' = {a} /\ \A w \in Requests : pc'[w] # "write"
        BY <1>1, <3>1, <4>1 DEF Recording
      <4>3. \A b \in Requests : Owed(b)' => b \in feed.records
        BY <3>1, <4>1 DEF FeedSerial, Recording, Owed
      <4>4. \A w \in Requests : pc'[w] = "open" => w = a
        BY <1>1, <4>2 DEF Recording
      <4> QED BY <1>1, <2>1, <3>1, <4>2, <4>3, <4>4 DEF FeedSerial
    <3> QED BY <3>2, <3>3 DEF FeedInv
  <2>2. CASE feed.state # "whole"
    BY <1>6, <2>2, FeedOver DEF Load, recording
  <2> QED BY <2>1, <2>2
<1>7. ASSUME Open(a) PROVE FeedInv'
  <2>1. /\ pc[a] = "open" /\ pc' = [pc EXCEPT ![a] = "write"] /\ UNCHANGED <<raced, seen, reply, ask, result>>
        /\ feed' = [state |-> "empty", records |-> {}]
    BY <1>7 DEF Open, Goto, Stay
  <2>2. RepliesLast'
    BY <1>1, <2>1 DEF FeedInv, RepliesLast
  <2>3. ASSUME ~raced PROVE FeedSerial'
    <3>1. FeedSerial /\ a \in Recording
      BY <2>1, <2>3 DEF FeedInv, Recording
    <3>2. Recording' = {a} /\ \A w \in Requests : w \in Recording => w = a
      BY <1>1, <2>1, <3>1 DEF Recording, FeedSerial
    <3>3. \A w \in Requests : pc'[w] \in {"open", "write"} => w = a
      BY <3>2 DEF Recording
    <3>4. \A b \in Requests : Owed(b)' => b \in seen[a]
      <4>1. \A w \in Requests : pc[w] # "write"
        BY <2>1, <3>2 DEF Recording
      <4> QED BY <2>1, <3>1, <4>1 DEF FeedSerial, Owed
    <3>5. a \in seen[a] /\ pc'[a] = "write"
      BY <1>1, <2>1, <3>1 DEF FeedSerial
    <3> QED BY <2>1, <3>2, <3>3, <3>4, <3>5 DEF FeedSerial
  <2> QED BY <2>1, <2>2, <2>3 DEF FeedInv
<1>8. ASSUME Write(a) PROVE FeedInv'
  <2>1. /\ pc[a] = "write" /\ pc' = [pc EXCEPT ![a] = "over"] /\ UNCHANGED <<raced, ask, result>>
        /\ reply' = [reply EXCEPT ![a] = "answer"]
        /\ \/ feed' = [state |-> "whole", records |-> seen[a]]
           \/ feed.state # "empty" /\ feed' = [state |-> "garbled", records |-> {}]
    BY <1>8 DEF Write, Over, Leave, Goto
  <2>2. RepliesLast'
    BY <1>1, <2>1 DEF FeedInv, RepliesLast
  <2>3. ASSUME ~raced PROVE FeedSerial'
    <3>1. FeedSerial /\ a \in Recording
      BY <2>1, <2>3 DEF FeedInv, Recording
    <3>2. \A w \in Requests : pc[w] \in {"open", "write"} => w = a
      BY <3>1 DEF FeedSerial, Recording
    <3>3. \A w \in Requests : pc'[w] \notin {"open", "write"}
      BY <1>1, <2>1, <3>2
    <3>4. feed' = [state |-> "whole", records |-> seen[a]]
      BY <2>1, <3>1 DEF FeedSerial
    <3>5. \A b \in Requests : Owed(b)' => b \in seen[a]
      <4> TAKE b \in Requests
      <4>1. CASE b = a
        BY <2>1, <3>1, <4>1 DEF FeedSerial
      <4>2. CASE b # a
        <5>1. Owed(b)' => Owed(b)
          BY <1>1, <2>1, <4>2 DEF Owed
        <5>2. feed.records = {}
          BY <2>1, <3>1 DEF FeedSerial
        <5> QED BY <3>1, <3>2, <5>1, <5>2 DEF FeedSerial
      <4> QED BY <4>1, <4>2
    <3> QED BY <3>3, <3>4, <3>5 DEF FeedSerial, Recording
  <2> QED BY <2>1, <2>2, <2>3 DEF FeedInv
<1> QED BY <1>2, <1>3, <1>4, <1>5, <1>6, <1>7, <1>8, <1>9, <1>10 DEF Query

LEMMA RestartFeed == ASSUME FeedInv, StreamInv', Restart PROVE FeedInv'
<1>1. /\ \A b \in Requests : b \in Actors /\ b # Main
      /\ UNCHANGED feed /\ raced' = (raced \/ Recording # {})
      /\ \A b \in Requests :
            \/ pc[b] \in {"idle", "over"} /\ pc'[b] = pc[b] /\ ask'[b] = ask[b]
               /\ reply'[b] = reply[b] /\ result'[b] = result[b]
            \/ pc'[b] = "gone" /\ reply'[b] = "none"
      /\ reply'[Main] = "none"
  BY MainIsNoRequest DEF Restart, Actors
<1>2. RepliesLast'
  BY <1>1 DEF FeedInv, RepliesLast, Actors
<1>3. ASSUME ~raced' PROVE FeedSerial'
  <2>1. FeedSerial /\ Recording = {}
    BY <1>1, <1>3 DEF FeedInv
  <2>2. \A w \in Requests : pc'[w] \notin {"open", "write"} /\ pc[w] \notin {"open", "write"}
    BY <1>1, <2>1 DEF Recording
  <2>3. \A b \in Requests : Owed(b)' => Owed(b)
    BY <1>1 DEF Owed
  <2> QED BY <1>1, <2>1, <2>2, <2>3 DEF FeedSerial, Recording
<1> QED BY <1>2, <1>3 DEF FeedInv

LEMMA FeedInit == Init => FeedInv
<1> SUFFICES ASSUME Init PROVE FeedInv
  OBVIOUS
<1>1. StreamInv
  BY StreamInit
<1>2. \A a \in Actors : reply[a] = "none" /\ pc[a] \in {"idle", "check"}
  BY DEF Init
<1>3. \A a \in Requests : a \in Actors /\ pc[a] = "idle" /\ reply[a] = "none"
  BY MainIsNoRequest DEF Init, Actors
<1>4. FeedSerial
  BY <1>3 DEF Init, FeedSerial, Recording, Owed
<1> QED BY <1>1, <1>2, <1>4 DEF FeedInv, RepliesLast

LEMMA FeedStep == ASSUME FeedInv, [Next]_vars PROVE FeedInv'
<1>1. StreamInv'
  BY StreamStep DEF FeedInv
<1>2. CASE UNCHANGED vars
  BY <1>1, <1>2 DEF vars, recording, FeedInv, RepliesLast, FeedSerial, Recording, Owed
<1> QED BY <1>1, <1>2, EnsureFeed, QueryFeed, StreamFeed, RestartFeed DEF Next

\* While no two recordings overlapped and none was cut off, every low score
\* whose answer was sent is in the failure feed (FailureFeed.record).
THEOREM RecordsStay == Spec => []FeedKeepsRecords
<1>1. FeedInv => FeedKeepsRecords
  <2> SUFFICES ASSUME FeedInv, ~raced
               PROVE  /\ feed.state # "garbled"
                      /\ \A a \in Requests : Owed(a) =>
                            a \in feed.records \/ \E w \in Requests : pc[w] = "write" /\ a \in seen[w]
    BY DEF FeedKeepsRecords, Owed
  <2> QED BY DEF FeedInv, FeedSerial
<1> QED BY <1>1, FeedInit, FeedStep, PTL DEF Spec

(***************************************************************************)
(* The counters.                                                           *)
(***************************************************************************)
\* The pairs of a build and a number up to what it counted: their number is the
\* sum over the builds.
Upto(B, f) == UNION {{b} \X (1..f[b]) : b \in B}
QueriesOf == [b \in Builds |-> counts[b].queries]
ErrorsOf == [b \in Builds |-> counts[b].errors]

LEMMA UptoMember ==
    ASSUME NEW B, NEW f, NEW x
    PROVE  x \in Upto(B, f) <=> \E b \in B : \E k \in 1..f[b] : x = <<b, k>>
BY DEF Upto

\* One build counts once more.
LEMMA OneMore ==
    ASSUME NEW B, NEW f \in [B -> Nat], NEW g \in [B -> Nat], NEW b \in B, g[b] = f[b] + 1,
           \A c \in B : c # b => g[c] = f[c], IsFiniteSet(Upto(B, f))
    PROVE  /\ IsFiniteSet(Upto(B, g))
           /\ Cardinality(Upto(B, g)) = Cardinality(Upto(B, f)) + 1
<1> DEFINE x == <<b, f[b] + 1>>
<1>1. x \notin Upto(B, f)
  <2> SUFFICES ASSUME NEW c \in B, NEW k \in 1..f[c], x = <<c, k>> PROVE FALSE
    BY UptoMember
  <2> QED OBVIOUS
<1>2. Upto(B, g) = Upto(B, f) \cup {x}
  <2>1. ASSUME NEW y \in Upto(B, g) PROVE y \in Upto(B, f) \cup {x}
    <3> PICK c \in B : \E k \in 1..g[c] : y = <<c, k>>
      BY <2>1, UptoMember
    <3>1. PICK k \in 1..g[c] : y = <<c, k>>
      OBVIOUS
    <3>2. CASE k \in 1..f[c]
      BY <3>1, <3>2, UptoMember
    <3>3. CASE k \notin 1..f[c]
      <4>1. c = b
        BY <3>1, <3>3
      <4>2. f[b] \in Nat /\ k \in 1..(f[b] + 1) /\ k \notin 1..f[b]
        BY <3>3, <4>1
      <4>3. k = f[b] + 1
        BY <4>2
      <4> QED BY <3>1, <4>1, <4>3
    <3> QED BY <3>2, <3>3
  <2>2. ASSUME NEW y \in Upto(B, f) PROVE y \in Upto(B, g)
    <3> PICK c \in B : \E k \in 1..f[c] : y = <<c, k>>
      BY <2>2, UptoMember
    <3>1. PICK k \in 1..f[c] : y = <<c, k>>
      OBVIOUS
    <3>2. k \in 1..g[c]
      <4>1. f[c] \in Nat /\ g[c] \in Nat /\ (g[c] = f[c] \/ g[c] = f[c] + 1)
        OBVIOUS
      <4> QED BY <4>1
    <3> QED BY <3>1, <3>2, UptoMember
  <2>3. x \in Upto(B, g)
    <3>1. f[b] + 1 \in 1..g[b]
      <4>1. f[b] \in Nat /\ g[b] = f[b] + 1
        OBVIOUS
      <4> QED BY <4>1
    <3> QED BY <3>1, UptoMember
  <2> QED BY <2>1, <2>2, <2>3
<1> HIDE DEF x
<1> QED BY <1>1, <1>2, FS_AddElement

\* A new build has counted nothing.
LEMMA OneBuild ==
    ASSUME NEW B, NEW d, NEW f, NEW g, g[d] = 0, \A c \in B : g[c] = f[c]
    PROVE  Upto(B \cup {d}, g) = Upto(B, f)
<1>1. \A k : k \notin 1..g[d]
  OBVIOUS
<1>2. ASSUME NEW y \in Upto(B \cup {d}, g) PROVE y \in Upto(B, f)
  <2> PICK c \in B \cup {d} : \E k \in 1..g[c] : y = <<c, k>>
    BY <1>2, UptoMember
  <2>1. PICK k \in 1..g[c] : y = <<c, k>>
    OBVIOUS
  <2>2. c \in B /\ k \in 1..f[c]
    BY <1>1, <2>1
  <2> QED BY <2>1, <2>2, UptoMember
<1>3. ASSUME NEW y \in Upto(B, f) PROVE y \in Upto(B \cup {d}, g)
  <2> PICK c \in B : \E k \in 1..f[c] : y = <<c, k>>
    BY <1>3, UptoMember
  <2>1. PICK k \in 1..f[c] : y = <<c, k>>
    OBVIOUS
  <2>2. c \in B \cup {d} /\ k \in 1..g[c]
    BY <2>1
  <2> QED BY <2>1, <2>2, UptoMember
<1> QED BY <1>2, <1>3

LEMMA CountedUpto ==
    /\ CountedQueries = Upto(Builds, QueriesOf) /\ CountedErrors = Upto(Builds, ErrorsOf)
    /\ CountedQueries' = Upto(Builds', QueriesOf') /\ CountedErrors' = Upto(Builds', ErrorsOf')
BY Zenon DEF CountedQueries, CountedErrors, Upto, QueriesOf, ErrorsOf

\* Requests between their collector's count and the registry's.
Pending == {a \in Requests : pc[a] = "total"}
PendingFailed == {a \in Requests : pc[a] \in {"total", "errors"} /\ Failed(a)}
\* A gauge is set from a pair that was read from the counts of one build: a rate,
\* and never more queries than that build's collector counted.
RateOf(n) ==
    /\ n.errors <= n.queries
    /\ n # Zero => \E b \in Builds : n.queries <= counts[b].queries /\ n.errors <= counts[b].errors
Sums ==
    /\ IsFiniteSet(CountedQueries) /\ IsFiniteSet(CountedErrors)
    /\ totals.queries + Cardinality(Pending) = Cardinality(CountedQueries)
    /\ totals.errors + Cardinality(PendingFailed) = Cardinality(CountedErrors)
Rates ==
    /\ \A b \in Builds : counts[b].errors <= counts[b].queries
    /\ RateOf(rate)
    /\ \A a \in Actors : RateOf(measured[a]) /\ (pc[a] # "gauge" => measured[a] = Zero)
CountInv == Sums /\ Rates /\ \A a \in Requests : pc[a] = "errors" => Failed(a)

LEMMA PendingFinite ==
    /\ IsFiniteSet(Pending) /\ Cardinality(Pending) \in Nat
    /\ IsFiniteSet(PendingFailed) /\ Cardinality(PendingFailed) \in Nat
<1>1. Pending \in SUBSET Requests /\ PendingFailed \in SUBSET Requests
  BY DEF Pending, PendingFailed
<1>2. IsFiniteSet(Pending) /\ IsFiniteSet(PendingFailed)
  BY <1>1, RequestsAreFinite, FS_Subset
<1> QED BY <1>2, FS_CardinalityType

LEMMA CountTypes ==
    ASSUME TypeInv
    PROVE  /\ Builds = 1..Len(counts) /\ Len(counts) \in Nat /\ \A b \in Builds : counts[b] \in Pair
           /\ QueriesOf \in [Builds -> Nat] /\ ErrorsOf \in [Builds -> Nat]
           /\ counts \in Seq(Pair) /\ totals \in Pair /\ rate \in Pair /\ measured \in [Actors -> Pair]
<1>1. /\ counts \in Seq(Pair) /\ clients \in Seq(Backends) /\ Len(counts) = Len(clients)
      /\ totals \in Pair /\ rate \in Pair /\ measured \in [Actors -> Pair]
  BY DEF TypeInv, TypeOK
<1>2. Builds = 1..Len(counts) /\ Len(counts) \in Nat /\ \A b \in Builds : counts[b] \in Pair
  BY <1>1 DEF Builds
<1> QED BY <1>1, <1>2 DEF QueriesOf, ErrorsOf, Pair

\* Whose count or place is not touched is pending as before.
LEMMA SamePending ==
    ASSUME TypeInv, NEW a \in Actors, NEW q, Goto(a, q), pc[a] \notin {"total", "errors"},
           q \notin {"total", "errors"}, result' = [result EXCEPT ![a] = result'[a]]
    PROVE  Pending' = Pending /\ PendingFailed' = PendingFailed
<1>1. /\ pc \in [Actors -> Places] /\ result \in [Actors -> Results]
      /\ pc' = [pc EXCEPT ![a] = q] /\ \A b \in Requests : b \in Actors
  BY DEF TypeInv, TypeOK, Goto, Actors
<1>2. \A b \in Requests : b # a => (pc'[b] = pc[b] /\ result'[b] = result[b])
  BY <1>1
<1>3. pc'[a] = q
  BY <1>1
<1>4. ASSUME NEW b \in Requests
      PROVE  /\ (pc'[b] = "total") <=> (pc[b] = "total")
             /\ (pc'[b] \in {"total", "errors"} /\ Failed(b)')
                   <=> (pc[b] \in {"total", "errors"} /\ Failed(b))
  BY <1>2, <1>3 DEF Failed
<1> QED BY <1>4 DEF Pending, PendingFailed

\* A step that counts nothing.
LEMMA CountAlone ==
    ASSUME TypeInv, CountInv, NEW a \in Actors, NEW q, Goto(a, q), UNCHANGED metrics,
           DOMAIN clients' = DOMAIN clients,
           pc[a] \notin {"total", "errors", "gauge"}, q \notin {"total", "errors"},
           result' = [result EXCEPT ![a] = result'[a]]
    PROVE  CountInv'
<1>1. /\ pc \in [Actors -> Places] /\ result \in [Actors -> Results]
      /\ pc' = [pc EXCEPT ![a] = q] /\ UNCHANGED <<counts, totals, rate, measured>>
      /\ \A b \in Requests : b \in Actors
  BY DEF TypeInv, TypeOK, Goto, metrics, Actors
<1>2. Builds' = Builds
  BY DEF Builds
<1>3. CountedQueries' = CountedQueries /\ CountedErrors' = CountedErrors
  BY <1>1, <1>2, Zenon DEF CountedQueries, CountedErrors
<1>4. Sums'
  BY <1>1, <1>3, SamePending DEF CountInv, Sums
<1>5. Rates'
  BY <1>1, <1>2 DEF CountInv, Rates, RateOf
<1>6. \A b \in Requests : pc'[b] = "errors" => Failed(b)'
  BY <1>1 DEF CountInv, Failed
<1> QED BY <1>4, <1>5, <1>6 DEF CountInv

LEMMA CountOver ==
    ASSUME TypeInv, CountInv, NEW a \in Actors, NEW what, Over(a, what), UNCHANGED metrics,
           DOMAIN clients' = DOMAIN clients,
           pc[a] \notin {"total", "errors", "gauge"}, UNCHANGED result
    PROVE  CountInv'
<1>1. Goto(a, "over") /\ result' = [result EXCEPT ![a] = result'[a]]
  BY DEF Over, Leave, TypeInv, TypeOK
<1> QED BY <1>1, CountAlone

\* A build's collector begins with nothing.
LEMMA BuildCount == ASSUME TypeInv, TypeInv', CountInv, NEW a \in Actors, Build(a) PROVE CountInv'
<1> DEFINE d == Len(clients) + 1
<1>1. /\ pc[a] = "build" /\ Goto(a, "client") /\ UNCHANGED <<totals, rate, measured, result>>
      /\ counts' = Append(counts, Zero) /\ clients' = Append(clients, "none")
  BY DEF Build
<1>2. /\ clients \in Seq(Backends) /\ counts \in Seq(Pair) /\ Len(counts) = Len(clients)
      /\ Len(clients) \in Nat /\ Builds = 1..Len(counts)
      /\ pc \in [Actors -> Places] /\ result = [result EXCEPT ![a] = result[a]]
      /\ Len(clients') = Len(counts') /\ Builds' = 1..Len(counts')
  BY CountTypes DEF TypeInv, TypeOK, Builds
<1>3. /\ Builds' = Builds \cup {d} /\ counts'[d] = Zero
      /\ \A b \in Builds : counts'[b] = counts[b] /\ b \in Builds'
  BY <1>1, <1>2
<1>4. CountedQueries' = CountedQueries /\ CountedErrors' = CountedErrors
  <2> HIDE DEF d
  <2>1. QueriesOf'[d] = 0 /\ \A b \in Builds : QueriesOf'[b] = QueriesOf[b]
    BY <1>3 DEF QueriesOf, Zero
  <2>2. ErrorsOf'[d] = 0 /\ \A b \in Builds : ErrorsOf'[b] = ErrorsOf[b]
    BY <1>3 DEF ErrorsOf, Zero
  <2>3. Upto(Builds \cup {d}, QueriesOf') = Upto(Builds, QueriesOf)
    BY <2>1, OneBuild
  <2>4. Upto(Builds \cup {d}, ErrorsOf') = Upto(Builds, ErrorsOf)
    BY <2>2, OneBuild
  <2> QED BY <1>3, <2>3, <2>4, CountedUpto, Zenon
<1>5. Sums'
  <2>1. Pending' = Pending /\ PendingFailed' = PendingFailed
    BY <1>1, <1>2, SamePending
  <2> QED BY <1>1, <1>4, <2>1 DEF CountInv, Sums
<1>6. Rates'
  <2> HIDE DEF d
  <2>1. \A b \in Builds' : counts'[b].errors <= counts'[b].queries
    BY <1>3 DEF CountInv, Rates, Zero
  <2>2. \A n : RateOf(n) => RateOf(n)'
    BY <1>3 DEF RateOf
  <2>3. RateOf(rate)' /\ \A b \in Actors : RateOf(measured[b])'
    BY <1>1, <2>2 DEF CountInv, Rates, RateOf
  <2>4. \A b \in Actors : pc'[b] # "gauge" => measured'[b] = Zero
    BY <1>1, <1>2 DEF CountInv, Rates, Goto
  <2> QED BY <2>1, <2>3, <2>4 DEF Rates
<1>7. \A b \in Requests : pc'[b] = "errors" => Failed(b)'
  BY <1>1, <1>2 DEF CountInv, Failed, Goto
<1> QED BY <1>5, <1>6, <1>7 DEF CountInv

LEMMA EnsureCount ==
    ASSUME TypeInv, TypeInv', CountInv, NEW a \in Actors, Ensure(a) PROVE CountInv'
<1>1. result = [result EXCEPT ![a] = result[a]]
  BY DEF TypeInv, TypeOK
<1>2. ASSUME NEW b, WithPipeline(a, b), pc[a] \in {"check", "publish"}, UNCHANGED metrics, UNCHANGED result,
             DOMAIN clients' = DOMAIN clients
      PROVE  CountInv'
  <2>1. CASE Over(a, "answer")
    BY <1>2, <2>1, CountOver
  <2>2. CASE \E p \in {"retrieving", "root"} : Goto(a, p)
    BY <1>1, <1>2, <2>2, CountAlone
  <2> QED BY <1>2, <2>1, <2>2 DEF WithPipeline
<1>3. ASSUME Check(a) PROVE CountInv'
  <2>1. UNCHANGED clients
    BY <1>3 DEF Check, service
  <2>2. CASE pipeline # 0
    BY <1>2, <1>3, <2>1, <2>2 DEF Check
  <2>3. CASE pipeline = 0
    BY <1>1, <1>3, <2>1, <2>3, CountAlone DEF Check
  <2> QED BY <2>2, <2>3
<1>4. ASSUME ChooseClient(a) PROVE CountInv'
  BY <1>1, <1>4, CountAlone DEF ChooseClient
<1>5. ASSUME BuildRaises(a) PROVE CountInv'
  BY <1>5, CountOver DEF BuildRaises
<1>6. ASSUME Publish(a) PROVE CountInv'
  BY <1>2, <1>6 DEF Publish
<1> QED BY <1>3, <1>4, <1>5, <1>6, BuildCount DEF Ensure

LEMMA StreamCount ==
    ASSUME TypeInv, CountInv, NEW a \in Requests, Stream(a) \/ Disconnect(a) \/ Guide(a) \/ Ask(a)
    PROVE  CountInv'
<1> a \in Actors
  BY DEF Actors
<1>1. result = [result EXCEPT ![a] = result[a]] /\ pc = [pc EXCEPT ![a] = pc[a]]
  BY DEF TypeInv, TypeOK
<1>2. ASSUME NEW s \in Stages, Advance(a, s), pc[a] \in Stages PROVE CountInv'
  BY <1>1, <1>2, CountAlone DEF Advance, Stay, Stages, service
<1>3. ASSUME Done(a) \/ StreamRaises(a), pc[a] \in Stages PROVE CountInv'
  BY <1>3, CountOver DEF Done, StreamRaises, Stages, service
<1>4. ASSUME StreamToken(a) PROVE CountInv'
  BY <1>1, <1>4, CountAlone DEF StreamToken, Stay, Goto, service
<1>5. ASSUME Disconnect(a) PROVE CountInv'
  BY <1>1, <1>5, CountAlone DEF Disconnect, Leave, Stages, service
<1>6. ASSUME Guide(a) PROVE CountInv'
  BY <1>6, CountOver DEF Guide, service
<1>7. ASSUME Ask(a) PROVE CountInv'
  BY <1>1, <1>7, CountAlone DEF Ask, service
<1>8. Stream(a) => \/ \E s \in Stages : Advance(a, s) /\ pc[a] \in Stages
                   \/ (Done(a) \/ StreamRaises(a)) /\ pc[a] \in Stages
                   \/ StreamToken(a)
  BY DEF Stream, StreamRetrieved, StreamReranked, StreamAssembled, StreamGenerated, StreamScored,
         StreamRaises, Stages
<1> QED BY <1>2, <1>3, <1>4, <1>5, <1>6, <1>7, <1>8

LEMMA QueryCount ==
    ASSUME TypeInv, TypeInv', CountInv, NEW a \in Requests, Query(a) PROVE CountInv'
<1> a \in Actors
  BY DEF Actors
<1>0. /\ pc \in [Actors -> Places] /\ result = [result EXCEPT ![a] = result[a]]
      /\ result \in [Actors -> Results]
      /\ \A b \in Requests : b \in Actors
  BY DEF TypeInv, TypeOK, Actors
<1>1. ASSUME Root(a) \/ Choose(a) \/ Started(a) \/ Open(a) PROVE CountInv'
  <2>1. /\ pc[a] \in {"root", "choose", "trim", "open"} /\ UNCHANGED result /\ UNCHANGED metrics
        /\ UNCHANGED clients /\ \E q \in {"choose", "trim", "layer", "write"} : Goto(a, q)
    BY <1>1 DEF Root, StartTrace, Choose, Started, Open, Stay, service
  <2> QED BY <1>0, <2>1, CountAlone
<1>2. ASSUME EndLayer(a) PROVE CountInv'
  <2>1. pc[a] = "layer" /\ UNCHANGED metrics /\ result' = [result EXCEPT ![a] = result'[a]]
        /\ UNCHANGED clients
    BY <1>0, <1>2 DEF EndLayer, service
  <2>2. Goto(a, "layer") \/ Goto(a, "count") \/ Goto(a, "choose")
    BY <1>0, <1>2 DEF EndLayer, StartSpan, StartTrace, Goto
  <2> QED BY <2>1, <2>2, CountAlone
<1>3. ASSUME LayerRaises(a) \/ Write(a) \/ TrimRaises(a) PROVE CountInv'
  BY <1>3, CountOver DEF LayerRaises, Write, TrimRaises, service
<1>8. ASSUME Trim(a) PROVE CountInv'
  <2>1. pc[a] = "trim" /\ UNCHANGED <<pc, result>> /\ UNCHANGED metrics /\ UNCHANGED clients
    BY <1>8 DEF Trim, Stay, service
  <2>2. Goto(a, "trim")
    BY <1>0, <2>1 DEF Goto
  <2> QED BY <1>0, <2>1, <2>2, CountAlone
<1>4. ASSUME Load(a) PROVE CountInv'
  <2>1. CASE feed.state = "whole"
    BY <1>0, <1>4, <2>1, CountAlone DEF Load, service
  <2>2. CASE feed.state # "whole"
    BY <1>4, <2>2, CountOver DEF Load, service
  <2> QED BY <2>1, <2>2
<1>5. ASSUME Count(a) PROVE CountInv'
  <2> DEFINE b == pipe[a]
             e == IF Failed(a) THEN 1 ELSE 0
  <2>1. /\ pc[a] = "count" /\ pc' = [pc EXCEPT ![a] = "total"]
        /\ UNCHANGED <<totals, rate, measured, result, pipe>> /\ UNCHANGED clients
        /\ counts' = [counts EXCEPT ![b] = Counted(counts[b], a)]
    BY <1>5, Zenon DEF Count, Goto, Stay, service
  <2>2. b \in Builds /\ Builds' = Builds
    <3>1. b # 0 /\ b \in 0..Len(clients) /\ clients \in Seq(Backends) /\ Len(clients) \in Nat
      BY <2>1 DEF TypeInv, TypeOK, Holding, Attached, Running
    <3> QED BY <2>1, <3>1 DEF Builds
  <2>3. /\ counts'[b].queries = counts[b].queries + 1 /\ counts'[b].errors = counts[b].errors + e
        /\ \A c \in Builds : c # b => counts'[c] = counts[c]
        /\ e \in {0, 1} /\ (e = 1 <=> Failed(a))
    <3>1. counts \in Seq(Pair) /\ b \in 1..Len(counts) /\ DOMAIN counts = 1..Len(counts)
          /\ Builds = 1..Len(counts)
      BY <2>2, CountTypes
    <3>2. counts'[b] = Counted(counts[b], a)
      BY <2>1, <3>1
    <3> QED BY <2>1, <3>1, <3>2 DEF Counted
  <2> HIDE DEF b, e
  <2>4. /\ Pending' = Pending \cup {a} /\ a \notin Pending
        /\ PendingFailed' = IF Failed(a) THEN PendingFailed \cup {a} ELSE PendingFailed
        /\ a \notin PendingFailed
    <3>1. \A c \in Requests : (Failed(c)' <=> Failed(c)) /\ pc'[c] = IF c = a THEN "total" ELSE pc[c]
      BY <1>0, <2>1 DEF Failed
    <3> QED BY <2>1, <3>1 DEF Pending, PendingFailed
  <2>5. /\ Cardinality(Pending') = Cardinality(Pending) + 1
        /\ Cardinality(PendingFailed') = Cardinality(PendingFailed) + e
    <3>1. Cardinality(Pending') = Cardinality(Pending) + 1
      BY <2>4, PendingFinite, FS_AddElement
    <3>2. CASE Failed(a)
      BY <2>3, <2>4, <3>1, <3>2, PendingFinite, FS_AddElement
    <3>3. CASE ~Failed(a)
      BY <2>3, <2>4, <3>1, <3>3, PendingFinite
    <3> QED BY <3>2, <3>3
  <2>6. /\ QueriesOf \in [Builds -> Nat] /\ QueriesOf' \in [Builds -> Nat]
        /\ ErrorsOf \in [Builds -> Nat] /\ ErrorsOf' \in [Builds -> Nat]
    <3>1. \A c \in Builds : counts[c].queries \in Nat /\ counts[c].errors \in Nat
      BY CountTypes DEF Pair
    <3>2. \A c \in Builds : counts'[c].queries \in Nat /\ counts'[c].errors \in Nat
      BY <2>2, <2>3, <3>1
    <3> QED BY <2>2, <3>1, <3>2 DEF QueriesOf, ErrorsOf
  <2>7. /\ QueriesOf'[b] = QueriesOf[b] + 1 /\ ErrorsOf'[b] = ErrorsOf[b] + e
        /\ \A c \in Builds : c # b => QueriesOf'[c] = QueriesOf[c] /\ ErrorsOf'[c] = ErrorsOf[c]
    BY <2>2, <2>3 DEF QueriesOf, ErrorsOf
  <2>8. /\ IsFiniteSet(CountedQueries')
        /\ Cardinality(CountedQueries') = Cardinality(CountedQueries) + 1
    BY <2>2, <2>6, <2>7, OneMore, CountedUpto DEF CountInv, Sums
  <2>9. /\ IsFiniteSet(CountedErrors')
        /\ Cardinality(CountedErrors') = Cardinality(CountedErrors) + e
    <3>1. IsFiniteSet(CountedErrors) /\ Cardinality(CountedErrors) \in Nat
      BY FS_CardinalityType DEF CountInv, Sums
    <3>2. CASE e = 1
      BY <2>2, <2>6, <2>7, <3>1, <3>2, OneMore, CountedUpto
    <3>3. CASE e = 0
      <4>1. ErrorsOf' = ErrorsOf
        <5>1. \A c \in Builds : ErrorsOf'[c] = ErrorsOf[c]
          BY <2>6, <2>7, <3>3
        <5> QED BY <2>6, <5>1
      <4>2. CountedErrors' = CountedErrors
        BY <2>2, <4>1, CountedUpto
      <4> QED BY <3>1, <3>3, <4>2
    <3> QED BY <2>3, <3>2, <3>3
  <2>10. Sums'
    <3>1. /\ totals.queries \in Nat /\ totals.errors \in Nat
          /\ Cardinality(CountedQueries) \in Nat /\ Cardinality(CountedErrors) \in Nat
      BY CountTypes, FS_CardinalityType DEF Pair, CountInv, Sums
    <3>2. /\ totals.queries + Cardinality(Pending) = Cardinality(CountedQueries)
          /\ totals.errors + Cardinality(PendingFailed) = Cardinality(CountedErrors)
      BY DEF CountInv, Sums
    <3>3. /\ totals.queries + Cardinality(Pending') = Cardinality(CountedQueries')
          /\ totals.errors + Cardinality(PendingFailed') = Cardinality(CountedErrors')
      BY <2>3, <2>5, <2>8, <2>9, <3>1, <3>2, PendingFinite
    <3> QED BY <2>1, <2>8, <2>9, <3>3 DEF Sums
  <2>11. Rates'
    <3>1. \A c \in Builds : counts[c].queries \in Nat /\ counts[c].errors \in Nat
      BY CountTypes DEF Pair
    <3>2. \A c \in Builds : /\ counts[c].queries <= counts'[c].queries
                            /\ counts[c].errors <= counts'[c].errors
                            /\ counts'[c].errors <= counts'[c].queries
                            /\ counts'[c].queries \in Nat /\ counts'[c].errors \in Nat
      BY <2>2, <2>3, <3>1 DEF CountInv, Rates
    <3>3. \A n \in Pair : RateOf(n) => RateOf(n)'
      BY <2>2, <3>1, <3>2 DEF RateOf, Pair
    <3>4. RateOf(rate)' /\ \A c \in Actors : RateOf(measured[c])'
      <4>1. rate \in Pair /\ \A c \in Actors : measured[c] \in Pair
        BY CountTypes
      <4> QED BY <2>1, <3>3, <4>1 DEF CountInv, Rates, RateOf
    <3>5. \A c \in Actors : pc'[c] # "gauge" => measured'[c] = Zero
      BY <1>0, <2>1 DEF CountInv, Rates
    <3> QED BY <2>2, <3>2, <3>4, <3>5 DEF Rates
  <2>12. \A c \in Requests : pc'[c] = "errors" => Failed(c)'
    BY <1>0, <2>1 DEF CountInv, Failed
  <2> QED BY <2>10, <2>11, <2>12 DEF CountInv
\* What is left of the invariant when neither counts nor builds change.
<1>9. ASSUME UNCHANGED counts, UNCHANGED clients
      PROVE  /\ Builds' = Builds /\ CountedQueries' = CountedQueries /\ CountedErrors' = CountedErrors
             /\ \A n : RateOf(n)' <=> RateOf(n)
  <2>1. Builds' = Builds
    BY <1>9 DEF Builds
  <2> QED BY <1>9, <2>1 DEF CountedQueries, CountedErrors, RateOf
<1>6. ASSUME Total(a) \/ TotalErrors(a) PROVE CountInv'
  <2>1. /\ UNCHANGED <<counts, rate, measured, result>> /\ UNCHANGED clients
        /\ pc[a] \in {"total", "errors"} /\ \E q \in {"errors", "measure"} : pc' = [pc EXCEPT ![a] = q]
        /\ pc'[a] = "errors" => Failed(a)
    BY <1>0, <1>6 DEF Total, TotalErrors, Goto, Stay, service
  <2>2. \A c \in Requests : Failed(c)' <=> Failed(c)
    BY <2>1 DEF Failed
  <2>3. /\ totals.queries \in Nat /\ totals.errors \in Nat
        /\ Cardinality(CountedQueries) \in Nat /\ Cardinality(CountedErrors) \in Nat
    BY CountTypes, FS_CardinalityType DEF Pair, CountInv, Sums
  <2>4. /\ totals'.queries + Cardinality(Pending') = totals.queries + Cardinality(Pending)
        /\ totals'.errors + Cardinality(PendingFailed') = totals.errors + Cardinality(PendingFailed)
    <3>1. CASE Total(a)
      <4>1. /\ pc[a] = "total" /\ totals' = [totals EXCEPT !.queries = totals.queries + 1]
            /\ pc' = [pc EXCEPT ![a] = IF Failed(a) THEN "errors" ELSE "measure"]
        BY <3>1, Zenon DEF Total, Goto
      <4>2. totals'.queries = totals.queries + 1 /\ totals'.errors = totals.errors
        BY <4>1, CountTypes DEF Pair
      <4>3. \A c \in Requests :
               pc'[c] = IF c # a THEN pc[c] ELSE IF Failed(a) THEN "errors" ELSE "measure"
        BY <1>0, <4>1
      <4>4. a \in Pending /\ Pending' = Pending \ {a}
        BY <4>1, <4>3 DEF Pending
      <4>5. PendingFailed' = PendingFailed
        BY <2>2, <4>1, <4>3 DEF PendingFailed
      <4>6. Cardinality(Pending') = Cardinality(Pending) - 1
        BY <4>4, PendingFinite, FS_RemoveElement
      <4> QED BY <2>3, <4>2, <4>5, <4>6, PendingFinite
    <3>2. CASE TotalErrors(a)
      <4>1. /\ pc[a] = "errors" /\ totals' = [totals EXCEPT !.errors = totals.errors + 1]
            /\ pc' = [pc EXCEPT ![a] = "measure"]
        BY <3>2, Zenon DEF TotalErrors, Goto
      <4>2. totals'.errors = totals.errors + 1 /\ totals'.queries = totals.queries
        BY <4>1, CountTypes DEF Pair
      <4>3. \A c \in Requests : pc'[c] = IF c # a THEN pc[c] ELSE "measure"
        BY <1>0, <4>1
      <4>4. a \in PendingFailed /\ PendingFailed' = PendingFailed \ {a}
        BY <2>2, <4>1, <4>3 DEF PendingFailed, CountInv
      <4>5. Pending' = Pending
        BY <4>1, <4>3 DEF Pending
      <4>6. Cardinality(PendingFailed') = Cardinality(PendingFailed) - 1
        BY <4>4, PendingFinite, FS_RemoveElement
      <4> QED BY <2>3, <4>2, <4>5, <4>6, PendingFinite
    <3> QED BY <1>6, <3>1, <3>2
  <2>5. Sums'
    BY <1>9, <2>1, <2>4 DEF CountInv, Sums
  <2>6. Rates'
    <3>1. \A c \in Actors : pc'[c] # "gauge" => measured'[c] = Zero
      BY <1>0, <2>1 DEF CountInv, Rates
    <3>2. RateOf(rate)' /\ \A c \in Actors : RateOf(measured[c])'
      BY <1>9, <2>1 DEF CountInv, Rates, RateOf
    <3> QED BY <1>9, <2>1, <3>1, <3>2 DEF CountInv, Rates
  <2>7. \A c \in Requests : pc'[c] = "errors" => Failed(c)'
    <3> TAKE c \in Requests
    <3>1. c # a => pc'[c] = pc[c]
      BY <1>0, <2>1
    <3> QED BY <2>1, <2>2, <3>1 DEF CountInv
  <2> QED BY <2>5, <2>6, <2>7 DEF CountInv
<1>10. ASSUME Measure(a) PROVE CountInv'
  <2>1. /\ pc[a] = "measure" /\ pc' = [pc EXCEPT ![a] = "gauge"] /\ UNCHANGED <<counts, totals, rate, result>>
        /\ UNCHANGED clients /\ measured' = [measured EXCEPT ![a] = counts[pipe[a]]]
    BY <1>10 DEF Measure, Goto, Stay, service
  <2>2. pipe[a] \in Builds
    <3>1. pipe[a] # 0 /\ pipe[a] \in 0..Len(clients) /\ clients \in Seq(Backends) /\ Len(clients) \in Nat
      BY <2>1 DEF TypeInv, TypeOK, Holding, Attached, Running
    <3> QED BY <3>1 DEF Builds
  <2>3. Pending' = Pending /\ PendingFailed' = PendingFailed
    <3>1. Goto(a, "gauge") /\ result' = [result EXCEPT ![a] = result'[a]]
      BY <1>0, <2>1 DEF Goto
    <3> QED BY <2>1, <3>1, SamePending
  <2>4. Sums'
    BY <1>9, <2>1, <2>3 DEF CountInv, Sums
  <2>5. RateOf(counts[pipe[a]])
    <3>1. counts[pipe[a]] \in Pair
      BY <2>2, CountTypes
    <3> QED BY <2>2, <3>1 DEF RateOf, CountInv, Rates, Pair
  <2>6. Rates'
    <3>1. \A c \in Actors : pc'[c] # "gauge" => measured'[c] = Zero
      BY <1>0, <2>1, CountTypes DEF CountInv, Rates
    <3>2. \A c \in Actors : RateOf(measured'[c])
      BY <2>1, <2>5, CountTypes DEF CountInv, Rates
    <3>3. RateOf(rate)' /\ \A c \in Actors : RateOf(measured[c])'
      BY <1>9, <2>1, <3>2 DEF CountInv, Rates, RateOf
    <3> QED BY <1>9, <2>1, <3>1, <3>3 DEF CountInv, Rates
  <2>7. \A c \in Requests : pc'[c] = "errors" => Failed(c)'
    BY <1>0, <2>1 DEF CountInv, Failed
  <2> QED BY <2>4, <2>6, <2>7 DEF CountInv
<1>7. ASSUME SetGauge(a) PROVE CountInv'
  <2>1. /\ pc[a] = "gauge" /\ rate' = measured[a] /\ UNCHANGED <<counts, totals, result>>
        /\ UNCHANGED clients /\ measured' = [measured EXCEPT ![a] = Zero]
        /\ \E q \in {"load", "over"} : pc' = [pc EXCEPT ![a] = q]
    BY <1>7 DEF SetGauge, Goto, Over, Leave, service
  <2>2. Pending' = Pending /\ PendingFailed' = PendingFailed
    <3>1. PICK q \in {"load", "over"} : Goto(a, q)
      BY <2>1 DEF Goto
    <3>2. result' = [result EXCEPT ![a] = result'[a]]
      BY <1>0, <2>1
    <3> QED BY <2>1, <3>1, <3>2, SamePending
  <2>3. Sums'
    BY <1>9, <2>1, <2>2 DEF CountInv, Sums
  <2>4. RateOf(Zero)
    BY DEF RateOf, Zero
  <2>5. Rates'
    <3>1. \A c \in Actors : pc'[c] # "gauge" => measured'[c] = Zero
      BY <1>0, <2>1, CountTypes DEF CountInv, Rates
    <3>2. RateOf(rate') /\ \A c \in Actors : RateOf(measured'[c])
      BY <2>1, <2>4, CountTypes DEF CountInv, Rates
    <3>3. RateOf(rate)' /\ \A c \in Actors : RateOf(measured[c])'
      BY <1>9, <2>1, <3>2 DEF RateOf
    <3> QED BY <1>9, <2>1, <3>1, <3>3 DEF CountInv, Rates
  <2>6. \A c \in Requests : pc'[c] = "errors" => Failed(c)'
    BY <1>0, <2>1 DEF CountInv, Failed
  <2> QED BY <2>3, <2>5, <2>6 DEF CountInv
<1> QED BY <1>1, <1>2, <1>3, <1>4, <1>5, <1>6, <1>7, <1>8, <1>10 DEF Query

\* What Init and Restart leave behind.
LEMMA NothingCounted ==
    ASSUME clients = <<>>, totals = Zero, rate = Zero, \A a \in Actors : measured[a] = Zero,
           \A a \in Requests : pc[a] \notin {"total", "errors"}
    PROVE  CountInv
<1>1. Pending = {} /\ PendingFailed = {} /\ Builds = {}
  BY DEF Pending, PendingFailed, Builds
<1>2. CountedQueries = {} /\ CountedErrors = {}
  BY <1>1 DEF CountedQueries, CountedErrors
<1>3. Cardinality({}) = 0 /\ IsFiniteSet({})
  BY FS_EmptySet
<1>4. RateOf(Zero)
  BY DEF RateOf, Zero
<1>5. Sums
  BY <1>1, <1>2, <1>3 DEF Sums, Zero
<1>6. Rates
  BY <1>1, <1>4 DEF Rates
<1> QED BY <1>5, <1>6 DEF CountInv

LEMMA CountStep == ASSUME TypeInv, TypeInv', CountInv, [Next]_vars PROVE CountInv'
<1>1. CASE Restart
  <2>1. /\ clients' = <<>> /\ totals' = Zero /\ rate' = Zero
        /\ \A a \in Requests : pc'[a] \notin {"total", "errors"}
    BY <1>1, MainIsNoRequest DEF Restart, Actors
  <2>2. \A a \in Actors : measured'[a] = Zero
    BY <1>1 DEF Restart, CountInv, Rates
  <2>3. Pending' = {} /\ PendingFailed' = {} /\ Builds' = {}
    BY <2>1 DEF Pending, PendingFailed, Builds
  <2>4. CountedQueries' = {} /\ CountedErrors' = {}
    BY <2>3 DEF CountedQueries, CountedErrors
  <2>5. Cardinality({}) = 0 /\ IsFiniteSet({})
    BY FS_EmptySet
  <2>6. Sums'
    BY <2>1, <2>3, <2>4, <2>5 DEF Sums, Zero
  <2>7. Rates'
    BY <2>1, <2>2, <2>3 DEF Rates, RateOf, Zero
  <2> QED BY <2>1, <2>6, <2>7 DEF CountInv
<1>2. CASE UNCHANGED vars
  <2>1. UNCHANGED <<counts, totals, rate, measured, clients, pc, result>>
    BY <1>2 DEF vars, metrics, service
  <2>2. Builds' = Builds
    BY <2>1 DEF Builds
  <2>3. /\ CountedQueries' = CountedQueries /\ CountedErrors' = CountedErrors
        /\ Pending' = Pending /\ PendingFailed' = PendingFailed
    BY <2>1, <2>2 DEF CountedQueries, CountedErrors, Pending, PendingFailed, Failed
  <2> QED BY <2>1, <2>2, <2>3 DEF CountInv, Sums, Rates, RateOf, Failed
<1> QED BY <1>1, <1>2, EnsureCount, QueryCount, StreamCount DEF Next

(***************************************************************************)
(* The traces.                                                             *)
(***************************************************************************)
LayersTo(n) == {Layers[k] : k \in 1..n}
\* The places of a query whose layers are done, and of one in start_trace.
Traced == {"count", "total", "errors", "measure", "gauge", "load", "open", "write"}
Starting == {"choose", "trim"}
\* What is still kept of a query: the trace that was just started is empty, that
\* of a running one has a span for each layer begun, the last of which is current,
\* and the trace of one whose layers are done has them all.  Before its query, and
\* in a stream, a request has no trace.
Faithful(t) ==
    t.root = "rag_query" =>
        /\ pc[t.of] \in {"layer", "over"} \cup Starting \cup Traced
        /\ pc[t.of] \in Starting => layer[t.of] = 0 /\ t.spans = {} /\ ~t.failed
        /\ pc[t.of] = "layer" =>
              /\ t.spans = LayersTo(layer[t.of]) /\ ~t.failed
              /\ span[t.of] = [root |-> "rag_query", name |-> Layers[layer[t.of]]]
        /\ pc[t.of] \in Traced \/ reply[t.of] = "answer" =>
              t.spans = LayersTo(LastLayer(t.of)) /\ ~t.failed
\* A request is in no layer before its query, and in one of its layers then.
LayersOK ==
    \A a \in Actors :
        /\ pc[a] = "layer" => layer[a] \in 1..LastLayer(a)
        /\ pc[a] \in Starting => layer[a] \in 0..LastLayer(a)
        /\ pc[a] \notin {"layer"} \cup Starting \cup Traced => layer[a] = 0
TraceInv ==
    /\ TypeInv /\ RepliesLast /\ LayersOK
    /\ \A i \in DOMAIN traces : Faithful(traces[i])

\* What the other requests keep when a moves.
OthersStay(a) ==
    \A b \in Actors : b # a => /\ pc'[b] = pc[b] /\ layer'[b] = layer[b] /\ span'[b] = span[b]
                               /\ ask'[b] = ask[b] /\ reply'[b] = reply[b]

LEMMA TraceTypes ==
    ASSUME TypeInv
    PROVE  /\ pc \in [Actors -> Places] /\ layer \in [Actors -> 0..5]
           /\ ask \in [Actors -> Asks \cup {NoAsk}]
           /\ span \in [Actors -> [root : SpanNames, name : SpanNames]]
           /\ reply \in [Actors -> {"none", "answer", "guide", "error"}]
           /\ \A b \in Requests : b \in Actors
           /\ traces \in Seq(TraceRows)
           /\ \A i \in DOMAIN traces : traces[i] \in TraceRows /\ traces[i].of \in Actors
<1>1. traces \in Seq(TraceRows) /\ \A b \in Requests : b \in Actors
  BY DEF TypeInv, TypeOK, Actors
<1>2. \A i \in DOMAIN traces : traces[i] \in TraceRows
  BY <1>1
<1>3. \A t \in TraceRows : t.of \in Requests
  BY DEF TraceRows
<1> QED BY <1>1, <1>2, <1>3 DEF TypeInv, TypeOK

\* The rows of others are as faithful as they were.
LEMMA OthersFaithful ==
    ASSUME TraceInv, NEW a \in Actors, OthersStay(a), NEW i \in DOMAIN traces, traces[i].of # a
    PROVE  \A t : t = traces[i] => Faithful(t)'
<1>1. traces[i].of \in Actors /\ Faithful(traces[i])
  BY TraceTypes DEF TraceInv
<1> QED BY <1>1 DEF Faithful, LastLayer, OthersStay

\* So only a's rows, and a's layer, have to be looked at.
LEMMA TraceOne ==
    ASSUME TraceInv, TypeInv', RepliesLast', NEW a \in Actors, OthersStay(a),
           \A i \in DOMAIN traces' :
              \/ \E j \in DOMAIN traces : traces'[i] = traces[j] /\ traces[j].of # a
              \/ Faithful(traces[i])',
           pc'[a] = "layer" => layer'[a] \in 1..LastLayer(a)',
           pc'[a] \in Starting => layer'[a] \in 0..LastLayer(a)',
           pc'[a] \notin {"layer"} \cup Starting \cup Traced => layer'[a] = 0
    PROVE  TraceInv'
<1>1. \A i \in DOMAIN traces' : Faithful(traces[i])'
  <2> TAKE i \in DOMAIN traces'
  <2>1. ASSUME NEW j \in DOMAIN traces, traces'[i] = traces[j], traces[j].of # a
        PROVE  Faithful(traces[i])'
    <3>1. \A t : t = traces[j] => Faithful(t)'
      BY <2>1, OthersFaithful
    <3> QED BY <2>1, <3>1 DEF Faithful
  <2> QED BY <2>1
<1>2. LayersOK'
  <2> SUFFICES ASSUME NEW b \in Actors
               PROVE  /\ pc'[b] = "layer" => layer'[b] \in 1..LastLayer(b)'
                      /\ pc'[b] \in Starting => layer'[b] \in 0..LastLayer(b)'
                      /\ pc'[b] \notin {"layer"} \cup Starting \cup Traced => layer'[b] = 0
    BY DEF LayersOK
  <2>1. CASE b = a
    BY <2>1
  <2>2. CASE b # a
    <3>1. pc'[b] = pc[b] /\ layer'[b] = layer[b] /\ LastLayer(b)' = LastLayer(b)
      BY <2>2 DEF OthersStay, LastLayer
    <3> QED BY <3>1 DEF TraceInv, LayersOK
  <2> QED BY <2>1, <2>2
<1> QED BY <1>1, <1>2 DEF TraceInv

\* A step that leaves the traces alone.
LEMMA TracesAlone ==
    ASSUME TraceInv, TypeInv', RepliesLast', NEW a \in Actors, NEW q, Goto(a, q), UNCHANGED traces,
           q \notin {"layer"} \cup Starting, UNCHANGED layer \/ layer' = [layer EXCEPT ![a] = 0],
           q \notin Traced => layer'[a] = 0,
           span' = [span EXCEPT ![a] = span'[a]], ask' = [ask EXCEPT ![a] = ask'[a]],
           reply' = [reply EXCEPT ![a] = reply'[a]],
           \A i \in DOMAIN traces : traces[i].of = a => Faithful(traces[i])'
    PROVE  TraceInv'
<1>1. pc' = [pc EXCEPT ![a] = q] /\ pc'[a] = q
  BY TraceTypes DEF Goto, TraceInv
<1>2. OthersStay(a)
  BY <1>1, TraceTypes DEF OthersStay, TraceInv
<1> QED BY <1>1, <1>2, TraceOne

\* A request that runs no query has no trace to be faithful to.
LEMMA TraceGoto ==
    ASSUME TraceInv, TypeInv', RepliesLast', NEW a \in Actors, NEW q, Goto(a, q), UNCHANGED tracing,
           pc[a] \notin {"layer", "over"} \cup Starting \cup Traced, q \notin {"layer"} \cup Starting \cup Traced,
           UNCHANGED layer \/ layer' = [layer EXCEPT ![a] = 0],
           ask' = [ask EXCEPT ![a] = ask'[a]], reply' = [reply EXCEPT ![a] = reply'[a]]
    PROVE  TraceInv'
<1>1. UNCHANGED traces /\ span' = [span EXCEPT ![a] = span'[a]]
  BY DEF tracing, TraceInv, TypeInv, TypeOK
<1>2. \A i \in DOMAIN traces : traces[i].of = a => Faithful(traces[i])'
  <2> SUFFICES ASSUME NEW i \in DOMAIN traces, traces[i].of = a PROVE traces'[i].root # "rag_query"
    BY <1>1 DEF Faithful
  <2> QED BY <1>1 DEF TraceInv, Faithful
<1>3. layer'[a] = 0
  BY TraceTypes DEF TraceInv, LayersOK
<1> QED BY <1>1, <1>2, <1>3, TracesAlone

LEMMA TraceOver ==
    ASSUME TraceInv, TypeInv', RepliesLast', NEW a \in Actors, NEW what, Over(a, what),
           UNCHANGED tracing, pc[a] \notin {"layer", "over"} \cup Starting \cup Traced,
           ask' = [ask EXCEPT ![a] = ask'[a]]
    PROVE  TraceInv'
<1>1. /\ Goto(a, "over") /\ layer' = [layer EXCEPT ![a] = 0]
      /\ reply' = [reply EXCEPT ![a] = reply'[a]]
  BY DEF Over, Leave, TraceInv, TypeInv, TypeOK
<1> QED BY <1>1, TraceGoto DEF Starting, Traced

LEMMA EnsureTrace ==
    ASSUME TraceInv, TypeInv', RepliesLast', NEW a \in Actors, Ensure(a) PROVE TraceInv'
<1>1. ask = [ask EXCEPT ![a] = ask[a]] /\ reply = [reply EXCEPT ![a] = reply[a]]
  BY DEF TraceInv, TypeInv, TypeOK
<1>2. ASSUME NEW b, WithPipeline(a, b), pc[a] \in {"check", "publish"}, UNCHANGED tracing, UNCHANGED ask
      PROVE  TraceInv'
  <2>1. CASE Over(a, "answer")
    BY <1>1, <1>2, <2>1, TraceOver DEF Traced, Starting
  <2>2. CASE UNCHANGED <<layer, reply>> /\ \E p \in {"retrieving", "root"} : Goto(a, p)
    BY <1>1, <1>2, <2>2, TraceGoto DEF Traced, Starting
  <2> QED BY <1>2, <2>1, <2>2 DEF WithPipeline
<1>3. ASSUME Check(a) PROVE TraceInv'
  <2>1. CASE pipeline # 0
    BY <1>2, <1>3, <2>1 DEF Check
  <2>2. CASE pipeline = 0
    BY <1>1, <1>3, <2>2, TraceGoto DEF Check, Traced, Starting
  <2> QED BY <2>1, <2>2
<1>4. ASSUME Build(a) \/ ChooseClient(a) PROVE TraceInv'
  BY <1>1, <1>4, TraceGoto DEF Build, ChooseClient, Traced, Starting
<1>5. ASSUME BuildRaises(a) PROVE TraceInv'
  BY <1>1, <1>5, TraceOver DEF BuildRaises, Traced, Starting
<1>6. ASSUME Publish(a) PROVE TraceInv'
  BY <1>2, <1>6 DEF Publish
<1> QED BY <1>3, <1>4, <1>5, <1>6 DEF Ensure

LEMMA StreamTrace ==
    ASSUME TraceInv, TypeInv', RepliesLast', NEW a \in Requests,
           Stream(a) \/ Disconnect(a) \/ Guide(a) \/ Ask(a)
    PROVE  TraceInv'
<1> a \in Actors
  BY DEF Actors
<1>1. /\ ask = [ask EXCEPT ![a] = ask[a]] /\ reply = [reply EXCEPT ![a] = reply[a]]
      /\ pc = [pc EXCEPT ![a] = pc[a]]
  BY DEF TraceInv, TypeInv, TypeOK
<1>2. ASSUME NEW s \in Stages, Advance(a, s), pc[a] \in Stages PROVE TraceInv'
  BY <1>1, <1>2, TraceGoto DEF Advance, Stay, Stages, Traced, Starting
<1>3. ASSUME Done(a) \/ StreamRaises(a), pc[a] \in Stages PROVE TraceInv'
  BY <1>1, <1>3, TraceOver DEF Done, StreamRaises, Stages, Traced, Starting
<1>4. ASSUME StreamToken(a) PROVE TraceInv'
  BY <1>1, <1>4, TraceGoto DEF StreamToken, Stay, Goto, Traced, Starting
<1>5. ASSUME Disconnect(a) PROVE TraceInv'
  <2>1. /\ Goto(a, "gone") /\ layer' = [layer EXCEPT ![a] = 0] /\ UNCHANGED tracing
        /\ UNCHANGED <<ask, reply>> /\ pc[a] \in Stages
    BY <1>5 DEF Disconnect, Leave, TraceInv, TypeInv, TypeOK
  <2> QED BY <1>1, <2>1, TraceGoto DEF Stages, Traced, Starting
<1>6. ASSUME Guide(a) \/ Ask(a) PROVE TraceInv'
  <2>1. ask' = [ask EXCEPT ![a] = ask'[a]] /\ pc[a] = "idle" /\ UNCHANGED tracing
    BY <1>6 DEF Guide, Ask, TraceInv, TypeInv, TypeOK
  <2>2. CASE Guide(a)
    BY <2>1, <2>2, TraceOver DEF Guide, Traced, Starting
  <2>3. CASE Ask(a)
    BY <1>1, <2>1, <2>3, TraceGoto DEF Ask, Traced, Starting
  <2> QED BY <1>6, <2>2, <2>3
<1>7. Stream(a) => \/ \E s \in Stages : Advance(a, s) /\ pc[a] \in Stages
                   \/ (Done(a) \/ StreamRaises(a)) /\ pc[a] \in Stages
                   \/ StreamToken(a)
  BY DEF Stream, StreamRetrieved, StreamReranked, StreamAssembled, StreamGenerated, StreamScored,
         StreamRaises, Stages
<1> QED BY <1>2, <1>3, <1>4, <1>5, <1>6, <1>7

LEMMA LayerNames ==
    /\ \A i \in 1..5 : Layers[i] \in SpanNames \ {"rag_query", "none"}
    /\ LayersTo(1) = {Layers[1]}
    /\ \A n \in 1..4 : LayersTo(n + 1) = LayersTo(n) \cup {Layers[n + 1]}
    /\ \A a \in Actors : LastLayer(a) \in {4, 5}
BY DEF Layers, LayersTo, SpanNames, LastLayer

\* A step of a query past its layers: its trace stays as it is.
LEMMA TraceDone ==
    ASSUME TraceInv, TypeInv', RepliesLast', NEW a \in Actors, NEW q \in Traced \cup {"over"}, Goto(a, q),
           UNCHANGED traces, UNCHANGED ask, pc[a] \in Traced,
           span' = [span EXCEPT ![a] = span'[a]],
           UNCHANGED layer \/ layer' = [layer EXCEPT ![a] = 0],
           q \notin Traced => layer'[a] = 0,
           reply' = [reply EXCEPT ![a] = reply'[a]]
    PROVE  TraceInv'
<1>1. pc'[a] = q /\ ask = [ask EXCEPT ![a] = ask[a]]
  BY DEF Goto, TraceInv, TypeInv, TypeOK
<1>2. \A i \in DOMAIN traces : traces[i].of = a => Faithful(traces[i])'
  BY <1>1 DEF TraceInv, Faithful, Traced, Starting, LastLayer
<1> QED BY <1>1, <1>2, TracesAlone DEF Traced, Starting

\* start_trace and _trim_traces.
LEMMA StartingTrace ==
    ASSUME TraceInv, TypeInv', RepliesLast', NEW a \in Requests,
           Root(a) \/ Choose(a) \/ Trim(a) \/ TrimRaises(a) \/ Started(a)
    PROVE  TraceInv'
<1> a \in Actors
  BY DEF Actors
<1>0. /\ pc \in [Actors -> Places] /\ layer \in [Actors -> 0..5]
      /\ span \in [Actors -> [root : SpanNames, name : SpanNames]]
      /\ reply \in [Actors -> {"none", "answer", "guide", "error"}]
      /\ traces \in Seq(TraceRows)
      /\ ask = [ask EXCEPT ![a] = ask[a]] /\ reply = [reply EXCEPT ![a] = reply[a]]
      /\ span = [span EXCEPT ![a] = span[a]] /\ pc = [pc EXCEPT ![a] = pc[a]]
  BY TraceTypes DEF TraceInv
<1>1. LastLayer(a) \in {4, 5}
  BY LayerNames
<1>2. ASSUME Root(a) PROVE TraceInv'
  <2>1. /\ pc[a] = "root" /\ pc' = [pc EXCEPT ![a] = "choose"] /\ UNCHANGED <<layer, span, ask, reply>>
        /\ StartTrace(a, "rag_query")
    BY <1>2 DEF Root, StartTrace, Goto, Stay
  <2>2. pc'[a] = "choose" /\ layer'[a] = 0 /\ reply'[a] # "answer" /\ LastLayer(a)' = LastLayer(a)
    BY <1>0, <2>1 DEF TraceInv, LayersOK, Starting, Traced, RepliesLast, LastLayer
  <2>3. OthersStay(a)
    BY <1>0, <2>1 DEF OthersStay
  <2>4. ASSUME NEW i \in DOMAIN traces'
        PROVE  \/ \E j \in DOMAIN traces : traces'[i] = traces[j] /\ traces[j].of # a
               \/ Faithful(traces[i])'
    <3>1. \/ i \in DOMAIN traces /\ traces'[i] = traces[i]
          \/ traces'[i] = [of |-> a, root |-> "rag_query", spans |-> {}, failed |-> FALSE]
      <4>1. "rag_query" \in SpanNames
        BY DEF SpanNames
      <4> QED BY <1>0, <2>1, <2>4, <4>1, StartedRows
    <3>2. CASE i \in DOMAIN traces /\ traces'[i] = traces[i] /\ traces[i].of = a
      BY <2>1, <3>2 DEF TraceInv, Faithful, Starting, Traced
    <3>3. CASE traces'[i] = [of |-> a, root |-> "rag_query", spans |-> {}, failed |-> FALSE]
      BY <2>2, <3>3 DEF Faithful, Starting, Traced
    <3> QED BY <3>1, <3>2, <3>3
  <2> QED BY <1>1, <2>2, <2>3, <2>4, TraceOne DEF Starting
<1>3. ASSUME Choose(a) PROVE TraceInv'
  <2>1. /\ pc[a] = "choose" /\ pc' = [pc EXCEPT ![a] = "trim"]
        /\ UNCHANGED <<layer, span, ask, reply, traces>>
    BY <1>3 DEF Choose, Goto, Stay
  <2>2. pc'[a] = "trim" /\ LastLayer(a)' = LastLayer(a)
    BY <1>0, <2>1 DEF LastLayer
  <2>3. OthersStay(a)
    BY <1>0, <2>1 DEF OthersStay
  <2>4. \A i \in DOMAIN traces : traces[i].of = a => Faithful(traces[i])'
    BY <2>1, <2>2 DEF TraceInv, Faithful, Starting, Traced
  <2>5. layer'[a] \in 0..LastLayer(a)'
    BY <2>1, <2>2 DEF TraceInv, LayersOK, Starting
  <2> QED BY <2>1, <2>2, <2>3, <2>4, <2>5, TraceOne DEF Starting
<1>4. ASSUME Trim(a) PROVE TraceInv'
  <2>1. UNCHANGED <<pc, layer, span, ask, reply>>
    BY <1>4 DEF Trim, Stay
  <2>2. \A t : Faithful(t)' <=> Faithful(t)
    BY <2>1 DEF Faithful, LastLayer
  <2>3. \A i \in DOMAIN traces' : Faithful(traces[i])'
    <3> TAKE i \in DOMAIN traces'
    <3>1. PICK j \in DOMAIN traces : traces'[i] = traces[j]
      BY <1>0, <1>4, TrimmedRows
    <3>2. Faithful(traces[j])
      BY DEF TraceInv
    <3>3. \A t : t = traces[j] => Faithful(t)'
      BY <2>2, <3>2
    <3> QED BY <3>1, <3>3 DEF Faithful
  <2>4. LayersOK'
    BY <2>1 DEF TraceInv, LayersOK, LastLayer
  <2> QED BY <2>3, <2>4 DEF TraceInv
<1>5. ASSUME TrimRaises(a) PROVE TraceInv'
  <2>1. /\ pc[a] = "trim" /\ Goto(a, "over") /\ layer' = [layer EXCEPT ![a] = 0]
        /\ reply' = [reply EXCEPT ![a] = "error"] /\ UNCHANGED <<span, ask, traces>>
    BY <1>5 DEF TrimRaises, Over, Leave
  <2>2. pc'[a] = "over" /\ reply'[a] = "error" /\ layer'[a] = 0
    BY <1>0, <2>1 DEF Goto
  <2>3. \A i \in DOMAIN traces : traces[i].of = a => Faithful(traces[i])'
    BY <2>1, <2>2 DEF Faithful, Starting, Traced
  <2>4. reply' = [reply EXCEPT ![a] = reply'[a]]
    BY <1>0, <2>1
  <2> QED BY <1>0, <2>1, <2>2, <2>3, <2>4, TracesAlone DEF Starting, Traced
<1>6. ASSUME Started(a), layer[a] = 0 PROVE TraceInv'
  <2>1. /\ pc[a] = "trim" /\ pc' = [pc EXCEPT ![a] = "layer"] /\ layer' = [layer EXCEPT ![a] = 1]
        /\ AddSpan(a, "rag_query", Layers[1]) /\ UNCHANGED <<ask, reply>>
        /\ span' = [span EXCEPT ![a] = [root |-> "rag_query", name |-> Layers[1]]]
    BY <1>6 DEF Started, AddSpan, Goto
  <2>2. /\ pc'[a] = "layer" /\ layer'[a] = 1 /\ reply'[a] # "answer" /\ LastLayer(a)' = LastLayer(a)
        /\ span'[a] = [root |-> "rag_query", name |-> Layers[1]]
    BY <1>0, <2>1 DEF TraceInv, RepliesLast, LastLayer
  <2>3. OthersStay(a)
    BY <1>0, <2>1 DEF OthersStay
  <2>4. ASSUME NEW i \in DOMAIN traces'
        PROVE  \/ \E j \in DOMAIN traces : traces'[i] = traces[j] /\ traces[j].of # a
               \/ Faithful(traces[i])'
    <3>1. /\ i \in DOMAIN traces
          /\ traces'[i].of = traces[i].of /\ traces'[i].root = traces[i].root
          /\ traces'[i].failed = traces[i].failed
          /\ traces[i].of # a => traces'[i] = traces[i]
          /\ i \in Stored(a, "rag_query") => traces'[i].spans = traces[i].spans \cup {Layers[1]}
      <4>1. Layers[1] \in SpanNames
        BY LayersAre
      <4> QED BY <1>0, <2>1, <2>4, <4>1, AddedRows
    <3>2. CASE traces[i].of = a /\ traces[i].root = "rag_query"
      <4>1. i \in Stored(a, "rag_query")
        BY <3>1, <3>2 DEF Stored
      <4>2. traces[i].spans = {} /\ ~traces[i].failed
        BY <2>1, <3>1, <3>2 DEF TraceInv, Faithful, Starting
      <4>3. traces'[i].spans = LayersTo(1) /\ ~traces'[i].failed
        BY <3>1, <4>1, <4>2, LayerNames
      <4> QED BY <2>2, <3>1, <3>2, <4>3 DEF Faithful, Starting, Traced
    <3>3. CASE traces[i].root # "rag_query"
      BY <3>1, <3>3 DEF Faithful
    <3> QED BY <3>1, <3>2, <3>3
  <2> QED BY <1>1, <2>2, <2>3, <2>4, TraceOne DEF Starting
<1>7. ASSUME Started(a), layer[a] # 0 PROVE TraceInv'
  <2>1. /\ pc[a] = "trim" /\ pc' = [pc EXCEPT ![a] = "layer"] /\ UNCHANGED <<layer, traces, ask, reply>>
        /\ span' = [span EXCEPT ![a] = span'[a]]
    BY <1>0, <1>7 DEF Started, Goto
  <2>2. pc'[a] = "layer" /\ LastLayer(a)' = LastLayer(a)
    BY <1>0, <2>1 DEF LastLayer
  <2>3. layer'[a] \in 1..LastLayer(a)'
    <3>1. layer[a] \in 0..LastLayer(a)
      BY <2>1 DEF TraceInv, LayersOK, Starting
    <3> QED BY <1>1, <1>7, <2>1, <2>2, <3>1
  <2>4. OthersStay(a)
    BY <1>0, <2>1 DEF OthersStay
  <2>5. \A i \in DOMAIN traces : traces[i].of = a => Faithful(traces[i])'
    BY <1>7, <2>1 DEF TraceInv, Faithful, Starting
  <2> QED BY <2>1, <2>2, <2>3, <2>4, <2>5, TraceOne DEF Starting
<1> QED BY <1>2, <1>3, <1>4, <1>5, <1>6, <1>7

LEMMA LayerTrace ==
    ASSUME TraceInv, TypeInv', RepliesLast', NEW a \in Requests, EndLayer(a) \/ LayerRaises(a)
    PROVE  TraceInv'
<1> a \in Actors
  BY DEF Actors
<1>0. /\ pc \in [Actors -> Places] /\ layer \in [Actors -> 0..5]
      /\ span \in [Actors -> [root : SpanNames, name : SpanNames]]
      /\ reply \in [Actors -> {"none", "answer", "guide", "error"}]
      /\ traces \in Seq(TraceRows)
      /\ ask = [ask EXCEPT ![a] = ask[a]] /\ reply = [reply EXCEPT ![a] = reply[a]]
      /\ pc = [pc EXCEPT ![a] = pc[a]]
  BY TraceTypes DEF TraceInv
<1>1. LastLayer(a) \in {4, 5}
  BY LayerNames
<1>2. ASSUME LayerRaises(a) PROVE TraceInv'
  <2>1. /\ pc[a] = "layer" /\ pc' = [pc EXCEPT ![a] = "over"] /\ reply' = [reply EXCEPT ![a] = "error"]
        /\ layer' = [layer EXCEPT ![a] = 0] /\ span' = [span EXCEPT ![a] = NoSpan] /\ UNCHANGED ask
        /\ SpansFailed(a)
    BY <1>2 DEF LayerRaises, SpansFailed, Over, Leave, Goto
  <2>2. pc'[a] = "over" /\ reply'[a] = "error" /\ layer'[a] = 0
    BY <1>0, <2>1
  <2>3. OthersStay(a)
    BY <1>0, <2>1 DEF OthersStay
  <2>4. ASSUME NEW i \in DOMAIN traces'
        PROVE  \/ \E j \in DOMAIN traces : traces'[i] = traces[j] /\ traces[j].of # a
               \/ Faithful(traces[i])'
    <3>1. /\ i \in DOMAIN traces /\ traces'[i].of = traces[i].of
          /\ traces[i].of # a => traces'[i] = traces[i]
      BY <1>0, <2>1, <2>4, FailedRows
    <3>2. CASE traces[i].of = a
      BY <2>2, <3>1, <3>2 DEF Faithful, Starting, Traced
    <3> QED BY <3>1, <3>2
  <2> QED BY <2>2, <2>3, <2>4, TraceOne DEF Starting
<1>3. ASSUME EndLayer(a), ~(layer[a] < LastLayer(a)) PROVE TraceInv'
  <2>1. /\ pc[a] = "layer" /\ Goto(a, "count") /\ UNCHANGED <<traces, layer, ask, reply>>
        /\ span' = [span EXCEPT ![a] = span'[a]]
    BY <1>0, <1>3 DEF EndLayer
  <2>2. layer[a] = LastLayer(a) /\ pc'[a] = "count" /\ LastLayer(a)' = LastLayer(a)
    <3>1. layer[a] \in 1..LastLayer(a)
      BY <2>1 DEF TraceInv, LayersOK
    <3> QED BY <1>0, <1>1, <1>3, <2>1, <3>1 DEF Goto, LastLayer
  <2>3. \A i \in DOMAIN traces : traces[i].of = a => Faithful(traces[i])'
    BY <2>1, <2>2 DEF TraceInv, Faithful, Traced, Starting
  <2> QED BY <1>0, <2>1, <2>2, <2>3, TracesAlone DEF Traced, Starting
<1>4. ASSUME EndLayer(a), layer[a] < LastLayer(a) PROVE TraceInv'
  <2> DEFINE n == layer[a]
             name == Layers[n + 1]
             current == AfterSpan(a)
  <2>1. /\ pc[a] = "layer" /\ layer' = [layer EXCEPT ![a] = n + 1] /\ UNCHANGED <<ask, reply>>
        /\ StartSpan(a, current, name)
    BY <1>4 DEF EndLayer
  <2>2. n \in 1..4 /\ n + 1 \in 1..LastLayer(a) /\ name \in SpanNames \ {"rag_query", "none"}
        /\ Layers[n] # "rag_query" /\ LastLayer(a)' = LastLayer(a) /\ layer'[a] = n + 1
    <3>1. n \in 1..LastLayer(a)
      BY <2>1 DEF TraceInv, LayersOK
    <3>2. n \in 1..4 /\ n + 1 \in 1..LastLayer(a) /\ n + 1 \in 1..5
      BY <1>1, <1>4, <3>1
    <3> QED BY <1>0, <2>1, <3>2, LayerNames DEF LastLayer
  <2>4. ASSUME NEW i \in DOMAIN traces, traces[i].of = a, traces[i].root = "rag_query"
        PROVE  /\ traces[i].spans = LayersTo(n) /\ ~traces[i].failed
               /\ current = [root |-> "rag_query", name |-> "rag_query"] /\ current # NoSpan
               /\ i \in Stored(a, "rag_query")
    <3>1. span[a] = [root |-> "rag_query", name |-> Layers[n]]
          /\ traces[i].spans = LayersTo(n) /\ ~traces[i].failed
      BY <2>1, <2>4 DEF TraceInv, Faithful
    <3>2. i \in Stored(a, "rag_query")
      BY <2>4 DEF Stored
    <3> QED BY <2>2, <3>1, <3>2 DEF AfterSpan, NoSpan
  <2> HIDE DEF name, current
  <2>5. CASE StartTrace(a, name) /\ span' = [span EXCEPT ![a] = NoSpan] /\ current = NoSpan
    <3>1. pc' = [pc EXCEPT ![a] = "choose"] /\ pc'[a] = "choose"
      BY <1>0, <2>5 DEF StartTrace, Goto
    <3>2. OthersStay(a)
      BY <1>0, <2>1, <2>5, <3>1 DEF OthersStay
    <3>3. ASSUME NEW i \in DOMAIN traces'
          PROVE  \/ \E j \in DOMAIN traces : traces'[i] = traces[j] /\ traces[j].of # a
                 \/ Faithful(traces[i])'
      <4>1. \/ i \in DOMAIN traces /\ traces'[i] = traces[i]
            \/ traces'[i] = [of |-> a, root |-> name, spans |-> {}, failed |-> FALSE]
        BY <1>0, <2>2, <2>5, <3>3, StartedRows
      <4>2. CASE i \in DOMAIN traces /\ traces'[i] = traces[i] /\ traces[i].of = a
        <5>1. traces[i].root # "rag_query"
          BY <2>4, <2>5, <4>2
        <5> QED BY <4>2, <5>1 DEF Faithful
      <4>3. CASE traces'[i] = [of |-> a, root |-> name, spans |-> {}, failed |-> FALSE]
        <5>1. traces'[i].root # "rag_query"
          BY <2>2, <4>3
        <5> QED BY <5>1 DEF Faithful
      <4> QED BY <4>1, <4>2, <4>3
    <3>4. layer'[a] \in 0..LastLayer(a)'
      BY <1>1, <2>2
    <3> QED BY <3>1, <3>2, <3>3, <3>4, TraceOne DEF Starting
  <2>6. CASE AddSpan(a, current.root, name) /\ UNCHANGED pc
    <3>1. span' = [span EXCEPT ![a] = [root |-> current.root, name |-> name]]
      BY <2>6 DEF AddSpan
    <3>2. OthersStay(a)
      BY <1>0, <2>1, <2>6, <3>1 DEF OthersStay
    <3>3. ASSUME NEW i \in DOMAIN traces'
          PROVE  \/ \E j \in DOMAIN traces : traces'[i] = traces[j] /\ traces[j].of # a
                 \/ Faithful(traces[i])'
      <4>1. /\ i \in DOMAIN traces
            /\ traces'[i].of = traces[i].of /\ traces'[i].root = traces[i].root
            /\ traces'[i].failed = traces[i].failed
            /\ traces[i].of # a => traces'[i] = traces[i]
            /\ i \in Stored(a, current.root) => traces'[i].spans = traces[i].spans \cup {name}
        BY <1>0, <2>2, <2>6, <3>3, AddedRows
      <4>2. CASE traces[i].of = a /\ traces[i].root = "rag_query"
        <5>1. current.root = "rag_query" /\ i \in Stored(a, current.root)
              /\ traces[i].spans = LayersTo(n) /\ ~traces[i].failed
          BY <2>4, <4>1, <4>2
        <5>2. LayersTo(n + 1) = LayersTo(n) \cup {name}
          BY <2>2, LayerNames DEF name
        <5>3. span'[a] = [root |-> "rag_query", name |-> name]
          BY <1>0, <3>1, <5>1
        <5>4. traces'[i].spans = LayersTo(n + 1) /\ ~traces'[i].failed
          BY <4>1, <5>1, <5>2
        <5>5. pc'[a] = "layer" /\ reply'[a] # "answer" /\ name = Layers[layer'[a]]
          BY <2>1, <2>2, <2>6 DEF TraceInv, RepliesLast, name
        <5> QED BY <2>2, <4>1, <4>2, <5>3, <5>4, <5>5 DEF Faithful, Traced, Starting
      <4>3. CASE traces[i].root # "rag_query"
        BY <4>1, <4>3 DEF Faithful
      <4> QED BY <4>1, <4>2, <4>3
    <3> QED BY <2>1, <2>2, <2>6, <3>2, <3>3, TraceOne DEF Starting
  <2> QED BY <2>1, <2>5, <2>6 DEF StartSpan
<1> QED BY <1>2, <1>3, <1>4

LEMMA QueryTrace ==
    ASSUME TraceInv, TypeInv', RepliesLast', NEW a \in Requests, Query(a) PROVE TraceInv'
<1> a \in Actors
  BY DEF Actors
<1>0. /\ reply \in [Actors -> {"none", "answer", "guide", "error"}]
      /\ layer \in [Actors -> 0..5]
      /\ span = [span EXCEPT ![a] = span[a]] /\ reply = [reply EXCEPT ![a] = reply[a]]
  BY TraceTypes DEF TraceInv
<1>1. ASSUME Count(a) \/ Total(a) \/ TotalErrors(a) \/ Measure(a) \/ Open(a) PROVE TraceInv'
  <2>1. /\ pc[a] \in Traced /\ UNCHANGED tracing /\ UNCHANGED <<ask, layer, reply>>
        /\ \E q \in Traced : Goto(a, q)
    BY <1>1 DEF Count, Total, TotalErrors, Measure, Open, Stay, Traced
  <2> QED BY <1>0, <2>1, TraceDone DEF tracing
<1>2. ASSUME SetGauge(a) \/ Load(a) \/ Write(a) PROVE TraceInv'
  <2>1. /\ pc[a] \in Traced /\ UNCHANGED traces /\ UNCHANGED ask
        /\ UNCHANGED span \/ span' = [span EXCEPT ![a] = NoSpan]
    BY <1>2 DEF SetGauge, Load, Write, Traced, tracing
  <2>2. span' = [span EXCEPT ![a] = span'[a]]
    BY <1>0, <2>1, TraceTypes DEF TraceInv
  <2>3. \/ \E q \in Traced : Goto(a, q) /\ UNCHANGED <<layer, reply>>
        \/ \E what \in {"answer", "error"} : Over(a, what)
    BY <1>2 DEF SetGauge, Load, Write, Traced
  <2>4. CASE \E q \in Traced : Goto(a, q) /\ UNCHANGED <<layer, reply>>
    BY <1>0, <2>1, <2>2, <2>4, TraceDone
  <2>5. CASE \E what \in {"answer", "error"} : Over(a, what)
    <3>1. /\ Goto(a, "over") /\ layer' = [layer EXCEPT ![a] = 0] /\ layer'[a] = 0
          /\ reply' = [reply EXCEPT ![a] = reply'[a]]
      BY <1>0, <2>5 DEF Over, Leave
    <3> QED BY <2>1, <2>2, <3>1, TraceDone
  <2> QED BY <2>3, <2>4, <2>5
<1> QED BY <1>1, <1>2, StartingTrace, LayerTrace DEF Query

LEMMA TraceInit == Init => TraceInv
<1> SUFFICES ASSUME Init PROVE TraceInv
  OBVIOUS
<1>1. TypeInv /\ RepliesLast
  BY FeedInit, TypeInit DEF FeedInv
<1>2. DOMAIN traces = {}
  BY DEF Init
<1>3. \A a \in Actors : pc[a] \in {"idle", "check"} /\ layer[a] = 0
  BY DEF Init
<1>4. LayersOK
  BY <1>3 DEF LayersOK, Starting
<1> QED BY <1>1, <1>2, <1>4 DEF TraceInv

LEMMA TraceStep ==
    ASSUME TraceInv, TypeInv', RepliesLast', [Next]_vars PROVE TraceInv'
<1>1. CASE Restart
  <2>1. DOMAIN traces' = {}
    BY <1>1 DEF Restart
  <2>2. \A a \in Actors : pc'[a] \in {"idle", "over", "gone", "check"} /\ layer'[a] = 0
    <3> TAKE a \in Actors
    <3>1. pc[a] \in {"idle", "over"} => layer[a] = 0
      BY DEF TraceInv, LayersOK, Starting, Traced
    <3> QED BY <1>1, <3>1 DEF Restart
  <2>3. LayersOK'
    BY <2>2 DEF LayersOK, Starting
  <2> QED BY <2>1, <2>3 DEF TraceInv
<1>2. CASE UNCHANGED vars
  BY <1>2 DEF vars, tracing, TraceInv, LayersOK, Faithful, LastLayer
<1> QED BY <1>1, <1>2, EnsureTrace, QueryTrace, StreamTrace DEF Next

\* Outside of record_query the registry's counters are what the collectors of all
\* builds have counted; the success rate is a rate of queries one of them counted;
\* and the trace of an answered query has a span for each of its layers and no
\* failure (collector.record_query, ObservedRAGPipeline.query, tracing.py).
THEOREM ObservationsCorrect == Spec => []ObservationsAgree
<1>1. Init => FeedInv /\ CountInv /\ TraceInv
  <2> SUFFICES ASSUME Init PROVE CountInv
    BY FeedInit, TraceInit
  <2> QED BY NothingCounted, MainIsNoRequest DEF Init, Actors
<1>2. FeedInv /\ CountInv /\ TraceInv /\ [Next]_vars => (FeedInv /\ CountInv /\ TraceInv)'
  <2> SUFFICES ASSUME FeedInv, CountInv, TraceInv, [Next]_vars PROVE (FeedInv /\ CountInv /\ TraceInv)'
    OBVIOUS
  <2>1. FeedInv'
    BY FeedStep
  <2>2. CountInv'
    BY <2>1, CountStep DEF TraceInv, FeedInv, StreamInv
  <2>3. TraceInv'
    BY <2>1, TraceStep DEF FeedInv, StreamInv
  <2> QED BY <2>1, <2>2, <2>3
<1>3. FeedInv /\ CountInv /\ TraceInv => ObservationsAgree
  <2> SUFFICES ASSUME CountInv, TraceInv PROVE CountersAgree /\ TraceWhole
    BY DEF ObservationsAgree
  <2>1. CountersAgree
    BY DEF CountersAgree, CountInv, Sums, Rates, RateOf, Pending, PendingFailed
  <2>2. TraceWhole
    BY DEF TraceWhole, TraceInv, Faithful, LayersTo
  <2> QED BY <2>1, <2>2
<1> QED BY <1>1, <1>2, <1>3, PTL DEF Spec
==============================================================================
