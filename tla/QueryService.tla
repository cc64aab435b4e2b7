---------------------------- MODULE QueryService ----------------------------
(***************************************************************************)
(* The query API: apps/api/app/services/query/service.py behind            *)
(* api/v1/query.py, with the parts of libs/observability it drives and the *)
(* failure feed of libs/rag/evaluation.                                    *)
(*                                                                         *)
(* FastAPI runs each request in a thread of its own, so requests interleave*)
(* between any two steps below.  Under CPython's lock a statement without a*)
(* call, such as self._query_count += 1, is one step.  The singleton, the  *)
(* collector each build has of its own, the metrics registry and the traces*)
(* live in the process and are gone after a restart; the failure feed is on*)
(* disk, and so is Chroma, where each build adds the documents once more.  *)
(* What the layers compute is modelled in Retrieval, ContextAssembly,      *)
(* Generation and Faithfulness; here a layer ends or raises.               *)
(***************************************************************************)
EXTENDS Integers, Sequences, FiniteSets

CONSTANTS Requests,
          Main,             \* the lifespan handler, which warms the service
          UseOllama,        \* RAG_USE_OLLAMA: "mock", "ollama" or "auto"
          Kinds,            \* bound: what each request may ask, of Asks
          Scores,           \* bound: the scores query hands to the feed, of Recordable
          MaxTraces,        \* _MAX_TRACES, 1000
          MaxTokens,        \* bound: tokens of a streamed answer
          MaxStarts,        \* bound: starts of the process
          StopsAt           \* bound: where some request is when the process stops
ASSUME MainIsNoRequest == Main \notin Requests
ASSUME RequestsAreFinite == IsFiniteSet(Requests)
ASSUME UseOllamaKnown == UseOllama \in {"mock", "ollama", "auto"}
ASSUME LimitsAreNumbers == MaxTraces \in Nat /\ MaxTokens \in Nat /\ MaxStarts \in Nat

VARIABLES
    starts, cold,       \* starts of the process; the warm-up of this one failed
    pipeline,           \* self._pipeline: a build, 0 for None
    clients,            \* the generation client of each build, "none" until set
    backend,            \* self._llm_backend
    counts, totals,     \* the counts of each build's collector; the registry's counters
    rate,               \* the gauge rag_success_rate
    traces, doomed,     \* _traces, oldest first; what each _trim_traces has yet to delete
    feed, raced,        \* the feed's file; two recordings have overlapped
    pc, ask, pipe, client, layer, result, events, reply, span, seen, measured

service == <<starts, cold, pipeline, clients, backend>>
metrics == <<counts, totals, rate, measured>>
tracing == <<traces, doomed, span>>
recording == <<feed, raced, seen>>
vars == <<service, metrics, tracing, recording, pc, ask, pipe, client, layer, result, events, reply>>

Actors == Requests \cup {Main}
Builds == DOMAIN clients
Layers == <<"retrieval", "reranking", "context_assembly", "generation", "faithfulness_eval">>
Stages == {"retrieving", "reranking", "assembling", "generating", "scoring"}
NoSpan == [root |-> "none", name |-> "none"]
NoAsk == [endpoint |-> "none", eval |-> FALSE]
Asks == [endpoint : {"query", "stream"}, eval : BOOLEAN]
            \cup {[endpoint |-> "health", eval |-> FALSE]}
Recordable == {"low", "bad"}    \* a score query hands to the feed; bad: at most 0.3
Zero == [queries |-> 0, errors |-> 0]
ASSUME BoundsAreKnown == Kinds \in [Requests -> SUBSET Asks] /\ Scores \subseteq Recordable

Init ==
    /\ starts = 1 /\ cold = FALSE
    /\ pipeline = 0 /\ clients = <<>> /\ backend = "uninitialized"
    /\ counts = <<>> /\ totals = Zero /\ rate = Zero /\ traces = <<>>
    /\ feed = [state |-> "whole", records |-> {}] /\ raced = FALSE
    /\ pc = [a \in Actors |-> IF a = Main THEN "check" ELSE "idle"]
    /\ ask = [a \in Actors |-> NoAsk]
    /\ pipe = [a \in Actors |-> 0] /\ client = [a \in Actors |-> "none"]
    /\ layer = [a \in Actors |-> 0]
    /\ result = [a \in Actors |-> "none"] /\ reply = [a \in Actors |-> "none"]
    /\ events = [a \in Actors |-> <<>>]
    /\ span = [a \in Actors |-> NoSpan] /\ doomed = [a \in Actors |-> <<>>]
    /\ seen = [a \in Actors |-> {}] /\ measured = [a \in Actors |-> Zero]

Goto(a, place) == pc' = [pc EXCEPT ![a] = place]
Emit(a, what) == events' = [events EXCEPT ![a] = @ \o what]
Stay == UNCHANGED <<ask, pipe, client, layer, result>>
(* The locals of a call that returns are gone.                             *)
Leave(a, place) ==
    /\ Goto(a, place)
    /\ pipe' = [pipe EXCEPT ![a] = 0] /\ client' = [client EXCEPT ![a] = "none"]
    /\ layer' = [layer EXCEPT ![a] = 0]
(* query_rag answers, or raises 503; a stream ends with its last event; the*)
(* lifespan handler swallows what it catches.                              *)
Over(a, what) == Leave(a, "over") /\ reply' = [reply EXCEPT ![a] = what]
Closing(a, what) == IF ask[a].endpoint = "stream" THEN <<what>> ELSE <<>>

(***************************************************************************)
(* A request arrives.  classify_intent is a choice: greetings, questions   *)
(* about the console and off-topic ones get a guide's answer at once.      *)
(***************************************************************************)
Guide(a) ==
    /\ pc[a] = "idle" /\ pc[Main] = "over"
    /\ \E k \in {x \in Kinds[a] : x.endpoint # "health"} :
          /\ ask' = [ask EXCEPT ![a] = k]
          /\ Emit(a, IF k.endpoint = "stream" THEN <<"ready", "done">> ELSE <<>>)
    /\ Over(a, "guide")
    /\ UNCHANGED <<service, metrics, tracing, recording, result>>
Ask(a) ==
    /\ pc[a] = "idle" /\ pc[Main] = "over"
    /\ \E k \in Kinds[a] : ask' = [ask EXCEPT ![a] = k]
    /\ Goto(a, "check")
    /\ UNCHANGED <<service, metrics, tracing, recording, pipe, client, layer, result, events, reply>>

(***************************************************************************)
(* _ensure_pipeline, without a lock.                                       *)
(***************************************************************************)
(* Where the caller goes on with the pipeline it got.                      *)
WithPipeline(a, b) ==
    /\ IF a = Main \/ ask[a].endpoint = "health"
       THEN Over(a, "answer") /\ UNCHANGED events
       ELSE /\ pipe' = [pipe EXCEPT ![a] = b] /\ client' = [client EXCEPT ![a] = "none"]
            /\ UNCHANGED layer
            /\ Goto(a, IF ask[a].endpoint = "stream" THEN "retrieving" ELSE "root")
            /\ Emit(a, Closing(a, "retrieving"))
            /\ UNCHANGED reply
Check(a) ==
    /\ pc[a] = "check"
    /\ IF pipeline # 0 THEN WithPipeline(a, pipeline)
       ELSE Goto(a, "build") /\ UNCHANGED <<pipe, client, layer, events, reply>>
    /\ UNCHANGED <<service, metrics, tracing, recording, ask, result>>
(* Mutant: the flag itself is taken for the client.                        *)
FlagAsClient == {UseOllama}
(* _resolve_use_ollama_llm: auto asks the server.                          *)
WantedClients == CASE UseOllama = "mock" -> {"mock"} [] UseOllama = "ollama" -> {"ollama"}
                   [] OTHER -> {"mock", "ollama"}
(* Mutant: the pipeline is kept before its generation service is set.      *)
BuildPublished(a) ==
    /\ pc[a] = "build"
    /\ clients' = Append(clients, "none") /\ counts' = Append(counts, Zero)
    /\ pipeline' = Len(clients) + 1
    /\ pipe' = [pipe EXCEPT ![a] = Len(clients) + 1]
    /\ \E c \in WantedClients : client' = [client EXCEPT ![a] = c]
    /\ Goto(a, "client")
    /\ UNCHANGED <<starts, cold, backend, totals, rate, measured, tracing, recording, ask, layer,
                   result, events, reply>>
(* PipelineFactory.build: its documents have new ids each time and what was*)
(* indexed before is not deleted; generation_service is None, and the      *)
(* collector is a new one.                                                 *)
Build(a) ==
    /\ pc[a] = "build"
    /\ clients' = Append(clients, "none") /\ counts' = Append(counts, Zero)
    /\ pipe' = [pipe EXCEPT ![a] = Len(clients) + 1]
    /\ \E c \in WantedClients : client' = [client EXCEPT ![a] = c]
    /\ Goto(a, "client")
    /\ UNCHANGED <<starts, cold, pipeline, backend, totals, rate, measured, tracing, recording,
                   ask, layer, result, events, reply>>
(* It raises.                                                              *)
BuildRaises(a) ==
    /\ pc[a] = "build"
    /\ cold' = (cold \/ a = Main)
    /\ Over(a, "error") /\ Emit(a, Closing(a, "error"))
    /\ UNCHANGED <<starts, pipeline, clients, backend, metrics, tracing, recording, ask, result>>
(* The server is asked again before the client is chosen.                  *)
ChooseClient(a) ==
    /\ pc[a] = "client"
    /\ \E up \in BOOLEAN :
          /\ client' = [client EXCEPT ![a] = IF @ = "ollama" /\ up THEN "ollama" ELSE "mock"]
          /\ backend' = client'[a]
    /\ Goto(a, "publish")
    /\ UNCHANGED <<starts, cold, pipeline, clients, metrics, tracing, recording, ask,
                   pipe, layer, result, events, reply>>
Publish(a) ==
    /\ pc[a] = "publish"
    /\ clients' = [clients EXCEPT ![pipe[a]] = client[a]]
    /\ pipeline' = pipe[a]
    /\ WithPipeline(a, pipe[a])
    /\ UNCHANGED <<starts, cold, backend, metrics, tracing, recording, ask, result>>

(***************************************************************************)
(* tracing.py.  A trace has the names of its spans besides the root; span  *)
(* is _current_span, local to the request.                                 *)
(***************************************************************************)
(* Mutant: the current span is one variable of the process.                *)
StoredOfAny(a, root) == {i \in DOMAIN traces : traces[i].root = root}
Stored(a, root) == {i \in DOMAIN traces : traces[i].of = a /\ traces[i].root = root}
Id(t) == [of |-> t.of, root |-> t.root]
(* start_trace stores the trace and goes on to trim them.                  *)
StartTrace(a, name) ==
    /\ traces' = Append(traces, [of |-> a, root |-> name, spans |-> {}, failed |-> FALSE])
    /\ Goto(a, "choose")
(* _trim_traces: the oldest are listed, and then deleted one by one.  What *)
(* another has deleted meanwhile raises KeyError, out of the query: what is*)
(* left of its trace is not marked, as start_trace had not returned.       *)
Choose(a) ==
    /\ pc[a] = "choose"
    /\ LET excess == IF Len(traces) > MaxTraces THEN Len(traces) - MaxTraces ELSE 0
       IN  doomed' = [doomed EXCEPT ![a] = [i \in 1..excess |-> Id(traces[i])]]
    /\ Goto(a, "trim")
    /\ UNCHANGED <<service, metrics, traces, span, recording, events, reply>> /\ Stay
Condemned(a) == {i \in DOMAIN traces : Id(traces[i]) = Head(doomed[a])}
Without(i) == [j \in 1..(Len(traces) - 1) |-> traces[IF j < i THEN j ELSE j + 1]]
Trim(a) ==
    /\ pc[a] = "trim" /\ doomed[a] # <<>>
    /\ \E i \in Condemned(a) : traces' = Without(i)
    /\ doomed' = [doomed EXCEPT ![a] = Tail(@)]
    /\ UNCHANGED <<service, metrics, span, recording, pc, events, reply>> /\ Stay
TrimRaises(a) ==
    /\ pc[a] = "trim" /\ doomed[a] # <<>> /\ Condemned(a) = {}
    /\ doomed' = [doomed EXCEPT ![a] = <<>>]
    /\ Over(a, "error")
    /\ UNCHANGED <<service, metrics, traces, span, recording, ask, result, events>>
(* end_span: the parent is current again if its trace is still kept.       *)
AfterSpan(a) ==
    IF span[a].name # span[a].root /\ Stored(a, span[a].root) # {}
    THEN [root |-> span[a].root, name |-> span[a].root] ELSE NoSpan
(* start_span under a current one, whose trace may be gone.                *)
AddSpan(a, root, name) ==
    /\ traces' = [i \in DOMAIN traces |->
            IF i \in Stored(a, root)
            THEN [traces[i] EXCEPT !.spans = @ \cup {name}] ELSE traces[i]]
    /\ span' = [span EXCEPT ![a] = [root |-> root, name |-> name]]
(* start_span after current ended: without a current span a new trace.     *)
StartSpan(a, current, name) ==
    IF current = NoSpan THEN StartTrace(a, name) /\ span' = [span EXCEPT ![a] = NoSpan]
    ELSE AddSpan(a, current.root, name) /\ UNCHANGED pc
(* SpanContext.__exit__ with an exception, of the layer and of the root.   *)
SpansFailed(a) ==
    /\ traces' = [i \in DOMAIN traces |->
            IF i \in Stored(a, span[a].root) \cup Stored(a, "rag_query")
            THEN [traces[i] EXCEPT !.failed = TRUE] ELSE traces[i]]
    /\ span' = [span EXCEPT ![a] = NoSpan]

(***************************************************************************)
(* ObservedRAGPipeline.query: one step per layer.                          *)
(***************************************************************************)
Root(a) ==
    /\ pc[a] = "root"
    /\ StartTrace(a, "rag_query")
    /\ UNCHANGED <<service, metrics, doomed, span, recording, events, reply>> /\ Stay
(* start_trace is through, for the query, whose first layer has its span   *)
(* next, or for a layer without a current one.                             *)
Started(a) ==
    /\ pc[a] = "trim" /\ doomed[a] = <<>>
    /\ IF layer[a] = 0
       THEN AddSpan(a, "rag_query", Layers[1]) /\ layer' = [layer EXCEPT ![a] = 1]
       ELSE /\ span' = [span EXCEPT ![a] = [root |-> Layers[layer[a]], name |-> Layers[layer[a]]]]
            /\ UNCHANGED <<traces, layer>>
    /\ Goto(a, "layer")
    /\ UNCHANGED <<service, metrics, doomed, recording, ask, pipe, client, result, events, reply>>
(* A layer ends: generation with an answer or a refusal, the evaluation    *)
(* with scores; a refusal has the best ones.                               *)
Outcome(a) ==
    CASE Layers[layer[a]] = "generation" -> {"good", "refused"}
      [] Layers[layer[a]] = "faithfulness_eval" /\ result[a] = "good" -> {"good"} \cup Scores
      [] OTHER -> {result[a]}
LastLayer(a) == IF ask[a].eval THEN 5 ELSE 4
EndLayer(a) ==
    /\ pc[a] = "layer"
    /\ \E o \in Outcome(a) : result' = [result EXCEPT ![a] = o]
    /\ IF layer[a] < LastLayer(a)
       THEN /\ layer' = [layer EXCEPT ![a] = @ + 1]
            /\ StartSpan(a, AfterSpan(a), Layers[layer[a] + 1])
       ELSE /\ span' = [span EXCEPT ![a] = AfterSpan(a)] /\ UNCHANGED <<traces, layer>>
            /\ Goto(a, "count")
    /\ UNCHANGED <<service, metrics, doomed, recording, ask, pipe, client, events, reply>>
LayerRaises(a) ==
    /\ pc[a] = "layer"
    /\ SpansFailed(a)
    /\ Over(a, "error")
    /\ UNCHANGED <<service, metrics, doomed, recording, ask, result, events>>

(***************************************************************************)
(* collector.record_query of the pipeline's collector: its own counts, the *)
(* registry's counters (each under its lock) and the gauge, computed from  *)
(* its own counts before it is set.                                        *)
(***************************************************************************)
Failed(a) == result[a] \in {"refused", "bad"}       \* success=False
Counted(n, a) == [queries |-> n.queries + 1, errors |-> n.errors + IF Failed(a) THEN 1 ELSE 0]
Count(a) ==
    /\ pc[a] = "count"
    /\ counts' = [counts EXCEPT ![pipe[a]] = Counted(@, a)]
    /\ Goto(a, "total")
    /\ UNCHANGED <<service, tracing, recording, totals, rate, measured, events, reply>> /\ Stay
Total(a) ==
    /\ pc[a] = "total"
    /\ totals' = [totals EXCEPT !.queries = @ + 1]
    /\ Goto(a, IF Failed(a) THEN "errors" ELSE "measure")
    /\ UNCHANGED <<service, tracing, recording, counts, rate, measured, events, reply>> /\ Stay
TotalErrors(a) ==
    /\ pc[a] = "errors"
    /\ totals' = [totals EXCEPT !.errors = @ + 1]
    /\ Goto(a, "measure")
    /\ UNCHANGED <<service, tracing, recording, counts, rate, measured, events, reply>> /\ Stay
Measure(a) ==
    /\ pc[a] = "measure"
    /\ measured' = [measured EXCEPT ![a] = counts[pipe[a]]]
    /\ Goto(a, "gauge")
    /\ UNCHANGED <<service, tracing, recording, counts, totals, rate, events, reply>> /\ Stay
(* The trace ends; query hands an evaluated low score to the feed.         *)
SetGauge(a) ==
    /\ pc[a] = "gauge"
    /\ rate' = measured[a] /\ measured' = [measured EXCEPT ![a] = Zero]
    /\ span' = [span EXCEPT ![a] = NoSpan]
    /\ IF result[a] \in Recordable THEN Goto(a, "load") /\ UNCHANGED <<pipe, client, layer, reply>>
       ELSE Over(a, "answer")
    /\ UNCHANGED <<service, traces, doomed, recording, counts, totals, ask, result, events>>

(***************************************************************************)
(* failure_feed.py: record loads the file, opens it (which empties it) and *)
(* writes all records back, without a lock.                                *)
(***************************************************************************)
Recording == {a \in Requests : pc[a] \in {"open", "write"}}
(* Mutant: a reader waits until the file is whole.                         *)
LoadWaiting(a) ==
    /\ pc[a] = "load" /\ feed.state = "whole"
    /\ seen' = [seen EXCEPT ![a] = feed.records \cup {a}]
    /\ raced' = (raced \/ Recording # {})
    /\ Goto(a, "open")
    /\ UNCHANGED <<service, metrics, tracing, feed, events, reply>> /\ Stay
(* A file that is empty or garbled does not parse: 503, though the answer  *)
(* was there.                                                              *)
Load(a) ==
    /\ pc[a] = "load"
    /\ IF feed.state = "whole"
       THEN /\ seen' = [seen EXCEPT ![a] = feed.records \cup {a}]
            /\ raced' = (raced \/ Recording # {})
            /\ Goto(a, "open") /\ UNCHANGED <<pipe, client, layer, reply>>
       ELSE Over(a, "error") /\ UNCHANGED <<seen, raced>>
    /\ UNCHANGED <<service, metrics, tracing, feed, ask, result, events>>
Open(a) ==
    /\ pc[a] = "open"
    /\ feed' = [state |-> "empty", records |-> {}]
    /\ Goto(a, "write")
    /\ UNCHANGED <<service, metrics, tracing, raced, seen, events, reply>> /\ Stay
(* Mutant: only the new record is written.                                 *)
WriteOnlyNew(a) ==
    /\ pc[a] = "write"
    /\ feed' = [state |-> "whole", records |-> {a}]
    /\ Over(a, "answer") /\ seen' = [seen EXCEPT ![a] = {}]
    /\ UNCHANGED <<service, metrics, tracing, raced, ask, result, events>>
(* Over what another has written since, the tail of a longer text remains. *)
Write(a) ==
    /\ pc[a] = "write"
    /\ \/ feed' = [state |-> "whole", records |-> seen[a]]
       \/ feed.state # "empty" /\ feed' = [state |-> "garbled", records |-> {}]
    /\ Over(a, "answer") /\ seen' = [seen EXCEPT ![a] = {}]
    /\ UNCHANGED <<service, metrics, tracing, raced, ask, result, events>>

(***************************************************************************)
(* stream_query and the generator of query_rag_stream: a stage is announced*)
(* and then worked; what raises becomes the last event.                    *)
(***************************************************************************)
Advance(a, stage) ==
    /\ Goto(a, stage) /\ Emit(a, <<stage>>)
    /\ UNCHANGED <<service, metrics, tracing, recording, reply>> /\ Stay
Done(a) ==
    /\ Over(a, "answer") /\ Emit(a, <<"done">>)
    /\ UNCHANGED <<service, metrics, tracing, recording, ask, result>>
StreamRetrieved(a) == pc[a] = "retrieving" /\ Advance(a, "reranking")
StreamReranked(a) == pc[a] = "reranking" /\ Advance(a, "assembling")
(* Mutant: the refusal for an empty context does not end the stream.       *)
AssembledGoesOn(a) ==
    /\ pc[a] = "assembling"
    /\ Goto(a, "generating") /\ \E e \in {<<>>, <<"done">>} : Emit(a, e \o <<"generating">>)
    /\ UNCHANGED <<service, metrics, tracing, recording, reply>> /\ Stay
(* Without a chunk in the context the answer is the refusal.               *)
StreamAssembled(a) == pc[a] = "assembling" /\ (Advance(a, "generating") \/ Done(a))
StreamToken(a) ==
    /\ pc[a] = "generating"
    /\ Len(SelectSeq(events[a], LAMBDA e : e = "token")) < MaxTokens
    /\ Emit(a, <<"token">>)
    /\ UNCHANGED <<service, metrics, tracing, recording, pc, reply>> /\ Stay
StreamGenerated(a) ==
    pc[a] = "generating" /\ IF ask[a].eval THEN Advance(a, "scoring") ELSE Done(a)
StreamScored(a) == pc[a] = "scoring" /\ Done(a)
StreamRaises(a) ==
    /\ pc[a] \in Stages
    /\ Over(a, "error") /\ Emit(a, <<"error">>)
    /\ UNCHANGED <<service, metrics, tracing, recording, ask, result>>

(***************************************************************************)
(* The client of a stream goes away at an event; the process stops.        *)
(***************************************************************************)
Disconnect(a) ==
    /\ pc[a] \in Stages
    /\ Leave(a, "gone") /\ events' = [events EXCEPT ![a] = <<>>]
    /\ UNCHANGED <<service, metrics, tracing, recording, ask, result, reply>>
Restart ==
    LET kept(a) == a # Main /\ pc[a] \in {"idle", "over"}
        keep(f, initial) == [a \in Actors |-> IF kept(a) THEN f[a] ELSE initial]
    IN  /\ starts < MaxStarts /\ \E a \in Requests : pc[a] \in StopsAt
        /\ starts' = starts + 1
        /\ cold' = FALSE /\ pipeline' = 0 /\ clients' = <<>> /\ backend' = "uninitialized"
        /\ counts' = <<>> /\ totals' = Zero /\ rate' = Zero /\ traces' = <<>>
        /\ pc' = [a \in Actors |-> IF a = Main THEN "check" ELSE IF kept(a) THEN pc[a] ELSE "gone"]
        /\ raced' = (raced \/ Recording # {})
        /\ ask' = keep(ask, NoAsk) /\ events' = keep(events, <<>>) /\ reply' = keep(reply, "none")
        /\ result' = keep(result, "none") /\ pipe' = keep(pipe, 0) /\ client' = keep(client, "none")
        /\ layer' = keep(layer, 0) /\ span' = keep(span, NoSpan) /\ seen' = keep(seen, {})
        /\ measured' = keep(measured, Zero) /\ doomed' = keep(doomed, <<>>)
        /\ UNCHANGED feed

Ensure(a) == Check(a) \/ Build(a) \/ BuildRaises(a) \/ ChooseClient(a) \/ Publish(a)
Query(a) ==
    \/ Root(a) \/ Choose(a) \/ Trim(a) \/ TrimRaises(a) \/ Started(a)
    \/ EndLayer(a) \/ LayerRaises(a)
    \/ Count(a) \/ Total(a) \/ TotalErrors(a) \/ Measure(a) \/ SetGauge(a)
    \/ Load(a) \/ Open(a) \/ Write(a)
Stream(a) ==
    \/ StreamRetrieved(a) \/ StreamReranked(a) \/ StreamAssembled(a)
    \/ StreamToken(a) \/ StreamGenerated(a) \/ StreamScored(a) \/ StreamRaises(a)
Work(a) == Ensure(a) \/ (a \in Requests /\ (Query(a) \/ Stream(a)))
Next ==
    \/ \E a \in Actors : Ensure(a)
    \/ \E a \in Requests : Guide(a) \/ Ask(a) \/ Query(a) \/ Stream(a) \/ Disconnect(a)
    \/ Restart

(* Every wait is bounded: httpx gives up after timeout_seconds, and a      *)
(* thread that has work runs.                                              *)
Spec == Init /\ [][Next]_vars /\ \A a \in Actors : WF_vars(Work(a))

(***************************************************************************)
(* Properties.                                                             *)
(***************************************************************************)
Places == {"idle", "check", "build", "client", "publish", "root", "choose", "trim", "layer",
           "count", "total", "errors", "measure", "gauge", "load", "open", "write", "over", "gone"}
              \cup Stages
Pair == [queries : Nat, errors : Nat]
Backends == {"none", "mock", "ollama"}
SpanNames == {"none", "rag_query"} \cup {Layers[i] : i \in DOMAIN Layers}
Results == {"none", "good", "refused"} \cup Recordable
TraceRows == [of : Requests, root : SpanNames, spans : SUBSET SpanNames, failed : BOOLEAN]

(* Every variable has the type its Python counterpart is used with.        *)
TypeOK ==
    /\ starts \in 1..(MaxStarts + 1) /\ cold \in BOOLEAN
    /\ clients \in Seq(Backends) /\ pipeline \in 0..Len(clients)
    /\ backend \in {"uninitialized", "mock", "ollama"}
    /\ counts \in Seq(Pair) /\ Len(counts) = Len(clients)
    /\ totals \in Pair /\ rate \in Pair /\ measured \in [Actors -> Pair]
    /\ feed \in [state : {"whole", "empty", "garbled"}, records : SUBSET Requests]
    /\ raced \in BOOLEAN /\ seen \in [Actors -> SUBSET Requests]
    /\ pc \in [Actors -> Places] /\ ask \in [Actors -> Asks \cup {NoAsk}]
    /\ pipe \in [Actors -> 0..Len(clients)] /\ client \in [Actors -> Backends]
    /\ span \in [Actors -> [root : SpanNames, name : SpanNames]]
    /\ doomed \in [Actors -> Seq([of : Requests, root : SpanNames])]
    /\ traces \in Seq(TraceRows)
    /\ layer \in [Actors -> 0..5] /\ result \in [Actors -> Results]
    /\ reply \in [Actors -> {"none", "answer", "guide", "error"}]

(* A reader of the stream sees one final event, done or error, as the last *)
(* one, and tokens only after the stage that writes the answer: whatever   *)
(* raises, and whatever the other requests do.                             *)
Final == {"done", "error"}
StreamProtocol ==
    \A a \in Requests :
        LET e == events[a]
        IN  /\ \A i \in DOMAIN e : e[i] \in Final => i = Len(e) /\ pc[a] = "over"
            /\ \A i \in DOMAIN e : e[i] = "token" => \E j \in 1..(i - 1) : e[j] = "generating"
            /\ ask[a].endpoint = "stream" /\ pc[a] = "over" =>
                  e # <<>> /\ e[Len(e)] \in Final

(* No request runs on a pipeline whose generation service is not set, with *)
(* however many threads inside _ensure_pipeline; and unless a warm-up      *)
(* failed no request builds one: the documents are indexed once, and the   *)
(* backend that health names is the one that answers.                      *)
Running == {"root", "choose", "trim", "layer", "count", "total", "errors", "measure"} \cup Stages
PipelineIsFinished ==
    /\ pipeline # 0 => clients[pipeline] # "none"
    /\ \A a \in Actors : pc[a] \in Running => pipe[a] # 0 /\ clients[pipe[a]] # "none"
WarmMeansOnePipeline ==
    ~cold => /\ \A a \in Requests : pc[a] \notin {"build", "client", "publish"}
             /\ Len(clients) <= 1
             /\ pipeline # 0 => backend = clients[pipeline]
OnePipeline == PipelineIsFinished /\ WarmMeansOnePipeline

(* What an operator reads agrees with what was answered.  Outside of       *)
(* record_query the registry's counters are the sum over the builds of     *)
(* their collectors' counts, on however many of them the requests ran; the *)
(* gauge is a rate of one of these collectors, not of the process; and the *)
(* trace of an answered query has each of its layers.                      *)
CountedQueries == UNION {{b} \X (1..counts[b].queries) : b \in Builds}
CountedErrors == UNION {{b} \X (1..counts[b].errors) : b \in Builds}
CountersAgree ==
    /\ totals.queries + Cardinality({a \in Requests : pc[a] = "total"})
         = Cardinality(CountedQueries)
    /\ totals.errors + Cardinality({a \in Requests : pc[a] \in {"total", "errors"} /\ Failed(a)})
         = Cardinality(CountedErrors)
    /\ rate.errors <= rate.queries
    /\ rate # Zero => \E b \in Builds : /\ rate.queries <= counts[b].queries
                                        /\ rate.errors <= counts[b].errors
TraceWhole ==
    \A i \in DOMAIN traces :
        LET a == traces[i].of
        IN  traces[i].root = "rag_query" /\ reply[a] = "answer" =>
                traces[i].spans = {Layers[k] : k \in 1..LastLayer(a)} /\ ~traces[i].failed
ObservationsAgree == CountersAgree /\ TraceWhole

(* The record of a low score whose answer was sent stays in the feed, as   *)
(* long as no two requests recorded at once and none was cut off.          *)
FeedKeepsRecords ==
    ~raced =>
        /\ feed.state # "garbled"
        /\ \A a \in Requests :
              ask[a].endpoint = "query" /\ reply[a] = "answer" /\ result[a] \in Recordable =>
                 a \in feed.records \/ \E w \in Requests : pc[w] = "write" /\ a \in seen[w]

(* Whatever requests are in progress, in the end none is: each is answered,*)
(* or its client or process is gone, also when the feed's file was left    *)
(* empty or garbled.                                                       *)
EveryRequestEnds == []<>(\A a \in Requests : pc[a] \in {"idle", "over", "gone"})
==============================================================================
