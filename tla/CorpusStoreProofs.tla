-------------------------- MODULE CorpusStoreProofs --------------------------
(***************************************************************************)
(* Proofs about CorpusStore, for every number of requests, documents,      *)
(* sources and models: the type invariant; that a document's chunks are    *)
(* the cut of its body; and, where a source always hints one slug, that it *)
(* is one document and that the store implements CorpusRevisions.          *)
(***************************************************************************)
EXTENDS CorpusStore, TLAPS

------------------------------------------------------------------------------
\* Types.

Found == {"found", "changed", "updated"}

\* What a transaction's position says of its local variables.  The row found
\* was live then; it is live for as long as the transaction holds its lock.
IngesterOK(w) ==
    LET g == ingester[w]
    IN  /\ g.pc # "idle" => g.input \in Inputs
        /\ g.pc \in Found => g.doc \in DocIds /\ g.row \in Row /\ docs[g.doc] # NoRow
        /\ g.pc = "updated" => Live(g.doc)
        /\ g.pc = "named" => g.slug \in Slugs /\ g.slug[1] = g.input.base

EmbedderOK(e) ==
    /\ embedder[e].pc # "idle" => embedder[e].model \in Models
    /\ embedder[e].pc = "counted" => embedder[e].doc \in DocIds

TypeInv ==
    /\ TypeOK
    /\ \A w \in Ingesters : IngesterOK(w)
    /\ \A e \in Embedders : EmbedderOK(e)

LEMMA InputType == Inputs \subseteq Input
BY CorpusStoreAssumption

LEMMA IdleType == IdleIngester \in IngesterState /\ IdleEmbedder \in EmbedderState
BY DEF IdleIngester, IdleEmbedder, IngesterState, EmbedderState

\* A live document has a row.
LEMMA LiveRow ==
    ASSUME TypeOK, NEW i \in DocIds, Live(i)
    PROVE  docs[i] \in Row /\ docs[i] # NoRow
BY DEF TypeOK, Live, NoRow, Row

LEMMA CutType ==
    ASSUME NEW i \in DocIds, NEW g \in Nat \ {0}, NEW in \in Inputs
    PROVE  Cut(i, g, in) \subseteq Chunk
BY InputType, CorpusStoreAssumption DEF Cut, Chunk, Input

\* Nothing changes for a transaction when another one, or none, makes a step
\* that leaves the table as it is.
LEMMA OtherIngesters ==
    ASSUME TypeInv, NEW w \in Ingesters, UNCHANGED <<docs, chunks, embedder>>,
           NEW g \in IngesterState, ingester' = [ingester EXCEPT ![w] = g],
           g.pc # "idle" => g.input \in Inputs,
           g.pc \in Found => g.doc \in DocIds /\ g.row \in Row /\ docs[g.doc] # NoRow,
           g.pc = "updated" => Live(g.doc),
           g.pc = "named" => g.slug \in Slugs /\ g.slug[1] = g.input.base,
           ingests' \in 0..MaxIngests, UNCHANGED <<deletes, faults>>
    PROVE  TypeInv'
<1>1. TypeOK'
  BY DEF TypeInv, TypeOK
<1>2. ASSUME NEW v \in Ingesters PROVE IngesterOK(v)'
  <2>1. CASE v = w
    BY <2>1 DEF TypeInv, TypeOK, IngesterOK, Live
  <2>2. CASE v # w
    BY <2>2 DEF TypeInv, TypeOK, IngesterOK, Live
  <2> QED BY <2>1, <2>2
<1>3. \A e \in Embedders : EmbedderOK(e)'
  BY DEF TypeInv, EmbedderOK
<1> QED BY <1>1, <1>2, <1>3 DEF TypeInv

\* A request of the index loop that leaves the documents as they are.
LEMMA OtherEmbedders ==
    ASSUME TypeInv, NEW e \in Embedders, UNCHANGED <<docs, ingester, ingests, deletes>>,
           NEW g \in EmbedderState, embedder' = [embedder EXCEPT ![e] = g],
           g.pc # "idle" => g.model \in Models,
           g.pc = "counted" => g.doc \in DocIds,
           chunks' \subseteq Chunk, faults' \in 0..MaxFaults
    PROVE  TypeInv'
<1>1. TypeOK'
  BY DEF TypeInv, TypeOK
<1>2. \A w \in Ingesters : IngesterOK(w)'
  BY DEF TypeInv, IngesterOK, Live
<1>3. \A f \in Embedders : EmbedderOK(f)'
  BY DEF TypeInv, TypeOK, EmbedderOK
<1> QED BY <1>1, <1>2, <1>3 DEF TypeInv

LEMMA TypeInit == Init => TypeInv
<1> SUFFICES ASSUME Init PROVE TypeInv
  OBVIOUS
<1>1. TypeOK
  BY IdleType, CorpusStoreAssumption DEF Init, TypeOK
<1>2. /\ \A w \in Ingesters : IngesterOK(w)
      /\ \A e \in Embedders : EmbedderOK(e)
  BY DEF Init, IngesterOK, EmbedderOK, IdleIngester, IdleEmbedder, Found
<1> QED BY <1>1, <1>2 DEF TypeInv

LEMMA IngestType ==
    ASSUME TypeInv, NEW w \in Ingesters,
           (\E in \in Inputs : Begin(w, in)) \/ IngestStep(w)
    PROVE  TypeInv'
<1> DEFINE g == ingester[w]
<1>0. /\ g \in IngesterState /\ ingester \in [Ingesters -> IngesterState]
      /\ IngesterOK(w) /\ TypeOK
  BY DEF TypeInv, TypeOK
<1>1. ASSUME NEW in \in Inputs, Begin(w, in) PROVE TypeInv'
  <2> DEFINE h == [g EXCEPT !.pc = "locked", !.input = in]
  <2>1. h \in IngesterState /\ h.pc = "locked" /\ h.input = in
    BY <1>0 DEF IngesterState
  <2>2. ingester' = [ingester EXCEPT ![w] = h]
    BY <1>0, <1>1 DEF Begin, StartIngest
  <2>3. ingests' \in 0..MaxIngests
    <3>1. ingests \in 0..MaxIngests /\ ingests < MaxIngests /\ ingests' = ingests + 1
      BY <1>0, <1>1 DEF Begin, StartIngest, TypeOK
    <3>2. MaxIngests \in Nat
      BY CorpusStoreAssumption
    <3> QED BY <3>1, <3>2
  <2> HIDE DEF h
  <2> QED BY <1>1, <2>1, <2>2, <2>3, OtherIngesters DEF Begin, StartIngest, Tables, Found
<1>2. ASSUME NEW i \in DocIds, Live(i), ~At(w, "idle"), Finds(w, i), UNCHANGED <<Tables, embedder, Counters>>
      PROVE  TypeInv'
  <2> DEFINE h == [g EXCEPT !.pc = "found", !.doc = i, !.row = docs[i]]
  <2>1. docs[i] \in Row /\ docs[i] # NoRow
    BY <1>0, <1>2, LiveRow
  <2>2. h \in IngesterState /\ h.pc = "found" /\ h.input \in Inputs /\ h.doc = i /\ h.row = docs[i]
    BY <1>0, <1>2, <2>1 DEF IngesterState, IngesterOK, At
  <2>3. ingester' = [ingester EXCEPT ![w] = h]
    BY <1>0, <1>2 DEF Finds
  <2> HIDE DEF h
  <2> QED BY <1>0, <1>2, <2>1, <2>2, <2>3, OtherIngesters DEF Tables, Counters, Found, TypeOK
<1>3. ASSUME NEW pc \in {"no_uri", "new"}, ~At(w, "idle"), Goto(w, pc),
             UNCHANGED <<Tables, embedder, Counters>>
      PROVE  TypeInv'
  <2> DEFINE h == [g EXCEPT !.pc = pc]
  <2>1. h \in IngesterState /\ h.pc = pc /\ h.input \in Inputs
    BY <1>0, <1>3 DEF IngesterState, IngesterOK, At
  <2>2. ingester' = [ingester EXCEPT ![w] = h]
    BY <1>0, <1>3 DEF Goto
  <2> HIDE DEF h
  <2> QED BY <1>0, <1>3, <2>1, <2>2, OtherIngesters DEF Tables, Counters, Found, TypeOK
<1>4. ASSUME NEW pc \in {"changed", "updated"}, g.pc \in {"found", "changed"}, Goto(w, pc),
             pc = "updated" => Live(g.doc), UNCHANGED <<Tables, embedder, Counters>>
      PROVE  TypeInv'
  <2> DEFINE h == [g EXCEPT !.pc = pc]
  <2>1. /\ h \in IngesterState /\ h.pc = pc /\ h.input \in Inputs
        /\ h.doc \in DocIds /\ h.row \in Row /\ docs[h.doc] # NoRow /\ h.doc = g.doc
    BY <1>0, <1>4 DEF IngesterState, IngesterOK, Found
  <2>2. ingester' = [ingester EXCEPT ![w] = h]
    BY <1>0, <1>4 DEF Goto
  <2> HIDE DEF h
  <2> QED BY <1>0, <1>4, <2>1, <2>2, OtherIngesters DEF Tables, Counters, TypeOK
<1>5. ASSUME EndIngest(w), UNCHANGED <<Tables, embedder, Counters>> PROVE TypeInv'
  <2>1. IdleIngester \in IngesterState /\ IdleIngester.pc = "idle"
    BY IdleType DEF IdleIngester
  <2> QED BY <1>0, <1>5, <2>1, OtherIngesters DEF EndIngest, Tables, Counters, Found, TypeOK
<1>6. ASSUME LookupUri(w) \/ LookupSlug(w) PROVE TypeInv'
  BY <1>2, <1>3, <1>6 DEF LookupUri, LookupSlug, At
<1>7. ASSUME Compare(w) PROVE TypeInv'
  BY <1>4, <1>5, <1>7 DEF Compare, At
<1>8. ASSUME UpdateRow(w) PROVE TypeInv'
  BY <1>4, <1>5, <1>8 DEF UpdateRow, At
<1>9. ASSUME CommitUpdate(w) PROVE TypeInv'
  <2> DEFINE i == g.doc
  <2>1. i \in DocIds /\ g.row \in Row /\ g.input \in Input /\ Live(i) /\ docs[i] \in Row
    BY <1>0, <1>9, LiveRow, InputType DEF CommitUpdate, At, IngesterOK, Found
  <2>2. Updated(w) \in Row
    <3> DEFINE uri == IF In(w).uri = None THEN g.row.uri ELSE In(w).uri
    <3>1. uri \in Uris \cup {None}
      BY <2>1 DEF In, Input, Row
    <3>2. /\ g.row.version + 1 \in Nat \ {0} /\ docs[i].gen + 1 \in Nat \ {0}
          /\ In(w).body \in Bodies /\ In(w).corpus \in Corpora /\ In(w).seed \in BOOLEAN
      BY <2>1 DEF In, Input, Row
    <3> HIDE DEF uri
    <3>3. Updated(w) = [docs[i] EXCEPT !.body = In(w).body, !.version = g.row.version + 1,
                          !.uri = uri, !.corpus = In(w).corpus, !.seed = In(w).seed,
                          !.gen = docs[i].gen + 1, !.model = None]
      BY DEF Updated, uri
    <3> QED BY <2>1, <3>1, <3>2, <3>3 DEF Row
  <2>3. docs' = [docs EXCEPT ![i] = Updated(w)] /\ Updated(w) # NoRow /\ Updated(w).status = "live"
    BY <1>9, <2>1, <2>2 DEF CommitUpdate, NoRow, Row, Updated, Live
  <2>4. chunks' \subseteq Chunk
    <3>1. docs[i].gen + 1 \in Nat \ {0}
      BY <2>1 DEF Row
    <3>2. Cut(i, docs[i].gen + 1, g.input) \subseteq Chunk
      BY <1>0, <1>9, <2>1, <3>1, CutType DEF CommitUpdate, At, IngesterOK
    <3> QED BY <1>0, <1>9, <3>2 DEF CommitUpdate, ReplaceChunks, In, TypeOK
  <2>5. TypeOK'
    BY <1>0, <1>9, <2>1, <2>2, <2>3, <2>4, IdleType DEF CommitUpdate, EndIngest, Counters, TypeOK
  <2>6. ASSUME NEW v \in Ingesters PROVE IngesterOK(v)'
    <3>1. CASE v = w
      BY <1>0, <1>9, <3>1 DEF CommitUpdate, EndIngest, IngesterOK, IdleIngester, Found
    <3>2. CASE v # w
      BY <1>0, <1>9, <2>1, <2>3, <3>2 DEF CommitUpdate, EndIngest, IngesterOK, Live, TypeInv, TypeOK
    <3> QED BY <3>1, <3>2
  <2> QED BY <1>9, <2>5, <2>6 DEF CommitUpdate, EmbedderOK, TypeInv
<1>10. ASSUME ChooseSlug(w) PROVE TypeInv'
  <2>1. PICK s \in Suffixes \cup {None} :
           ingester' = [ingester EXCEPT ![w].pc = "named", ![w].slug = <<In(w).base, s>>]
    BY <1>10 DEF ChooseSlug
  <2> DEFINE h == [g EXCEPT !.pc = "named", !.slug = <<In(w).base, s>>]
  <2>2. In(w) \in Inputs /\ In(w).base \in Bases /\ In(w) = g.input
    BY <1>0, <1>10, InputType DEF ChooseSlug, At, IngesterOK, In, Input
  <2>3. /\ h \in IngesterState /\ h.pc = "named" /\ h.input \in Inputs
        /\ h.slug \in Slugs /\ h.slug[1] = h.input.base
    BY <1>0, <2>2 DEF IngesterState, Slugs
  <2>4. ingester' = [ingester EXCEPT ![w] = h]
    BY <1>0, <2>1
  <2> HIDE DEF h
  <2> QED BY <1>0, <1>10, <2>3, <2>4, OtherIngesters DEF ChooseSlug, Tables, Counters, Found, TypeOK
<1>11. ASSUME CommitInsert(w) PROVE TypeInv'
  <2>1. CASE UNCHANGED Tables
    BY <1>5, <1>11, <2>1 DEF CommitInsert
  <2>2. CASE /\ \E i \in DocIds : docs[i].status = "unused"
             /\ docs' = [docs EXCEPT ![NewId] = NewRow(w)]
             /\ chunks' = ReplaceChunks(NewId, 1, In(w))
    <3>1. NewId \in DocIds /\ docs[NewId].status = "unused"
      BY <2>2 DEF NewId
    <3>2. g.input \in Inputs /\ g.input \in Input /\ g.slug \in Slugs
      BY <1>0, <1>11, InputType DEF CommitInsert, At, IngesterOK
    <3>3. NewRow(w) \in Row /\ NewRow(w) # NoRow
      BY <3>2 DEF NewRow, Row, NoRow, In, Input
    <3>4. chunks' \subseteq Chunk
      <4>1. Cut(NewId, 1, g.input) \subseteq Chunk
        BY <3>1, <3>2, CutType
      <4> QED BY <1>0, <2>2, <4>1 DEF ReplaceChunks, In, TypeOK
    <3>5. TypeOK'
      BY <1>0, <1>11, <2>2, <3>1, <3>3, <3>4, IdleType DEF CommitInsert, EndIngest, Counters, TypeOK
    <3>6. ASSUME NEW v \in Ingesters PROVE IngesterOK(v)'
      <4>1. CASE v = w
        BY <1>0, <1>11, <4>1 DEF CommitInsert, EndIngest, IngesterOK, IdleIngester, Found
      <4>2. CASE v # w
        <5>1. ingester'[v] = ingester[v] /\ IngesterOK(v)
          BY <1>0, <1>11, <4>2 DEF CommitInsert, EndIngest, TypeInv
        <5>2. ASSUME ingester[v].pc \in Found
              PROVE  /\ docs'[ingester[v].doc] # NoRow
                     /\ Live(ingester[v].doc) => docs'[ingester[v].doc].status = "live"
          BY <1>0, <2>2, <3>1, <3>3, <5>1, <5>2 DEF IngesterOK, Live, TypeOK
        <5> QED BY <5>1, <5>2 DEF IngesterOK, Live, Found
      <4> QED BY <4>1, <4>2
    <3> QED BY <1>11, <3>5, <3>6 DEF CommitInsert, EmbedderOK, TypeInv
  <2> QED BY <1>11, <2>1, <2>2 DEF CommitInsert
<1> QED BY <1>1, <1>6, <1>7, <1>8, <1>9, <1>10, <1>11 DEF IngestStep

LEMMA EmbedType ==
    ASSUME TypeInv, NEW e \in Embedders, EmbedStep(e) \/ LoseBatch(e)
    PROVE  TypeInv'
<1> DEFINE g == embedder[e]
<1>0. /\ g \in EmbedderState /\ embedder \in [Embedders -> EmbedderState]
      /\ EmbedderOK(e) /\ TypeOK /\ chunks \subseteq Chunk /\ faults \in 0..MaxFaults
  BY DEF TypeInv, TypeOK
<1>1. IdleEmbedder \in EmbedderState /\ IdleEmbedder.pc = "idle"
  BY IdleType DEF IdleEmbedder
<1>2. ASSUME NEW m \in Models, StartBatch(e, m) PROVE TypeInv'
  <2>1. PICK batch \in SUBSET {Id(c) : c \in Pending(m)} :
           embedder' = [embedder EXCEPT ![e].pc = "saving", ![e].model = m, ![e].todo = batch]
    BY <1>2 DEF StartBatch
  <2> DEFINE h == [g EXCEPT !.pc = "saving", !.model = m, !.todo = batch]
  <2>2. batch \subseteq Ids
    BY <1>0 DEF Pending, Id, Ids, Chunk
  <2>3. h \in EmbedderState /\ h.pc = "saving" /\ h.model = m
    BY <1>0, <2>2 DEF EmbedderState
  <2>4. embedder' = [embedder EXCEPT ![e] = h]
    BY <1>0, <2>1
  <2> HIDE DEF h
  <2> QED BY <1>0, <1>2, <2>3, <2>4, OtherEmbedders DEF StartBatch, Tables
<1>3. ASSUME NEW k \in g.todo, SaveChunk(e, k) PROVE TypeInv'
  <2> DEFINE rows == {c \in chunks : Id(c) = k}
             h == [g EXCEPT !.todo = @ \ {k}, !.touched = @ \cup {c.doc : c \in rows}]
  <2>1. rows \subseteq Chunk /\ Model(e) \in Models
    BY <1>0, <1>3 DEF SaveChunk, EmbedderAt, EmbedderOK, Model
  <2>2. {c.doc : c \in rows} \subseteq DocIds
    BY <2>1 DEF Chunk
  <2>3. \A c \in rows : [c EXCEPT !.model = Model(e)] \in Chunk
    BY <2>1 DEF Chunk
  <2>4. chunks' \subseteq Chunk
    BY <1>0, <1>3, <2>3 DEF SaveChunk
  <2>5. h \in EmbedderState /\ h.pc = "saving" /\ h.model \in Models
    <3> HIDE DEF rows
    <3> QED BY <1>0, <1>3, <2>2 DEF SaveChunk, EmbedderAt, EmbedderState, EmbedderOK
  <2>6. embedder' = [embedder EXCEPT ![e] = h]
    BY <1>0, <1>3 DEF SaveChunk
  <2> HIDE DEF h, rows
  <2> QED BY <1>0, <1>3, <2>4, <2>5, <2>6, OtherEmbedders DEF SaveChunk, OnlyEmbedder
<1>4. ASSUME NEW i \in g.touched, CountLeftover(e, i) PROVE TypeInv'
  <2> DEFINE h == [g EXCEPT !.touched = @ \ {i}]
             d == [g EXCEPT !.touched = @ \ {i}, !.pc = "counted", !.doc = i]
  <2>1. i \in DocIds
    BY <1>0 DEF EmbedderState
  <2>2. h \in EmbedderState /\ h.pc = "saving" /\ h.model \in Models
    BY <1>0, <1>4 DEF CountLeftover, EmbedderAt, EmbedderState, EmbedderOK
  <2>3. d \in EmbedderState /\ d.pc = "counted" /\ d.model \in Models /\ d.doc \in DocIds
    BY <1>0, <1>4, <2>1 DEF CountLeftover, EmbedderAt, EmbedderState, EmbedderOK
  <2>4. embedder' = [embedder EXCEPT ![e] = h] \/ embedder' = [embedder EXCEPT ![e] = d]
    BY <1>0, <1>4 DEF CountLeftover
  <2> HIDE DEF h, d
  <2> QED BY <1>0, <1>4, <2>2, <2>3, <2>4, OtherEmbedders DEF CountLeftover, Tables, OnlyEmbedder
<1>5. ASSUME MarkIndexed(e) PROVE TypeInv'
  <2> DEFINE i == g.doc
             h == [g EXCEPT !.pc = "saving", !.doc = None]
  <2>1. i \in DocIds /\ g.model \in Models
    BY <1>0, <1>5 DEF MarkIndexed, EmbedderAt, EmbedderOK
  <2>2. h \in EmbedderState /\ h.pc = "saving" /\ h.model = g.model
    BY <1>0 DEF EmbedderState
  <2>3. embedder' = [embedder EXCEPT ![e] = h]
    BY <1>0, <1>5 DEF MarkIndexed
  <2>4. /\ docs' \in [DocIds -> Row \cup {NoRow}]
        /\ \A j \in DocIds : /\ docs[j] # NoRow => docs'[j] # NoRow
                             /\ docs'[j].status = docs[j].status
    <3>1. CASE Live(i)
      <4>1. docs[i] \in Row /\ docs[i] # NoRow
        BY <1>0, <2>1, <3>1, LiveRow
      <4>2. [docs[i] EXCEPT !.model = g.model] \in Row
        BY <2>1, <4>1 DEF Row
      <4>3. docs' = [docs EXCEPT ![i] = [docs[i] EXCEPT !.model = g.model]]
        BY <1>5, <3>1 DEF MarkIndexed, Model
      <4>4. /\ [docs[i] EXCEPT !.model = g.model].status = docs[i].status
            /\ [docs[i] EXCEPT !.model = g.model] # NoRow
        BY <3>1, <4>1, <4>2 DEF Row, NoRow, Live
      <4> QED BY <1>0, <2>1, <4>2, <4>3, <4>4 DEF TypeOK
    <3>2. CASE ~Live(i)
      BY <1>0, <1>5, <3>2 DEF MarkIndexed, TypeOK
    <3> QED BY <3>1, <3>2
  <2>5. TypeOK'
    <3> HIDE DEF h, i
    <3> QED BY <1>0, <1>5, <2>2, <2>3, <2>4 DEF MarkIndexed, OnlyEmbedder, TypeOK
  <2>6. ASSUME NEW w \in Ingesters PROVE IngesterOK(w)'
    BY <1>5, <2>4 DEF MarkIndexed, OnlyEmbedder, TypeInv, IngesterOK, Live, Found
  <2>7. ASSUME NEW f \in Embedders PROVE EmbedderOK(f)'
    <3> HIDE DEF h
    <3> QED BY <1>0, <2>1, <2>2, <2>3 DEF TypeInv, EmbedderOK
  <2> QED BY <2>5, <2>6, <2>7 DEF TypeInv
<1>6. ASSUME EndBatch(e) PROVE TypeInv'
  BY <1>0, <1>1, <1>6, OtherEmbedders DEF EndBatch, Tables, OnlyEmbedder
<1>7. ASSUME LoseBatch(e) PROVE TypeInv'
  <2>1. faults' \in 0..MaxFaults
    BY <1>0, <1>7, CorpusStoreAssumption DEF LoseBatch
  <2> QED BY <1>0, <1>1, <1>7, <2>1, OtherEmbedders DEF LoseBatch, Tables
<1> QED BY <1>2, <1>3, <1>4, <1>5, <1>6, <1>7 DEF EmbedStep

LEMMA DeleteType ==
    ASSUME TypeInv, NEW i \in DocIds, DeleteDocument(i)
    PROVE  TypeInv'
<1>1. docs[i] \in Row /\ docs[i] # NoRow
  BY LiveRow DEF TypeInv, DeleteDocument
<1>2. [docs[i] EXCEPT !.status = "deleted"] \in Row /\ [docs[i] EXCEPT !.status = "deleted"] # NoRow
  <2>1. [docs[i] EXCEPT !.status = "deleted"] \in Row
    BY <1>1 DEF Row
  <2> QED BY <2>1 DEF Row, NoRow
<1>3. docs' = [docs EXCEPT ![i] = [docs[i] EXCEPT !.status = "deleted"]]
  BY DEF DeleteDocument
<1>4. TypeOK'
  <2>1. deletes' \in 0..MaxDeletes
    <3>1. deletes \in 0..MaxDeletes /\ deletes < MaxDeletes /\ deletes' = deletes + 1
      BY DEF DeleteDocument, TypeInv, TypeOK
    <3> QED BY <3>1, CorpusStoreAssumption
  <2>2. docs' \in [DocIds -> Row \cup {NoRow}]
    BY <1>2, <1>3 DEF TypeInv, TypeOK
  <2>3. chunks' \subseteq Chunk
    BY DEF TypeInv, TypeOK, DeleteDocument
  <2> QED BY <2>1, <2>2, <2>3 DEF TypeInv, TypeOK, DeleteDocument
<1>5. ASSUME NEW w \in Ingesters PROVE IngesterOK(w)'
  <2>1. ingester[w].pc = "updated" => ingester[w].doc # i
    BY DEF DeleteDocument, RowLocked, At
  <2> QED BY <1>2, <1>3, <2>1 DEF TypeInv, TypeOK, IngesterOK, DeleteDocument, Live, Found
<1> QED BY <1>4, <1>5 DEF TypeInv, EmbedderOK, DeleteDocument

LEMMA TypeStep == TypeInv /\ [Next]_vars => TypeInv'
<1> SUFFICES ASSUME TypeInv, [Next]_vars PROVE TypeInv'
  OBVIOUS
<1>1. CASE UNCHANGED vars
  BY <1>1 DEF vars, TypeInv, TypeOK, IngesterOK, EmbedderOK, Live
<1>2. CASE Next
  BY <1>2, IngestType, EmbedType, DeleteType DEF Next
<1> QED BY <1>1, <1>2

\* The tables and the requests keep their shape: in particular a transaction that
\* holds the lock of a row never loses the document under it.
THEOREM TypeCorrect == Spec => []TypeInv
BY TypeInit, TypeStep, PTL DEF Spec

\* Every variable keeps its type.
THEOREM TypesHold == Spec => []TypeOK
<1>1. TypeInv => TypeOK
  BY DEF TypeInv
<1> QED BY <1>1, TypeCorrect, PTL

------------------------------------------------------------------------------
\* Chunks.

\* ChunksCutFromBody, chunk by chunk.
CutInv ==
    /\ \A c \in chunks : Live(c.doc) /\ c.body = docs[c.doc].body /\ c.part \in 1..Parts[c.body]
    /\ \A i \in DocIds : Live(i) =>
          \A p \in 1..Parts[docs[i].body] : \E c \in chunks : c.doc = i /\ c.part = p
    /\ \A c, d \in chunks : c.doc = d.doc /\ c.part = d.part => c = d

LEMMA CutInvSuffices == TypeOK /\ CutInv => ChunksCutFromBody
<1> SUFFICES ASSUME TypeOK, CutInv PROVE ChunksCutFromBody
  OBVIOUS
<1>1. ASSUME NEW i \in DocIds, ~Live(i) PROVE ChunksOf(i) = {}
  BY <1>1 DEF CutInv, ChunksOf
<1>2. ASSUME NEW i \in DocIds, Live(i)
      PROVE  {[part |-> c.part, body |-> c.body] : c \in ChunksOf(i)} =
                [part : 1..Parts[docs[i].body], body : {docs[i].body}]
  <2> DEFINE seen == {[part |-> c.part, body |-> c.body] : c \in ChunksOf(i)}
             cut == [part : 1..Parts[docs[i].body], body : {docs[i].body}]
  <2>1. seen \subseteq cut
    BY DEF CutInv, ChunksOf
  <2>2. ASSUME NEW r \in cut PROVE r \in seen
    <3>1. PICK c \in chunks : c.doc = i /\ c.part = r.part
      BY <1>2 DEF CutInv
    <3>2. c \in ChunksOf(i) /\ c.body = r.body
      BY <3>1 DEF ChunksOf, CutInv
    <3>3. r = [part |-> c.part, body |-> c.body]
      BY <3>1, <3>2
    <3> QED BY <3>2, <3>3
  <2> QED BY <2>1, <2>2
<1> QED BY <1>1, <1>2 DEF ChunksCutFromBody, CutInv

\* A document whose chunks are replaced, in the transaction that sets its body.
LEMMA ReplaceKeepsCut ==
    ASSUME TypeOK, CutInv, NEW i \in DocIds, NEW gen, NEW in \in Inputs, NEW row \in Row,
           row.status = "live", row.body = in.body, docs' = [docs EXCEPT ![i] = row],
           chunks' = ReplaceChunks(i, gen, in)
    PROVE  CutInv'
<1>1. docs'[i] = row /\ \A j \in DocIds : j # i => docs'[j] = docs[j]
  BY DEF TypeOK
<1>2. \A c \in Cut(i, gen, in) : c.doc = i /\ c.body = in.body /\ c.part \in 1..Parts[in.body]
  BY DEF Cut
<1>3. \A p \in 1..Parts[in.body] : \E c \in Cut(i, gen, in) : c.doc = i /\ c.part = p
  <2> TAKE p \in 1..Parts[in.body]
  <2> DEFINE piece == [doc |-> i, gen |-> gen, part |-> p, body |-> in.body,
                       kind |-> in.kind, model |-> None]
  <2>1. piece \in Cut(i, gen, in)
    BY DEF Cut
  <2>2. piece.doc = i /\ piece.part = p
    OBVIOUS
  <2> QED BY <2>1, <2>2
<1>4. \A c, d \in Cut(i, gen, in) : c.part = d.part => c = d
  BY DEF Cut
<1>5. \A c \in chunks' : \/ c \in Cut(i, gen, in)
                         \/ c \in chunks /\ c.doc # i
  BY DEF ReplaceChunks, ChunksOf
<1>6. Cut(i, gen, in) \subseteq chunks' /\ \A c \in chunks : c.doc # i => c \in chunks'
  BY DEF ReplaceChunks, ChunksOf
<1>7. \A c \in chunks : c.doc \in DocIds
  BY DEF TypeOK, Chunk
<1> HIDE DEF Cut
<1>8. \A c \in chunks' : Live(c.doc)' /\ c.body = docs'[c.doc].body /\ c.part \in 1..Parts[c.body]
  BY <1>1, <1>2, <1>5, <1>7 DEF CutInv, Live
<1>9. \A j \in DocIds : Live(j)' =>
         \A p \in 1..Parts[docs'[j].body] : \E c \in chunks' : c.doc = j /\ c.part = p
  <2>1. \A p \in 1..Parts[docs'[i].body] : \E c \in chunks' : c.doc = i /\ c.part = p
    BY <1>1, <1>3, <1>6
  <2>2. ASSUME NEW j \in DocIds, j # i, Live(j)', NEW p \in 1..Parts[docs'[j].body]
        PROVE  \E c \in chunks' : c.doc = j /\ c.part = p
    BY <1>1, <1>6, <2>2 DEF CutInv, Live
  <2> QED BY <2>1, <2>2
<1>10. \A c, d \in chunks' : c.doc = d.doc /\ c.part = d.part => c = d
  BY <1>2, <1>4, <1>5 DEF CutInv
<1> QED BY <1>8, <1>9, <1>10 DEF CutInv

\* Most steps write no table.
LEMMA CutSame == ASSUME CutInv, UNCHANGED Tables PROVE CutInv'
BY DEF CutInv, Tables, Live

LEMMA CutStep ==
    ASSUME TypeInv, CutInv, [Next]_vars
    PROVE  CutInv'
<1> USE DEF TypeInv
<1>1. ASSUME NEW w \in Ingesters, NEW in \in Inputs, Begin(w, in) PROVE CutInv'
  BY <1>1, CutSame DEF Begin, StartIngest
<1>2. ASSUME NEW w \in Ingesters, CommitUpdate(w) PROVE CutInv'
  <2> DEFINE i == ingester[w].doc
  <2>1. i \in DocIds /\ Live(i) /\ docs[i] \in Row /\ ingester[w].row \in Row
        /\ In(w) \in Inputs /\ In(w) \in Input
    BY <1>2, LiveRow, InputType DEF CommitUpdate, At, IngesterOK, Found, In
  <2>2. TypeOK'
    BY <1>2, TypeStep DEF Next, IngestStep
  <2>3. docs' = [docs EXCEPT ![i] = Updated(w)] /\ chunks' = ReplaceChunks(i, docs[i].gen + 1, In(w))
    BY <1>2 DEF CommitUpdate
  <2>4. Updated(w).status = "live" /\ Updated(w).body = In(w).body /\ Updated(w) = docs'[i]
    BY <2>1, <2>3 DEF Updated, Row, Live, TypeOK
  <2>5. Updated(w) \in Row
    BY <2>1, <2>2, <2>4 DEF TypeOK, NoRow
  <2> QED BY <2>1, <2>3, <2>4, <2>5, ReplaceKeepsCut
<1>3. ASSUME NEW w \in Ingesters, CommitInsert(w) PROVE CutInv'
  <2>1. CASE UNCHANGED Tables
    BY <2>1, CutSame
  <2>2. CASE /\ \E i \in DocIds : docs[i].status = "unused"
             /\ docs' = [docs EXCEPT ![NewId] = NewRow(w)]
             /\ chunks' = ReplaceChunks(NewId, 1, In(w))
    <3>1. NewId \in DocIds
      BY <2>2 DEF NewId
    <3>2. In(w) \in Inputs /\ In(w) \in Input /\ ingester[w].slug \in Slugs
      BY <1>3, InputType DEF CommitInsert, At, IngesterOK, In
    <3>3. NewRow(w) \in Row /\ NewRow(w).status = "live" /\ NewRow(w).body = In(w).body
      BY <3>2 DEF NewRow, Row, Input
    <3> QED BY <2>2, <3>1, <3>2, <3>3, ReplaceKeepsCut
  <2> QED BY <1>3, <2>1, <2>2 DEF CommitInsert
<1>4. ASSUME NEW w \in Ingesters, IngestStep(w) PROVE CutInv'
  BY <1>2, <1>3, <1>4, CutSame
  DEF IngestStep, LookupUri, LookupSlug, Compare, UpdateRow, ChooseSlug
<1>5. ASSUME NEW e \in Embedders, NEW k, SaveChunk(e, k) PROVE CutInv'
  <2> DEFINE rows == {c \in chunks : Id(c) = k}
             saved == {[c EXCEPT !.model = Model(e)] : c \in rows}
  <2>1. \A c \in chunks : c \in Chunk
    BY DEF TypeOK
  <2>2. \A c \in rows : LET s == [c EXCEPT !.model = Model(e)]
                        IN  s.doc = c.doc /\ s.part = c.part /\ s.body = c.body
    BY <2>1 DEF Chunk
  <2>3. chunks' = (chunks \ rows) \cup saved /\ docs' = docs
    BY <1>5 DEF SaveChunk
  <2>4. \A c \in chunks' : \E b \in chunks :
           /\ c.doc = b.doc /\ c.part = b.part /\ c.body = b.body
           /\ c = IF b \in rows THEN [b EXCEPT !.model = Model(e)] ELSE b
    BY <2>2, <2>3
  <2>5. \A b \in chunks : \E c \in chunks' : c.doc = b.doc /\ c.part = b.part
    <3> TAKE b \in chunks
    <3>1. CASE b \in rows
      BY <2>2, <2>3, <3>1
    <3>2. CASE b \notin rows
      BY <2>3, <3>2
    <3> QED BY <3>1, <3>2
  <2> HIDE DEF rows, saved
  <2>6. \A c \in chunks' : Live(c.doc)' /\ c.body = docs'[c.doc].body /\ c.part \in 1..Parts[c.body]
    BY <2>3, <2>4 DEF CutInv, Live
  <2>7. \A i \in DocIds : Live(i)' =>
           \A p \in 1..Parts[docs'[i].body] : \E c \in chunks' : c.doc = i /\ c.part = p
    BY <2>3, <2>5 DEF CutInv, Live
  <2>8. \A c, d \in chunks' : c.doc = d.doc /\ c.part = d.part => c = d
    <3> TAKE c, d \in chunks'
    <3> HAVE c.doc = d.doc /\ c.part = d.part
    <3>1. PICK b \in chunks : /\ c.doc = b.doc /\ c.part = b.part
                              /\ c = IF b \in rows THEN [b EXCEPT !.model = Model(e)] ELSE b
      BY <2>4
    <3>2. PICK a \in chunks : /\ d.doc = a.doc /\ d.part = a.part
                              /\ d = IF a \in rows THEN [a EXCEPT !.model = Model(e)] ELSE a
      BY <2>4
    <3>3. a.doc = b.doc /\ a.part = b.part
      BY <3>1, <3>2
    <3>4. a = b
      BY <3>3 DEF CutInv
    <3> QED BY <3>1, <3>2, <3>4
  <2> QED BY <2>6, <2>7, <2>8 DEF CutInv
<1>6. ASSUME NEW e \in Embedders, MarkIndexed(e) PROVE CutInv'
  <2> DEFINE i == embedder[e].doc
  <2>1. i \in DocIds /\ chunks' = chunks
    BY <1>6 DEF MarkIndexed, EmbedderAt, EmbedderOK
  <2>2. \A j \in DocIds : Live(j)' <=> Live(j)
    BY <1>6, <2>1, LiveRow DEF MarkIndexed, TypeOK, Live, Row
  <2>3. \A j \in DocIds : Live(j) => docs'[j].body = docs[j].body
    BY <1>6, <2>1, LiveRow DEF MarkIndexed, TypeOK, Row
  <2>4. \A c \in chunks : c.doc \in DocIds
    BY DEF TypeOK, Chunk
  <2> QED BY <2>1, <2>2, <2>3, <2>4 DEF CutInv
<1>7. ASSUME NEW e \in Embedders, EmbedStep(e) \/ LoseBatch(e) PROVE CutInv'
  BY <1>5, <1>6, <1>7, CutSame DEF EmbedStep, StartBatch, CountLeftover, EndBatch, LoseBatch
<1>8. ASSUME NEW i \in DocIds, DeleteDocument(i) PROVE CutInv'
  <2>1. docs' = [docs EXCEPT ![i].status = "deleted"] /\ chunks' = {c \in chunks : c.doc # i}
    BY <1>8 DEF DeleteDocument, ChunksOf
  <2>2. \A j \in DocIds : j # i => docs'[j] = docs[j]
    BY <2>1 DEF TypeOK
  <2>3. ~Live(i)'
    <3>1. docs[i] \in Row
      BY <1>8, LiveRow DEF DeleteDocument
    <3>2. docs'[i] = [docs[i] EXCEPT !.status = "deleted"]
      BY <2>1 DEF TypeOK
    <3>3. docs'[i].status = "deleted"
      BY <3>1, <3>2 DEF Row
    <3> QED BY <3>3 DEF Live
  <2>4. \A c \in chunks : c.doc \in DocIds
    BY DEF TypeOK, Chunk
  <2> QED BY <2>1, <2>2, <2>3, <2>4 DEF CutInv, Live
<1>9. CASE UNCHANGED vars
  BY <1>9, CutSame DEF vars, Tables
<1> QED BY <1>1, <1>4, <1>7, <1>8, <1>9 DEF Next

\* However transactions, embedding requests and deletions overlap, the chunks of a
\* document are the cut of the body it holds, each of them once (replaceChunks).
THEOREM ChunksFollowBody == Spec => []ChunksCutFromBody
<1>1. Init => CutInv
  BY DEF Init, CutInv, Live, NoRow
<1>2. TypeInv /\ CutInv => ChunksCutFromBody
  BY CutInvSuffices DEF TypeInv
<1> QED BY TypeCorrect, CutStep, <1>1, <1>2, PTL DEF Spec

------------------------------------------------------------------------------
\* One document per source.

\* The advisory lock: one transaction per slug base.
Serialized ==
    \A v, w \in Ingesters :
        ~At(v, "idle") /\ ~At(w, "idle") /\ In(v).base = In(w).base => v = w

\* A document carries the slug its source hints.
SourceNamesSlug ==
    \A i \in DocIds : Live(i) /\ docs[i].uri # None =>
        \E in \in Inputs : in.uri = docs[i].uri /\ in.base = docs[i].slug[1]

\* So every transaction that found it holds the lock of that slug, and nothing
\* but the embedding model has changed since it read the row.
RowIsCurrent ==
    \A w \in Ingesters :
        LET g == ingester[w]
        IN  g.pc \in Found /\ Live(g.doc) =>
                /\ docs[g.doc].slug[1] = g.input.base
                /\ g.row.version = docs[g.doc].version
                /\ g.row.uri = docs[g.doc].uri

\* The source of a transaction past its lookup names the document it found,
\* or none.
OnlyFoundDocument ==
    \A w \in Ingesters :
        LET g == ingester[w]
        IN  g.pc \notin {"idle", "locked"} /\ g.input.uri # None =>
                \A j \in DocIds : Live(j) /\ docs[j].uri = g.input.uri =>
                    g.pc \in Found /\ g.doc = j

OneDocument ==
    \A i, j \in DocIds :
        Live(i) /\ Live(j) /\ docs[i].uri = docs[j].uri /\ docs[i].uri # None => i = j

SlugInv == \A i, j \in DocIds : Live(i) /\ Live(j) /\ docs[i].slug = docs[j].slug => i = j

SourceInv ==
    /\ Serialized
    /\ SourceNamesSlug
    /\ RowIsCurrent
    /\ OnlyFoundDocument
    /\ OneDocument

\* Steps of the other requests: every document that stays keeps what the
\* transactions read of it.
LEMMA SourceQuiet ==
    ASSUME SourceInv, SlugInv, UNCHANGED ingester,
           \A j \in DocIds : Live(j)' => /\ Live(j)
                                         /\ docs'[j].slug = docs[j].slug
                                         /\ docs'[j].version = docs[j].version
                                         /\ docs'[j].uri = docs[j].uri,
           TypeInv
    PROVE  SourceInv' /\ SlugInv'
<1>1. Serialized'
  BY DEF SourceInv, Serialized, At, In
<1>2. SourceNamesSlug' /\ OneDocument' /\ SlugInv'
  BY DEF SourceInv, SourceNamesSlug, OneDocument, SlugInv
<1>3. \A w \in Ingesters : ingester[w].pc \in Found => ingester[w].doc \in DocIds
  BY DEF TypeInv, IngesterOK
<1>4. RowIsCurrent'
  BY <1>3 DEF SourceInv, RowIsCurrent
<1>5. OnlyFoundDocument'
  BY DEF SourceInv, OnlyFoundDocument
<1> QED BY <1>1, <1>2, <1>4, <1>5 DEF SourceInv

\* A step within a transaction that writes nothing.
LEMMA SourceMove ==
    ASSUME TypeInv, SourceInv, SlugInv, UNCHANGED docs, NEW w \in Ingesters, NEW h,
           ingester' = [ingester EXCEPT ![w] = h],
           h.pc # "idle" => \A v \in Ingesters :
              v # w /\ ~At(v, "idle") => In(v).base # h.input.base,
           h.pc \in Found => /\ Live(h.doc) => docs[h.doc].slug[1] = h.input.base
                             /\ Live(h.doc) => h.row.version = docs[h.doc].version
                             /\ Live(h.doc) => h.row.uri = docs[h.doc].uri,
           h.pc \notin {"idle", "locked"} /\ h.input.uri # None =>
              \A j \in DocIds : Live(j) /\ docs[j].uri = h.input.uri => h.pc \in Found /\ h.doc = j
    PROVE  SourceInv' /\ SlugInv'
<1>1. ingester'[w] = h /\ \A v \in Ingesters : v # w => ingester'[v] = ingester[v]
  BY DEF TypeInv, TypeOK
<1>2. Serialized'
  BY <1>1 DEF SourceInv, Serialized, At, In
<1>3. SourceNamesSlug' /\ OneDocument' /\ SlugInv'
  BY DEF SourceInv, SourceNamesSlug, OneDocument, SlugInv, Live
<1>4. RowIsCurrent'
  BY <1>1 DEF SourceInv, RowIsCurrent, Live
<1>5. OnlyFoundDocument'
  BY <1>1 DEF SourceInv, OnlyFoundDocument, Live
<1> QED BY <1>2, <1>3, <1>4, <1>5 DEF SourceInv

\* The commit of a transaction: it writes the row of one document, which no other
\* transaction has found, and the source it names names no other document.
LEMMA SourceCommit ==
    ASSUME TypeInv, SourceInv, SlugInv, OneSlugPerSource,
           NEW w \in Ingesters, ~At(w, "idle"), NEW i \in DocIds, NEW row,
           EndIngest(w), docs' = [docs EXCEPT ![i] = row], row.slug[1] = In(w).base,
           \/ row.uri = In(w).uri
           \/ In(w).uri = None /\ Live(i) /\ row.uri = docs[i].uri,
           Live(i) => docs[i].slug = row.slug,
           \A j \in DocIds : j # i /\ Live(j) => docs[j].slug # row.slug,
           \A v \in Ingesters : v # w /\ ingester[v].pc \in Found => ingester[v].doc # i,
           In(w).uri # None => \A j \in DocIds : Live(j) /\ docs[j].uri = In(w).uri => j = i
    PROVE  SourceInv' /\ SlugInv'
<1>1. /\ ingester'[w] = IdleIngester
      /\ \A v \in Ingesters : v # w => ingester'[v] = ingester[v]
      /\ docs'[i] = row /\ \A j \in DocIds : j # i => docs'[j] = docs[j]
  BY DEF TypeInv, TypeOK, EndIngest
<1>2. IdleIngester.pc = "idle"
  BY DEF IdleIngester
<1>3. In(w) \in Inputs
  BY DEF TypeInv, IngesterOK, At, In
<1>4. Serialized'
  BY <1>1, <1>2 DEF SourceInv, Serialized, At, In
<1>5. SlugInv'
  BY <1>1 DEF SlugInv, Live
<1>6. ASSUME NEW j \in DocIds, Live(j)', docs'[j].uri # None
      PROVE  \E in \in Inputs : in.uri = docs'[j].uri /\ in.base = docs'[j].slug[1]
  <2>1. CASE j # i
    BY <1>1, <1>6, <2>1 DEF SourceInv, SourceNamesSlug, Live
  <2>2. CASE j = i /\ row.uri = In(w).uri
    BY <1>1, <1>3, <2>2
  <2>3. CASE j = i /\ In(w).uri = None /\ Live(i) /\ row.uri = docs[i].uri
    <3>1. PICK in \in Inputs : in.uri = docs[i].uri /\ in.base = docs[i].slug[1]
      BY <1>1, <1>6, <2>3 DEF SourceInv, SourceNamesSlug
    <3> QED BY <1>1, <2>3, <3>1
  <2> QED BY <2>1, <2>2, <2>3
<1>7. RowIsCurrent'
  <2>1. \A v \in Ingesters : v # w /\ ingester[v].pc \in Found =>
           ingester[v].doc \in DocIds /\ ingester[v].doc # i
    BY DEF TypeInv, IngesterOK
  <2>2. IdleIngester.pc \notin Found
    BY <1>2 DEF Found
  <2> QED BY <1>1, <2>1, <2>2 DEF SourceInv, RowIsCurrent, Live
<1>8. OnlyFoundDocument'
  <2> SUFFICES ASSUME NEW v \in Ingesters, ingester'[v].pc \notin {"idle", "locked"},
                      ingester'[v].input.uri # None, NEW j \in DocIds, Live(j)',
                      docs'[j].uri = ingester'[v].input.uri
               PROVE  ingester'[v].pc \in Found /\ ingester'[v].doc = j
    BY DEF OnlyFoundDocument
  <2>1. v # w /\ ingester'[v] = ingester[v]
    BY <1>1, <1>2
  <2>2. CASE j # i
    BY <1>1, <2>1, <2>2 DEF SourceInv, OnlyFoundDocument, Live
  <2>3. CASE j = i /\ row.uri = In(w).uri
    <3>1. In(v) \in Inputs /\ In(v).uri = In(w).uri /\ ~At(v, "idle")
      BY <1>1, <2>1, <2>3 DEF TypeInv, IngesterOK, In, At
    <3>2. In(v).base = In(w).base
      BY <1>3, <2>1, <3>1 DEF OneSlugPerSource, In
    <3> QED BY <2>1, <3>1, <3>2 DEF SourceInv, Serialized
  <2>4. CASE j = i /\ Live(i) /\ row.uri = docs[i].uri
    BY <1>1, <2>1, <2>4 DEF SourceInv, OnlyFoundDocument, Live
  <2> QED BY <2>2, <2>3, <2>4
<1>9. OneDocument'
  <2> SUFFICES ASSUME NEW j \in DocIds, j # i, Live(j)', Live(i)', docs'[j].uri = docs'[i].uri,
                      docs'[i].uri # None
               PROVE  FALSE
    BY <1>1 DEF OneDocument, SourceInv, Live
  <2>1. CASE row.uri = In(w).uri
    BY <1>1, <2>1 DEF Live
  <2>2. CASE Live(i) /\ row.uri = docs[i].uri
    BY <1>1, <2>2 DEF SourceInv, OneDocument, Live
  <2> QED BY <2>1, <2>2
<1> QED BY <1>4, <1>5, <1>6, <1>7, <1>8, <1>9 DEF SourceInv, SourceNamesSlug

LEMMA SourceIngest ==
    ASSUME TypeInv, SourceInv, SlugInv, OneSlugPerSource, NEW w \in Ingesters,
           (\E in \in Inputs : Begin(w, in)) \/ IngestStep(w)
    PROVE  SourceInv' /\ SlugInv'
<1> DEFINE g == ingester[w]
<1>0. /\ g \in IngesterState /\ ingester \in [Ingesters -> IngesterState]
      /\ IngesterOK(w) /\ TypeOK
  BY DEF TypeInv, TypeOK
<1>1. ~At(w, "idle") =>
         /\ g.input \in Inputs
         /\ \A v \in Ingesters : v # w /\ ~At(v, "idle") => In(v).base # g.input.base
  BY <1>0 DEF SourceInv, Serialized, In, At, IngesterOK
<1>2. IdleIngester.pc = "idle" /\ "idle" \notin Found
  BY DEF IdleIngester, Found
<1>3. ASSUME NEW in \in Inputs, Begin(w, in) PROVE SourceInv' /\ SlugInv'
  <2> DEFINE h == [g EXCEPT !.pc = "locked", !.input = in]
  <2>1. h.pc = "locked" /\ h.input = in /\ ingester' = [ingester EXCEPT ![w] = h]
    BY <1>0, <1>3 DEF IngesterState, Begin, StartIngest
  <2>2. \A v \in Ingesters : v # w /\ ~At(v, "idle") => In(v).base # in.base
    BY <1>3 DEF Begin, LockedBase
  <2>3. docs' = docs
    BY <1>3 DEF Begin, StartIngest, Tables
  <2> HIDE DEF h
  <2> QED BY <2>1, <2>2, <2>3, SourceMove DEF Found
<1>4. ASSUME NEW i \in DocIds, Live(i), ~At(w, "idle"), Finds(w, i), docs' = docs,
             docs[i].slug[1] = g.input.base,
             g.input.uri # None =>
                \A j \in DocIds : Live(j) /\ docs[j].uri = g.input.uri => j = i
      PROVE  SourceInv' /\ SlugInv'
  <2> DEFINE h == [g EXCEPT !.pc = "found", !.doc = i, !.row = docs[i]]
  <2>1. h.pc = "found" /\ h.input = g.input /\ h.doc = i /\ h.row = docs[i]
    BY <1>0 DEF IngesterState
  <2>2. ingester' = [ingester EXCEPT ![w] = h]
    BY <1>0, <1>4 DEF Finds
  <2> HIDE DEF h
  <2> QED BY <1>1, <1>4, <2>1, <2>2, SourceMove DEF Found
<1>5. ASSUME NEW pc, pc # "idle", ~At(w, "idle"), Goto(w, pc), docs' = docs,
             pc \in Found => g.pc \in Found,
             \/ g.pc \in Found /\ pc \in Found
             \/ g.input.uri # None => \A j \in DocIds : Live(j) => docs[j].uri # g.input.uri
      PROVE  SourceInv' /\ SlugInv'
  <2> DEFINE h == [g EXCEPT !.pc = pc]
  <2>1. h.pc = pc /\ h.input = g.input /\ h.doc = g.doc /\ h.row = g.row
    BY <1>0 DEF IngesterState
  <2>2. ingester' = [ingester EXCEPT ![w] = h]
    BY <1>0, <1>5 DEF Goto
  <2>3. pc \in Found => /\ Live(g.doc) => docs[g.doc].slug[1] = g.input.base
                        /\ Live(g.doc) => g.row.version = docs[g.doc].version
                        /\ Live(g.doc) => g.row.uri = docs[g.doc].uri
    BY <1>5 DEF SourceInv, RowIsCurrent
  <2>4. g.input.uri # None =>
           \A j \in DocIds : Live(j) /\ docs[j].uri = g.input.uri => pc \in Found /\ g.doc = j
    <3>1. CASE g.pc \in Found /\ pc \in Found
      BY <3>1 DEF SourceInv, OnlyFoundDocument, Found
    <3>2. CASE g.input.uri # None => \A j \in DocIds : Live(j) => docs[j].uri # g.input.uri
      BY <3>2
    <3> QED BY <1>5, <3>1, <3>2
  <2> HIDE DEF h
  <2> QED BY <1>1, <1>5, <2>1, <2>2, <2>3, <2>4, SourceMove
<1>6. ASSUME EndIngest(w), docs' = docs PROVE SourceInv' /\ SlugInv'
  BY <1>2, <1>6, SourceMove DEF EndIngest
<1>7. ASSUME LookupUri(w) PROVE SourceInv' /\ SlugInv'
  <2>1. docs' = docs /\ ~At(w, "idle") /\ ~At(w, "found")
    BY <1>7 DEF LookupUri, At, Tables
  <2>2. ASSUME NEW i \in DocIds, Live(i), docs[i].uri = g.input.uri, g.input.uri # None, Finds(w, i)
        PROVE  SourceInv' /\ SlugInv'
    <3>1. PICK in \in Inputs : in.uri = docs[i].uri /\ in.base = docs[i].slug[1]
      BY <2>2 DEF SourceInv, SourceNamesSlug
    <3>2. docs[i].slug[1] = g.input.base
      BY <1>1, <2>1, <2>2, <3>1 DEF OneSlugPerSource
    <3>3. \A j \in DocIds : Live(j) /\ docs[j].uri = g.input.uri => j = i
      BY <2>2 DEF SourceInv, OneDocument
    <3> QED BY <1>4, <2>1, <2>2, <3>2, <3>3
  <2>3. ASSUME Goto(w, "no_uri"), \A i \in DocIds : ~(Live(i) /\ docs[i].uri = g.input.uri /\ g.input.uri # None)
        PROVE  SourceInv' /\ SlugInv'
    BY <1>5, <2>1, <2>3 DEF Found
  <2> QED BY <1>7, <2>2, <2>3 DEF LookupUri, In
<1>8. ASSUME LookupSlug(w) PROVE SourceInv' /\ SlugInv'
  <2>1. docs' = docs /\ g.pc = "no_uri"
    BY <1>8 DEF LookupSlug, At, Tables
  <2>2. g.input.uri # None => \A j \in DocIds : Live(j) => docs[j].uri # g.input.uri
    BY <2>1 DEF SourceInv, OnlyFoundDocument, Found
  <2>3. ASSUME NEW i \in DocIds, Live(i), docs[i].slug = <<g.input.base, None>>, Finds(w, i)
        PROVE  SourceInv' /\ SlugInv'
    BY <1>4, <2>1, <2>2, <2>3 DEF At
  <2>4. ASSUME Goto(w, "new") PROVE SourceInv' /\ SlugInv'
    BY <1>5, <2>1, <2>2, <2>4 DEF Found, At
  <2> QED BY <1>8, <2>3, <2>4 DEF LookupSlug, In
<1>9. ASSUME Compare(w) \/ UpdateRow(w) PROVE SourceInv' /\ SlugInv'
  BY <1>5, <1>6, <1>9 DEF Compare, UpdateRow, At, Found, Tables
<1>10. ASSUME CommitUpdate(w) PROVE SourceInv' /\ SlugInv'
  <2> DEFINE i == g.doc
  <2>1. /\ i \in DocIds /\ Live(i) /\ docs[i] \in Row /\ g.pc = "updated" /\ g.input \in Inputs
        /\ docs[i].slug[1] = g.input.base /\ g.row.uri = docs[i].uri
    BY <1>0, <1>10, LiveRow DEF CommitUpdate, At, IngesterOK, Found, SourceInv, RowIsCurrent
  <2>2. /\ Updated(w).slug = docs[i].slug
        /\ Updated(w).uri = IF In(w).uri = None THEN g.row.uri ELSE In(w).uri
    BY <2>1 DEF Updated, Row
  <2>3. \A v \in Ingesters : v # w /\ ingester[v].pc \in Found => ingester[v].doc # i
    <3> SUFFICES ASSUME NEW v \in Ingesters, v # w, ingester[v].pc \in Found, ingester[v].doc = i
                 PROVE  FALSE
      OBVIOUS
    <3>1. docs[i].slug[1] = In(v).base
      BY <2>1 DEF SourceInv, RowIsCurrent, In
    <3>2. ~At(v, "idle") /\ ~At(w, "idle")
      BY <2>1 DEF At, Found
    <3> QED BY <1>1, <2>1, <3>1, <3>2
  <2>4. In(w).uri # None => \A j \in DocIds : Live(j) /\ docs[j].uri = In(w).uri => j = i
    BY <2>1 DEF SourceInv, OnlyFoundDocument, In
  <2>5. \A j \in DocIds : j # i /\ Live(j) => docs[j].slug # Updated(w).slug
    BY <2>1, <2>2 DEF SlugInv
  <2>6. docs' = [docs EXCEPT ![i] = Updated(w)] /\ EndIngest(w) /\ ~At(w, "idle")
    BY <1>10 DEF CommitUpdate, At
  <2>7. Updated(w).slug[1] = In(w).base /\ In(w) = g.input
    BY <2>1, <2>2 DEF In
  <2>8. \/ Updated(w).uri = In(w).uri
        \/ In(w).uri = None /\ Live(i) /\ Updated(w).uri = docs[i].uri
    BY <2>1, <2>2
  <2> HIDE DEF i
  <2> QED BY <2>1, <2>2, <2>3, <2>4, <2>5, <2>6, <2>7, <2>8, SourceCommit
<1>11. ASSUME ChooseSlug(w) PROVE SourceInv' /\ SlugInv'
  <2>1. PICK slug : ingester' = [ingester EXCEPT ![w].pc = "named", ![w].slug = slug]
    BY <1>11 DEF ChooseSlug
  <2> DEFINE h == [g EXCEPT !.pc = "named", !.slug = slug]
  <2>2. h.pc = "named" /\ h.input = g.input /\ ingester' = [ingester EXCEPT ![w] = h]
    BY <1>0, <2>1 DEF IngesterState
  <2>3. docs' = docs /\ g.pc = "new"
    BY <1>11 DEF ChooseSlug, At, Tables
  <2>4. g.input.uri # None => \A j \in DocIds : Live(j) => docs[j].uri # g.input.uri
    BY <2>3 DEF SourceInv, OnlyFoundDocument, Found
  <2> HIDE DEF h
  <2> QED BY <1>1, <2>2, <2>3, <2>4, SourceMove DEF Found, At
<1>12. ASSUME CommitInsert(w) PROVE SourceInv' /\ SlugInv'
  <2>1. CASE UNCHANGED Tables
    BY <1>6, <1>12, <2>1 DEF CommitInsert, Tables
  <2>2. CASE /\ \A j \in DocIds : ~(Live(j) /\ docs[j].slug = g.slug)
             /\ \E i \in DocIds : docs[i].status = "unused"
             /\ docs' = [docs EXCEPT ![NewId] = NewRow(w)]
    <3>1. NewId \in DocIds /\ docs[NewId].status = "unused"
      BY <2>2 DEF NewId
    <3>2. docs[NewId] = NoRow /\ ~Live(NewId)
      BY <1>0, <3>1 DEF TypeOK, Row, Live
    <3>3. g.pc = "named" /\ g.slug[1] = In(w).base /\ EndIngest(w)
      BY <1>0, <1>12 DEF CommitInsert, At, IngesterOK, In
    <3>4. NewRow(w).slug = g.slug /\ NewRow(w).uri = In(w).uri
      BY DEF NewRow
    <3>5. \A v \in Ingesters : v # w /\ ingester[v].pc \in Found => ingester[v].doc # NewId
      BY <3>2 DEF TypeInv, IngesterOK
    <3>6. In(w).uri # None => \A j \in DocIds : Live(j) /\ docs[j].uri = In(w).uri => j = NewId
      BY <3>3 DEF SourceInv, OnlyFoundDocument, In, Found
    <3>7. \A j \in DocIds : j # NewId /\ Live(j) => docs[j].slug # NewRow(w).slug
      BY <2>2, <3>4
    <3>8. ~At(w, "idle") /\ NewRow(w).slug[1] = In(w).base
      BY <3>3, <3>4 DEF At
    <3> QED BY <2>2, <3>1, <3>2, <3>3, <3>4, <3>5, <3>6, <3>7, <3>8, SourceCommit
  <2> QED BY <1>12, <2>1, <2>2 DEF CommitInsert
<1> QED BY <1>3, <1>7, <1>8, <1>9, <1>10, <1>11, <1>12 DEF IngestStep

\* What an embedding request writes of a document is its model.
LEMMA MarkRow ==
    ASSUME TypeInv, NEW e \in Embedders, MarkIndexed(e)
    PROVE  \/ docs' = docs
           \/ \E i \in DocIds :
                 /\ Live(i) /\ docs[i] \in Row /\ embedder[e].model \in Models
                 /\ docs' = [docs EXCEPT ![i] = [docs[i] EXCEPT !.model = embedder[e].model]]
<1> DEFINE i == embedder[e].doc
<1>1. i \in DocIds /\ embedder[e].model \in Models
  BY DEF TypeInv, EmbedderOK, MarkIndexed, EmbedderAt
<1>2. CASE Live(i)
  <2>1. docs[i] \in Row
    BY <1>1, <1>2, LiveRow DEF TypeInv
  <2>2. docs' = [docs EXCEPT ![i] = [docs[i] EXCEPT !.model = embedder[e].model]]
    BY <1>2 DEF MarkIndexed, Model
  <2> QED BY <1>1, <1>2, <2>1, <2>2
<1>3. CASE ~Live(i)
  BY <1>3 DEF MarkIndexed
<1> QED BY <1>2, <1>3

LEMMA SourceStep ==
    ASSUME TypeInv, SourceInv, SlugInv, OneSlugPerSource, [Next]_vars
    PROVE  SourceInv' /\ SlugInv'
<1>1. ASSUME UNCHANGED <<docs, ingester>> PROVE SourceInv' /\ SlugInv'
  BY <1>1, SourceQuiet DEF Live
<1>2. ASSUME NEW e \in Embedders, MarkIndexed(e) PROVE SourceInv' /\ SlugInv'
  <2>1. ingester' = ingester
    BY <1>2 DEF MarkIndexed, OnlyEmbedder
  <2>2. CASE docs' = docs
    BY <1>1, <2>1, <2>2
  <2>3. ASSUME NEW i \in DocIds, docs[i] \in Row,
               docs' = [docs EXCEPT ![i] = [docs[i] EXCEPT !.model = embedder[e].model]]
        PROVE  SourceInv' /\ SlugInv'
    <3> DEFINE row == [docs[i] EXCEPT !.model = embedder[e].model]
    <3>1. /\ row.slug = docs[i].slug /\ row.version = docs[i].version
          /\ row.uri = docs[i].uri /\ row.status = docs[i].status
      BY <2>3 DEF Row
    <3>2. docs'[i] = row /\ \A j \in DocIds : j # i => docs'[j] = docs[j]
      BY <2>3 DEF TypeInv, TypeOK
    <3> HIDE DEF row
    <3> QED BY <2>1, <3>1, <3>2, SourceQuiet DEF Live
  <2> QED BY <1>2, <2>2, <2>3, MarkRow
<1>3. ASSUME NEW e \in Embedders, EmbedStep(e) \/ LoseBatch(e) PROVE SourceInv' /\ SlugInv'
  BY <1>1, <1>2, <1>3
  DEF EmbedStep, StartBatch, SaveChunk, CountLeftover, EndBatch, LoseBatch, Tables, OnlyEmbedder
<1>4. ASSUME NEW i \in DocIds, DeleteDocument(i) PROVE SourceInv' /\ SlugInv'
  <2>1. docs[i] \in Row /\ docs' = [docs EXCEPT ![i] = [docs[i] EXCEPT !.status = "deleted"]]
    BY <1>4, LiveRow DEF DeleteDocument, TypeInv
  <2>2. docs'[i].status = "deleted" /\ \A j \in DocIds : j # i => docs'[j] = docs[j]
    BY <2>1 DEF TypeInv, TypeOK, Row
  <2> QED BY <1>4, <2>2, SourceQuiet DEF DeleteDocument, Live
<1>5. CASE UNCHANGED vars
  BY <1>1, <1>5 DEF vars
<1> QED BY <1>3, <1>4, <1>5, SourceIngest DEF Next

LEMMA SourceInit == Init => SourceInv /\ SlugInv
BY DEF Init, SourceInv, Serialized, SourceNamesSlug, RowIsCurrent, OnlyFoundDocument, OneDocument,
       SlugInv, Live, NoRow, At, IdleIngester, Found

\* A source that always hints one slug is one document, without a unique index on
\* source_uri: the advisory lock of the slug serializes its transactions, and the
\* row each of them found is still current when it commits.
THEOREM OnePerSource == Spec => []OneDocumentPerSource
<1> DEFINE Sources == OneSlugPerSource => SourceInv /\ SlugInv
<1>1. Init => Sources
  BY SourceInit
<1>2. TypeInv /\ Sources /\ [Next]_vars => Sources'
  BY SourceStep DEF OneSlugPerSource
<1>3. Sources => OneDocumentPerSource
  BY DEF SourceInv, OneDocument, OneDocumentPerSource
<1> HIDE DEF Sources
<1> QED BY TypeCorrect, <1>1, <1>2, <1>3, PTL DEF Spec

------------------------------------------------------------------------------
\* The store implements CorpusRevisions.

\* What a table d of documents says of slug s: an entry of Revisions.
Entry(row) == [version |-> row.version, body |-> row.body, model |-> row.model]
Names(d, i, s) == d[i].status = "live" /\ d[i].slug = s
EntryOf(d, s) ==
    IF \E i \in DocIds : Names(d, i, s)
    THEN Entry(d[CHOOSE i \in DocIds : Names(d, i, s)])
    ELSE None

LEMMA RevisionsByEntry ==
    /\ Revisions = [s \in Slugs |-> EntryOf(docs, s)]
    /\ Revisions' = [s \in Slugs |-> EntryOf(docs', s)]
BY DEF Revisions, EntryOf, Entry, Names, Live

\* The entry of a slug is that of the one document it names.
LEMMA EntryNamed ==
    ASSUME NEW d, NEW s, NEW i \in DocIds, Names(d, i, s),
           \A j \in DocIds : Names(d, j, s) => j = i
    PROVE  EntryOf(d, s) = Entry(d[i])
<1>1. (CHOOSE j \in DocIds : Names(d, j, s)) = i
  OBVIOUS
<1> QED BY <1>1 DEF EntryOf

\* A step that writes one row changes the entry of its slug only.
LEMMA OneEntry ==
    ASSUME SlugInv, SlugInv', NEW i \in DocIds, NEW s \in Slugs,
           \A j \in DocIds : j # i => docs'[j] = docs[j],
           Live(i) => docs[i].slug = s, Live(i)' => docs'[i].slug = s
    PROVE  Revisions' = [Revisions EXCEPT ![s] = EntryOf(docs', s)]
<1>1. ASSUME NEW t \in Slugs, t # s PROVE EntryOf(docs', t) = EntryOf(docs, t)
  <2>1. \A j \in DocIds : Names(docs', j, t) <=> Names(docs, j, t)
    BY <1>1 DEF Names, Live
  <2>2. CASE \E j \in DocIds : Names(docs, j, t)
    <3>1. PICK j \in DocIds : Names(docs, j, t)
      BY <2>2
    <3>2. j # i /\ docs'[j] = docs[j]
      BY <1>1, <3>1 DEF Names, Live
    <3>3. /\ \A k \in DocIds : Names(docs, k, t) => k = j
          /\ \A k \in DocIds : Names(docs', k, t) => k = j
      BY <2>1, <3>1 DEF SlugInv, Names, Live
    <3>4. EntryOf(docs, t) = Entry(docs[j]) /\ EntryOf(docs', t) = Entry(docs'[j])
      BY <2>1, <3>1, <3>3, EntryNamed
    <3> QED BY <3>2, <3>4
  <2>3. CASE ~\E j \in DocIds : Names(docs, j, t)
    BY <2>1, <2>3 DEF EntryOf
  <2> QED BY <2>2, <2>3
<1> QED BY <1>1, RevisionsByEntry

LEMMA RevisionsInit == Init => Promise!InitCorpus
<1> SUFFICES ASSUME Init PROVE Revisions = [s \in Slugs |-> None]
  BY DEF Promise!InitCorpus
<1>1. \A s \in Slugs, i \in DocIds : ~Names(docs, i, s)
  BY DEF Init, Names, NoRow
<1> QED BY <1>1, RevisionsByEntry DEF EntryOf

LEMMA RevisionStep ==
    ASSUME TypeInv, SourceInv, SlugInv, OneSlugPerSource, [Next]_vars
    PROVE  Promise!NextCorpus \/ UNCHANGED Revisions
<1>0. TypeOK /\ SlugInv' /\ docs \in [DocIds -> Row \cup {NoRow}]
  BY SourceStep DEF TypeInv, TypeOK
<1>1. docs' = docs => UNCHANGED Revisions
  BY RevisionsByEntry
\* The entry of a live document.
<1>2. ASSUME NEW i \in DocIds, Live(i)
      PROVE  /\ docs[i] \in Row /\ docs[i].slug \in Slugs
             /\ Revisions[docs[i].slug] = Entry(docs[i]) /\ Promise!Named(docs[i].slug)
  <2>1. docs[i] \in Row
    BY <1>0, <1>2, LiveRow
  <2>2. docs[i].slug \in Slugs /\ Entry(docs[i]) \in Promise!Revision
    BY <2>1 DEF Row, Entry, Promise!Revision
  <2>3. EntryOf(docs, docs[i].slug) = Entry(docs[i])
    BY <1>2, EntryNamed DEF Names, SlugInv, Live
  <2> QED BY <2>1, <2>2, <2>3, RevisionsByEntry, NoneIsNoRevision DEF Promise!Named
\* A write of the row of a live document that keeps its slug.
<1>3. ASSUME NEW i \in DocIds, Live(i), NEW row, row.slug = docs[i].slug, row.status = "live",
             docs' = [docs EXCEPT ![i] = row]
      PROVE  Revisions' = [Revisions EXCEPT ![docs[i].slug] = Entry(row)]
  <2>1. docs'[i] = row /\ \A j \in DocIds : j # i => docs'[j] = docs[j]
    BY <1>0, <1>3
  <2>2. EntryOf(docs', docs[i].slug) = Entry(row)
    <3>1. \A j \in DocIds : Names(docs', j, docs[i].slug) => j = i
      BY <1>3, <2>1 DEF Names, SlugInv, Live
    <3>2. Names(docs', i, docs[i].slug)
      BY <1>3, <2>1 DEF Names
    <3> QED BY <2>1, <3>1, <3>2, EntryNamed
  <2>3. docs[i].slug \in Slugs
    BY <1>2, <1>3
  <2> QED BY <1>0, <1>3, <2>1, <2>2, <2>3, OneEntry DEF Live
<1>4. ASSUME NEW w \in Ingesters, CommitUpdate(w) PROVE Promise!NextCorpus
  <2> DEFINE i == ingester[w].doc
             s == docs[i].slug
  <2>1. /\ i \in DocIds /\ Live(i) /\ In(w) \in Input
        /\ ingester[w].row.version = docs[i].version
    BY <1>4, InputType
    DEF TypeInv, IngesterOK, CommitUpdate, At, In, Found, SourceInv, RowIsCurrent
  <2>2. docs' = [docs EXCEPT ![i] = Updated(w)]
    BY <1>4 DEF CommitUpdate
  <2>3. /\ Updated(w).slug = s /\ Updated(w).status = "live"
        /\ Entry(Updated(w)) = [version |-> docs[i].version + 1, body |-> In(w).body, model |-> None]
    <3>1. docs[i] \in Row /\ docs[i].status = "live"
      BY <1>2, <2>1 DEF Live
    <3>2. /\ Updated(w).slug = s /\ Updated(w).status = "live"
          /\ Updated(w).version = docs[i].version + 1 /\ Updated(w).body = In(w).body
          /\ Updated(w).model = None
      BY <2>1, <3>1 DEF Updated, Row
    <3> QED BY <3>2 DEF Entry
  <2>4. s \in Slugs /\ Promise!Named(s) /\ Revisions[s].version = docs[i].version
    <3>1. s \in Slugs /\ Promise!Named(s) /\ Revisions[s] = Entry(docs[i])
      BY <1>2, <2>1
    <3>2. Entry(docs[i]).version = docs[i].version
      BY DEF Entry
    <3> QED BY <3>1, <3>2
  <2>5. Revisions' = [Revisions EXCEPT ![s] = Entry(Updated(w))]
    BY <1>3, <2>1, <2>2, <2>3
  <2>6. In(w).body \in Bodies
    BY <2>1 DEF Input
  <2> HIDE DEF i, s
  <2>7. Promise!Revise(s, In(w).body)
    BY <2>3, <2>4, <2>5 DEF Promise!Revise
  <2> QED BY <2>4, <2>6, <2>7 DEF Promise!NextCorpus
<1>5. ASSUME NEW w \in Ingesters, CommitInsert(w) PROVE Promise!NextCorpus \/ UNCHANGED Revisions
  <2>1. CASE UNCHANGED Tables
    BY <1>1, <2>1 DEF Tables
  <2>2. CASE /\ \A j \in DocIds : ~(Live(j) /\ docs[j].slug = ingester[w].slug)
             /\ \E i \in DocIds : docs[i].status = "unused"
             /\ docs' = [docs EXCEPT ![NewId] = NewRow(w)]
    <3> DEFINE s == ingester[w].slug
    <3>1. NewId \in DocIds /\ ~Live(NewId)
      BY <2>2 DEF NewId, Live
    <3>2. s \in Slugs /\ In(w) \in Input
      BY <1>5, InputType DEF CommitInsert, At, TypeInv, IngesterOK, In
    <3>3. docs'[NewId] = NewRow(w) /\ \A j \in DocIds : j # NewId => docs'[j] = docs[j]
      BY <1>0, <2>2, <3>1
    <3>4. /\ NewRow(w).slug = s /\ NewRow(w).status = "live"
          /\ Entry(NewRow(w)) = [version |-> 1, body |-> In(w).body, model |-> None]
      BY DEF NewRow, Entry
    <3>5. EntryOf(docs', s) = Entry(NewRow(w))
      <4>1. \A j \in DocIds : Names(docs', j, s) => j = NewId
        BY <2>2, <3>3 DEF Names, Live
      <4>2. Names(docs', NewId, s)
        BY <3>3, <3>4 DEF Names
      <4> QED BY <3>1, <3>3, <4>1, <4>2, EntryNamed
    <3>6. Revisions' = [Revisions EXCEPT ![s] = EntryOf(docs', s)]
      BY <1>0, <3>1, <3>2, <3>3, <3>4, OneEntry
    <3>7. ~Promise!Named(s)
      <4>1. \A j \in DocIds : ~Names(docs, j, s)
        BY <2>2 DEF Names, Live
      <4> QED BY <3>2, <4>1, RevisionsByEntry DEF EntryOf, Promise!Named
    <3>8. In(w).body \in Bodies
      BY <3>2 DEF Input
    <3>9. Promise!Add(s, In(w).body)
      BY <3>4, <3>5, <3>6, <3>7 DEF Promise!Add
    <3> QED BY <3>2, <3>8, <3>9 DEF Promise!NextCorpus
  <2> QED BY <1>5, <2>1, <2>2 DEF CommitInsert
<1>6. ASSUME NEW e \in Embedders, MarkIndexed(e) PROVE Promise!NextCorpus \/ UNCHANGED Revisions
  <2>1. ASSUME NEW i \in DocIds, Live(i), docs[i] \in Row, embedder[e].model \in Models,
               docs' = [docs EXCEPT ![i] = [docs[i] EXCEPT !.model = embedder[e].model]]
        PROVE  Promise!NextCorpus
    <3> DEFINE row == [docs[i] EXCEPT !.model = embedder[e].model]
               s == docs[i].slug
    <3>1. row.slug = s /\ row.status = "live" /\ Entry(row) = [Entry(docs[i]) EXCEPT !.model = embedder[e].model]
      BY <2>1 DEF Row, Entry, Live
    <3>2. Revisions' = [Revisions EXCEPT ![s] = Entry(row)]
      BY <1>3, <2>1, <3>1
    <3>3. s \in Slugs /\ Promise!Named(s) /\ Revisions[s] = Entry(docs[i])
      BY <1>2, <2>1
    <3> HIDE DEF row, s
    <3>4. Promise!Index(s, embedder[e].model)
      BY <3>1, <3>2, <3>3 DEF Promise!Index
    <3> QED BY <2>1, <3>3, <3>4 DEF Promise!NextCorpus
  <2> QED BY <1>1, <1>6, <2>1, MarkRow
<1>7. ASSUME NEW i \in DocIds, DeleteDocument(i) PROVE Promise!NextCorpus
  <2> DEFINE s == docs[i].slug
  <2>1. Live(i) /\ docs' = [docs EXCEPT ![i] = [docs[i] EXCEPT !.status = "deleted"]]
    BY <1>7 DEF DeleteDocument
  <2>2. docs[i] \in Row /\ s \in Slugs /\ Promise!Named(s)
    BY <1>2, <2>1
  <2>3. docs'[i].status = "deleted" /\ \A j \in DocIds : j # i => docs'[j] = docs[j]
    BY <1>0, <2>1, <2>2 DEF Row
  <2>4. \A j \in DocIds : ~Names(docs', j, s)
    BY <2>1, <2>3 DEF Names, SlugInv, Live
  <2>5. Revisions' = [Revisions EXCEPT ![s] = EntryOf(docs', s)] /\ EntryOf(docs', s) = None
    BY <1>0, <2>2, <2>3, <2>4, OneEntry DEF Live, EntryOf
  <2> HIDE DEF s
  <2> QED BY <2>2, <2>5 DEF Promise!Remove, Promise!NextCorpus
<1>8. ASSUME NEW e \in Embedders, EmbedStep(e) \/ LoseBatch(e)
      PROVE  Promise!NextCorpus \/ UNCHANGED Revisions
  BY <1>1, <1>6, <1>8 DEF EmbedStep, StartBatch, SaveChunk, CountLeftover, EndBatch, LoseBatch, Tables
<1>9. ASSUME NEW w \in Ingesters, (\E in \in Inputs : Begin(w, in)) \/ IngestStep(w)
      PROVE  Promise!NextCorpus \/ UNCHANGED Revisions
  BY <1>1, <1>4, <1>5, <1>9
  DEF Begin, StartIngest, IngestStep, LookupUri, LookupSlug, Compare, UpdateRow, ChooseSlug, Tables
<1>10. CASE UNCHANGED vars
  BY <1>1, <1>10 DEF vars
<1> QED BY <1>7, <1>8, <1>9, <1>10 DEF Next

\* Where every source hints one slug the store keeps its promise to the graph
\* sidecar: a slug is one document, each commit of a changed body advances its
\* version by one and forgets its model, and nothing else touches a version.
THEOREM StoreImplementsRevisions ==
    ASSUME OneSlugPerSource
    PROVE  Spec => ImplementsRevisions
<1>1. TypeInv /\ SourceInv /\ SlugInv /\ [Next]_vars => SourceInv' /\ SlugInv'
  BY SourceStep
<1>2. TypeInv /\ SourceInv /\ SlugInv /\ [Next]_vars => [Promise!NextCorpus]_Revisions
  BY RevisionStep
<1> QED BY TypeCorrect, SourceInit, RevisionsInit, <1>1, <1>2, PTL
        DEF Spec, ImplementsRevisions, Promise!SpecCorpus
==============================================================================
