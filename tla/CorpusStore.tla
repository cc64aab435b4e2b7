---------------------------- MODULE CorpusStore ----------------------------
(***************************************************************************)
(* The durable corpus store of the web application: Postgres rows for      *)
(* documents and their chunks, written by concurrent ingest requests, by   *)
(* index-loop requests that embed pending chunks, and by deletions.        *)
(*                                                                         *)
(* An ingest is one READ COMMITTED transaction; each statement that reads  *)
(* is a step, the rows it writes become visible at its commit, and from    *)
(* its UPDATE until then it holds the row lock of the document.  An        *)
(* embedding request runs its statements outside any transaction.          *)
(*                                                                         *)
(* Titles, paths and languages are left out: refreshing them changes       *)
(* neither body, version nor chunks.                                       *)
(***************************************************************************)
EXTENDS Integers, FiniteSets

CONSTANTS
    Ingesters,    \* concurrent ingest requests
    Embedders,    \* concurrent embedding requests
    Inputs,       \* what requests ingest: the fields of Input below
    Uris, Bases, Corpora, Kinds, Bodies,
    Parts,        \* [Bodies -> Nat \ {0}]: chunks a body is cut into
    DocIds,       \* random document ids, never reused
    Suffixes,     \* random slug suffixes
    Models,       \* embedding models
    BatchSize,    \* chunks per embedding request
    MaxIngests, MaxDeletes, MaxFaults,  \* bounds
    None

\* slugify(slugHint || title), source_uri if any, corpus, kind and text.
Input == [base : Bases, uri : Uris \cup {None}, corpus : Corpora, kind : Kinds,
          body : Bodies, seed : BOOLEAN]

ASSUME CorpusStoreAssumption ==
    /\ Inputs \subseteq Input
    /\ Parts \in [Bodies -> Nat \ {0}]
    /\ BatchSize \in Nat \ {0}
    /\ MaxIngests \in Nat /\ MaxDeletes \in Nat /\ MaxFaults \in Nat
    /\ None \notin Uris \cup Bases \cup DocIds \cup Models \cup Suffixes

VARIABLES
    docs,         \* documents: one row per id, with its status
    chunks,       \* the chunks rows
    ingester,     \* each ingest transaction
    embedder,     \* each embedding request
    ingests, deletes, faults

vars == <<docs, chunks, ingester, embedder, ingests, deletes, faults>>

\* A slug is its base, or the base with a random suffix.
Slugs == Bases \X (Suffixes \cup {None})

Live(i) == docs[i].status = "live"
ChunksOf(i) == {c \in chunks : c.doc = i}

\* An id names a chunk: each replacement of a document's chunks draws new ids.
Cut(i, gen, in) ==
    {[doc |-> i, gen |-> gen, part |-> p, body |-> in.body, kind |-> in.kind, model |-> None] :
        p \in 1..Parts[in.body]}
Id(c) == <<c.doc, c.gen, c.part>>

IdleIngester == [pc |-> "idle", input |-> None, doc |-> None, row |-> None, slug |-> None]
IdleEmbedder == [pc |-> "idle", model |-> None, todo |-> {}, touched |-> {}, doc |-> None]
NoRow == [status |-> "unused"]

Init ==
    /\ docs = [i \in DocIds |-> NoRow]
    /\ chunks = {}
    /\ ingester = [w \in Ingesters |-> IdleIngester]
    /\ embedder = [e \in Embedders |-> IdleEmbedder]
    /\ ingests = 0 /\ deletes = 0 /\ faults = 0

------------------------------------------------------------------------------
\* Ingest: upsertDurable.

In(w) == ingester[w].input
At(w, pc) == ingester[w].pc = pc
Goto(w, pc) == ingester' = [ingester EXCEPT ![w].pc = pc]
EndIngest(w) == ingester' = [ingester EXCEPT ![w] = IdleIngester]
RowLocked(i) == \E w \in Ingesters : At(w, "updated") /\ ingester[w].doc = i
Tables == <<docs, chunks>>
Counters == <<ingests, deletes, faults>>

\* pg_advisory_xact_lock(hashtext(slugBase)), held until the transaction ends.
LockedBase(b) == \E w \in Ingesters : ~At(w, "idle") /\ In(w).base = b

StartIngest(w, in) ==
    /\ At(w, "idle")
    /\ ingests < MaxIngests
    /\ ingester' = [ingester EXCEPT ![w].pc = "locked", ![w].input = in]
    /\ ingests' = ingests + 1
    /\ UNCHANGED <<Tables, embedder, deletes, faults>>

\* Mutant: no advisory lock.
BeginUnserialized(w, in) == StartIngest(w, in)

Begin(w, in) == ~LockedBase(in.base) /\ StartIngest(w, in)

\* A statement finds the row of a document, with the columns it reads.
Finds(w, i) ==
    ingester' = [ingester EXCEPT ![w].pc = "found", ![w].doc = i, ![w].row = docs[i]]

LookupUri(w) ==
    LET byUri == {i \in DocIds : Live(i) /\ docs[i].uri = In(w).uri /\ In(w).uri # None}
    IN  /\ At(w, "locked")
        /\ \/ \E i \in byUri : Finds(w, i)
           \/ byUri = {} /\ Goto(w, "no_uri")
        /\ UNCHANGED <<Tables, embedder, Counters>>

\* The slug fallback stays within the corpus.
LookupSlug(w) ==
    LET bySlug == {i \in DocIds : /\ Live(i)
                                  /\ docs[i].slug = <<In(w).base, None>>
                                  /\ docs[i].corpus = In(w).corpus}
    IN  /\ At(w, "no_uri")
        /\ \/ \E i \in bySlug : Finds(w, i)
           \/ bySlug = {} /\ Goto(w, "new")
        /\ UNCHANGED <<Tables, embedder, Counters>>

\* The same text in the same corpus, still chunked as asked, is left alone.
Unchanged(w) ==
    LET seen == ingester[w].row
    IN  /\ seen.body = In(w).body
        /\ seen.corpus = In(w).corpus
        /\ \E c \in ChunksOf(ingester[w].doc) : c.kind = In(w).kind

Compare(w) ==
    /\ At(w, "found")
    /\ IF Unchanged(w) THEN EndIngest(w) ELSE Goto(w, "changed")
    /\ UNCHANGED <<Tables, embedder, Counters>>

\* UPDATE documents waits for the row lock.  When the row is gone it updates
\* nothing, and inserting the chunks breaks their foreign key: the ingest fails.
UpdateRow(w) ==
    LET i == ingester[w].doc
    IN  /\ At(w, "changed")
        /\ ~RowLocked(i)
        /\ IF Live(i) THEN Goto(w, "updated") ELSE EndIngest(w)
        /\ UNCHANGED <<Tables, embedder, Counters>>

\* Mutant: the embedding model survives a revision.
UpdatedKeepsModel(w) ==
    LET in == In(w)
        i == ingester[w].doc
    IN  [docs[i] EXCEPT !.body = in.body, !.version = ingester[w].row.version + 1,
                        !.uri = IF in.uri = None THEN ingester[w].row.uri ELSE in.uri,
                        !.corpus = in.corpus, !.seed = in.seed, !.gen = @ + 1]

\* The columns the update sets.  The version follows the one read earlier.
Updated(w) ==
    LET in == In(w)
        i == ingester[w].doc
    IN  [docs[i] EXCEPT !.body = in.body, !.version = ingester[w].row.version + 1,
                        !.uri = IF in.uri = None THEN ingester[w].row.uri ELSE in.uri,
                        !.corpus = in.corpus, !.seed = in.seed, !.gen = @ + 1, !.model = None]

\* Mutant: old chunks are not deleted.
AppendChunks(i, gen, in) == chunks \cup Cut(i, gen, in)

ReplaceChunks(i, gen, in) == (chunks \ ChunksOf(i)) \cup Cut(i, gen, in)

CommitUpdate(w) ==
    LET i == ingester[w].doc
    IN  /\ At(w, "updated")
        /\ docs' = [docs EXCEPT ![i] = Updated(w)]
        /\ chunks' = ReplaceChunks(i, docs[i].gen + 1, In(w))
        /\ EndIngest(w)
        /\ UNCHANGED <<embedder, Counters>>

\* A new document takes the plain slug unless another corpus has it.
ChooseSlug(w) ==
    LET in == In(w)
        taken == {docs[i].slug : i \in {i \in DocIds : Live(i)}}
        fresh == {s \in Suffixes : \A i \in DocIds :
                    docs[i].status # "unused" => docs[i].slug # <<in.base, s>>}
    IN  /\ At(w, "new")
        /\ \E s \in IF <<in.base, None>> \in taken THEN fresh ELSE {None} :
              ingester' = [ingester EXCEPT ![w].pc = "named", ![w].slug = <<in.base, s>>]
        /\ UNCHANGED <<Tables, embedder, Counters>>

\* A random id: ids differ in nothing but their names.
NewId == CHOOSE i \in DocIds : docs[i].status = "unused"

\* Mutant: versions count from zero.
NewRowFromZero(w) ==
    LET in == In(w)
    IN  [status |-> "live", slug |-> ingester[w].slug, uri |-> in.uri, corpus |-> in.corpus,
         seed |-> in.seed, body |-> in.body, version |-> 0, model |-> None, gen |-> 1]

NewRow(w) ==
    LET in == In(w)
    IN  [status |-> "live", slug |-> ingester[w].slug, uri |-> in.uri, corpus |-> in.corpus,
         seed |-> in.seed, body |-> in.body, version |-> 1, model |-> None, gen |-> 1]

\* slug is UNIQUE: a name another transaction has committed fails the insert.
CommitInsert(w) ==
    /\ At(w, "named")
    /\ IF \E j \in DocIds : Live(j) /\ docs[j].slug = ingester[w].slug
       THEN UNCHANGED Tables
       ELSE /\ \E i \in DocIds : docs[i].status = "unused"
            /\ docs' = [docs EXCEPT ![NewId] = NewRow(w)]
            /\ chunks' = ReplaceChunks(NewId, 1, In(w))
    /\ EndIngest(w)
    /\ UNCHANGED <<embedder, Counters>>

\* DELETE waits for the row lock, cascades to the chunks and spares the seeds.
DeleteDocument(i) ==
    /\ Live(i) /\ ~docs[i].seed /\ ~RowLocked(i)
    /\ deletes < MaxDeletes
    /\ deletes' = deletes + 1
    /\ docs' = [docs EXCEPT ![i].status = "deleted"]
    /\ chunks' = chunks \ ChunksOf(i)
    /\ UNCHANGED <<ingester, embedder, ingests, faults>>

------------------------------------------------------------------------------
\* Embedding: embedPendingBatch and saveChunkEmbeddings.

EmbedderAt(e, pc) == embedder[e].pc = pc
Model(e) == embedder[e].model
Pending(m) == {c \in chunks : c.model # m}
OnlyEmbedder == UNCHANGED <<ingester, ingests, deletes, faults>>

\* The vectors of a batch are computed before anything is saved.
StartBatch(e, m) ==
    LET pending == {Id(c) : c \in Pending(m)}
    IN  /\ EmbedderAt(e, "idle")
        /\ pending # {}
        /\ \E batch \in SUBSET pending :
              /\ \/ Cardinality(batch) = BatchSize
                 \/ batch = pending /\ Cardinality(batch) < BatchSize
              /\ embedder' = [embedder EXCEPT ![e].pc = "saving", ![e].model = m,
                                              ![e].todo = batch]
        /\ UNCHANGED <<Tables, ingester, ingests, deletes, faults>>

\* A chunk replaced since it was listed has no row to update.
SaveChunk(e, k) ==
    LET rows == {c \in chunks : Id(c) = k}
    IN  /\ EmbedderAt(e, "saving")
        /\ k \in embedder[e].todo
        /\ chunks' = (chunks \ rows) \cup {[c EXCEPT !.model = Model(e)] : c \in rows}
        /\ embedder' = [embedder EXCEPT ![e].todo = @ \ {k},
                                        ![e].touched = @ \cup {c.doc : c \in rows}]
        /\ UNCHANGED docs /\ OnlyEmbedder

\* Once all are saved: a touched document with chunks left over is skipped.
CountLeftover(e, i) ==
    /\ EmbedderAt(e, "saving")
    /\ embedder[e].todo = {} /\ i \in embedder[e].touched
    /\ embedder' = IF \E c \in ChunksOf(i) : c.model # Model(e)
                   THEN [embedder EXCEPT ![e].touched = @ \ {i}]
                   ELSE [embedder EXCEPT ![e].touched = @ \ {i}, ![e].pc = "counted", ![e].doc = i]
    /\ UNCHANGED Tables /\ OnlyEmbedder

\* Mutant: the first complete document ends the request.
MarkOnlyFirst(e) ==
    LET i == embedder[e].doc
    IN  /\ EmbedderAt(e, "counted")
        /\ ~RowLocked(i)
        /\ docs' = IF Live(i) THEN [docs EXCEPT ![i].model = Model(e)] ELSE docs
        /\ embedder' = [embedder EXCEPT ![e] = IdleEmbedder]
        /\ UNCHANGED chunks /\ OnlyEmbedder

\* A statement of its own: whatever the row holds by now is marked as embedded.
MarkIndexed(e) ==
    LET i == embedder[e].doc
    IN  /\ EmbedderAt(e, "counted")
        /\ ~RowLocked(i)
        /\ docs' = IF Live(i) THEN [docs EXCEPT ![i].model = Model(e)] ELSE docs
        /\ embedder' = [embedder EXCEPT ![e].pc = "saving", ![e].doc = None]
        /\ UNCHANGED chunks /\ OnlyEmbedder

EndBatch(e) ==
    /\ EmbedderAt(e, "saving")
    /\ embedder[e].todo = {} /\ embedder[e].touched = {}
    /\ embedder' = [embedder EXCEPT ![e] = IdleEmbedder]
    /\ UNCHANGED Tables /\ OnlyEmbedder

\* The process stops, or a statement fails: what was saved stays.
LoseBatch(e) ==
    /\ ~EmbedderAt(e, "idle")
    /\ faults < MaxFaults
    /\ faults' = faults + 1
    /\ embedder' = [embedder EXCEPT ![e] = IdleEmbedder]
    /\ UNCHANGED <<Tables, ingester, ingests, deletes>>

------------------------------------------------------------------------------
IngestStep(w) ==
    \/ LookupUri(w) \/ LookupSlug(w) \/ Compare(w)
    \/ UpdateRow(w) \/ CommitUpdate(w)
    \/ ChooseSlug(w) \/ CommitInsert(w)

EmbedStep(e) ==
    \/ \E m \in Models : StartBatch(e, m)
    \/ \E k \in embedder[e].todo : SaveChunk(e, k)
    \/ \E i \in embedder[e].touched : CountLeftover(e, i)
    \/ MarkIndexed(e) \/ EndBatch(e)

Next ==
    \/ \E w \in Ingesters : (\E in \in Inputs : Begin(w, in)) \/ IngestStep(w)
    \/ \E e \in Embedders : EmbedStep(e) \/ LoseBatch(e)
    \/ \E i \in DocIds : DeleteDocument(i)

Spec == Init /\ [][Next]_vars

\* A request that has begun runs on, and the index loop of an open console asks
\* for another batch while chunks are pending.
FairSpec ==
    /\ Spec
    /\ \A w \in Ingesters : WF_vars(IngestStep(w))
    /\ \A e \in Embedders : WF_vars(EmbedStep(e))

------------------------------------------------------------------------------
\* Properties.

Row == [status : {"live", "deleted"}, slug : Slugs, uri : Uris \cup {None}, corpus : Corpora,
        seed : BOOLEAN, body : Bodies, version : Nat \ {0}, model : Models \cup {None},
        gen : Nat \ {0}]
Chunk == [doc : DocIds, gen : Nat \ {0}, part : Nat \ {0}, body : Bodies, kind : Kinds,
          model : Models \cup {None}]
Ids == DocIds \X (Nat \ {0}) \X (Nat \ {0})

IngesterState ==
    [pc : {"idle", "locked", "no_uri", "found", "changed", "updated", "new", "named"},
     input : Inputs \cup {None}, doc : DocIds \cup {None}, row : Row \cup {None},
     slug : Slugs \cup {None}]
EmbedderState ==
    [pc : {"idle", "saving", "counted"}, model : Models \cup {None}, todo : SUBSET Ids,
     touched : SUBSET DocIds, doc : DocIds \cup {None}]

\* The shape of the tables and of the requests.
TypeOK ==
    /\ docs \in [DocIds -> Row \cup {NoRow}]
    /\ chunks \subseteq Chunk
    /\ ingester \in [Ingesters -> IngesterState]
    /\ embedder \in [Embedders -> EmbedderState]
    /\ ingests \in 0..MaxIngests /\ deletes \in 0..MaxDeletes /\ faults \in 0..MaxFaults

\* Outside a transaction a document's chunks are exactly the cut of its body:
\* however ingests, embedding requests and deletions overlap, no reader finds a
\* passage of a replaced text, or one twice (replaceChunks).
ChunksCutFromBody ==
    /\ \A i \in DocIds :
          {[part |-> c.part, body |-> c.body] : c \in ChunksOf(i)} =
              IF Live(i) THEN [part : 1..Parts[docs[i].body], body : {docs[i].body}] ELSE {}
    /\ \A c, d \in chunks : c.doc = d.doc /\ c.part = d.part => c = d

\* The advisory lock is on the slug hint: it serializes the writers of one source
\* only when all of them hint the same slug, as GitHub files, issues and seeds do.
OneSlugPerSource ==
    \A a, b \in Inputs : a.uri = b.uri /\ a.uri # None => a.base = b.base

\* A source that always hints the same slug is one document, also when its first
\* ingests run at the same time: source_uri has no unique index.
OneDocumentPerSource ==
    OneSlugPerSource =>
        \A i, j \in DocIds :
            Live(i) /\ Live(j) /\ docs[i].uri = docs[j].uri /\ docs[i].uri # None => i = j

\* The store keeps what the graph sidecar relies on: a slug is one document, and
\* every replacement of a body advances its version and forgets its model.
Revisions == [s \in Slugs |->
    IF \E i \in DocIds : Live(i) /\ docs[i].slug = s
    THEN LET d == docs[CHOOSE i \in DocIds : Live(i) /\ docs[i].slug = s]
         IN  [version |-> d.version, body |-> d.body, model |-> d.model]
    ELSE None]
Promise == INSTANCE CorpusRevisions WITH corpus <- Revisions
ImplementsRevisions == Promise!SpecCorpus

ASSUME NoneIsNoRevision == None \notin Promise!Revision

\* Unless a request is lost halfway, the index loop leaves every chunk embedded
\* and every document marked so, whatever was ingested or deleted meanwhile.
\* (A request lost after its last chunk leaves the document unmarked for good:
\* no chunk is pending, so no later request touches it.)
EverythingIndexed ==
    <>[](\/ faults > 0
         \/ /\ \A c \in chunks : c.model # None
            /\ \A i \in DocIds : Live(i) => docs[i].model # None)
==============================================================================
