------------------------------ MODULE Processing ------------------------------
(***************************************************************************)
(* The processing workers of rag-platform: Celery tasks that take one      *)
(* document from REGISTERED to PUBLISHED by chunking its active version    *)
(* into Postgres and indexing the chunks in ChromaDB, while ingestion      *)
(* keeps registering new versions of it.                                   *)
(*                                                                         *)
(* One document: every statement of process_document and of the indexing   *)
(* service is keyed by one document id, so documents do not interact.      *)
(* ChromaDB is embedded in the processes that use it and made for one of   *)
(* them: what a write does while another process has the store open too is *)
(* not specified, here or there (chroma_store.py:12).  How Celery places   *)
(* its workers, threads of one process or a process each, is not fixed by  *)
(* the code either: every placement is modelled.                           *)
(* Each of the two transactions is one action: its statements wait for     *)
(* each other's rows, and none decides on what it reads.                   *)
(***************************************************************************)
EXTENDS Integers

CONSTANTS
    Workers,      \* Celery workers on the processing queue: one task at a time each
    Process,      \* [Workers -> process]: threads of one process, or a process each
    Tasks,        \* process_document tasks for the document
    Chunks,       \* chunk ids: a function of document, position and text
    MaxVersions,  \* bound: versions of the document
    Content,      \* [1..MaxVersions -> SUBSET Chunks]: what chunking a version yields
    MaxRetries,   \* max_retries of the task
    MaxFaults,    \* bound: failing calls
    MaxCrashes,   \* bound: processes lost
    None

VARIABLES
    active,       \* document_versions: the index of the active version
    lifecycle,    \* documents.lifecycle_state
    owner,        \* chunks: the version each chunk row belongs to, 0 without a row
    embedded,     \* chunks.is_embedded
    indexed,      \* chunks.is_indexed
    vectors,      \* ChromaDB: the version in each vector's metadata, 0 without a vector
    written,      \* every such entry a chunk has had
    opened,       \* the processes that have the store open
    task,         \* the broker's view of each task
    attempts,     \* retries of each task so far
    worker,       \* each worker's position, task and what it has read
    faults, crashes

rows == <<owner, embedded, indexed>>
store == <<vectors, written, opened>>
vars == <<active, lifecycle, rows, store, task, attempts, worker, faults, crashes>>

Versions == 1..MaxVersions
Processes == {Process[w] : w \in Workers}
Lifecycle == {"registered", "chunked", "published"}

\* Positions: the last call of process_document that returned; the calls of
\* index_document_chunks in between.
Indexing == {"chunked", "embedded", "cleaned", "added", "marked"}
Positions == {"idle", "loaded", "ready", "indexed"} \cup Indexing

ASSUME ProcessingAssumption ==
    /\ MaxVersions \in Nat \ {0}
    /\ Content \in [Versions -> SUBSET Chunks]
    /\ Process \in [Workers -> Processes]
    /\ MaxRetries \in Nat /\ MaxFaults \in Nat /\ MaxCrashes \in Nat
    /\ None \notin Tasks

IdleWorker == [pc |-> "idle", task |-> None, state |-> "registered", version |-> 1]

Init ==
    /\ active = 1
    /\ lifecycle = "registered"
    /\ owner = [c \in Chunks |-> 0]
    /\ embedded = {} /\ indexed = {}
    /\ vectors = [c \in Chunks |-> 0]
    /\ written = [c \in Chunks |-> {0}]
    /\ opened = {}
    /\ task = [t \in Tasks |-> "queued"]
    /\ attempts = [t \in Tasks |-> 0]
    /\ worker = [w \in Workers |-> IdleWorker]
    /\ faults = 0 /\ crashes = 0

------------------------------------------------------------------------------
\* The version a worker has read, and the chunks it made of it.
Version(w) == worker[w].version
Made(w) == Content[Version(w)]

Goto(w, pc) == worker' = [worker EXCEPT ![w].pc = pc]
NoFault == UNCHANGED <<faults, crashes>>
Document == <<active, lifecycle>>

EndTask(w, outcome) ==
    /\ task' = [task EXCEPT ![worker[w].task] = outcome]
    /\ worker' = [worker EXCEPT ![w] = IdleWorker]

\* success=False becomes a RetryableTaskError, which the task re-raises: the
\* task has failed and is acknowledged.
FailTask(w) == EndTask(w, "failed") /\ UNCHANGED attempts

\* Any other exception is retried, until max_retries.
RetryTask(w) ==
    LET t == worker[w].task
    IN  IF attempts[t] < MaxRetries
        THEN EndTask(w, "queued") /\ attempts' = [attempts EXCEPT ![t] = @ + 1]
        ELSE FailTask(w)

LoadDocument(w, t) ==
    /\ worker[w].pc = "idle"
    /\ task[t] = "queued"
    /\ task' = [task EXCEPT ![t] = "running"]
    /\ worker' = [worker EXCEPT ![w].pc = "loaded", ![w].task = t, ![w].state = lifecycle]
    /\ UNCHANGED <<Document, rows, store, attempts>> /\ NoFault

\* Mutant: the number of the next version is taken for that of the active one.
LoadNextVersion(w) ==
    /\ worker[w].pc = "loaded"
    /\ IF worker[w].state = "registered" /\ Content[active] # {}
       THEN /\ worker' = [worker EXCEPT ![w].pc = "ready", ![w].version = active + 1]
            /\ UNCHANGED <<task, attempts>>
       ELSE FailTask(w)
    /\ UNCHANGED <<Document, rows, store>> /\ NoFault

\* Mutant: any lifecycle state will do.
LoadVersionUnchecked(w) ==
    /\ worker[w].pc = "loaded"
    /\ IF Content[active] # {}
       THEN /\ worker' = [worker EXCEPT ![w].pc = "ready", ![w].version = active]
            /\ UNCHANGED <<task, attempts>>
       ELSE FailTask(w)
    /\ UNCHANGED <<Document, rows, store>> /\ NoFault

\* get_active_version sees commits that get_document did not.  The document must
\* have been REGISTERED, and its version must have text to chunk.
LoadVersion(w) ==
    /\ worker[w].pc = "loaded"
    /\ IF worker[w].state = "registered" /\ Content[active] # {}
       THEN /\ worker' = [worker EXCEPT ![w].pc = "ready", ![w].version = active]
            /\ UNCHANGED <<task, attempts>>
       ELSE FailTask(w)
    /\ UNCHANGED <<Document, rows, store>> /\ NoFault

\* Mutant: the chunks of the document, not of the version, are deleted first.
PersistOverDocument(w) ==
    /\ owner' = [c \in Chunks |-> IF c \in Made(w) THEN Version(w) ELSE 0]
    /\ embedded' = {} /\ indexed' = {}
    /\ lifecycle' = "chunked"

\* delete_chunks_for_version, then insert_chunks ON CONFLICT (chunk_id) DO
\* NOTHING: a chunk that another version already has keeps its row.
Persist(w) ==
    LET v == Version(w)
    IN  /\ owner' = [c \in Chunks |->
               IF owner[c] \notin {0, v} THEN owner[c]
               ELSE IF c \in Made(w) THEN v ELSE 0]
        /\ embedded' = {c \in embedded : owner[c] # v}
        /\ indexed' = {c \in indexed : owner[c] # v}
        /\ lifecycle' = "chunked"

PersistChunks(w) ==
    /\ worker[w].pc = "ready"
    /\ Persist(w)
    /\ Goto(w, "chunked")
    /\ UNCHANGED <<active, store, task, attempts>> /\ NoFault

\* embed_batch: all chunks before any write.
Embed(w) ==
    /\ worker[w].pc = "chunked"
    /\ Goto(w, "embedded")
    /\ UNCHANGED <<Document, rows, store, task, attempts>> /\ NoFault

\* A write to the store: its threads wait for each other, and the write does what
\* it should, as long as no other process has the store open.  Otherwise each
\* vector may be lost, stay, or come back as it once was.
Store(w, entries) ==
    /\ opened' = opened \cup {Process[w]}
    /\ written' = [c \in Chunks |-> written[c] \cup {entries[c]}]
    /\ IF opened \subseteq {Process[w]}
       THEN vectors' = entries
       ELSE /\ vectors' \in [Chunks -> 0..MaxVersions]
            /\ \A c \in Chunks : vectors'[c] \in written'[c]

\* vector_store.delete by document id: every version's vectors, if it works.
DeleteOldVectors(w) ==
    /\ worker[w].pc = "embedded"
    /\ Store(w, [c \in Chunks |-> 0])
    /\ Goto(w, "cleaned")
    /\ UNCHANGED <<Document, rows, task, attempts>> /\ NoFault

\* A call of the store fails before or after opening it.
MayOpen(w) == opened' \in {opened, opened \cup {Process[w]}}

DeleteFails(w) ==
    /\ worker[w].pc = "embedded"
    /\ faults < MaxFaults /\ faults' = faults + 1
    /\ MayOpen(w)
    /\ Goto(w, "cleaned")
    /\ UNCHANGED <<Document, rows, vectors, written, task, attempts, crashes>>

\* Mutant: chunks marked as indexed are not added again.
AddMissingVectors(w) ==
    /\ worker[w].pc = "cleaned"
    /\ Store(w, [c \in Chunks |-> IF c \in Made(w) \ indexed THEN Version(w) ELSE vectors[c]])
    /\ Goto(w, "added")
    /\ UNCHANGED <<Document, rows, task, attempts>> /\ NoFault

\* vector_store.add: an upsert by chunk id.
AddVectors(w) ==
    /\ worker[w].pc = "cleaned"
    /\ Store(w, [c \in Chunks |-> IF c \in Made(w) THEN Version(w) ELSE vectors[c]])
    /\ Goto(w, "added")
    /\ UNCHANGED <<Document, rows, task, attempts>> /\ NoFault

\* mark_embedded and mark_indexed commit one after the other, by chunk id.
WithRow(cs) == {c \in cs : owner[c] # 0}

MarkEmbedded(w) ==
    /\ worker[w].pc = "added"
    /\ embedded' = embedded \cup WithRow(Made(w))
    /\ Goto(w, "marked")
    /\ UNCHANGED <<Document, owner, indexed, store, task, attempts>> /\ NoFault

MarkIndexed(w) ==
    /\ worker[w].pc = "marked"
    /\ indexed' = indexed \cup WithRow(Made(w))
    /\ Goto(w, "indexed")
    /\ UNCHANGED <<Document, owner, embedded, store, task, attempts>> /\ NoFault

\* Mutant: the second state update is missing.
PublishIndexedOnly(w) ==
    /\ worker[w].pc = "indexed"
    /\ EndTask(w, "done")
    /\ UNCHANGED <<Document, rows, store, attempts>> /\ NoFault

\* INDEXED and PUBLISHED in one transaction.
Publish(w) ==
    /\ worker[w].pc = "indexed"
    /\ lifecycle' = "published"
    /\ EndTask(w, "done")
    /\ UNCHANGED <<active, rows, store, attempts>> /\ NoFault

------------------------------------------------------------------------------
\* Failures.

\* The embedder, the vector store or a mark_* call fails: success=False.
IndexingFails(w) ==
    /\ worker[w].pc \in Indexing \ {"embedded"}
    /\ faults < MaxFaults /\ faults' = faults + 1
    /\ FailTask(w)
    /\ IF worker[w].pc = "cleaned" THEN MayOpen(w) ELSE UNCHANGED opened
    /\ UNCHANGED <<Document, rows, vectors, written, crashes>>

\* A read fails, or a transaction does: rolled back, or committed without an
\* acknowledgement.  rollback() itself may raise, so the task fails or retries.
PostgresFails(w) ==
    /\ faults < MaxFaults /\ faults' = faults + 1
    /\ \/ /\ worker[w].pc = "loaded"
          /\ RetryTask(w)
          /\ UNCHANGED <<Document, rows>>
       \/ /\ worker[w].pc \in {"ready", "indexed"}
          /\ FailTask(w) \/ RetryTask(w)
          /\ UNCHANGED <<Document, rows>>
       \/ /\ worker[w].pc = "ready"
          /\ Persist(w)
          /\ FailTask(w) \/ RetryTask(w)
          /\ UNCHANGED active
       \/ /\ worker[w].pc = "indexed"
          /\ lifecycle' = "published"
          /\ FailTask(w) \/ RetryTask(w)
          /\ UNCHANGED <<active, rows>>
    /\ UNCHANGED <<store, crashes>>

\* A process dies with its workers and their tasks are redelivered; or it is
\* killed for a task past its time limit, as only a process of its own can be.
Running(p) == {w \in Workers : Process[w] = p}

ProcessLost(p) ==
    /\ crashes < MaxCrashes /\ crashes' = crashes + 1
    /\ \E w \in Running(p) : worker[w].pc # "idle"
    /\ \E outcome \in {"queued", "failed"} :
          /\ outcome = "failed" => \A v, w \in Running(p) : v = w
          /\ task' = [t \in Tasks |->
                IF \E w \in Running(p) : worker[w].task = t THEN outcome ELSE task[t]]
    /\ worker' = [w \in Workers |-> IF w \in Running(p) THEN IdleWorker ELSE worker[w]]
    /\ opened' = opened \ {p}
    /\ UNCHANGED <<Document, rows, vectors, written, attempts, faults>>

\* Ingestion commits a new version: upsert_document writes REGISTERED.
RegisterVersion ==
    /\ active < MaxVersions
    /\ active' = active + 1
    /\ lifecycle' = "registered"
    /\ UNCHANGED <<rows, store, task, attempts, worker>> /\ NoFault

Settled == \A t \in Tasks : task[t] \in {"done", "failed"}

Quiescent ==
    /\ Settled /\ \A w \in Workers : worker[w].pc = "idle"
    /\ UNCHANGED vars

Step(w) ==
    \/ \E t \in Tasks : LoadDocument(w, t)
    \/ LoadVersion(w) \/ PersistChunks(w) \/ Embed(w) \/ DeleteOldVectors(w)
    \/ AddVectors(w) \/ MarkEmbedded(w) \/ MarkIndexed(w) \/ Publish(w)

Fault(w) == DeleteFails(w) \/ IndexingFails(w) \/ PostgresFails(w)

Next ==
    \/ \E w \in Workers : Step(w) \/ Fault(w)
    \/ \E p \in Processes : ProcessLost(p)
    \/ RegisterVersion \/ Quiescent

Spec == Init /\ [][Next]_vars

\* A live worker keeps executing; faults and new versions are never owed.
FairSpec == Spec /\ \A w \in Workers : WF_vars(Step(w))

------------------------------------------------------------------------------
\* Properties.

\* Every variable has its type.
TypeOK ==
    /\ active \in Versions
    /\ lifecycle \in Lifecycle
    /\ owner \in [Chunks -> 0..MaxVersions]
    /\ embedded \subseteq Chunks /\ indexed \subseteq Chunks
    /\ vectors \in [Chunks -> 0..MaxVersions]
    /\ written \in [Chunks -> SUBSET (0..MaxVersions)]
    /\ opened \subseteq Processes
    /\ task \in [Tasks -> {"queued", "running", "done", "failed"}]
    /\ attempts \in [Tasks -> 0..MaxRetries]
    /\ worker \in [Workers -> [pc : Positions, task : Tasks \cup {None},
                               state : Lifecycle, version : Versions]]
    /\ faults \in 0..MaxFaults /\ crashes \in 0..MaxCrashes

\* A search hit can be traced: whatever overlaps, fails or dies, every vector's
\* chunk has its row in `chunks`.
VectorsHaveRows == \A c \in Chunks : vectors[c] # 0 => owner[c] # 0

\* Delivering the task again, to several workers at once, is harmless: if every
\* attempt that got to work succeeded, and there is one version, the document
\* ends published with exactly its chunks stored and marked.  They are searchable,
\* too, if the workers that wrote to the store were threads of one process.  With
\* several processes that have it open, nothing is claimed of the vectors but that
\* none is of another chunk: Postgres may call chunks indexed that are not.
Undisturbed == Settled /\ faults = 0 /\ crashes = 0 /\ active = 1 /\ Content[1] # {}
SingleProcess == \A p, q \in opened : p = q
RedeliveryIsHarmless ==
    Undisturbed =>
        /\ lifecycle = "published"
        /\ {c \in Chunks : owner[c] = 1} = Content[1]
        /\ embedded = Content[1] /\ indexed = Content[1]
        /\ {c \in Chunks : vectors[c] # 0} \subseteq Content[1]
        /\ SingleProcess => {c \in Chunks : vectors[c] = 1} = Content[1]

\* With one worker, a document is only published over a complete index of the
\* version the worker read, failures of any call notwithstanding.
PublishedOverFullIndex ==
    [][lifecycle # "published" /\ lifecycle' = "published" =>
          \E w \in Workers :
             /\ worker[w].pc = "indexed"
             /\ \A c \in Made(w) : vectors[c] = Version(w) /\ c \in embedded \cap indexed]_vars

\* With one worker, a document leaves PUBLISHED only for a new version.
PublishedUntilNewVersion ==
    [][lifecycle = "published" => lifecycle' = "published" \/ active' > active]_vars

\* "never publish half-indexed documents" (phase5-indexing-architecture.md:31):
\* all chunks of a published document's active version can be found.
PublishedIsSearchable ==
    lifecycle = "published" => \A c \in Content[active] : vectors[c] # 0

\* A task waiting for a registered document gets it published, as long as no
\* call fails and no worker dies (after a failure nothing does: the document is
\* no longer REGISTERED).
WaitingTaskPublishes ==
    \A t \in Tasks :
        task[t] = "queued" /\ lifecycle = "registered"
            ~> lifecycle = "published" \/ faults > 0 \/ crashes > 0
=============================================================================
