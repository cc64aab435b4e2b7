------------------------------ MODULE Ingestion ------------------------------
(***************************************************************************)
(* The GitHub ingestion workers of rag-platform: Celery tasks that fetch   *)
(* (or replay) payloads and register each as a version of a document in    *)
(* Postgres.  Workers run concurrently; each payload is one database       *)
(* transaction at READ COMMITTED, preceded and followed by status updates  *)
(* of its ingestion run on connections of their own.                       *)
(*                                                                         *)
(* A transaction is modelled by the points at which it can wait for, or be *)
(* overtaken by, another one.  Its writes become visible in Register, the  *)
(* commit.  Rows of one document are only written under lock (the row of   *)
(* `documents`) or rowlock (the row of the active version).                *)
(***************************************************************************)
EXTENDS Integers, FiniteSets

CONSTANTS
    Docs,        \* document ids: a function of source, external id and tenant
    Hashes,      \* payload hashes
    Malformed,   \* the hashes of payloads the pydantic models reject
    Workers,     \* Celery worker processes
    Tasks,       \* queued Celery tasks
    Feed,        \* [Tasks -> SUBSET (Docs \X Hashes)]: what an ingest task fetches
    ReplayOf,    \* [replay tasks -> Docs]: tasks that replay stored payloads
    Untracked,   \* tasks that call _ingest_single_payload without create_run
    Seeded,      \* [documents registered before Init -> hash of their version 1]
    MaxRuns,     \* bound: ingestion runs started
    MaxFaults,   \* bound: failing database, file system or commit calls
    MaxCrashes,  \* bound: worker processes lost
    None

VARIABLES
    documents,   \* documents: the ids that have a row
    versions,    \* document_versions: the rows of each document
    payloads,    \* raw_payloads: the rows of each document
    files,       \* raw payload files on disk
    runs,        \* ingestion_runs
    nextRun,     \* the next run id; also the clock behind received_at
    lock,        \* holder of each document's row lock
    rowlock,     \* holder of the lock on each document's active version row
    task,        \* the broker's view of each task
    worker,      \* each worker's position and local variables
    faults, crashes

vars == <<documents, versions, payloads, files, runs, nextRun, lock, rowlock,
          task, worker, faults, crashes>>

RunIds == 1..MaxRuns
File == Docs \X (0..MaxRuns)          \* <<document, run that wrote it>>
VersionRow == [index : Nat, hash : Hashes, active : BOOLEAN, uri : File]
PayloadRow == [hash : Hashes, uri : File]
Item == [doc : Docs, hash : Hashes, uri : File \cup {None}]
Terminal == {"registered", "skipped_no_change", "failed"}
RunStatus == {"none", "received", "validated"} \cup Terminal

\* Positions: between payloads, outside the transaction, inside it, and in the
\* exception handler.
InTransaction == {"locked", "read", "transition", "deactivating", "store",
                  "stored", "upsert", "insert"}
Positions == {"idle", "loop", "received", "validated", "failing"} \cup InTransaction

WorkerState == [pc : Positions, task : Tasks \cup {None}, rest : SUBSET Item,
                item : Item \cup {None}, run : 0..MaxRuns, active : Nat, deact : Nat]
RunRow == [status : RunStatus, doc : Docs \cup {None}, hash : Hashes \cup {None}]

ASSUME IngestionAssumption ==
    /\ MaxRuns \in Nat /\ MaxFaults \in Nat /\ MaxCrashes \in Nat
    /\ Malformed \subseteq Hashes
    /\ Feed \in [Tasks -> SUBSET (Docs \X Hashes)]
    /\ DOMAIN ReplayOf \subseteq Tasks
    /\ \A t \in DOMAIN ReplayOf : ReplayOf[t] \in Docs
    /\ Untracked \subseteq Tasks
    /\ DOMAIN Seeded \subseteq Docs
    /\ \A d \in DOMAIN Seeded : Seeded[d] \in Hashes \ Malformed
    /\ None \notin Workers \cup Docs \cup Hashes \cup Tasks \cup File

IdleWorker == [pc |-> "idle", task |-> None, rest |-> {}, item |-> None,
               run |-> 0, active |-> 0, deact |-> 0]

Init ==
    /\ documents = DOMAIN Seeded
    /\ versions = [d \in Docs |->
           IF d \in DOMAIN Seeded
           THEN {[index |-> 1, hash |-> Seeded[d], active |-> TRUE, uri |-> <<d, 0>>]}
           ELSE {}]
    /\ payloads = [d \in Docs |->
           IF d \in DOMAIN Seeded THEN {[hash |-> Seeded[d], uri |-> <<d, 0>>]} ELSE {}]
    /\ files = {<<d, 0>> : d \in DOMAIN Seeded}
    /\ runs = [r \in RunIds |-> [status |-> "none", doc |-> None, hash |-> None]]
    /\ nextRun = 1
    /\ lock = [d \in Docs |-> None]
    /\ rowlock = [d \in Docs |-> None]
    /\ task = [t \in Tasks |-> "queued"]
    /\ worker = [w \in Workers |-> IdleWorker]
    /\ faults = 0
    /\ crashes = 0

------------------------------------------------------------------------------
\* What a worker's current payload is about.
Doc(w) == worker[w].item.doc
Hash(w) == worker[w].item.hash
Replaying(w) == worker[w].task \in DOMAIN ReplayOf
Tracked(w) == worker[w].task \notin Untracked

Goto(w, pc) == worker' = [worker EXCEPT ![w].pc = pc]

\* A tracked run's row; the UPDATE of an untracked run matches no row.
SetRun(w, status, d, h) ==
    runs' = IF Tracked(w)
            THEN [runs EXCEPT ![worker[w].run] = [status |-> status, doc |-> d, hash |-> h]]
            ELSE runs

\* Setting ingestion_runs.document_id checks the foreign key, which locks the
\* parent row FOR KEY SHARE and so waits for a holder of the row lock.
KeyShareFree(w) == Tracked(w) => lock[Doc(w)] \in {None, w}

\* Mutant: a leaked connection is never rolled back and keeps its locks.
ReleaseNothing(w) == lock' = lock /\ rowlock' = rowlock

\* The end of a transaction: its locks are gone, and so are its local reads.
Release(w) ==
    /\ lock' = [d \in Docs |-> IF lock[d] = w THEN None ELSE lock[d]]
    /\ rowlock' = [d \in Docs |-> IF rowlock[d] = w THEN None ELSE rowlock[d]]

EndTransaction(w, pc) ==
    /\ Release(w)
    /\ worker' = [worker EXCEPT ![w].pc = pc, ![w].active = 0, ![w].deact = 0]

\* Rollback into the exception handler of _ingest_single_payload.
Abort(w) ==
    /\ EndTransaction(w, "failing")
    /\ UNCHANGED <<documents, versions, payloads, runs, nextRun, task>>

\* An exception nobody catches: the task ends without its remaining payloads.
Escape(w) ==
    /\ task' = [task EXCEPT ![worker[w].task] = "failed"]
    /\ worker' = [worker EXCEPT ![w] = IdleWorker]
    /\ UNCHANGED <<documents, versions, payloads, files, runs, nextRun, lock, rowlock>>

NoFault == UNCHANGED <<faults, crashes>>
Tables == <<documents, versions, payloads>>

------------------------------------------------------------------------------
\* The task loop.

\* What the task iterates over: fetched payloads, or the stored rows of a document.
Batch(t) ==
    IF t \in DOMAIN ReplayOf
    THEN {[doc |-> ReplayOf[t], hash |-> p.hash, uri |-> p.uri] : p \in payloads[ReplayOf[t]]}
    ELSE {[doc |-> p[1], hash |-> p[2], uri |-> None] : p \in Feed[t]}

TakeTask(w, t) ==
    /\ worker[w].pc = "idle"
    /\ task[t] = "queued"
    /\ task' = [task EXCEPT ![t] = "running"]
    /\ worker' = [worker EXCEPT ![w].pc = "loop", ![w].task = t, ![w].rest = Batch(t)]
    /\ UNCHANGED <<Tables, files, runs, nextRun, lock, rowlock>> /\ NoFault

\* Stored payloads come newest received_at first, fetched ones in any order.
NextItem(w, i) ==
    /\ i \in worker[w].rest
    /\ Replaying(w) => \A o \in worker[w].rest : o.uri[2] <= i.uri[2]

\* Mutant: the run id is not fresh, and a later payload reuses the row.
CreateRunReused(w, i) ==
    /\ worker[w].pc = "loop"
    /\ NextItem(w, i)
    /\ runs' = [runs EXCEPT ![1].status = "received"]
    /\ worker' = [worker EXCEPT ![w].pc = "received", ![w].rest = @ \ {i},
                                ![w].item = i, ![w].run = 1]
    /\ UNCHANGED <<Tables, files, nextRun, lock, rowlock, task>> /\ NoFault

\* create_run commits RECEIVED on its own connection.
CreateRun(w, i) ==
    /\ worker[w].pc = "loop"
    /\ NextItem(w, i)
    /\ nextRun <= MaxRuns
    /\ nextRun' = nextRun + 1
    /\ runs' = IF Tracked(w) THEN [runs EXCEPT ![nextRun].status = "received"] ELSE runs
    /\ worker' = [worker EXCEPT ![w].pc = "received", ![w].rest = @ \ {i},
                                ![w].item = i, ![w].run = nextRun]
    /\ UNCHANGED <<Tables, files, lock, rowlock, task>> /\ NoFault

FinishTask(w) ==
    /\ worker[w].pc = "loop"
    /\ worker[w].rest = {}
    /\ task' = [task EXCEPT ![worker[w].task] = "done"]
    /\ worker' = [worker EXCEPT ![w] = IdleWorker]
    /\ UNCHANGED <<Tables, files, runs, nextRun, lock, rowlock>> /\ NoFault

\* A stored payload whose file is gone, or one the models reject, fails its run,
\* which is left without a hash.
Readable(w) == (Replaying(w) => worker[w].item.uri \in files) /\ Hash(w) \notin Malformed

Validate(w) ==
    /\ worker[w].pc = "received"
    /\ \/ /\ Readable(w)
          /\ SetRun(w, "validated", None, Hash(w))
          /\ Goto(w, "validated")
       \/ /\ ~Readable(w)
          /\ SetRun(w, "failed", None, None)
          /\ Goto(w, "loop")
    /\ UNCHANGED <<Tables, files, nextRun, lock, rowlock, task>> /\ NoFault

------------------------------------------------------------------------------
\* The transaction.

\* Mutant: the SELECT forgets FOR UPDATE.
LockDocumentUnlocked(w) ==
    /\ worker[w].pc = "validated"
    /\ Goto(w, "locked")
    /\ UNCHANGED <<Tables, files, runs, nextRun, lock, rowlock, task>> /\ NoFault

\* SELECT ... FOR UPDATE: no row, no lock.
LockDocument(w) ==
    /\ worker[w].pc = "validated"
    /\ IF Doc(w) \in documents
       THEN lock[Doc(w)] = None /\ lock' = [lock EXCEPT ![Doc(w)] = w]
       ELSE lock' = lock
    /\ Goto(w, "locked")
    /\ UNCHANGED <<Tables, files, runs, nextRun, rowlock, task>> /\ NoFault

\* The index of the active version; 0 when there is none.
ActiveIndex(rows) ==
    IF \E r \in rows : r.active THEN (CHOOSE r \in rows : r.active).index ELSE 0

GetActiveVersion(w) ==
    /\ worker[w].pc = "locked"
    /\ worker' = [worker EXCEPT ![w].pc = "read", ![w].active = ActiveIndex(versions[Doc(w)])]
    /\ UNCHANGED <<Tables, files, runs, nextRun, lock, rowlock, task>> /\ NoFault

\* Mutant: a payload is only compared with the current version.
HasHashActive(rows, h) ==
    \E r \in rows : ("active" \in DOMAIN r => r.active) /\ r.hash = h

HasHash(rows, h) == \E r \in rows : r.hash = h

SkipDuplicate(w) ==
    /\ worker[w].pc = "read"
    /\ HasHash(versions[Doc(w)], Hash(w))
    /\ KeyShareFree(w)
    /\ SetRun(w, "skipped_no_change", Doc(w), Hash(w))
    /\ EndTransaction(w, "loop")
    /\ UNCHANGED <<Tables, files, nextRun, task>> /\ NoFault

NotDuplicate(w) ==
    /\ worker[w].pc = "read"
    /\ ~HasHash(versions[Doc(w)], Hash(w))
    /\ Goto(w, "transition")
    /\ UNCHANGED <<Tables, files, runs, nextRun, lock, rowlock, task>> /\ NoFault

AfterTransition(w) == IF Replaying(w) THEN "upsert" ELSE "store"

\* Mutant: the previous version is left active.
DeactivateNothing(w) ==
    /\ worker[w].pc = "transition"
    /\ Goto(w, AfterTransition(w))
    /\ UNCHANGED <<Tables, files, runs, nextRun, lock, rowlock, task>> /\ NoFault

\* deactivate_active_version runs only if a version was read as active, but its
\* UPDATE looks for the rows active at its own start.  It locks the row it finds.
Deactivate(w) ==
    LET d == Doc(w)
        found == ActiveIndex(versions[d])
    IN  /\ worker[w].pc = "transition"
        /\ \/ /\ worker[w].active = 0 \/ found = 0
              /\ Goto(w, AfterTransition(w))
              /\ UNCHANGED rowlock
           \/ /\ worker[w].active # 0 /\ found # 0
              /\ rowlock[d] = None
              /\ rowlock' = [rowlock EXCEPT ![d] = w]
              /\ worker' = [worker EXCEPT ![w].pc = AfterTransition(w), ![w].deact = found]
           \/ /\ worker[w].active # 0 /\ found # 0
              /\ rowlock[d] # None
              /\ worker' = [worker EXCEPT ![w].pc = "deactivating", ![w].deact = found]
              /\ UNCHANGED rowlock
        /\ UNCHANGED <<Tables, files, runs, nextRun, lock, task>> /\ NoFault

\* The wait is over: the row is updated if it is still the active one.
ResumeDeactivate(w) ==
    LET d == Doc(w)
        found == ActiveIndex(versions[d])
    IN  /\ worker[w].pc = "deactivating"
        /\ rowlock[d] = None
        /\ \/ /\ found = worker[w].deact
              /\ rowlock' = [rowlock EXCEPT ![d] = w]
              /\ Goto(w, AfterTransition(w))
           \/ /\ found # worker[w].deact
              /\ worker' = [worker EXCEPT ![w].pc = AfterTransition(w), ![w].deact = 0]
              /\ UNCHANGED rowlock
        /\ UNCHANGED <<Tables, files, runs, nextRun, lock, task>> /\ NoFault

\* Mutant: the path lacks the run, and an existing file is kept.
WriteRawFileOnce(w) ==
    /\ worker[w].pc = "store"
    /\ files' = IF \E f \in files : f[1] = Doc(w) THEN files
                ELSE files \cup {<<Doc(w), worker[w].run>>}
    /\ Goto(w, "stored")
    /\ UNCHANGED <<Tables, runs, nextRun, lock, rowlock, task>> /\ NoFault

\* The raw file is written inside the transaction; a rollback leaves it behind.
WriteRawFile(w) ==
    /\ worker[w].pc = "store"
    /\ files' = files \cup {<<Doc(w), worker[w].run>>}
    /\ Goto(w, "stored")
    /\ UNCHANGED <<Tables, runs, nextRun, lock, rowlock, task>> /\ NoFault

\* update_status(RAW_STORED, document_id): the row that document_id refers to
\* must exist already.  The share lock it takes is held like the row lock.
RecordRawStored(w) ==
    /\ worker[w].pc = "stored"
    /\ IF ~Tracked(w)
       THEN Goto(w, "upsert") /\ UNCHANGED <<Tables, runs, nextRun, lock, rowlock, task>>
       ELSE IF Doc(w) \notin documents
       THEN Abort(w)
       ELSE /\ KeyShareFree(w)
            /\ lock' = [lock EXCEPT ![Doc(w)] = w]
            /\ Goto(w, "upsert")
            /\ UNCHANGED <<Tables, runs, nextRun, rowlock, task>>
    /\ UNCHANGED files /\ NoFault

\* Mutant: REGISTERED is recorded on a connection of its own, before the commit.
UpsertDocumentEarlySuccess(w) ==
    /\ worker[w].pc = "upsert"
    /\ lock[Doc(w)] \in {None, w}
    /\ lock' = [lock EXCEPT ![Doc(w)] = w]
    /\ SetRun(w, "registered", Doc(w), Hash(w))
    /\ Goto(w, "insert")
    /\ UNCHANGED <<Tables, files, nextRun, rowlock, task>> /\ NoFault

\* INSERT ... ON CONFLICT DO UPDATE waits for the row, or for its inserter.
UpsertDocument(w) ==
    /\ worker[w].pc = "upsert"
    /\ lock[Doc(w)] \in {None, w}
    /\ lock' = [lock EXCEPT ![Doc(w)] = w]
    /\ Goto(w, "insert")
    /\ UNCHANGED <<Tables, files, runs, nextRun, rowlock, task>> /\ NoFault

\* Mutants: a fetched payload's missing file, or a replay's file never written.
StorageUriOfPayload(w) == worker[w].item.uri
StorageUriOfRun(w) == <<Doc(w), worker[w].run>>

StorageUri(w) == IF Replaying(w) THEN worker[w].item.uri ELSE <<Doc(w), worker[w].run>>

NewVersion(w) ==
    [index |-> worker[w].active + 1, hash |-> Hash(w), active |-> TRUE, uri |-> StorageUri(w)]

\* Mutant: the index on the active row is missing.
ViolatesIndexOnly(w) == \E r \in versions[Doc(w)] : r.index = worker[w].active + 1

\* The unique indexes on (document_id, version_index) and on the active row.
ViolatesUnique(w) ==
    \E r \in versions[Doc(w)] :
        \/ r.index = worker[w].active + 1
        \/ r.active /\ r.index # worker[w].deact

\* Mutant: the previous version is deleted, not deactivated.
DeletedRow(rows, i) == {r \in rows : r.index # i}

Deactivated(rows, i) == {[r EXCEPT !.active = r.active /\ r.index # i] : r \in rows}

\* insert_versions (ON CONFLICT (document_id, hash_payload) DO NOTHING),
\* insert_payload, and the commit that publishes the whole transaction.
CommitVersion(w) ==
    LET d == Doc(w)
        old == Deactivated(versions[d], worker[w].deact)
    IN  /\ HasHash(versions[d], Hash(w)) \/ ~ViolatesUnique(w)
        /\ versions' = [versions EXCEPT ![d] =
               IF HasHash(@, Hash(w)) THEN old ELSE old \cup {NewVersion(w)}]
        /\ payloads' = [payloads EXCEPT ![d] =
               IF Replaying(w) \/ HasHash(@, Hash(w)) THEN @
               ELSE @ \cup {[hash |-> Hash(w), uri |-> StorageUri(w)]}]
        /\ documents' = documents \cup {d}
        /\ SetRun(w, "registered", d, Hash(w))
        /\ UNCHANGED <<files, nextRun, task>>

Register(w) ==
    /\ worker[w].pc = "insert"
    /\ CommitVersion(w)
    /\ EndTransaction(w, "loop")
    /\ NoFault

UniqueViolation(w) ==
    /\ worker[w].pc = "insert"
    /\ ~HasHash(versions[Doc(w)], Hash(w))
    /\ ViolatesUnique(w)
    /\ Abort(w) /\ UNCHANGED files /\ NoFault

\* Mutant: the handler only logs.
RecordFailureSilently(w) ==
    /\ worker[w].pc = "failing"
    /\ Goto(w, "loop")
    /\ UNCHANGED <<Tables, files, runs, nextRun, lock, rowlock, task>> /\ NoFault

\* The handler's update_status(FAILED, document_id) on a fresh connection: the
\* foreign key is checked again, and a second violation is not caught.
RecordFailure(w) ==
    /\ worker[w].pc = "failing"
    /\ IF Tracked(w) /\ Doc(w) \notin documents
       THEN Escape(w)
       ELSE /\ KeyShareFree(w)
            /\ SetRun(w, "failed", Doc(w), Hash(w))
            /\ Goto(w, "loop")
            /\ UNCHANGED <<Tables, files, nextRun, lock, rowlock, task>>
    /\ NoFault

------------------------------------------------------------------------------
\* Waiting, failing, dying.

WaitsFor(w, v) ==
    /\ v # w
    /\ \/ worker[w].pc = "deactivating" /\ rowlock[Doc(w)] = v
       \/ worker[w].pc = "upsert" /\ lock[Doc(w)] = v
       \/ worker[w].pc = "stored" /\ Tracked(w) /\ lock[Doc(w)] = v

\* Postgres breaks a cycle of waits by failing one of its transactions.
DeadlockDetected(w) ==
    /\ \E v \in Workers : WaitsFor(w, v) /\ WaitsFor(v, w)
    /\ Abort(w) /\ UNCHANGED files /\ NoFault

\* The database, the network, the file system or the soft time limit fails a
\* step.  From the connect on the handler runs; elsewhere the task ends.
StepFails(w) ==
    /\ faults < MaxFaults
    /\ faults' = faults + 1
    /\ \/ worker[w].pc \in InTransaction \cup {"validated"} /\ Abort(w) /\ UNCHANGED files
       \/ worker[w].pc \in {"loop", "received", "failing"} /\ Escape(w)
    /\ UNCHANGED crashes

\* The server commits but the acknowledgement is lost: the handler runs.
CommitAckLost(w) ==
    /\ worker[w].pc = "insert"
    /\ faults < MaxFaults
    /\ faults' = faults + 1
    /\ CommitVersion(w)
    /\ EndTransaction(w, "failing")
    /\ UNCHANGED crashes

\* The process dies: acks_late and reject_on_worker_lost requeue its task.
\* Past the hard time limit the task is killed and acknowledged as failed.
WorkerLost(w, outcome) ==
    /\ worker[w].pc # "idle"
    /\ crashes < MaxCrashes
    /\ crashes' = crashes + 1
    /\ Release(w)
    /\ task' = [task EXCEPT ![worker[w].task] = outcome]
    /\ worker' = [worker EXCEPT ![w] = IdleWorker]
    /\ UNCHANGED <<Tables, files, runs, nextRun, faults>>

Settled == \A t \in Tasks : task[t] \in {"done", "failed"}

\* Nothing is queued and nobody works: the system waits for tasks.
Quiescent ==
    /\ Settled /\ \A w \in Workers : worker[w].pc = "idle"
    /\ UNCHANGED vars

Step(w) ==
    \/ \E t \in Tasks : TakeTask(w, t)
    \/ \E i \in worker[w].rest : CreateRun(w, i)
    \/ FinishTask(w) \/ Validate(w)
    \/ LockDocument(w) \/ GetActiveVersion(w) \/ SkipDuplicate(w) \/ NotDuplicate(w)
    \/ Deactivate(w) \/ ResumeDeactivate(w)
    \/ WriteRawFile(w) \/ RecordRawStored(w) \/ UpsertDocument(w)
    \/ Register(w) \/ UniqueViolation(w) \/ RecordFailure(w)
    \/ DeadlockDetected(w)

Fault(w) ==
    \/ StepFails(w) \/ CommitAckLost(w)
    \/ \E outcome \in {"queued", "failed"} : WorkerLost(w, outcome)

Next == (\E w \in Workers : Step(w) \/ Fault(w)) \/ Quiescent

Spec == Init /\ [][Next]_vars

\* A live worker keeps executing; faults are never owed.
FairSpec == Spec /\ \A w \in Workers : WF_vars(Step(w))

------------------------------------------------------------------------------
\* Properties.

\* Every variable has its type.
TypeOK ==
    /\ documents \subseteq Docs
    /\ versions \in [Docs -> SUBSET VersionRow]
    /\ payloads \in [Docs -> SUBSET PayloadRow]
    /\ files \subseteq File
    /\ runs \in [RunIds -> RunRow]
    /\ nextRun \in 1..(MaxRuns + 1)
    /\ lock \in [Docs -> Workers \cup {None}]
    /\ rowlock \in [Docs -> Workers \cup {None}]
    /\ task \in [Tasks -> {"queued", "running", "done", "failed"}]
    /\ worker \in [Workers -> WorkerState]
    /\ faults \in 0..MaxFaults
    /\ crashes \in 0..MaxCrashes

\* The versions of a document are numbered 1..n without gap or repetition, no
\* payload hash occurs twice, and exactly the newest version is active: what
\* the row lock, the duplicate check and the transition of
\* _ingest_single_payload are for.
Numbered(rows, n) ==
    /\ \A r \in rows : r.index \in 1..n
    /\ \A i \in 1..n : \E r \in rows : r.index = i
    /\ \A r, s \in rows : r.index = s.index \/ r.hash = s.hash => r = s
    /\ \A r \in rows : r.active <=> r.index = n

NewestIsActive == \A d \in documents :
    ActiveIndex(versions[d]) > 0 /\ Numbered(versions[d], ActiveIndex(versions[d]))

\* The unique indexes alone guarantee this much: never two active versions,
\* two versions with one index, or two with one hash.
NeverTwoActive ==
    \A d \in Docs : \A r, s \in versions[d] :
        (r.active /\ s.active) \/ r.index = s.index \/ r.hash = s.hash => r = s

\* A version can be replayed: the file its source_payload_uri names exists and
\* is the one its raw_payloads row names, whoever's rollback left files behind.
VersionsAreBacked ==
    \A d \in Docs : \A v \in versions[d] :
        v.uri \in files /\ [hash |-> v.hash, uri |-> v.uri] \in payloads[d]

\* A run that reports success has its payload among the document's versions.
SuccessMeansStored ==
    \A r \in RunIds : runs[r].status \in {"registered", "skipped_no_change"} =>
        HasHash(versions[runs[r].doc], runs[r].hash)

\* A task that ends normally leaves no fetched payload unaccounted for: each is
\* a version, or a run on record failed with it.  (With its hash, unless it was
\* rejected before it had one.)
FailedWith(r, h) ==
    /\ runs[r].status = "failed"
    /\ runs[r].hash = h \/ (runs[r].hash = None /\ h \in Malformed)

NothingSilentlyDropped ==
    \A t \in Tasks \ (DOMAIN ReplayOf \cup Untracked) : task[t] = "done" =>
        \A p \in Feed[t] :
            HasHash(versions[p[1]], p[2]) \/ \E r \in RunIds : FailedWith(r, p[2])

\* "two workers handling payloads for the same document concurrently must not
\* both pass the duplicate check" (pipeline.py:237-239).
PastDuplicateCheck == {"transition", "deactivating", "store", "stored", "upsert", "insert"}
OnePastDuplicateCheck ==
    \A v, w \in Workers :
        /\ worker[v].pc \in PastDuplicateCheck
        /\ worker[w].pc \in PastDuplicateCheck
        /\ Doc(v) = Doc(w)
        => v = w

\* No step loses or rewrites a version, or makes an older version the active
\* one: a replayed or late payload never undoes a newer one.
VersionsOnlyAdvance ==
    [][\A d \in Docs :
          /\ \A r \in versions[d] : \E s \in versions'[d] :
                s.index = r.index /\ s.hash = r.hash /\ s.uri = r.uri
          /\ ActiveIndex(versions[d]) <= ActiveIndex(versions'[d])]_vars

\* The tables implement an append-only history per document whose last entry is
\* the current one.
History == [d \in Docs |-> {<<r.index, r.hash>> : r \in versions[d]}]
Current == [d \in Docs |-> ActiveIndex(versions[d])]
Promise == INSTANCE DocumentVersions
               WITH InitialHash <- Seeded, history <- History, current <- Current
ImplementsDocumentVersions == Promise!Spec

\* Every task is eventually done or failed: no lock, no wait and no foreign key
\* keeps a worker from ending its task.
TasksSettle == \A t \in Tasks : <>[](task[t] \in {"done", "failed"})

\* "REGISTERED: New document or new version created" (lifecycle.py:65): with
\* nothing failing, each well-formed payload fetched becomes a version.
PayloadsArrive ==
    \A t \in Tasks \ DOMAIN ReplayOf : \A p \in Feed[t] :
        p[2] \notin Malformed =>
            <>(HasHash(versions[p[1]], p[2]) \/ faults > 0 \/ crashes > 0)

\* "Terminal states: REGISTERED, SKIPPED_NO_CHANGE, FAILED" (lifecycle.py:61):
\* a run in a terminal state stays there.
TerminalIsFinal ==
    [][\A r \in RunIds : runs[r].status \in Terminal => runs'[r].status = runs[r].status]_vars
=============================================================================
