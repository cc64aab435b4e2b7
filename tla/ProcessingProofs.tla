--------------------------- MODULE ProcessingProofs ---------------------------
(***************************************************************************)
(* Proofs about Processing, for every number of workers, tasks, versions,  *)
(* chunks, retries, faults and crashes.                                    *)
(***************************************************************************)
EXTENDS Processing, TLAPS

\* A worker past its first position has a task.
Busy == \A w \in Workers : worker[w].pc # "idle" => worker[w].task \in Tasks
TypeInv == TypeOK /\ Busy

WorkerType == [pc : Positions, task : Tasks \cup {None}, state : Lifecycle, version : Versions]

LEMMA IdleType == IdleWorker \in WorkerType
BY ProcessingAssumption DEF IdleWorker, WorkerType, Positions, Lifecycle, Versions

\* Ending or retrying a task keeps the types of the task variables.
LEMMA EndTaskType ==
    ASSUME TypeInv, NEW w \in Workers, worker[w].pc # "idle",
           \/ FailTask(w) \/ RetryTask(w)
           \/ \E o \in {"done", "queued", "failed"} : EndTask(w, o) /\ UNCHANGED attempts
    PROVE  /\ task' \in [Tasks -> {"queued", "running", "done", "failed"}]
           /\ attempts' \in [Tasks -> 0..MaxRetries]
           /\ worker' = [worker EXCEPT ![w] = IdleWorker]
           /\ worker' \in [Workers -> WorkerType]
           /\ Busy'
<1> USE ProcessingAssumption DEF TypeInv, TypeOK
<1>1. worker[w].task \in Tasks
  BY DEF Busy
<1>2. \E o \in {"done", "queued", "failed"} : EndTask(w, o)
  BY DEF FailTask, RetryTask
<1>3. /\ worker' = [worker EXCEPT ![w] = IdleWorker]
      /\ task' \in [Tasks -> {"queued", "running", "done", "failed"}]
  BY <1>2 DEF EndTask
<1>4. attempts' \in [Tasks -> 0..MaxRetries]
  <2>1. CASE UNCHANGED attempts
    BY <2>1
  <2>2. CASE attempts[worker[w].task] < MaxRetries
             /\ attempts' = [attempts EXCEPT ![worker[w].task] = @ + 1]
    BY <1>1, <2>2
  <2> QED BY <2>1, <2>2 DEF FailTask, RetryTask
<1>5. worker' \in [Workers -> WorkerType]
  BY <1>3, IdleType DEF WorkerType
<1>6. Busy'
  BY <1>3 DEF Busy, IdleWorker
<1> QED BY <1>3, <1>4, <1>5, <1>6

\* A write to the store keeps its type, whatever it leaves; without another process
\* it leaves the entries it was called with.
LEMMA StoreType ==
    ASSUME TypeInv, NEW w \in Workers, NEW entries \in [Chunks -> 0..MaxVersions],
           Store(w, entries)
    PROVE  /\ vectors' \in [Chunks -> 0..MaxVersions]
           /\ written' \in [Chunks -> SUBSET (0..MaxVersions)]
           /\ opened' \subseteq Processes
           /\ opened \subseteq {Process[w]} => vectors' = entries
<1>1. Process[w] \in Processes
  BY DEF Processes
<1>2. written' \in [Chunks -> SUBSET (0..MaxVersions)]
  <2>1. \A c \in Chunks : written[c] \cup {entries[c]} \in SUBSET (0..MaxVersions)
    BY DEF TypeInv, TypeOK
  <2> QED BY <2>1 DEF Store
<1> QED BY <1>1, <1>2 DEF Store, TypeInv, TypeOK

\* Moving on keeps them too.
LEMMA GotoType ==
    ASSUME TypeInv, NEW w \in Workers, worker[w].pc # "idle", NEW pc \in Positions, Goto(w, pc)
    PROVE  worker' \in [Workers -> WorkerType] /\ Busy'
<1>1. worker \in [Workers -> WorkerType] /\ worker[w] \in WorkerType
  BY DEF TypeInv, TypeOK, WorkerType
<1>2. [worker[w] EXCEPT !.pc = pc] \in WorkerType
  BY <1>1 DEF WorkerType
<1> QED BY <1>1, <1>2 DEF Goto, TypeInv, Busy, WorkerType

\* Persisting the chunks of a version keeps the types of the chunk table.
LEMMA PersistType ==
    ASSUME TypeInv, NEW w \in Workers, Persist(w)
    PROVE  /\ owner' \in [Chunks -> 0..MaxVersions]
           /\ embedded' \subseteq Chunks /\ indexed' \subseteq Chunks /\ lifecycle' \in Lifecycle
<1>1. Version(w) \in 0..MaxVersions
  BY ProcessingAssumption DEF TypeInv, TypeOK, Version, Versions
<1> QED BY <1>1, ProcessingAssumption DEF Persist, TypeInv, TypeOK, Lifecycle

LEMMA TypeInit == Init => TypeInv
<1> SUFFICES ASSUME Init PROVE TypeInv
  OBVIOUS
<1>1. worker \in [Workers -> WorkerType] /\ Busy
  BY IdleType DEF Init, Busy, IdleWorker
<1> QED BY <1>1, ProcessingAssumption DEF Init, TypeInv, TypeOK, WorkerType, Lifecycle, Versions

LEMMA TypeStep ==
    ASSUME TypeInv, NEW w \in Workers, Step(w) \/ Fault(w)
    PROVE  TypeInv'
<1> USE ProcessingAssumption
<1>0. /\ worker \in [Workers -> WorkerType] /\ worker[w] \in WorkerType
      /\ Version(w) \in Versions /\ Made(w) \in SUBSET Chunks
      /\ worker[w].pc # "idle" => worker[w].task \in Tasks
  BY DEF TypeInv, TypeOK, WorkerType, Version, Made, Busy
<1>1. ASSUME NEW t \in Tasks, LoadDocument(w, t) PROVE TypeInv'
  <2>1. [worker[w] EXCEPT !.pc = "loaded", !.task = t, !.state = lifecycle] \in WorkerType
    BY <1>0 DEF WorkerType, Positions, TypeInv, TypeOK
  <2>2. worker' \in [Workers -> WorkerType]
    BY <1>0, <1>1, <2>1 DEF LoadDocument
  <2>3. Busy'
    BY <1>0, <1>1 DEF LoadDocument, Busy, TypeInv, WorkerType
  <2> QED BY <1>1, <2>2, <2>3 DEF LoadDocument, TypeInv, TypeOK, WorkerType, Document, rows, store, NoFault
<1>2. ASSUME LoadVersion(w) PROVE TypeInv'
  <2>1. CASE FailTask(w)
    BY <1>2, <2>1, EndTaskType
       DEF LoadVersion, TypeInv, TypeOK, WorkerType, Document, rows, store, NoFault
  <2>2. CASE worker' = [worker EXCEPT ![w].pc = "ready", ![w].version = active]
             /\ UNCHANGED <<task, attempts>>
    <3>1. [worker[w] EXCEPT !.pc = "ready", !.version = active] \in WorkerType
      BY <1>0 DEF WorkerType, Positions, TypeInv, TypeOK
    <3>2. worker' \in [Workers -> WorkerType]
      BY <1>0, <2>2, <3>1
    <3>3. Busy'
      BY <1>0, <1>2, <2>2 DEF LoadVersion, Busy, TypeInv, WorkerType
    <3> QED BY <1>2, <2>2, <3>2, <3>3
           DEF LoadVersion, TypeInv, TypeOK, WorkerType, Document, rows, store, NoFault
  <2> QED BY <1>2, <2>1, <2>2 DEF LoadVersion
<1>3. ASSUME PersistChunks(w) PROVE TypeInv'
  <2>1. worker' \in [Workers -> WorkerType] /\ Busy'
    BY <1>3, GotoType DEF PersistChunks, Positions, Indexing
  <2> QED BY <1>3, <2>1, PersistType DEF PersistChunks, store, TypeInv, TypeOK, WorkerType, NoFault
<1>p. Process[w] \in Processes
  BY DEF Processes
<1>4. ASSUME Embed(w) \/ DeleteFails(w) PROVE TypeInv'
  <2>1. worker' \in [Workers -> WorkerType] /\ Busy'
    BY <1>4, GotoType DEF Embed, DeleteFails, Positions, Indexing
  <2>2. opened' \subseteq Processes
    BY <1>4, <1>p DEF Embed, DeleteFails, MayOpen, store, TypeInv, TypeOK
  <2> QED BY <1>4, <2>1, <2>2
         DEF Embed, DeleteFails, TypeInv, TypeOK, WorkerType, Document, rows, store, NoFault
<1>5. ASSUME DeleteOldVectors(w) \/ AddVectors(w) PROVE TypeInv'
  <2>1. worker' \in [Workers -> WorkerType] /\ Busy'
    BY <1>5, GotoType DEF DeleteOldVectors, AddVectors, Positions, Indexing
  <2>2. \E entries \in [Chunks -> 0..MaxVersions] : Store(w, entries)
    <3>1. CASE DeleteOldVectors(w)
      BY <3>1 DEF DeleteOldVectors
    <3>2. CASE AddVectors(w)
      <4>1. [c \in Chunks |-> IF c \in Made(w) THEN Version(w) ELSE vectors[c]]
            \in [Chunks -> 0..MaxVersions]
        BY <1>0 DEF TypeInv, TypeOK, Versions
      <4> QED BY <3>2, <4>1 DEF AddVectors
    <3> QED BY <1>5, <3>1, <3>2
  <2>3. /\ vectors' \in [Chunks -> 0..MaxVersions]
        /\ written' \in [Chunks -> SUBSET (0..MaxVersions)]
        /\ opened' \subseteq Processes
    BY <2>2, StoreType
  <2> QED BY <1>5, <2>1, <2>3
         DEF DeleteOldVectors, AddVectors, TypeInv, TypeOK, WorkerType, Document, rows, store, NoFault
<1>6. ASSUME MarkEmbedded(w) \/ MarkIndexed(w) PROVE TypeInv'
  <2>1. worker' \in [Workers -> WorkerType] /\ Busy'
    BY <1>6, GotoType DEF MarkEmbedded, MarkIndexed, Positions, Indexing
  <2>2. WithRow(Made(w)) \subseteq Chunks
    BY <1>0 DEF WithRow
  <2> QED BY <1>6, <2>1, <2>2
         DEF MarkEmbedded, MarkIndexed, TypeInv, TypeOK, WorkerType, Document, rows, store, NoFault
<1>7. ASSUME Publish(w) PROVE TypeInv'
  <2>1. /\ task' \in [Tasks -> {"queued", "running", "done", "failed"}]
        /\ attempts' \in [Tasks -> 0..MaxRetries]
        /\ worker' \in [Workers -> WorkerType] /\ Busy'
    BY <1>7, EndTaskType DEF Publish
  <2> QED BY <1>7, <2>1 DEF Publish, TypeInv, TypeOK, WorkerType, rows, store, NoFault, Lifecycle
<1>8. ASSUME IndexingFails(w) PROVE TypeInv'
  <2>1. worker[w].pc # "idle" /\ FailTask(w)
    BY <1>8 DEF IndexingFails, Indexing
  <2>2. opened' \subseteq Processes
    BY <1>8, <1>p DEF IndexingFails, MayOpen, TypeInv, TypeOK
  <2> QED BY <1>8, <2>1, <2>2, EndTaskType
         DEF IndexingFails, TypeInv, TypeOK, WorkerType, Document, rows, store
<1>9. ASSUME PostgresFails(w) PROVE TypeInv'
  <2>1. worker[w].pc # "idle" /\ (FailTask(w) \/ RetryTask(w))
    BY <1>9 DEF PostgresFails
  <2>2. /\ task' \in [Tasks -> {"queued", "running", "done", "failed"}]
        /\ attempts' \in [Tasks -> 0..MaxRetries]
        /\ worker' \in [Workers -> WorkerType] /\ Busy'
    BY <2>1, EndTaskType
  <2>3. /\ owner' \in [Chunks -> 0..MaxVersions]
        /\ embedded' \subseteq Chunks /\ indexed' \subseteq Chunks /\ lifecycle' \in Lifecycle
        /\ active' = active
    BY <1>9, PersistType DEF PostgresFails, TypeInv, TypeOK, Document, rows, store, Lifecycle
  <2> QED BY <1>9, <2>2, <2>3 DEF PostgresFails, store, TypeInv, TypeOK, WorkerType
<1> QED BY <1>1, <1>2, <1>3, <1>4, <1>5, <1>6, <1>7, <1>8, <1>9 DEF Step, Fault

LEMMA TypeLost ==
    ASSUME TypeInv, NEW p, ProcessLost(p)
    PROVE  TypeInv'
<1>1. task' \in [Tasks -> {"queued", "running", "done", "failed"}]
  BY DEF ProcessLost, TypeInv, TypeOK
<1>2. worker' \in [Workers -> WorkerType] /\ Busy'
  <2>1. worker' = [w \in Workers |-> IF w \in Running(p) THEN IdleWorker ELSE worker[w]]
    BY DEF ProcessLost
  <2>2. worker \in [Workers -> WorkerType]
    BY DEF TypeInv, TypeOK, WorkerType
  <2> QED BY <2>1, <2>2, IdleType DEF TypeInv, Busy, IdleWorker
<1>3. opened' \subseteq Processes
  BY DEF ProcessLost, TypeInv, TypeOK
<1> QED BY <1>1, <1>2, <1>3, ProcessingAssumption
       DEF ProcessLost, TypeInv, TypeOK, WorkerType, Document, rows

LEMMA TypeNext == TypeInv /\ [Next]_vars => TypeInv'
<1> SUFFICES ASSUME TypeInv, [Next]_vars PROVE TypeInv'
  OBVIOUS
<1>1. CASE RegisterVersion
  BY <1>1, ProcessingAssumption
     DEF RegisterVersion, TypeInv, TypeOK, Busy, rows, store, NoFault, Versions, Lifecycle
<1>2. CASE UNCHANGED vars
  BY <1>2 DEF vars, rows, store, TypeInv, TypeOK, Busy
<1> QED BY <1>1, <1>2, TypeStep, TypeLost DEF Next, Quiescent

\* Every reachable state is well typed.
THEOREM TypeCorrect == Spec => []TypeInv
BY TypeInit, TypeNext, PTL DEF Spec

------------------------------------------------------------------------------
(***************************************************************************)
(* Every vector's chunk has a row.  Rows never disappear: a row belongs to *)
(* a version that yields its chunk, so the version's next persist, the     *)
(* only one that deletes the row, inserts it again.  (The chunk id is a    *)
(* function of position and text, and chunking is deterministic.)          *)
(***************************************************************************)

RowsBelong == \A c \in Chunks : owner[c] # 0 => c \in Content[owner[c]]
RowsBeforeVectors ==
    \A w \in Workers : worker[w].pc \in Indexing \cup {"indexed"} =>
        \A c \in Made(w) : owner[c] # 0
\* A store that several processes have open may bring back what it once held.
RowsBeforeEntries == \A c \in Chunks : written[c] # {0} => owner[c] # 0
VectorsWritten == \A c \in Chunks : 0 \in written[c] /\ vectors[c] \in written[c]
RowInv == RowsBelong /\ RowsBeforeVectors /\ RowsBeforeEntries /\ VectorsWritten

\* A persist keeps every row and adds those of its version.
LEMMA PersistKeeps ==
    ASSUME TypeInv, RowInv, NEW w \in Workers, Persist(w)
    PROVE  /\ RowsBelong'
           /\ \A c \in Chunks : owner[c] # 0 \/ c \in Made(w) => owner'[c] # 0
<1>1. Version(w) # 0 /\ Made(w) = Content[Version(w)]
  BY ProcessingAssumption DEF TypeInv, TypeOK, Version, Versions, Made
<1>2. \A c \in Chunks :
         owner'[c] = IF owner[c] \notin {0, Version(w)} THEN owner[c]
                     ELSE IF c \in Made(w) THEN Version(w) ELSE 0
  BY DEF Persist
<1> QED BY <1>1, <1>2 DEF RowInv, RowsBelong

\* A step that keeps every row, adds no vector, and starts no indexing.
LEMMA KeepsRows ==
    ASSUME TypeInv, RowInv, RowsBelong',
           \A c \in Chunks : owner[c] # 0 => owner'[c] # 0,
           \A c \in Chunks : written'[c] = written[c] \/ owner'[c] # 0,
           VectorsWritten',
           \A w \in Workers :
              \/ worker'[w].pc \notin Indexing \cup {"indexed"}
              \/ worker'[w].version = worker[w].version
                 /\ \/ worker[w].pc \in Indexing \cup {"indexed"}
                    \/ \A c \in Made(w) : owner'[c] # 0
    PROVE  RowInv'
<1>1. RowsBeforeEntries'
  BY DEF RowInv, RowsBeforeEntries
<1>2. RowsBeforeVectors'
  <2> SUFFICES ASSUME NEW w \in Workers, worker'[w].pc \in Indexing \cup {"indexed"},
                      NEW c \in Made(w)'
               PROVE  owner'[c] # 0
    BY DEF RowsBeforeVectors
  <2>1. Made(w)' = Made(w) /\ Made(w) \in SUBSET Chunks
    BY ProcessingAssumption DEF Made, Version, TypeInv, TypeOK
  <2> QED BY <2>1 DEF RowInv, RowsBeforeVectors
<1> QED BY <1>1, <1>2 DEF RowInv

LEMMA RowStep ==
    ASSUME TypeInv, RowInv, NEW w \in Workers, Step(w) \/ Fault(w)
    PROVE  RowInv'
<1>0. /\ worker \in [Workers -> WorkerType] /\ owner \in [Chunks -> 0..MaxVersions]
      /\ Made(w) \in SUBSET Chunks
  BY ProcessingAssumption DEF TypeInv, TypeOK, WorkerType, Made, Version
<1>c. ASSUME vectors' = vectors, written' = written PROVE VectorsWritten'
  BY <1>c DEF RowInv, VectorsWritten
<1>a. ASSUME worker' = [worker EXCEPT ![w] = IdleWorker], RowsBelong',
             \A c \in Chunks : owner[c] # 0 => owner'[c] # 0,
             vectors' = vectors, written' = written
      PROVE  RowInv'
  <2>1. worker'[w].pc \notin Indexing \cup {"indexed"}
        /\ \A v \in Workers \ {w} : worker'[v] = worker[v]
    BY <1>0, <1>a DEF IdleWorker, Indexing
  <2> QED BY <1>a, <1>c, <2>1, KeepsRows
<1>b. ASSUME owner' = owner PROVE RowsBelong'
  BY <1>b DEF RowInv, RowsBelong
<1>1. CASE \E t \in Tasks : LoadDocument(w, t)
  <2>1. worker'[w].pc \notin Indexing \cup {"indexed"}
        /\ \A v \in Workers \ {w} : worker'[v] = worker[v]
    BY <1>0, <1>1 DEF LoadDocument, Indexing, WorkerType
  <2> QED BY <1>1, <1>b, <1>c, <2>1, KeepsRows DEF LoadDocument, rows, store
<1>2. CASE LoadVersion(w)
  <2>1. worker'[w].pc \notin Indexing \cup {"indexed"}
        /\ \A v \in Workers \ {w} : worker'[v] = worker[v]
    BY <1>0, <1>2 DEF LoadVersion, FailTask, EndTask, IdleWorker, Indexing, WorkerType
  <2> QED BY <1>2, <1>b, <1>c, <2>1, KeepsRows DEF LoadVersion, rows, store
<1>3. CASE PersistChunks(w)
  <2>1. worker'[w].version = worker[w].version /\ \A v \in Workers \ {w} : worker'[v] = worker[v]
    BY <1>0, <1>3 DEF PersistChunks, Goto, WorkerType
  <2>2. RowsBelong' /\ \A c \in Chunks : owner[c] # 0 \/ c \in Made(w) => owner'[c] # 0
    BY <1>3, PersistKeeps DEF PersistChunks
  <2> QED BY <1>0, <1>3, <1>c, <2>1, <2>2, KeepsRows DEF PersistChunks, store
<1>4. CASE Embed(w) \/ DeleteOldVectors(w) \/ DeleteFails(w) \/ AddVectors(w)
           \/ MarkEmbedded(w) \/ MarkIndexed(w)
  <2>1. /\ worker[w].pc \in Indexing /\ owner' = owner
        /\ worker'[w].version = worker[w].version /\ \A v \in Workers \ {w} : worker'[v] = worker[v]
    BY <1>0, <1>4 DEF Embed, DeleteOldVectors, DeleteFails, AddVectors, MarkEmbedded,
                      MarkIndexed, Goto, WorkerType, Indexing, rows, store
  <2>2. \A c \in Made(w) : owner[c] # 0
    BY <2>1 DEF RowInv, RowsBeforeVectors
  <2>3. (\A c \in Chunks : written'[c] = written[c] \/ owner'[c] # 0) /\ VectorsWritten'
    <3>1. ASSUME NEW entries \in [Chunks -> 0..MaxVersions], Store(w, entries),
                 \A c \in Chunks : entries[c] \in written[c] \/ owner'[c] # 0
          PROVE  (\A c \in Chunks : written'[c] = written[c] \/ owner'[c] # 0) /\ VectorsWritten'
      <4>1. \A c \in Chunks : written'[c] = written[c] \cup {entries[c]} /\ vectors'[c] \in written'[c]
        BY <3>1 DEF Store
      <4> QED BY <3>1, <4>1 DEF RowInv, VectorsWritten
    <3>2. CASE DeleteOldVectors(w)
      <4> DEFINE none == [c \in Chunks |-> 0]
      <4>1. Store(w, none) /\ none \in [Chunks -> 0..MaxVersions]
        BY <3>2, ProcessingAssumption DEF DeleteOldVectors
      <4>2. \A c \in Chunks : none[c] \in written[c] \/ owner'[c] # 0
        BY DEF RowInv, VectorsWritten
      <4> HIDE DEF none
      <4> QED BY <3>1, <4>1, <4>2
    <3>3. CASE AddVectors(w)
      <4> DEFINE entries == [c \in Chunks |-> IF c \in Made(w) THEN Version(w) ELSE vectors[c]]
      <4>1. Store(w, entries)
        BY <3>3 DEF AddVectors
      <4>2. entries \in [Chunks -> 0..MaxVersions]
        BY ProcessingAssumption DEF TypeInv, TypeOK, Version, Versions
      <4>3. \A c \in Chunks : entries[c] \in written[c] \/ owner'[c] # 0
        BY <2>1, <2>2 DEF RowInv, VectorsWritten
      <4> QED BY <3>1, <4>1, <4>2, <4>3
    <3>4. CASE Embed(w) \/ DeleteFails(w) \/ MarkEmbedded(w) \/ MarkIndexed(w)
      BY <1>c, <3>4 DEF Embed, DeleteFails, MarkEmbedded, MarkIndexed, store
    <3> QED BY <1>4, <3>2, <3>3, <3>4
  <2> QED BY <1>b, <2>1, <2>3, KeepsRows
<1>5. CASE Publish(w) \/ IndexingFails(w)
  BY <1>5, <1>a, <1>b DEF Publish, IndexingFails, FailTask, EndTask, rows, store
<1>6. CASE PostgresFails(w)
  <2>1. worker' = [worker EXCEPT ![w] = IdleWorker] /\ vectors' = vectors /\ written' = written
    BY <1>6 DEF PostgresFails, FailTask, RetryTask, EndTask, store
  <2>2. Persist(w) \/ owner' = owner
    BY <1>6 DEF PostgresFails, rows, store
  <2> QED BY <1>a, <1>b, <2>1, <2>2, PersistKeeps
<1> QED BY <1>1, <1>2, <1>3, <1>4, <1>5, <1>6 DEF Step, Fault

LEMMA RowInit == Init => RowInv
BY DEF Init, RowInv, RowsBelong, RowsBeforeVectors, RowsBeforeEntries, VectorsWritten, IdleWorker,
       Indexing

LEMMA RowNext == TypeInv /\ RowInv /\ [Next]_vars => RowInv'
<1> SUFFICES ASSUME TypeInv, RowInv, [Next]_vars PROVE RowInv'
  OBVIOUS
<1>1. CASE UNCHANGED <<owner, vectors, written, worker>>
  BY <1>1 DEF RowInv, RowsBelong, RowsBeforeVectors, RowsBeforeEntries, VectorsWritten, Made, Version
<1>2. CASE \E p \in Processes : ProcessLost(p)
  <2>1. /\ UNCHANGED <<owner, vectors, written>>
        /\ \A w \in Workers : worker'[w] = worker[w] \/ worker'[w] = IdleWorker
    BY <1>2 DEF ProcessLost, rows
  <2>2. RowsBelong' /\ VectorsWritten'
    BY <2>1 DEF RowInv, RowsBelong, VectorsWritten
  <2>3. \A w \in Workers :
           \/ worker'[w].pc \notin Indexing \cup {"indexed"}
           \/ worker'[w].version = worker[w].version /\ worker[w].pc \in Indexing \cup {"indexed"}
    BY <2>1 DEF IdleWorker, Indexing
  <2> QED BY <2>1, <2>2, <2>3, KeepsRows
<1> QED BY <1>1, <1>2, RowStep DEF Next, RegisterVersion, Quiescent, vars, rows, store

\* Whatever overlaps, fails or dies, a vector's chunk has its row in `chunks`.
THEOREM VectorsTraceable == Spec => []VectorsHaveRows
<1>1. TypeInv /\ RowInv => VectorsHaveRows
  BY DEF RowInv, RowsBeforeEntries, VectorsWritten, VectorsHaveRows
<1> QED BY <1>1, RowInit, RowNext, TypeInit, TypeNext, PTL DEF Spec

------------------------------------------------------------------------------
\* Every variable keeps its type.
THEOREM TypesHold == Spec => []TypeOK
<1>1. TypeInv => TypeOK
  BY DEF TypeInv
<1> QED BY <1>1, TypeCorrect, PTL

LEMMA RowInvHolds == Spec => [](TypeInv /\ RowInv)
BY RowInit, RowNext, TypeInit, TypeNext, PTL DEF Spec

------------------------------------------------------------------------------
(***************************************************************************)
(* One worker at a time.  What it has written since it began to index is   *)
(* still there when it publishes, and nobody else publishes in between.    *)
(***************************************************************************)

OneWorker == \A v, w \in Workers : v = w

Written(w) ==
    /\ worker[w].pc \in {"added", "marked", "indexed"} =>
          \A c \in Made(w) : vectors[c] = Version(w)
    /\ worker[w].pc \in {"marked", "indexed"} => Made(w) \subseteq embedded
    /\ worker[w].pc = "indexed" => Made(w) \subseteq indexed

\* A published document is not being processed, and will not be.
NotAgain(w) ==
    lifecycle = "published" =>
        /\ worker[w].pc \in {"idle", "loaded"}
        /\ worker[w].pc = "loaded" => worker[w].state # "registered"

SerialInv == \A w \in Workers : Written(w) /\ NotAgain(w)

LEMMA SerialStep ==
    ASSUME OneWorker, TypeInv, RowInv, SerialInv, NEW w \in Workers, Step(w) \/ Fault(w)
    PROVE  SerialInv'
<1>0. /\ worker \in [Workers -> WorkerType] /\ worker[w] \in WorkerType
      /\ vectors \in [Chunks -> 0..MaxVersions]
      /\ Made(w) \in SUBSET Chunks
      /\ worker[w].pc \in Indexing => WithRow(Made(w)) = Made(w)
      /\ Written(w) /\ NotAgain(w)
  BY ProcessingAssumption DEF TypeInv, TypeOK, WorkerType, Made, Version, WithRow, RowInv,
                              RowsBeforeVectors, SerialInv
<1> SUFFICES Written(w)' /\ NotAgain(w)'
  BY DEF OneWorker, SerialInv
<1>1. CASE \E t \in Tasks : LoadDocument(w, t)
  <2>1. worker'[w].pc = "loaded" /\ worker'[w].state = lifecycle /\ lifecycle' = lifecycle
    BY <1>0, <1>1 DEF LoadDocument, Document, WorkerType
  <2> QED BY <2>1 DEF Written, NotAgain
<1>2. ASSUME worker' = [worker EXCEPT ![w] = IdleWorker]
      PROVE  Written(w)' /\ NotAgain(w)'
  BY <1>0, <1>2 DEF IdleWorker, Written, NotAgain
<1>3. CASE LoadVersion(w)
  <2>1. CASE worker' = [worker EXCEPT ![w] = IdleWorker]
    BY <1>2, <2>1
  <2>2. CASE worker' # [worker EXCEPT ![w] = IdleWorker]
    <3>1. worker'[w].pc = "ready" /\ worker[w].pc = "loaded" /\ worker[w].state = "registered"
          /\ lifecycle' = lifecycle
      BY <1>0, <1>3, <2>2 DEF LoadVersion, FailTask, EndTask, Document, WorkerType
    <3> QED BY <1>0, <3>1 DEF Written, NotAgain
  <2> QED BY <2>1, <2>2
<1>4. CASE PersistChunks(w)
  BY <1>0, <1>4 DEF PersistChunks, Persist, Goto, WorkerType, Written, NotAgain
<1>5. CASE Embed(w) \/ DeleteOldVectors(w) \/ DeleteFails(w)
  BY <1>0, <1>5 DEF Embed, DeleteOldVectors, DeleteFails, Document, Goto, WorkerType, Written, NotAgain
<1>6. CASE AddVectors(w)
  <2>1. /\ worker'[w].pc = "added" /\ Made(w)' = Made(w) /\ Version(w)' = Version(w)
        /\ worker[w].pc = "cleaned" /\ lifecycle' = lifecycle
    BY <1>0, <1>6 DEF AddVectors, Document, Goto, WorkerType, Made, Version
  <2>2. opened \subseteq {Process[w]}
    BY DEF OneWorker, TypeInv, TypeOK, Processes
  <2>3. vectors' = [c \in Chunks |-> IF c \in Made(w) THEN Version(w) ELSE vectors[c]]
    BY <1>6, <2>2 DEF AddVectors, Store
  <2>4. \A c \in Made(w) : vectors'[c] = Version(w)
    BY <1>0, <2>3
  <2> QED BY <1>0, <2>1, <2>4 DEF Written, NotAgain
<1>7. CASE MarkEmbedded(w)
  <2>1. /\ worker'[w].pc = "marked" /\ Made(w)' = Made(w) /\ Version(w)' = Version(w)
        /\ worker[w].pc = "added" /\ lifecycle' = lifecycle /\ vectors' = vectors
        /\ Made(w) \subseteq embedded'
    BY <1>0, <1>7 DEF MarkEmbedded, Document, store, Goto, WorkerType, Made, Version, Indexing
  <2> QED BY <1>0, <2>1 DEF Written, NotAgain
<1>8. CASE MarkIndexed(w)
  <2>1. /\ worker'[w].pc = "indexed" /\ Made(w)' = Made(w) /\ Version(w)' = Version(w)
        /\ worker[w].pc = "marked" /\ lifecycle' = lifecycle /\ vectors' = vectors
        /\ embedded' = embedded /\ Made(w) \subseteq indexed'
    BY <1>0, <1>8 DEF MarkIndexed, Document, store, Goto, WorkerType, Made, Version, Indexing
  <2> QED BY <1>0, <2>1 DEF Written, NotAgain
<1>9. CASE Publish(w) \/ IndexingFails(w) \/ PostgresFails(w)
  BY <1>2, <1>9 DEF Publish, IndexingFails, PostgresFails, FailTask, RetryTask, EndTask
<1> QED BY <1>1, <1>3, <1>4, <1>5, <1>6, <1>7, <1>8, <1>9 DEF Step, Fault

LEMMA SerialHolds ==
    ASSUME OneWorker
    PROVE  Spec => []SerialInv
<1>1. Init => SerialInv
  <2>1. Init => lifecycle = "registered" /\ \A w \in Workers : worker[w].pc = "idle"
    BY DEF Init, IdleWorker
  <2> QED BY <2>1 DEF SerialInv, Written, NotAgain
<1>2. TypeInv /\ RowInv /\ SerialInv /\ [Next]_vars => SerialInv'
  <2>1. ASSUME SerialInv, UNCHANGED vars
        PROVE  SerialInv'
    BY <2>1 DEF vars, rows, store, SerialInv, Written, NotAgain, Made, Version
  <2>2. ASSUME SerialInv, RegisterVersion
        PROVE  SerialInv'
    BY <2>2 DEF RegisterVersion, rows, store, SerialInv, Written, NotAgain, Made, Version
  <2>3. ASSUME SerialInv, NEW p, ProcessLost(p)
        PROVE  SerialInv'
    <3>1. /\ \A w \in Workers : worker'[w] = worker[w] \/ worker'[w].pc = "idle"
          /\ UNCHANGED <<lifecycle, vectors, embedded, indexed>>
      BY <2>3 DEF ProcessLost, Document, rows, IdleWorker
    <3> QED BY <2>3, <3>1 DEF SerialInv, Written, NotAgain, Made, Version
  <2> QED BY <2>1, <2>2, <2>3, SerialStep DEF Next, Quiescent
<1> QED BY <1>1, <1>2, RowInvHolds, PTL DEF Spec

\* With one worker, a document is only published over a complete index of the
\* version the worker read, whatever fails or dies.
THEOREM SerialPublishes ==
    ASSUME OneWorker
    PROVE  Spec => PublishedOverFullIndex
<1> DEFINE Full ==
       lifecycle # "published" /\ lifecycle' = "published" =>
          \E w \in Workers :
             /\ worker[w].pc = "indexed"
             /\ \A c \in Made(w) : vectors[c] = Version(w) /\ c \in embedded \cap indexed
<1>1. SerialInv /\ [Next]_vars => [Full]_vars
  <2> SUFFICES ASSUME SerialInv, Next, lifecycle # "published", lifecycle' = "published"
               PROVE  \E w \in Workers :
                         /\ worker[w].pc = "indexed"
                         /\ \A c \in Made(w) : vectors[c] = Version(w) /\ c \in embedded \cap indexed
    OBVIOUS
  <2>1. PICK w \in Workers : worker[w].pc = "indexed"
    BY DEF Next, RegisterVersion, Quiescent, vars, Step, Fault, LoadDocument, LoadVersion,
           PersistChunks, Persist, Embed, DeleteOldVectors, AddVectors, MarkEmbedded,
           MarkIndexed, Publish, DeleteFails, IndexingFails, PostgresFails, ProcessLost, Document
  <2> QED BY <2>1 DEF SerialInv, Written
<1> QED BY <1>1, SerialHolds, PTL DEF Spec, PublishedOverFullIndex

\* With one worker, a document leaves PUBLISHED only for a new version.
THEOREM SerialStaysPublished ==
    ASSUME OneWorker
    PROVE  Spec => PublishedUntilNewVersion
<1> DEFINE Stays == lifecycle = "published" => lifecycle' = "published" \/ active' > active
<1>1. TypeInv /\ SerialInv /\ [Next]_vars => [Stays]_vars
  <2> SUFFICES ASSUME TypeInv, SerialInv, Next, lifecycle = "published"
               PROVE  lifecycle' = "published" \/ active' > active
    OBVIOUS
  <2>1. CASE RegisterVersion
    BY <2>1, ProcessingAssumption DEF RegisterVersion, TypeInv, TypeOK, Versions
  <2>2. ASSUME NEW w \in Workers, Step(w) \/ Fault(w)
        PROVE  lifecycle' = "published"
    <3>1. worker[w].pc \in {"idle", "loaded"}
      BY DEF SerialInv, NotAgain
    <3> QED BY <2>2, <3>1
         DEF Step, Fault, LoadDocument, LoadVersion, PersistChunks, Embed, DeleteOldVectors,
             AddVectors, MarkEmbedded, MarkIndexed, Publish, DeleteFails, IndexingFails,
             PostgresFails, Document, Indexing
  <2> QED BY <2>1, <2>2 DEF Next, ProcessLost, Document, Quiescent, vars
<1> QED BY <1>1, SerialHolds, TypeCorrect, PTL DEF Spec, PublishedUntilNewVersion

------------------------------------------------------------------------------
(***************************************************************************)
(* Redelivery.  Several workers may delete, insert, embed and mark the     *)
(* same chunks at once.  Each of them repeats every step after the one it  *)
(* undoes for the others: whoever deletes the vectors adds them, whoever   *)
(* resets the marks sets them.  So what is not complete has a worker that  *)
(* will complete it before the last of them publishes.  That holds of the  *)
(* chunks table whatever the workers are, and of the vectors as long as    *)
(* the workers that write them are threads of one process.                 *)
(***************************************************************************)

At(positions) == \E w \in Workers : worker[w].pc \in positions
Past(positions) == At(positions) \/ lifecycle = "published"

Calm == faults = 0 /\ crashes = 0 /\ active = 1 /\ Content[1] # {}

\* A busy worker holds a running task of its own.
TasksHeld ==
    \A w \in Workers : worker[w].pc # "idle" =>
        /\ task[worker[w].task] = "running"
        /\ \A v \in Workers : worker[v].pc # "idle" /\ worker[v].task = worker[w].task => v = w

\* No task ends before some worker has got to work, and its work goes on.
WorkGoesOn ==
    /\ lifecycle = "registered" =>
          /\ \A t \in Tasks : task[t] \in {"queued", "running"}
          /\ \A w \in Workers : worker[w].pc = "loaded" => worker[w].state = "registered"
    /\ lifecycle = "chunked" => At(Indexing \cup {"indexed"})

OneVersion ==
    /\ \A w \in Workers : worker[w].version = 1
    /\ \A c \in Chunks : owner[c] # 0 => owner[c] = 1 /\ c \in Content[1]
    /\ \A c \in Chunks : written[c] \subseteq {0, 1} /\ (1 \in written[c] => c \in Content[1])
    /\ embedded \subseteq Content[1] /\ indexed \subseteq Content[1]

Rows == Past(Indexing \cup {"indexed"}) => \A c \in Content[1] : owner[c] = 1
\* The store keeps its word to the threads of one process only.
Vectors ==
    SingleProcess /\ Past({"added", "marked", "indexed"}) =>
        At({"cleaned"}) \/ \A c \in Content[1] : vectors[c] = 1
Embedded ==
    Past({"marked", "indexed"}) =>
        At({"chunked", "embedded", "cleaned", "added"}) \/ Content[1] \subseteq embedded
Indexed == Past({"indexed"}) => At(Indexing) \/ Content[1] \subseteq indexed

Repaired == TasksHeld /\ WorkGoesOn /\ OneVersion /\ Rows /\ Vectors /\ Embedded /\ Indexed

Kept == vectors' = vectors /\ written' = written /\ opened' = opened

LEMMA RepairedInit == Init => (Calm => Repaired)
<1> SUFFICES ASSUME Init, Calm PROVE Repaired
  OBVIOUS
<1>1. /\ \A w \in Workers : worker[w].pc = "idle" /\ worker[w].version = 1
      /\ lifecycle = "registered" /\ \A t \in Tasks : task[t] = "queued"
  BY DEF Init, IdleWorker
<1>2. TasksHeld /\ WorkGoesOn
  BY <1>1 DEF TasksHeld, WorkGoesOn
<1>3. OneVersion
  BY <1>1 DEF Init, OneVersion
<1>4. Rows /\ Vectors /\ Embedded /\ Indexed
  BY <1>1 DEF Rows, Vectors, SingleProcess, Embedded, Indexed, Past, At, Indexing
<1> QED BY <1>2, <1>3, <1>4 DEF Repaired

\* A worker w moves on to the position pc.
MovesTo(w, pc) ==
    /\ worker'[w].pc = pc /\ worker'[w].version = 1
    /\ \A v \in Workers \ {w} : worker'[v] = worker[v]

LEMMA AtMoves ==
    ASSUME NEW w \in Workers, NEW pc, MovesTo(w, pc), NEW positions
    PROVE  /\ pc \in positions => At(positions)'
           /\ worker[w].pc \notin positions /\ At(positions) => At(positions)'
           /\ pc \notin positions /\ At(positions)' => At(positions)
BY DEF MovesTo, At

LEMMA HeldMoves ==
    ASSUME TasksHeld, NEW w \in Workers, NEW pc, MovesTo(w, pc),
           \/ /\ worker[w].pc # "idle" /\ worker'[w].task = worker[w].task /\ task' = task
           \/ /\ worker[w].pc = "idle" /\ worker'[w].task \in Tasks
              /\ task[worker'[w].task] = "queued"
              /\ task' = [task EXCEPT ![worker'[w].task] = "running"]
           \/ /\ worker[w].pc # "idle" /\ pc = "idle"
              /\ \A t : t # worker[w].task => task'[t] = task[t],
           TypeInv
    PROVE  TasksHeld'
<1>1. /\ \A v \in Workers \ {w} : worker'[v] = worker[v]
      /\ task \in [Tasks -> {"queued", "running", "done", "failed"}]
      /\ \A v \in Workers : worker[v].pc # "idle" => worker[v].task \in Tasks
      /\ worker'[w].pc = pc
  BY DEF MovesTo, TypeInv, TypeOK, Busy
<1>2. CASE worker[w].pc # "idle" /\ worker'[w].task = worker[w].task /\ task' = task
  BY <1>1, <1>2 DEF TasksHeld
<1>3. CASE /\ worker[w].pc = "idle" /\ worker'[w].task \in Tasks
           /\ task[worker'[w].task] = "queued"
           /\ task' = [task EXCEPT ![worker'[w].task] = "running"]
  <2>1. \A v \in Workers \ {w} : worker[v].pc # "idle" => worker[v].task # worker'[w].task
    BY <1>3 DEF TasksHeld
  <2> QED BY <1>1, <1>3, <2>1 DEF TasksHeld
<1>4. CASE /\ worker[w].pc # "idle" /\ pc = "idle"
           /\ \A t : t # worker[w].task => task'[t] = task[t]
  BY <1>1, <1>4 DEF TasksHeld
<1> QED BY <1>2, <1>3, <1>4

LEMMA RepairedStep ==
    ASSUME TypeInv, RowInv, Calm, Repaired, NEW w \in Workers, Step(w)
    PROVE  Repaired'
<1> DEFINE C1 == Content[1]
<1>0. /\ worker \in [Workers -> WorkerType] /\ worker[w] \in WorkerType
      /\ task \in [Tasks -> {"queued", "running", "done", "failed"}]
      /\ worker[w].pc # "idle" => worker[w].task \in Tasks
      /\ Version(w) = 1 /\ Made(w) = C1 /\ C1 \in SUBSET Chunks /\ C1 # {}
      /\ owner \in [Chunks -> 0..MaxVersions] /\ vectors \in [Chunks -> 0..MaxVersions]
      /\ embedded \subseteq Chunks /\ indexed \subseteq Chunks
      /\ TasksHeld /\ WorkGoesOn /\ OneVersion /\ Rows /\ Vectors /\ Embedded /\ Indexed
      /\ active = 1 /\ Content[1] # {}
  BY ProcessingAssumption
     DEF TypeInv, TypeOK, Busy, WorkerType, Version, Made, Versions, Repaired, OneVersion, Calm
<1>1. ASSUME NEW t \in Tasks, LoadDocument(w, t)
      PROVE  Repaired'
  <2>1. /\ MovesTo(w, "loaded") /\ worker[w].pc = "idle" /\ worker'[w].task = t
        /\ worker'[w].state = lifecycle /\ lifecycle' = lifecycle
        /\ task[t] = "queued" /\ task' = [task EXCEPT ![t] = "running"]
        /\ owner' = owner /\ embedded' = embedded /\ indexed' = indexed /\ Kept
    BY <1>0, <1>1 DEF LoadDocument, MovesTo, Document, rows, store, Kept, WorkerType, OneVersion
  <2>2. TasksHeld'
    BY <1>0, <2>1, HeldMoves
  <2>3. WorkGoesOn'
    BY <1>0, <2>1, AtMoves DEF WorkGoesOn, MovesTo, Indexing
  <2>4. OneVersion'
    BY <1>0, <2>1 DEF OneVersion, MovesTo, Kept
  <2>5. Rows' /\ Vectors' /\ Embedded' /\ Indexed'
    BY <1>0, <2>1, AtMoves DEF Rows, Vectors, SingleProcess, Embedded, Indexed, Past, Kept, Indexing
  <2> QED BY <2>2, <2>3, <2>4, <2>5 DEF Repaired
<1>2. CASE LoadVersion(w)
  <2>1. /\ worker[w].pc = "loaded" /\ lifecycle' = lifecycle
        /\ owner' = owner /\ embedded' = embedded /\ indexed' = indexed /\ Kept
    BY <1>2 DEF LoadVersion, Document, rows, store, Kept
  <2>2. \/ MovesTo(w, "ready") /\ worker'[w].task = worker[w].task /\ task' = task
        \/ /\ MovesTo(w, "idle") /\ lifecycle # "registered"
           /\ \A t : t # worker[w].task => task'[t] = task[t]
    <3>1. CASE worker[w].state = "registered"
      BY <1>0, <1>2, <3>1 DEF LoadVersion, MovesTo, WorkerType
    <3>2. CASE worker[w].state # "registered"
      <4>1. lifecycle # "registered"
        BY <1>0, <2>1, <3>2 DEF WorkGoesOn
      <4>2. EndTask(w, "failed")
        BY <1>2, <3>2 DEF LoadVersion, FailTask
      <4> QED BY <1>0, <4>1, <4>2 DEF EndTask, MovesTo, IdleWorker
    <3> QED BY <3>1, <3>2
  <2>3. \E pc \in {"ready", "idle"} : MovesTo(w, pc)
    BY <2>2
  <2>4. TasksHeld'
    BY <1>0, <2>1, <2>2, HeldMoves
  <2>5. WorkGoesOn'
    BY <1>0, <2>1, <2>2, AtMoves DEF WorkGoesOn, MovesTo, Indexing
  <2>6. OneVersion'
    BY <1>0, <2>1, <2>3 DEF OneVersion, MovesTo, Kept
  <2>7. Rows' /\ Vectors' /\ Embedded' /\ Indexed'
    BY <1>0, <2>1, <2>3, AtMoves DEF Rows, Vectors, SingleProcess, Embedded, Indexed, Past, Kept, Indexing
  <2> QED BY <2>4, <2>5, <2>6, <2>7 DEF Repaired
<1>a. ASSUME worker[w].pc # "idle", NEW pc \in Positions \ {"idle", "loaded"}, Goto(w, pc), task' = task,
             worker[w].pc \in Indexing => lifecycle' = lifecycle /\ pc \in Indexing \cup {"indexed"},
             worker[w].pc \notin Indexing => pc = "chunked" /\ lifecycle' = "chunked",
             OneVersion', Rows', Vectors', Embedded', Indexed'
      PROVE  Repaired'
  <2>1. MovesTo(w, pc) /\ worker'[w].task = worker[w].task
    BY <1>0, <1>a DEF Goto, MovesTo, WorkerType, OneVersion
  <2>2. TasksHeld'
    BY <1>0, <1>a, <2>1, HeldMoves
  <2>3. WorkGoesOn'
    BY <1>0, <1>a, <2>1, AtMoves DEF WorkGoesOn, MovesTo, Indexing
  <2> QED BY <1>a, <2>2, <2>3 DEF Repaired
<1>b. ASSUME worker[w].pc # "idle", NEW pc, Goto(w, pc)
      PROVE  MovesTo(w, pc) /\ \A v \in Workers : worker'[v].version = 1
  BY <1>0, <1>b DEF Goto, MovesTo, WorkerType, OneVersion
<1>s. ASSUME NEW entries \in [Chunks -> {0, 1}], Store(w, entries),
             \A c \in Chunks : entries[c] = 1 => c \in C1
      PROVE  /\ \A c \in Chunks : written'[c] \subseteq {0, 1} /\ (1 \in written'[c] => c \in C1)
             /\ SingleProcess' => SingleProcess /\ vectors' = entries
  <2>1. \A c \in Chunks : written'[c] \subseteq {0, 1} /\ (1 \in written'[c] => c \in C1)
    BY <1>0, <1>s DEF Store, OneVersion
  <2>2. ASSUME SingleProcess' PROVE opened \subseteq {Process[w]}
    BY <1>s, <2>2 DEF Store, SingleProcess
  <2> QED BY <1>s, <2>1, <2>2 DEF Store, SingleProcess
<1>3. CASE PersistChunks(w)
  <2>1. /\ worker[w].pc = "ready" /\ Goto(w, "chunked") /\ lifecycle' = "chunked"
        /\ Kept /\ task' = task
        /\ \A c \in Chunks : owner'[c] = IF c \in C1 THEN 1 ELSE 0
        /\ embedded' \subseteq embedded /\ indexed' \subseteq indexed
    BY <1>0, <1>3 DEF PersistChunks, Persist, OneVersion, store, Kept
  <2>2. MovesTo(w, "chunked") /\ \A v \in Workers : worker'[v].version = 1
    BY <1>b, <2>1
  <2>3. OneVersion' /\ Rows'
    BY <1>0, <2>1, <2>2 DEF OneVersion, Kept, Rows
  <2>4. Vectors' /\ Embedded' /\ Indexed'
    BY <1>0, <2>1, <2>2, AtMoves DEF Vectors, SingleProcess, Embedded, Indexed, Past, Kept, Indexing
  <2> QED BY <1>a, <2>1, <2>3, <2>4 DEF Positions, Indexing
<1>4. CASE Embed(w)
  <2>1. /\ worker[w].pc = "chunked" /\ Goto(w, "embedded") /\ lifecycle' = lifecycle
        /\ Kept /\ task' = task
        /\ owner' = owner /\ embedded' = embedded /\ indexed' = indexed
    BY <1>4 DEF Embed, Document, rows, store, Kept
  <2>2. MovesTo(w, "embedded") /\ \A v \in Workers : worker'[v].version = 1
    BY <1>b, <2>1
  <2>3. OneVersion' /\ Rows'
    BY <1>0, <2>1, <2>2, AtMoves DEF OneVersion, Kept, Rows, Past, At, Indexing
  <2>4. Vectors' /\ Embedded' /\ Indexed'
    BY <1>0, <2>1, <2>2, AtMoves DEF Vectors, SingleProcess, Embedded, Indexed, Past, Kept, Indexing
  <2> QED BY <1>a, <2>1, <2>3, <2>4 DEF Positions, Indexing
<1>5. CASE DeleteOldVectors(w)
  <2>1. /\ worker[w].pc = "embedded" /\ Goto(w, "cleaned") /\ lifecycle' = lifecycle
        /\ Store(w, [c \in Chunks |-> 0]) /\ task' = task
        /\ owner' = owner /\ embedded' = embedded /\ indexed' = indexed
    BY <1>5 DEF DeleteOldVectors, Document, rows
  <2>a. /\ \A c \in Chunks : written'[c] \subseteq {0, 1} /\ (1 \in written'[c] => c \in C1)
        /\ SingleProcess' => SingleProcess
    BY <1>s, <2>1
  <2>2. MovesTo(w, "cleaned") /\ \A v \in Workers : worker'[v].version = 1
    BY <1>b, <2>1
  <2>3. OneVersion' /\ Rows'
    BY <1>0, <2>1, <2>2, <2>a, AtMoves DEF OneVersion, Kept, Rows, Past, At, Indexing
  <2>4. Vectors' /\ Embedded' /\ Indexed'
    BY <1>0, <2>1, <2>2, <2>a, AtMoves DEF Vectors, SingleProcess, Embedded, Indexed, Past, Kept, Indexing
  <2> QED BY <1>a, <2>1, <2>3, <2>4 DEF Positions, Indexing
<1>6. CASE AddVectors(w)
  <2>1. /\ worker[w].pc = "cleaned" /\ Goto(w, "added") /\ lifecycle' = lifecycle
        /\ Store(w, [c \in Chunks |-> IF c \in C1 THEN 1 ELSE vectors[c]])
        /\ task' = task /\ owner' = owner /\ embedded' = embedded /\ indexed' = indexed
    BY <1>0, <1>6 DEF AddVectors, Document, rows
  <2>b. [c \in Chunks |-> IF c \in C1 THEN 1 ELSE vectors[c]] \in [Chunks -> {0, 1}]
        /\ \A c \in Chunks : (IF c \in C1 THEN 1 ELSE vectors[c]) = 1 => c \in C1
    BY <1>0 DEF RowInv, VectorsWritten, OneVersion
  <2>a. /\ \A c \in Chunks : written'[c] \subseteq {0, 1} /\ (1 \in written'[c] => c \in C1)
        /\ SingleProcess' => SingleProcess /\ \A c \in C1 : vectors'[c] = 1
    BY <1>0, <1>s, <2>1, <2>b
  <2>2. MovesTo(w, "added") /\ \A v \in Workers : worker'[v].version = 1
    BY <1>b, <2>1
  <2>3. OneVersion' /\ Rows'
    BY <1>0, <2>1, <2>2, <2>a, AtMoves DEF OneVersion, Kept, Rows, Past, At, Indexing
  <2>4. Vectors' /\ Embedded' /\ Indexed'
    BY <1>0, <2>1, <2>2, <2>a, AtMoves DEF Vectors, SingleProcess, Embedded, Indexed, Past, Kept, Indexing
  <2> QED BY <1>a, <2>1, <2>3, <2>4 DEF Positions, Indexing
<1>c. worker[w].pc \in Indexing => WithRow(Made(w)) = C1
  BY <1>0 DEF Rows, Past, At, WithRow
<1>7. CASE MarkEmbedded(w)
  <2>1. /\ worker[w].pc = "added" /\ Goto(w, "marked") /\ lifecycle' = lifecycle
        /\ embedded' = embedded \cup C1
        /\ Kept /\ task' = task /\ owner' = owner /\ indexed' = indexed
    BY <1>7, <1>c DEF MarkEmbedded, Document, Indexing, store, Kept
  <2>2. MovesTo(w, "marked") /\ \A v \in Workers : worker'[v].version = 1
    BY <1>b, <2>1
  <2>3. OneVersion' /\ Rows'
    BY <1>0, <2>1, <2>2, AtMoves DEF OneVersion, Kept, Rows, Past, At, Indexing
  <2>4. Vectors' /\ Embedded' /\ Indexed'
    BY <1>0, <2>1, <2>2, AtMoves DEF Vectors, SingleProcess, Embedded, Indexed, Past, Kept, At, Indexing
  <2> QED BY <1>a, <2>1, <2>3, <2>4 DEF Positions, Indexing
<1>8. CASE MarkIndexed(w)
  <2>1. /\ worker[w].pc = "marked" /\ Goto(w, "indexed") /\ lifecycle' = lifecycle
        /\ indexed' = indexed \cup C1
        /\ Kept /\ task' = task /\ owner' = owner /\ embedded' = embedded
    BY <1>8, <1>c DEF MarkIndexed, Document, Indexing, store, Kept
  <2>2. MovesTo(w, "indexed") /\ \A v \in Workers : worker'[v].version = 1
    BY <1>b, <2>1
  <2>3. OneVersion' /\ Rows'
    BY <1>0, <2>1, <2>2, AtMoves DEF OneVersion, Kept, Rows, Past, At, Indexing
  <2>4. Vectors' /\ Embedded' /\ Indexed'
    BY <1>0, <2>1, <2>2, AtMoves DEF Vectors, SingleProcess, Embedded, Indexed, Past, Kept, At, Indexing
  <2> QED BY <1>a, <2>1, <2>3, <2>4 DEF Positions, Indexing
<1>9. CASE Publish(w)
  <2>1. /\ worker[w].pc = "indexed" /\ MovesTo(w, "idle") /\ lifecycle' = "published"
        /\ Kept /\ owner' = owner /\ embedded' = embedded /\ indexed' = indexed
        /\ \A t : t # worker[w].task => task'[t] = task[t]
    BY <1>0, <1>9 DEF Publish, EndTask, MovesTo, IdleWorker, rows, store, Kept
  <2>2. TasksHeld' /\ WorkGoesOn'
    BY <1>0, <2>1, HeldMoves DEF WorkGoesOn
  <2>3. At({"indexed"}) /\ At({"marked", "indexed"}) /\ At({"added", "marked", "indexed"})
        /\ At(Indexing \cup {"indexed"})
    BY <2>1 DEF At
  <2>4. OneVersion' /\ Rows'
    BY <1>0, <2>1, <2>3 DEF OneVersion, Kept, MovesTo, Rows, Past
  <2>5. Vectors' /\ Embedded' /\ Indexed'
    BY <1>0, <2>1, <2>3, AtMoves DEF Vectors, SingleProcess, Embedded, Indexed, Past, Kept, Indexing
  <2> QED BY <2>2, <2>4, <2>5 DEF Repaired
<1> QED BY <1>1, <1>2, <1>3, <1>4, <1>5, <1>6, <1>7, <1>8, <1>9 DEF Step

\* Delivering the task several times, to several workers at once, is harmless to the
\* chunks table; and to the vectors, if one process wrote them.
THEOREM Redelivery ==
    ASSUME Tasks # {}
    PROVE  Spec => []RedeliveryIsHarmless
<1>1. TypeInv /\ RowInv /\ (Calm => Repaired) /\ [Next]_vars => (Calm => Repaired)'
  <2> SUFFICES ASSUME TypeInv, RowInv, Calm => Repaired, [Next]_vars, Calm'
               PROVE  Repaired'
    OBVIOUS
  <2>1. CASE UNCHANGED vars
    BY <2>1 DEF vars, rows, store, Calm, Repaired, TasksHeld, WorkGoesOn, OneVersion, Rows, Vectors, SingleProcess,
                Embedded, Indexed, Past, At, SingleProcess
  <2>2. ASSUME NEW w \in Workers, Step(w)
        PROVE  Calm
    BY <2>2 DEF Calm, Step, LoadDocument, LoadVersion, PersistChunks, Embed, DeleteOldVectors,
                AddVectors, MarkEmbedded, MarkIndexed, Publish, NoFault, Document
  <2>3. ASSUME NEW w \in Workers, Fault(w)
        PROVE  FALSE
    BY <2>3 DEF Calm, TypeInv, TypeOK, Fault, DeleteFails, IndexingFails, PostgresFails
  <2>5. ASSUME NEW p, ProcessLost(p)
        PROVE  FALSE
    BY <2>5 DEF Calm, TypeInv, TypeOK, ProcessLost
  <2>4. ~RegisterVersion
    BY DEF Calm, TypeInv, TypeOK, Versions, RegisterVersion
  <2> QED BY <2>1, <2>2, <2>3, <2>4, <2>5, RepairedStep DEF Next, Quiescent
<1>2. TypeInv /\ RowInv /\ (Calm => Repaired) => RedeliveryIsHarmless
  <2> SUFFICES ASSUME TypeInv, RowInv, Repaired, Undisturbed
               PROVE  /\ lifecycle = "published"
                      /\ {c \in Chunks : owner[c] = 1} = Content[1]
                      /\ embedded = Content[1] /\ indexed = Content[1]
                      /\ {c \in Chunks : vectors[c] # 0} \subseteq Content[1]
                      /\ SingleProcess => {c \in Chunks : vectors[c] = 1} = Content[1]
    BY DEF RedeliveryIsHarmless, Undisturbed, Calm
  <2>1. \A w \in Workers : worker[w].pc = "idle"
    BY DEF Undisturbed, Settled, Repaired, TasksHeld, TypeInv, Busy
  <2>2. ~At(Indexing) /\ ~At(Indexing \cup {"indexed"}) /\ ~At({"cleaned"})
        /\ ~At({"chunked", "embedded", "cleaned", "added"})
    BY <2>1 DEF At, Indexing
  <2>3. lifecycle = "published"
    BY <2>2 DEF Undisturbed, Settled, Repaired, WorkGoesOn, TypeInv, TypeOK, Lifecycle
  <2>4. /\ \A c \in Content[1] : owner[c] = 1
        /\ SingleProcess => \A c \in Content[1] : vectors[c] = 1
        /\ Content[1] \subseteq embedded /\ Content[1] \subseteq indexed
    BY <2>2, <2>3 DEF Repaired, Rows, Vectors, Embedded, Indexed, Past
  <2>5. OneVersion /\ Content[1] \in SUBSET Chunks
    BY ProcessingAssumption DEF Repaired, Versions
  <2>6. \A c \in Chunks : vectors[c] # 0 => vectors[c] = 1 /\ c \in Content[1]
    BY <2>5 DEF RowInv, VectorsWritten, OneVersion
  <2>7. {c \in Chunks : owner[c] = 1} = Content[1] /\ embedded = Content[1] /\ indexed = Content[1]
    BY <2>4, <2>5 DEF OneVersion
  <2>8. SingleProcess => {c \in Chunks : vectors[c] = 1} = Content[1]
    BY <2>4, <2>5, <2>6
  <2> QED BY <2>3, <2>6, <2>7, <2>8
<1> QED BY <1>1, <1>2, RepairedInit, RowInvHolds, PTL DEF Spec
=============================================================================
