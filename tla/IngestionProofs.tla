--------------------------- MODULE IngestionProofs ---------------------------
(***************************************************************************)
(* Proofs about Ingestion, for every number of documents, payloads,        *)
(* workers, tasks, runs, faults and crashes; then about ingestion that may *)
(* lose version rows and has them restored from raw payloads.              *)
(***************************************************************************)
EXTENDS IngestionRecovery, TLAPS

\* What a worker past the start of its task, or of a payload, knows about it.
WorkerOK ==
    \A w \in Workers :
        /\ worker[w].pc # "idle" => worker[w].task \in Tasks
        /\ worker[w].pc \notin {"idle", "loop"} => worker[w].item \in Item /\ worker[w].run \in RunIds
        /\ worker[w].task \in DOMAIN ReplayOf =>
              /\ \A i \in worker[w].rest : i.uri \in File
              /\ worker[w].pc \notin {"idle", "loop"} => worker[w].item.uri \in File

TypeInv == TypeOK /\ WorkerOK

\* ActiveIndex finds an index of the rows, or 0.
LEMMA ActiveIndexType ==
    ASSUME NEW rows \in SUBSET VersionRow
    PROVE  ActiveIndex(rows) \in Nat
<1>1. CASE \E r \in rows : r.active
  <2>1. (CHOOSE r \in rows : r.active) \in rows
    BY <1>1
  <2> QED BY <1>1, <2>1 DEF ActiveIndex, VersionRow
<1>2. CASE ~\E r \in rows : r.active
  BY <1>2 DEF ActiveIndex
<1> QED BY <1>1, <1>2

\* The rows a commit leaves are rows.
LEMMA DeactivatedType ==
    ASSUME NEW rows \in SUBSET VersionRow, NEW i
    PROVE  Deactivated(rows, i) \in SUBSET VersionRow
BY DEF Deactivated, VersionRow

\* A batch is a set of items; those of a replay name stored files.
LEMMA BatchType ==
    ASSUME TypeOK, NEW t \in Tasks
    PROVE  /\ Batch(t) \in SUBSET Item
           /\ t \in DOMAIN ReplayOf => \A i \in Batch(t) : i.uri \in File
<1>1. CASE t \in DOMAIN ReplayOf
  <2>1. payloads[ReplayOf[t]] \in SUBSET PayloadRow /\ ReplayOf[t] \in Docs
    BY <1>1, IngestionAssumption DEF TypeOK
  <2> QED BY <1>1, <2>1 DEF Batch, Item, PayloadRow
<1>2. CASE t \notin DOMAIN ReplayOf
  BY <1>2, IngestionAssumption DEF Batch, Item
<1> QED BY <1>1, <1>2

LEMMA TypeInit == Init => TypeInv
<1> SUFFICES ASSUME Init PROVE TypeInv
  OBVIOUS
<1> USE IngestionAssumption DEF Init, IdleWorker
<1>1. TypeOK
  <2>1. versions \in [Docs -> SUBSET VersionRow]
    BY DEF VersionRow, File
  <2>2. payloads \in [Docs -> SUBSET PayloadRow]
    BY DEF PayloadRow, File
  <2>3. files \subseteq File
    BY DEF File
  <2>4. runs \in [RunIds -> RunRow]
    BY DEF RunStatus, RunRow
  <2>5. worker \in [Workers -> WorkerState]
    BY DEF Positions, WorkerState
  <2>6. documents \subseteq Docs /\ nextRun \in 1..(MaxRuns + 1)
    OBVIOUS
  <2>7. lock \in [Docs -> Workers \cup {None}] /\ rowlock \in [Docs -> Workers \cup {None}]
    OBVIOUS
  <2>8. task \in [Tasks -> {"queued", "running", "done", "failed"}]
    OBVIOUS
  <2>9. faults \in 0..MaxFaults /\ crashes \in 0..MaxCrashes
    OBVIOUS
  <2> HIDE IngestionAssumption DEF Init, IdleWorker
  <2> QED BY <2>1, <2>2, <2>3, <2>4, <2>5, <2>6, <2>7, <2>8, <2>9 DEF TypeOK
<1>2. WorkerOK
  BY DEF WorkerOK
<1> QED BY <1>1, <1>2 DEF TypeInv

\* Ending a transaction keeps the types of locks and workers.
LEMMA EndTransactionType ==
    ASSUME TypeInv, NEW w \in Workers, NEW pc \in Positions \ {"idle"},
           worker[w].pc \notin {"idle", "loop"},
           EndTransaction(w, pc)
    PROVE  /\ lock' \in [Docs -> Workers \cup {None}]
           /\ rowlock' \in [Docs -> Workers \cup {None}]
           /\ worker' \in [Workers -> WorkerState]
           /\ WorkerOK'
<1> USE DEF EndTransaction, Release, TypeInv, TypeOK
<1>1. lock' \in [Docs -> Workers \cup {None}] /\ rowlock' \in [Docs -> Workers \cup {None}]
  OBVIOUS
<1>2. worker' \in [Workers -> WorkerState]
  <2>1. [worker[w] EXCEPT !.pc = pc, !.active = 0, !.deact = 0] \in WorkerState
    BY DEF WorkerState
  <2> QED BY <2>1
<1>3. WorkerOK'
  BY DEF WorkerOK, WorkerState
<1> QED BY <1>1, <1>2, <1>3

\* Recording a status keeps the type of the run table.
LEMMA SetRunType ==
    ASSUME TypeInv, NEW w \in Workers, NEW status \in RunStatus, NEW d \in Docs \cup {None},
           NEW h \in {None, Hash(w)}, worker[w].pc \notin {"idle", "loop"},
           SetRun(w, status, d, h)
    PROVE  runs' \in [RunIds -> RunRow]
BY DEF SetRun, TypeInv, TypeOK, WorkerOK, Item, Hash, RunRow

\* What a commit writes has its type.
LEMMA CommitType ==
    ASSUME TypeInv, NEW w \in Workers, worker[w].pc = "insert", CommitVersion(w)
    PROVE  /\ documents' \subseteq Docs
           /\ versions' \in [Docs -> SUBSET VersionRow]
           /\ payloads' \in [Docs -> SUBSET PayloadRow]
           /\ runs' \in [RunIds -> RunRow]
<1>1. Doc(w) \in Docs /\ Hash(w) \in Hashes /\ worker[w].active \in Nat
  BY DEF TypeInv, TypeOK, WorkerOK, WorkerState, Item, Doc, Hash
<1>2. StorageUri(w) \in File
  <2>1. CASE Replaying(w)
    BY <2>1 DEF StorageUri, Replaying, TypeInv, WorkerOK
  <2>2. CASE ~Replaying(w)
    BY <1>1, <2>2, IngestionAssumption DEF StorageUri, TypeInv, TypeOK, WorkerOK, File, RunIds
  <2> QED BY <2>1, <2>2
<1>3. NewVersion(w) \in VersionRow
  BY <1>1, <1>2 DEF NewVersion, VersionRow
<1>4. Deactivated(versions[Doc(w)], worker[w].deact) \in SUBSET VersionRow
  BY <1>1, DeactivatedType DEF TypeInv, TypeOK
<1>5. versions' \in [Docs -> SUBSET VersionRow]
  BY <1>1, <1>3, <1>4 DEF CommitVersion, TypeInv, TypeOK
<1>6. payloads' \in [Docs -> SUBSET PayloadRow]
  BY <1>1, <1>2 DEF CommitVersion, TypeInv, TypeOK, PayloadRow
<1>7. documents' \subseteq Docs
  BY <1>1 DEF CommitVersion, TypeInv, TypeOK
<1>8. "registered" \in RunStatus
  BY DEF RunStatus, Terminal
<1> QED BY <1>1, <1>5, <1>6, <1>7, <1>8, SetRunType DEF CommitVersion

\* Aborting, and an exception that ends the task.
LEMMA AbortType ==
    ASSUME TypeInv, NEW w \in Workers, worker[w].pc \notin {"idle", "loop"},
           Abort(w), files' \subseteq File, faults' \in 0..MaxFaults, crashes' \in 0..MaxCrashes
    PROVE  TypeInv'
<1>1. "failing" \in Positions \ {"idle"}
  BY DEF Positions
<1> QED BY <1>1, EndTransactionType DEF Abort, TypeInv, TypeOK

LEMMA EscapeType ==
    ASSUME TypeInv, NEW w \in Workers, worker[w].pc # "idle",
           Escape(w), faults' \in 0..MaxFaults, crashes' \in 0..MaxCrashes
    PROVE  TypeInv'
<1> USE IngestionAssumption DEF Escape, TypeInv
<1>1. TypeOK'
  <2>1. IdleWorker \in WorkerState
    BY DEF IdleWorker, WorkerState, Positions
  <2> QED BY <2>1 DEF TypeOK, WorkerOK
<1>2. WorkerOK'
  BY DEF TypeOK, IdleWorker, WorkerOK
<1> QED BY <1>1, <1>2

\* Every step keeps the types.
LEMMA TypeStep ==
    ASSUME TypeInv, NEW w \in Workers, Step(w) \/ Fault(w)
    PROVE  TypeInv'
<1> USE IngestionAssumption
<1>0. /\ worker \in [Workers -> WorkerState] /\ worker[w] \in WorkerState
      /\ worker[w].pc # "idle" => worker[w].task \in Tasks
      /\ worker[w].pc \notin {"idle", "loop"} => Doc(w) \in Docs /\ Hash(w) \in Hashes
  BY DEF TypeInv, TypeOK, WorkerOK, WorkerState, Item, Doc, Hash
<1>a. ASSUME NEW pc \in Positions \ {"idle", "loop"}, worker[w].pc \notin {"idle", "loop"},
             Goto(w, pc)
      PROVE  worker' \in [Workers -> WorkerState] /\ WorkerOK'
  <2>1. [worker[w] EXCEPT !.pc = pc] \in WorkerState
    BY <1>0, <1>a DEF WorkerState
  <2>2. worker' \in [Workers -> WorkerState]
    BY <1>0, <1>a, <2>1 DEF Goto
  <2>3. WorkerOK'
    BY <1>0, <1>a DEF Goto, WorkerOK, TypeInv, WorkerState
  <2> QED BY <2>2, <2>3
<1>b. AfterTransition(w) \in Positions \ {"idle", "loop"}
  BY DEF AfterTransition, Positions, InTransaction
<1>1. ASSUME NEW t \in Tasks, TakeTask(w, t) PROVE TypeInv'
  <2>1. Batch(t) \in SUBSET Item /\ (t \in DOMAIN ReplayOf => \A i \in Batch(t) : i.uri \in File)
    BY BatchType DEF TypeInv
  <2>2. [worker[w] EXCEPT !.pc = "loop", !.task = t, !.rest = Batch(t)] \in WorkerState
    BY <1>0, <2>1 DEF WorkerState, Positions
  <2>3. worker' \in [Workers -> WorkerState]
    BY <1>0, <1>1, <2>2 DEF TakeTask
  <2>4. WorkerOK'
    BY <1>0, <1>1, <2>1 DEF TakeTask, WorkerOK, TypeInv, WorkerState
  <2> QED BY <1>1, <2>3, <2>4 DEF TakeTask, TypeInv, TypeOK, Tables, NoFault
<1>2. ASSUME NEW i \in worker[w].rest, CreateRun(w, i) PROVE TypeInv'
  <2>1. i \in Item /\ nextRun \in RunIds
    BY <1>0, <1>2 DEF WorkerState, CreateRun, TypeInv, TypeOK, RunIds
  <2>2. worker[w].task \in DOMAIN ReplayOf => i.uri \in File
    BY DEF TypeInv, WorkerOK
  <2>3. [worker[w] EXCEPT !.pc = "received", !.rest = worker[w].rest \ {i}, !.item = i,
                          !.run = nextRun] \in WorkerState
    <3>1. worker[w].rest \ {i} \in SUBSET Item
      BY <1>0 DEF WorkerState
    <3>2. "received" \in Positions /\ nextRun \in 0..MaxRuns
      BY <2>1 DEF Positions, RunIds
    <3> QED BY <1>0, <2>1, <3>1, <3>2 DEF WorkerState
  <2>4. worker' \in [Workers -> WorkerState]
    BY <1>0, <1>2, <2>3 DEF CreateRun
  <2>5. WorkerOK'
    BY <1>0, <1>2, <2>1, <2>2 DEF CreateRun, WorkerOK, TypeInv, WorkerState
  <2>6. runs' \in [RunIds -> RunRow]
    <3>1. [runs[nextRun] EXCEPT !.status = "received"] \in RunRow
      BY <2>1 DEF TypeInv, TypeOK, RunRow, RunStatus
    <3> QED BY <1>2, <2>1, <3>1 DEF CreateRun, TypeInv, TypeOK
  <2>7. nextRun' \in 1..(MaxRuns + 1)
    BY <1>2 DEF CreateRun, TypeInv, TypeOK
  <2> QED BY <1>2, <2>4, <2>5, <2>6, <2>7 DEF CreateRun, TypeInv, TypeOK, Tables, NoFault
<1>3. ASSUME FinishTask(w) PROVE TypeInv'
  <2>1. IdleWorker \in WorkerState
    BY DEF IdleWorker, WorkerState, Positions
  <2>2. TypeOK'
    BY <1>0, <1>3, <2>1 DEF FinishTask, TypeInv, TypeOK, Tables, NoFault
  <2>3. WorkerOK'
    BY <1>0, <1>3 DEF FinishTask, TypeInv, WorkerOK, IdleWorker
  <2> QED BY <2>2, <2>3 DEF TypeInv
<1>4. ASSUME Validate(w) PROVE TypeInv'
  <2>1. CASE Goto(w, "validated") /\ SetRun(w, "validated", None, Hash(w))
    <3>1. runs' \in [RunIds -> RunRow]
      BY <1>4, <2>1, SetRunType DEF Validate, RunStatus
    <3>2. worker' \in [Workers -> WorkerState] /\ WorkerOK'
      BY <1>4, <1>a, <2>1 DEF Validate, Positions
    <3> QED BY <1>4, <3>1, <3>2 DEF Validate, TypeInv, TypeOK, Tables, NoFault
  <2>2. CASE Goto(w, "loop") /\ SetRun(w, "failed", None, None)
    <3>1. runs' \in [RunIds -> RunRow]
      BY <1>4, <2>2, SetRunType DEF Validate, RunStatus, Terminal
    <3>2. [worker[w] EXCEPT !.pc = "loop"] \in WorkerState
      BY <1>0 DEF WorkerState, Positions
    <3>3. worker' \in [Workers -> WorkerState]
      BY <1>0, <2>2, <3>2 DEF Goto
    <3>4. WorkerOK'
      BY <1>0, <1>4, <2>2 DEF Validate, Goto, WorkerOK, TypeInv, WorkerState
    <3> QED BY <1>4, <3>1, <3>3, <3>4 DEF Validate, TypeInv, TypeOK, Tables, NoFault
  <2> QED BY <1>4, <2>1, <2>2 DEF Validate
<1>5. ASSUME LockDocument(w) PROVE TypeInv'
  <2>1. worker' \in [Workers -> WorkerState] /\ WorkerOK'
    BY <1>5, <1>a DEF LockDocument, Positions, InTransaction
  <2>2. lock' \in [Docs -> Workers \cup {None}]
    BY <1>5 DEF LockDocument, TypeInv, TypeOK
  <2> QED BY <1>5, <2>1, <2>2 DEF LockDocument, TypeInv, TypeOK, Tables, NoFault
<1>6. ASSUME GetActiveVersion(w) PROVE TypeInv'
  <2>1. ActiveIndex(versions[Doc(w)]) \in Nat
    BY <1>0, <1>6, ActiveIndexType DEF GetActiveVersion, TypeInv, TypeOK
  <2>2. [worker[w] EXCEPT !.pc = "read", !.active = ActiveIndex(versions[Doc(w)])] \in WorkerState
    BY <1>0, <2>1 DEF WorkerState, Positions, InTransaction
  <2>3. worker' \in [Workers -> WorkerState]
    BY <1>0, <1>6, <2>2 DEF GetActiveVersion
  <2>4. WorkerOK'
    BY <1>0, <1>6 DEF GetActiveVersion, WorkerOK, TypeInv, WorkerState
  <2> QED BY <1>6, <2>3, <2>4 DEF GetActiveVersion, TypeInv, TypeOK, Tables, NoFault
<1>7. ASSUME SkipDuplicate(w) PROVE TypeInv'
  <2>1. "loop" \in Positions \ {"idle"} /\ "skipped_no_change" \in RunStatus
    BY DEF Positions, RunStatus, Terminal
  <2>2. runs' \in [RunIds -> RunRow]
    BY <1>0, <1>7, <2>1, SetRunType DEF SkipDuplicate
  <2> QED BY <1>7, <2>1, <2>2, EndTransactionType
         DEF SkipDuplicate, TypeInv, TypeOK, Tables, NoFault
<1>8. ASSUME NotDuplicate(w) PROVE TypeInv'
  <2>1. worker' \in [Workers -> WorkerState] /\ WorkerOK'
    BY <1>8, <1>a DEF NotDuplicate, Positions, InTransaction
  <2> QED BY <1>8, <2>1 DEF NotDuplicate, TypeInv, TypeOK, Tables, NoFault
<1>9. ASSUME Deactivate(w) \/ ResumeDeactivate(w) PROVE TypeInv'
  <2> DEFINE found == ActiveIndex(versions[Doc(w)])
  <2>0. worker[w].pc \in {"transition", "deactivating"}
    BY <1>9 DEF Deactivate, ResumeDeactivate
  <2>1. found \in Nat
    BY <1>0, <2>0, ActiveIndexType DEF TypeInv, TypeOK
  <2>2. \E pc \in {AfterTransition(w), "deactivating"}, i \in Nat :
           worker' = [worker EXCEPT ![w].pc = pc, ![w].deact = i]
    <3>1. worker[w].deact \in Nat
      BY <1>0 DEF WorkerState
    <3>2. ASSUME NEW pc, Goto(w, pc)
          PROVE  worker' = [worker EXCEPT ![w].pc = pc, ![w].deact = worker[w].deact]
      BY <1>0, <3>2 DEF Goto, WorkerState
    <3>3. \/ Goto(w, AfterTransition(w))
          \/ worker' = [worker EXCEPT ![w].pc = AfterTransition(w), ![w].deact = found]
          \/ worker' = [worker EXCEPT ![w].pc = "deactivating", ![w].deact = found]
          \/ worker' = [worker EXCEPT ![w].pc = AfterTransition(w), ![w].deact = 0]
      BY <1>9 DEF Deactivate, ResumeDeactivate
    <3> HIDE DEF found
    <3> QED BY <2>1, <3>1, <3>2, <3>3
  <2>3. PICK pc \in {AfterTransition(w), "deactivating"}, i \in Nat :
           worker' = [worker EXCEPT ![w].pc = pc, ![w].deact = i]
    BY <2>2
  <2>4. pc \in Positions \ {"idle", "loop"}
    BY <1>b DEF Positions, InTransaction
  <2>5. [worker[w] EXCEPT !.pc = pc, !.deact = i] \in WorkerState
    BY <1>0, <2>4 DEF WorkerState
  <2>6. worker' \in [Workers -> WorkerState]
    BY <1>0, <2>3, <2>5
  <2>7. WorkerOK'
    BY <1>0, <2>0, <2>3, <2>4 DEF WorkerOK, TypeInv, WorkerState
  <2>8. rowlock' \in [Docs -> Workers \cup {None}]
    BY <1>0, <1>9, <2>0 DEF Deactivate, ResumeDeactivate, TypeInv, TypeOK
  <2> QED BY <1>9, <2>6, <2>7, <2>8
         DEF Deactivate, ResumeDeactivate, TypeInv, TypeOK, Tables, NoFault
<1>10. ASSUME WriteRawFile(w) PROVE TypeInv'
  <2>1. worker' \in [Workers -> WorkerState] /\ WorkerOK'
    BY <1>10, <1>a DEF WriteRawFile, Positions, InTransaction
  <2>2. files' \subseteq File
    BY <1>0, <1>10 DEF WriteRawFile, TypeInv, TypeOK, WorkerState, File
  <2> QED BY <1>10, <2>1, <2>2 DEF WriteRawFile, TypeInv, TypeOK, Tables, NoFault
<1>11. ASSUME RecordRawStored(w) PROVE TypeInv'
  <2>1. CASE Abort(w)
    BY <1>11, <2>1, AbortType DEF RecordRawStored, TypeInv, TypeOK, NoFault
  <2>2. CASE Goto(w, "upsert") /\ UNCHANGED <<Tables, runs, nextRun, rowlock, task, files>>
             /\ (lock' = lock \/ lock' = [lock EXCEPT ![Doc(w)] = w])
    <3>1. worker' \in [Workers -> WorkerState] /\ WorkerOK'
      BY <1>11, <1>a, <2>2 DEF RecordRawStored, Positions, InTransaction
    <3>2. lock' \in [Docs -> Workers \cup {None}]
      BY <2>2 DEF TypeInv, TypeOK
    <3> QED BY <1>11, <2>2, <3>1, <3>2 DEF RecordRawStored, TypeInv, TypeOK, Tables, NoFault
  <2> QED BY <1>11, <2>1, <2>2 DEF RecordRawStored
<1>12. ASSUME UpsertDocument(w) PROVE TypeInv'
  <2>1. worker' \in [Workers -> WorkerState] /\ WorkerOK'
    BY <1>12, <1>a DEF UpsertDocument, Positions, InTransaction
  <2>2. lock' \in [Docs -> Workers \cup {None}]
    BY <1>12 DEF UpsertDocument, TypeInv, TypeOK
  <2> QED BY <1>12, <2>1, <2>2 DEF UpsertDocument, TypeInv, TypeOK, Tables, NoFault
<1>13. ASSUME Register(w) \/ CommitAckLost(w) PROVE TypeInv'
  <2>1. worker[w].pc = "insert" /\ CommitVersion(w)
    BY <1>13 DEF Register, CommitAckLost
  <2>2. \E pc \in {"loop", "failing"} : EndTransaction(w, pc)
    BY <1>13 DEF Register, CommitAckLost
  <2>3. {"loop", "failing"} \subseteq Positions \ {"idle"}
    BY DEF Positions
  <2>4. /\ lock' \in [Docs -> Workers \cup {None}]
        /\ rowlock' \in [Docs -> Workers \cup {None}]
        /\ worker' \in [Workers -> WorkerState]
        /\ WorkerOK'
    BY <2>1, <2>2, <2>3, EndTransactionType
  <2>5. faults' \in 0..MaxFaults /\ crashes' \in 0..MaxCrashes
    BY <1>13 DEF Register, CommitAckLost, NoFault, TypeInv, TypeOK
  <2> QED BY <2>1, <2>4, <2>5, CommitType DEF CommitVersion, TypeInv, TypeOK
<1>14. ASSUME UniqueViolation(w) \/ DeadlockDetected(w) PROVE TypeInv'
  <2>1. worker[w].pc \notin {"idle", "loop"} /\ Abort(w)
    BY <1>14 DEF UniqueViolation, DeadlockDetected, WaitsFor
  <2> QED BY <1>14, <2>1, AbortType
         DEF UniqueViolation, DeadlockDetected, NoFault, TypeInv, TypeOK
<1>15. ASSUME RecordFailure(w) PROVE TypeInv'
  <2>1. CASE Escape(w)
    BY <1>15, <2>1, EscapeType DEF RecordFailure, TypeInv, TypeOK, NoFault
  <2>2. CASE SetRun(w, "failed", Doc(w), Hash(w)) /\ Goto(w, "loop")
             /\ UNCHANGED <<Tables, files, nextRun, lock, rowlock, task>>
    <3>1. runs' \in [RunIds -> RunRow]
      BY <1>0, <1>15, <2>2, SetRunType DEF RecordFailure, RunStatus, Terminal
    <3>2. [worker[w] EXCEPT !.pc = "loop"] \in WorkerState
      BY <1>0 DEF WorkerState, Positions
    <3>3. worker' \in [Workers -> WorkerState]
      BY <1>0, <2>2, <3>2 DEF Goto
    <3>4. WorkerOK'
      BY <1>0, <1>15, <2>2 DEF RecordFailure, Goto, WorkerOK, TypeInv, WorkerState
    <3> QED BY <1>15, <2>2, <3>1, <3>3, <3>4 DEF RecordFailure, TypeInv, TypeOK, Tables, NoFault
  <2> QED BY <1>15, <2>1, <2>2 DEF RecordFailure
<1>16. ASSUME StepFails(w) PROVE TypeInv'
  <2>1. faults' \in 0..MaxFaults /\ crashes' \in 0..MaxCrashes
    BY <1>16 DEF StepFails, TypeInv, TypeOK
  <2>2. CASE worker[w].pc \in InTransaction \cup {"validated"} /\ Abort(w) /\ UNCHANGED files
    BY <2>1, <2>2, AbortType DEF InTransaction, TypeInv, TypeOK
  <2>3. CASE worker[w].pc \in {"loop", "received", "failing"} /\ Escape(w)
    BY <2>1, <2>3, EscapeType
  <2> QED BY <1>16, <2>2, <2>3 DEF StepFails
<1>17. ASSUME NEW outcome \in {"queued", "failed"}, WorkerLost(w, outcome) PROVE TypeInv'
  <2>1. IdleWorker \in WorkerState
    BY DEF IdleWorker, WorkerState, Positions
  <2>2. TypeOK'
    BY <1>0, <1>17, <2>1 DEF WorkerLost, Release, TypeInv, TypeOK, Tables
  <2>3. WorkerOK'
    BY <1>0, <1>17 DEF WorkerLost, TypeInv, WorkerOK, IdleWorker
  <2> QED BY <2>2, <2>3 DEF TypeInv
<1> QED
  BY <1>1, <1>2, <1>3, <1>4, <1>5, <1>6, <1>7, <1>8, <1>9, <1>10, <1>11, <1>12, <1>13,
     <1>14, <1>15, <1>16, <1>17 DEF Step, Fault

LEMMA TypeNext == TypeInv /\ [Next]_vars => TypeInv'
<1>1. TypeInv /\ UNCHANGED vars => TypeInv'
  BY DEF TypeInv, TypeOK, WorkerOK, vars
<1> QED BY <1>1, TypeStep DEF Next, Quiescent

\* Every reachable state is well typed, and a worker inside a task or a payload
\* has the task, the payload and the run it works on.
THEOREM TypeCorrect == Spec => []TypeInv
BY TypeInit, TypeNext, PTL DEF Spec

------------------------------------------------------------------------------
(***************************************************************************)
(* Exactly the newest version is active, provided that untracked           *)
(* deliveries only concern registered documents.  (For the others the      *)
(* property is false: no row means no lock.)  The argument: the holder of  *)
(* a document's row lock is the only transaction on it, so what it read is *)
(* still so when it commits.                                               *)
(***************************************************************************)

OnlyKnownDocuments ==
    \A t \in Untracked \ DOMAIN ReplayOf : \A p \in Feed[t] : p[1] \in DOMAIN Seeded

\* The foreign key of ingestion_runs keeps every other document out.
NoNewDocument ==
    /\ documents = DOMAIN Seeded
    /\ \A d \in Docs \ documents : versions[d] = {} /\ payloads[d] = {}

\* Whoever gets past the foreign key works on a registered document.
PassesForeignKey(w) == worker[w].task \in Untracked \cup DOMAIN ReplayOf
ItemsKnown ==
    \A w \in Workers :
        /\ PassesForeignKey(w) =>
              /\ \A i \in worker[w].rest : i.doc \in documents
              /\ worker[w].pc \notin {"idle", "loop"} => Doc(w) \in documents
        /\ worker[w].pc \in {"upsert", "insert"} => Doc(w) \in documents

\* Locks are held by transactions on their document, and by all of those.
AfterDeactivate == {"store", "stored", "upsert", "insert"}
LocksHeld ==
    /\ \A w \in Workers :
          /\ worker[w].pc # "deactivating"
          /\ worker[w].pc \in InTransaction /\ Doc(w) \in documents => lock[Doc(w)] = w
    /\ \A d \in Docs, w \in Workers :
          /\ lock[d] = w => worker[w].pc \in InTransaction /\ Doc(w) = d
          /\ rowlock[d] = w => worker[w].pc \in AfterDeactivate /\ Doc(w) = d

\* What a transaction has read is still so.
ReadsCurrent ==
    \A w \in Workers :
        /\ worker[w].pc \in AfterDeactivate \cup {"read", "transition"} =>
              worker[w].active = ActiveIndex(versions[Doc(w)])
        /\ worker[w].pc \in AfterDeactivate \cup {"transition"} =>
              ~HasHash(versions[Doc(w)], Hash(w))
        /\ worker[w].deact = IF worker[w].pc \in AfterDeactivate THEN worker[w].active ELSE 0

KnownInv == NoNewDocument /\ ItemsKnown /\ LocksHeld /\ ReadsCurrent /\ NewestIsActive

\* The active version of a numbered document is its newest.
LEMMA ActiveIsNewest ==
    ASSUME NEW rows \in SUBSET VersionRow, NEW n \in Nat \ {0}, Numbered(rows, n)
    PROVE  ActiveIndex(rows) = n
<1>1. PICK r \in rows : r.index = n
  BY DEF Numbered
<1>2. r.active
  BY <1>1 DEF Numbered
<1>3. (CHOOSE s \in rows : s.active) \in rows /\ (CHOOSE s \in rows : s.active).active
  BY <1>1, <1>2
<1>4. (CHOOSE s \in rows : s.active).index = n
  BY <1>3 DEF Numbered
<1> QED BY <1>1, <1>2, <1>4 DEF ActiveIndex

\* Deactivating the newest version and appending one keeps the numbering.
LEMMA AppendNumbered ==
    ASSUME NEW rows \in SUBSET VersionRow, NEW n \in Nat \ {0}, Numbered(rows, n),
           NEW new \in VersionRow, new.index = n + 1, new.active, ~HasHash(rows, new.hash)
    PROVE  Numbered(Deactivated(rows, n) \cup {new}, n + 1)
<1> DEFINE after == Deactivated(rows, n) \cup {new}
<1>1. \A r \in Deactivated(rows, n) : \E s \in rows :
         r.index = s.index /\ r.hash = s.hash /\ r.uri = s.uri /\ r.active = FALSE
               /\ r = [s EXCEPT !.active = FALSE]
  BY DEF Deactivated, Numbered, VersionRow
<1>2. \A s \in rows : \E r \in Deactivated(rows, n) : r.index = s.index
  <2> SUFFICES ASSUME NEW s \in rows PROVE \E r \in Deactivated(rows, n) : r.index = s.index
    OBVIOUS
  <2> DEFINE off == [s EXCEPT !.active = s.active /\ s.index # n]
  <2>1. off \in Deactivated(rows, n)
    BY DEF Deactivated
  <2>2. off.index = s.index
    BY DEF VersionRow
  <2> QED BY <2>1, <2>2
<1>3. \A r \in after : r.index \in 1..(n + 1)
  BY <1>1 DEF Numbered
<1>4. \A i \in 1..(n + 1) : \E r \in after : r.index = i
  <2> SUFFICES ASSUME NEW i \in 1..(n + 1) PROVE \E r \in after : r.index = i
    OBVIOUS
  <2>1. CASE i = n + 1
    BY <2>1
  <2>2. CASE i \in 1..n
    BY <1>2, <2>2 DEF Numbered
  <2> QED BY <2>1, <2>2
<1>5. ASSUME NEW r \in after, NEW s \in after, r.index = s.index \/ r.hash = s.hash
      PROVE  r = s
  <2>1. CASE r \in Deactivated(rows, n) /\ s \in Deactivated(rows, n)
    <3>1. PICK p \in rows : r.index = p.index /\ r.hash = p.hash /\ r = [p EXCEPT !.active = FALSE]
      BY <1>1, <2>1
    <3>2. PICK q \in rows : s.index = q.index /\ s.hash = q.hash /\ s = [q EXCEPT !.active = FALSE]
      BY <1>1, <2>1
    <3>3. p = q
      BY <1>5, <3>1, <3>2 DEF Numbered
    <3> QED BY <3>1, <3>2, <3>3
  <2>2. \A p \in Deactivated(rows, n) : p.index # new.index /\ p.hash # new.hash
    BY <1>1 DEF Numbered, HasHash
  <2> QED BY <1>5, <2>1, <2>2
<1>6. \A r \in after : r.active <=> r.index = n + 1
  BY <1>1 DEF Numbered
<1> QED BY <1>3, <1>4, <1>5, <1>6 DEF Numbered

LEMMA KnownInit == Init => KnownInv
<1> SUFFICES ASSUME Init PROVE KnownInv
  OBVIOUS
<1> USE IngestionAssumption DEF Init, IdleWorker
<1>1. NoNewDocument /\ ItemsKnown /\ ReadsCurrent
  BY DEF NoNewDocument, ItemsKnown, PassesForeignKey, ReadsCurrent, AfterDeactivate
<1>2. LocksHeld
  BY DEF LocksHeld, InTransaction
<1>3. documents = DOMAIN Seeded /\ documents \subseteq Docs
  OBVIOUS
<1>4. \A d \in documents :
         /\ Seeded[d] \in Hashes
         /\ versions[d] = {[index |-> 1, hash |-> Seeded[d], active |-> TRUE, uri |-> <<d, 0>>]}
  OBVIOUS
<1> HIDE DEF Init, IdleWorker
<1>5. NewestIsActive
  <2> SUFFICES ASSUME NEW d \in documents
               PROVE  ActiveIndex(versions[d]) > 0 /\ Numbered(versions[d], ActiveIndex(versions[d]))
    BY DEF NewestIsActive
  <2>1. /\ d \in Docs /\ Seeded[d] \in Hashes
        /\ versions[d] = {[index |-> 1, hash |-> Seeded[d], active |-> TRUE, uri |-> <<d, 0>>]}
    BY <1>3, <1>4
  <2>2. Numbered(versions[d], 1)
    BY <2>1 DEF Numbered
  <2>3. versions[d] \in SUBSET VersionRow
    BY <2>1 DEF VersionRow, File
  <2>4. ActiveIndex(versions[d]) = 1
    BY <2>2, <2>3, ActiveIsNewest
  <2> QED BY <2>2, <2>4
<1> QED BY <1>1, <1>2, <1>5 DEF KnownInv

\* A commit appends exactly one version to a registered document.
LEMMA CommitAppends ==
    ASSUME TypeInv, KnownInv, NEW w \in Workers, worker[w].pc = "insert", CommitVersion(w)
    PROVE  LET d == Doc(w)
               n == ActiveIndex(versions[d])
           IN  /\ d \in documents /\ n \in Nat \ {0}
               /\ documents' = documents
               /\ ~HasHash(versions[d], Hash(w))
               /\ versions' = [versions EXCEPT ![d] =
                                  Deactivated(versions[d], n) \cup {NewVersion(w)}]
               /\ NewVersion(w).index = n + 1 /\ NewVersion(w).hash = Hash(w)
               /\ Numbered(versions'[d], n + 1)
               /\ ActiveIndex(versions'[d]) = n + 1
<1> DEFINE d == Doc(w)
           n == ActiveIndex(versions[d])
<1>1. d \in documents /\ d \in Docs /\ documents' = documents
  BY DEF KnownInv, ItemsKnown, TypeInv, TypeOK, CommitVersion
<1>2. n \in Nat \ {0} /\ Numbered(versions[d], n)
  <2>1. n > 0 /\ Numbered(versions[d], n)
    BY <1>1 DEF KnownInv, NewestIsActive
  <2>2. n \in Nat
    BY <1>1, ActiveIndexType DEF TypeInv, TypeOK
  <2> QED BY <2>1, <2>2
<1>3. ~HasHash(versions[d], Hash(w)) /\ worker[w].active = n /\ worker[w].deact = n
  BY DEF KnownInv, ReadsCurrent, AfterDeactivate
<1>4. versions' = [versions EXCEPT ![d] = Deactivated(versions[d], n) \cup {NewVersion(w)}]
  <2> HIDE DEF n
  <2> QED BY <1>1, <1>3 DEF CommitVersion, TypeInv, TypeOK
<1>5. NewVersion(w).index = n + 1 /\ NewVersion(w).hash = Hash(w) /\ NewVersion(w).active
  BY <1>3 DEF NewVersion
<1>6. versions' \in [Docs -> SUBSET VersionRow]
  BY CommitType
<1>7. versions'[d] = Deactivated(versions[d], n) \cup {NewVersion(w)}
  BY <1>1, <1>4 DEF TypeInv, TypeOK
<1>8. NewVersion(w) \in VersionRow
  BY <1>1, <1>6, <1>7
<1>9. Numbered(versions'[d], n + 1)
  <2>1. versions[d] \in SUBSET VersionRow
    BY <1>1 DEF TypeInv, TypeOK
  <2> HIDE DEF n
  <2> QED BY <1>2, <1>3, <1>5, <1>7, <1>8, <2>1, AppendNumbered
<1>10. ActiveIndex(versions'[d]) = n + 1
  <2>1. versions'[d] \in SUBSET VersionRow /\ n + 1 \in Nat \ {0}
    BY <1>1, <1>2, <1>6
  <2> HIDE DEF n
  <2> QED BY <1>9, <2>1, ActiveIsNewest
<1> QED BY <1>1, <1>2, <1>3, <1>4, <1>5, <1>9, <1>10

\* A worker back at rest, or in another task, leaves the others as they are.
LEMMA IdleInv ==
    ASSUME TypeInv, KnownInv, NEW w \in Workers, worker[w].pc # "idle",
           worker' = [worker EXCEPT ![w] = IdleWorker], UNCHANGED Tables,
           Release(w) \/ (UNCHANGED <<lock, rowlock>> /\ worker[w].pc \notin InTransaction)
    PROVE  KnownInv'
<1> USE DEF KnownInv, TypeInv, TypeOK, Tables
<1>1. NoNewDocument' /\ NewestIsActive'
  BY DEF NoNewDocument, NewestIsActive
<1>2. ItemsKnown'
  BY IngestionAssumption DEF ItemsKnown, PassesForeignKey, IdleWorker, Doc
<1>3. LocksHeld'
  BY IngestionAssumption DEF LocksHeld, Release, IdleWorker, Doc, InTransaction, AfterDeactivate
<1>4. ReadsCurrent'
  BY DEF ReadsCurrent, IdleWorker, Doc, Hash, AfterDeactivate
<1> QED BY <1>1, <1>2, <1>3, <1>4

\* The end of a transaction, with or without a commit, leaves the others as
\* they are: none of them is a transaction on the document it changed.
LEMMA EndInv ==
    ASSUME TypeInv, KnownInv, NEW w \in Workers, NEW pc \in {"loop", "failing"},
           worker[w].pc \notin {"idle", "loop"},
           EndTransaction(w, pc), documents' = documents, NoNewDocument', NewestIsActive',
           \A d \in Docs : \/ versions'[d] = versions[d]
                           \/ worker[w].pc = "insert" /\ d = Doc(w)
    PROVE  KnownInv'
<1> USE DEF KnownInv, TypeInv, TypeOK
<1>0. \A v \in Workers \ {w} : worker'[v] = worker[v]
  BY DEF EndTransaction
<1>1. /\ worker'[w] = [worker[w] EXCEPT !.pc = pc, !.active = 0, !.deact = 0]
      /\ worker[w] \in WorkerState
  BY DEF EndTransaction
<1>2. ItemsKnown'
  <2>1. \A v \in Workers : /\ worker'[v].task = worker[v].task
                           /\ worker'[v].rest = worker[v].rest
                           /\ worker'[v].item = worker[v].item
    BY <1>0, <1>1 DEF WorkerState
  <2>2. \A v \in Workers : Doc(v)' = Doc(v) /\ (PassesForeignKey(v)' <=> PassesForeignKey(v))
    BY <2>1 DEF Doc, PassesForeignKey
  <2>3. \A v \in Workers : worker'[v].pc \notin {"idle", "loop"} => worker[v].pc \notin {"idle", "loop"}
    BY <1>0
  <2>4. \A v \in Workers : worker'[v].pc \in {"upsert", "insert"} => worker[v].pc \in {"upsert", "insert"}
    BY <1>0, <1>1 DEF WorkerState
  <2>5. documents' = documents
    OBVIOUS
  <2>6. ItemsKnown
    OBVIOUS
  <2> QED BY <2>1, <2>2, <2>3, <2>4, <2>5, <2>6 DEF ItemsKnown
<1>3. LocksHeld'
  <2>1. \A v \in Workers :
          /\ worker'[v].pc # "deactivating"
          /\ worker'[v].pc \in InTransaction /\ Doc(v)' \in documents' => lock'[Doc(v)'] = v
    BY <1>0, <1>1, IngestionAssumption
       DEF LocksHeld, WorkerState, Doc, InTransaction, EndTransaction, Release
  <2>2. \A d \in Docs, v \in Workers :
          /\ lock'[d] = v => worker'[v].pc \in InTransaction /\ Doc(v)' = d
          /\ rowlock'[d] = v => worker'[v].pc \in AfterDeactivate /\ Doc(v)' = d
    BY <1>0, IngestionAssumption DEF LocksHeld, Doc, EndTransaction, Release
  <2> QED BY <2>1, <2>2 DEF LocksHeld
<1>4. ReadsCurrent'
  <2>1. \A v \in Workers \ {w} :
          worker[v].pc \in AfterDeactivate \cup {"read", "transition"} =>
             versions'[Doc(v)] = versions[Doc(v)]
    <3> SUFFICES ASSUME NEW v \in Workers \ {w},
                        worker[v].pc \in AfterDeactivate \cup {"read", "transition"},
                        worker[w].pc = "insert", Doc(v) = Doc(w)
                 PROVE  FALSE
      BY DEF WorkerOK, Item, Doc, AfterDeactivate
    <3>1. Doc(w) \in documents
      BY DEF ItemsKnown
    <3> QED BY <3>1 DEF LocksHeld, InTransaction, AfterDeactivate
  <2>2. \A v \in Workers \ {w} : Doc(v)' = Doc(v) /\ Hash(v)' = Hash(v)
    BY <1>0 DEF Doc, Hash
  <2>3. worker'[w].pc = pc /\ worker'[w].deact = 0
    BY <1>1 DEF WorkerState
  <2>4. ReadsCurrent
    OBVIOUS
  <2> QED BY <1>0, <2>1, <2>2, <2>3, <2>4 DEF ReadsCurrent, AfterDeactivate
<1> QED BY <1>2, <1>3, <1>4

LEMMA AbortInv ==
    ASSUME TypeInv, KnownInv, NEW w \in Workers, worker[w].pc \notin {"idle", "loop"}, Abort(w)
    PROVE  KnownInv'
<1>1. NoNewDocument' /\ NewestIsActive'
  BY DEF Abort, KnownInv, NoNewDocument, NewestIsActive
<1> QED BY <1>1, EndInv DEF Abort

\* What the invariant says of w itself, once its record is self.
Moves(w, self) ==
    /\ self.task = worker[w].task /\ self.rest = worker[w].rest /\ self.item = worker[w].item
    /\ self.pc # "deactivating"
    /\ self.pc \in {"upsert", "insert"} => Doc(w) \in documents
    /\ \/ lock' = lock
       \/ lock[Doc(w)] \in {None, w} /\ lock' = [lock EXCEPT ![Doc(w)] = w]
    /\ \/ rowlock' = rowlock
       \/ rowlock[Doc(w)] \in {None, w} /\ rowlock' = [rowlock EXCEPT ![Doc(w)] = w]
    /\ self.pc \in InTransaction /\ Doc(w) \in documents => lock'[Doc(w)] = w
    /\ \A d \in Docs : lock'[d] = w => self.pc \in InTransaction /\ d = Doc(w)
    /\ \A d \in Docs : rowlock'[d] = w => self.pc \in AfterDeactivate /\ d = Doc(w)
    /\ self.pc \in AfterDeactivate \cup {"read", "transition"} =>
          self.active = ActiveIndex(versions[Doc(w)])
    /\ self.pc \in AfterDeactivate \cup {"transition"} => ~HasHash(versions[Doc(w)], Hash(w))
    /\ self.deact = IF self.pc \in AfterDeactivate THEN self.active ELSE 0

\* A step of w that writes no table keeps the invariant if what the invariant
\* says of w itself is true afterwards.
LEMMA MoveInv ==
    ASSUME TypeInv, KnownInv, NEW w \in Workers, UNCHANGED Tables,
           NEW self, worker' = [worker EXCEPT ![w] = self],
           worker[w].pc \notin {"idle", "loop"},
           Moves(w, self)
    PROVE  KnownInv'
<1> USE DEF Moves
<1>0. /\ NoNewDocument /\ ItemsKnown /\ LocksHeld /\ ReadsCurrent /\ NewestIsActive
      /\ worker \in [Workers -> WorkerState]
      /\ lock \in [Docs -> Workers \cup {None}] /\ rowlock \in [Docs -> Workers \cup {None}]
      /\ None \notin Workers /\ Doc(w) \in Docs
      /\ documents' = documents /\ versions' = versions /\ payloads' = payloads
      /\ documents \subseteq Docs
  BY IngestionAssumption DEF KnownInv, TypeInv, TypeOK, WorkerOK, Item, Doc, Tables
<1>1. NoNewDocument' /\ NewestIsActive'
  BY <1>0 DEF NoNewDocument, NewestIsActive
<1>2. worker'[w] = self /\ \A v \in Workers \ {w} : worker'[v] = worker[v]
  BY <1>0
<1>3. \A v \in Workers : /\ Doc(v)' = Doc(v) /\ Hash(v)' = Hash(v)
                         /\ worker'[v].rest = worker[v].rest
                         /\ PassesForeignKey(v)' <=> PassesForeignKey(v)
  BY <1>2 DEF Doc, Hash, PassesForeignKey
<1>4. ItemsKnown'
  <2>1. PassesForeignKey(w) => Doc(w) \in documents
    BY <1>0 DEF ItemsKnown
  <2> QED BY <1>0, <1>2, <1>3, <2>1 DEF ItemsKnown
<1>5. LocksHeld'
  <2>1. \A v \in Workers \ {w} : worker[v].pc \in InTransaction /\ Doc(v) \in documents => lock'[Doc(v)] = v
    <3> SUFFICES ASSUME NEW v \in Workers \ {w}, worker[v].pc \in InTransaction, Doc(v) \in documents
                 PROVE  lock'[Doc(v)] = v
      OBVIOUS
    <3>1. lock[Doc(v)] = v /\ Doc(v) \in Docs
      BY <1>0 DEF LocksHeld
    <3> QED BY <1>0, <3>1
  <2>2. \A v \in Workers \ {w}, d \in Docs : (lock'[d] = v => lock[d] = v) /\ (rowlock'[d] = v => rowlock[d] = v)
    <3>1. \A v \in Workers \ {w}, d \in Docs : lock'[d] = v => lock[d] = v
      BY <1>0
    <3>2. \A v \in Workers \ {w}, d \in Docs : rowlock'[d] = v => rowlock[d] = v
      BY <1>0
    <3> QED BY <3>1, <3>2
  <2>3. \A v \in Workers : /\ worker'[v].pc # "deactivating"
                           /\ worker'[v].pc \in InTransaction /\ Doc(v)' \in documents' => lock'[Doc(v)'] = v
    BY <1>0, <1>2, <1>3, <2>1 DEF LocksHeld
  <2>4. \A d \in Docs, v \in Workers :
          /\ lock'[d] = v => worker'[v].pc \in InTransaction /\ Doc(v)' = d
          /\ rowlock'[d] = v => worker'[v].pc \in AfterDeactivate /\ Doc(v)' = d
    <3> SUFFICES ASSUME NEW d \in Docs, NEW v \in Workers
                 PROVE  /\ lock'[d] = v => worker'[v].pc \in InTransaction /\ Doc(v)' = d
                        /\ rowlock'[d] = v => worker'[v].pc \in AfterDeactivate /\ Doc(v)' = d
      OBVIOUS
    <3>1. CASE v = w
      BY <1>2, <1>3, <3>1
    <3>2. CASE v # w
      <4>1. Doc(v)' = Doc(v) /\ worker'[v] = worker[v]
        BY <1>2, <1>3, <3>2
      <4>2. (lock'[d] = v => lock[d] = v) /\ (rowlock'[d] = v => rowlock[d] = v)
        BY <2>2, <3>2
      <4>3. /\ lock[d] = v => worker[v].pc \in InTransaction /\ Doc(v) = d
            /\ rowlock[d] = v => worker[v].pc \in AfterDeactivate /\ Doc(v) = d
        BY <1>0 DEF LocksHeld
      <4> QED BY <4>1, <4>2, <4>3
    <3> QED BY <3>1, <3>2
  <2> QED BY <2>3, <2>4 DEF LocksHeld
<1>6. ReadsCurrent'
  BY <1>0, <1>2, <1>3 DEF ReadsCurrent
<1> QED BY <1>1, <1>4, <1>5, <1>6 DEF KnownInv

\* A task taken holds only what it may register; so does a payload picked.
LEMMA TakeTaskInv ==
    ASSUME OnlyKnownDocuments, TypeInv, KnownInv, NEW w \in Workers, NEW t \in Tasks, TakeTask(w, t)
    PROVE  KnownInv'
<1> USE DEF KnownInv, TypeInv, TypeOK
<1>1. NoNewDocument' /\ NewestIsActive'
  BY DEF TakeTask, Tables, NoNewDocument, NewestIsActive
<1>2. /\ worker[w] \in WorkerState /\ worker[w].pc = "idle" /\ documents' = documents
      /\ worker' = [worker EXCEPT ![w].pc = "loop", ![w].task = t, ![w].rest = Batch(t)]
      /\ lock' = lock /\ rowlock' = rowlock /\ versions' = versions
  BY DEF TakeTask, Tables
<1>3. t \in Untracked \cup DOMAIN ReplayOf => \A i \in Batch(t) : i.doc \in documents
  <2>1. CASE t \in DOMAIN ReplayOf
    <3>1. ReplayOf[t] \in Docs
      BY <2>1, IngestionAssumption
    <3> QED BY <2>1, <3>1 DEF Batch, NoNewDocument
  <2>2. CASE t \in Untracked \ DOMAIN ReplayOf
    BY <2>2 DEF Batch, OnlyKnownDocuments, NoNewDocument
  <2> QED BY <2>1, <2>2
<1>4. worker'[w] = [worker[w] EXCEPT !.pc = "loop", !.task = t, !.rest = Batch(t)]
      /\ \A v \in Workers \ {w} : worker'[v] = worker[v]
  BY <1>2
<1>5. worker'[w].pc = "loop" /\ worker'[w].task = t /\ worker'[w].rest = Batch(t)
      /\ worker'[w].deact = worker[w].deact
  BY <1>2, <1>4 DEF WorkerState
<1>6. ItemsKnown'
  BY <1>2, <1>3, <1>4, <1>5 DEF ItemsKnown, PassesForeignKey, Doc
<1>7. LocksHeld'
  BY <1>2, <1>4, <1>5 DEF LocksHeld, Doc, InTransaction, AfterDeactivate
<1>8. ReadsCurrent'
  BY <1>2, <1>4, <1>5 DEF ReadsCurrent, Doc, Hash, AfterDeactivate
<1> QED BY <1>1, <1>6, <1>7, <1>8

LEMMA CreateRunInv ==
    ASSUME TypeInv, KnownInv, NEW w \in Workers, NEW i \in worker[w].rest, CreateRun(w, i)
    PROVE  KnownInv'
<1> USE DEF KnownInv, TypeInv, TypeOK
<1>1. NoNewDocument' /\ NewestIsActive'
  BY DEF CreateRun, Tables, NoNewDocument, NewestIsActive
<1>2. /\ worker[w] \in WorkerState /\ worker[w].pc = "loop" /\ documents' = documents
      /\ worker' = [worker EXCEPT ![w].pc = "received", ![w].rest = @ \ {i},
                                  ![w].item = i, ![w].run = nextRun]
      /\ lock' = lock /\ rowlock' = rowlock /\ versions' = versions
  BY DEF CreateRun, Tables
<1>3. /\ worker'[w].pc = "received" /\ worker'[w].task = worker[w].task
      /\ worker'[w].rest = worker[w].rest \ {i} /\ worker'[w].item = i
      /\ worker'[w].deact = worker[w].deact
      /\ \A v \in Workers \ {w} : worker'[v] = worker[v]
  BY <1>2 DEF WorkerState
<1>4. ItemsKnown'
  BY <1>2, <1>3 DEF ItemsKnown, PassesForeignKey, Doc
<1>5. LocksHeld'
  BY <1>2, <1>3 DEF LocksHeld, Doc, InTransaction, AfterDeactivate
<1>6. ReadsCurrent'
  BY <1>2, <1>3 DEF ReadsCurrent, Doc, Hash, AfterDeactivate
<1> QED BY <1>1, <1>4, <1>5, <1>6

\* Every step keeps the invariant.
LEMMA KnownStep ==
    ASSUME OnlyKnownDocuments, TypeInv, KnownInv, NEW w \in Workers, Step(w) \/ Fault(w)
    PROVE  KnownInv'
<1> USE IngestionAssumption
<1>0. /\ worker[w] \in WorkerState /\ worker \in [Workers -> WorkerState]
      /\ lock \in [Docs -> Workers \cup {None}] /\ rowlock \in [Docs -> Workers \cup {None}]
      /\ documents \subseteq Docs
      /\ worker[w].pc \notin {"idle", "loop"} => Doc(w) \in Docs
      /\ NoNewDocument /\ ItemsKnown /\ LocksHeld /\ ReadsCurrent /\ NewestIsActive
  BY DEF TypeInv, TypeOK, WorkerOK, Item, Doc, KnownInv
<1>a. ASSUME NEW pc \in Positions \ {"deactivating"}, Goto(w, pc), UNCHANGED Tables,
             worker[w].pc \notin {"idle", "loop"},
             pc \in {"upsert", "insert"} => Doc(w) \in documents,
             lock' = lock \/ (lock[Doc(w)] \in {None, w} /\ lock' = [lock EXCEPT ![Doc(w)] = w]),
             UNCHANGED rowlock,
             pc \in InTransaction /\ Doc(w) \in documents => lock'[Doc(w)] = w,
             \A d \in Docs : lock'[d] = w => pc \in InTransaction /\ d = Doc(w),
             worker[w].pc \in AfterDeactivate => pc \in AfterDeactivate,
             pc \in AfterDeactivate \cup {"read", "transition"} =>
                worker[w].active = ActiveIndex(versions[Doc(w)]),
             pc \in AfterDeactivate \cup {"transition"} => ~HasHash(versions[Doc(w)], Hash(w)),
             worker[w].deact = IF pc \in AfterDeactivate THEN worker[w].active ELSE 0
      PROVE  KnownInv'
  <2> DEFINE self == [worker[w] EXCEPT !.pc = pc]
  <2>1. /\ self.task = worker[w].task /\ self.rest = worker[w].rest /\ self.item = worker[w].item
        /\ self.pc = pc /\ self.active = worker[w].active /\ self.deact = worker[w].deact
    BY <1>0 DEF WorkerState
  <2>2. worker' = [worker EXCEPT ![w] = self]
    BY <1>0, <1>a DEF Goto
  <2>3. \A d \in Docs : rowlock'[d] = w => pc \in AfterDeactivate /\ d = Doc(w)
    BY <1>0, <1>a DEF LocksHeld
  <2> HIDE DEF self
  <2>4. Moves(w, self)
    BY <1>a, <2>1, <2>3 DEF Moves
  <2> QED BY <1>a, <2>2, <2>4, MoveInv
<1>1. ASSUME NEW t \in Tasks, TakeTask(w, t) PROVE KnownInv'
  BY <1>1, TakeTaskInv
<1>2. ASSUME NEW i \in worker[w].rest, CreateRun(w, i) PROVE KnownInv'
  BY <1>2, CreateRunInv
<1>3. ASSUME FinishTask(w) PROVE KnownInv'
  BY <1>3, IdleInv DEF FinishTask, InTransaction, Tables
<1>4. ASSUME Validate(w) PROVE KnownInv'
  <2>1. PICK pc \in {"validated", "loop"} : Goto(w, pc)
    BY <1>4 DEF Validate
  <2>2. worker[w].deact = 0 /\ \A d \in Docs : lock[d] # w
    BY <1>0, <1>4 DEF Validate, ReadsCurrent, LocksHeld, AfterDeactivate, InTransaction
  <2> QED BY <1>4, <1>a, <2>1, <2>2 DEF Validate, Positions, InTransaction, AfterDeactivate
<1>5. ASSUME LockDocument(w) PROVE KnownInv'
  <2>1. worker[w].deact = 0 /\ \A d \in Docs : lock[d] # w
    BY <1>0, <1>5 DEF LockDocument, ReadsCurrent, LocksHeld, AfterDeactivate, InTransaction
  <2>2. /\ lock' = lock \/ (lock[Doc(w)] \in {None, w} /\ lock' = [lock EXCEPT ![Doc(w)] = w])
        /\ Doc(w) \in documents => lock'[Doc(w)] = w
        /\ \A d \in Docs : lock'[d] = w => d = Doc(w)
    BY <1>0, <1>5, <2>1 DEF LockDocument
  <2> QED BY <1>5, <1>a, <2>1, <2>2 DEF LockDocument, Positions, InTransaction, AfterDeactivate
<1>6. ASSUME GetActiveVersion(w) PROVE KnownInv'
  <2> DEFINE self == [worker[w] EXCEPT !.pc = "read", !.active = ActiveIndex(versions[Doc(w)])]
  <2>1. /\ self.task = worker[w].task /\ self.rest = worker[w].rest /\ self.item = worker[w].item
        /\ self.pc = "read" /\ self.active = ActiveIndex(versions[Doc(w)])
        /\ self.deact = worker[w].deact
    BY <1>0 DEF WorkerState
  <2>2. worker' = [worker EXCEPT ![w] = self]
    BY <1>0, <1>6 DEF GetActiveVersion
  <2>3. /\ worker[w].deact = 0
        /\ Doc(w) \in documents => lock[Doc(w)] = w
        /\ \A d \in Docs : lock[d] = w => d = Doc(w)
        /\ \A d \in Docs : rowlock[d] # w
    BY <1>0, <1>6 DEF GetActiveVersion, ReadsCurrent, LocksHeld, AfterDeactivate, InTransaction
  <2> HIDE DEF self
  <2>4. Moves(w, self)
    BY <1>6, <2>1, <2>3 DEF Moves, GetActiveVersion, InTransaction, AfterDeactivate
  <2> QED BY <1>6, <2>2, <2>4, MoveInv DEF GetActiveVersion
<1>7. ASSUME SkipDuplicate(w) PROVE KnownInv'
  <2>1. NoNewDocument' /\ NewestIsActive'
    BY <1>0, <1>7 DEF SkipDuplicate, Tables, NoNewDocument, NewestIsActive
  <2> QED BY <1>7, <2>1, EndInv DEF SkipDuplicate, Tables
<1>8. ASSUME NotDuplicate(w) PROVE KnownInv'
  <2>1. /\ worker[w].deact = 0 /\ worker[w].active = ActiveIndex(versions[Doc(w)])
        /\ Doc(w) \in documents => lock[Doc(w)] = w
        /\ \A d \in Docs : lock[d] = w => d = Doc(w)
    BY <1>0, <1>8 DEF NotDuplicate, ReadsCurrent, LocksHeld, AfterDeactivate, InTransaction
  <2> QED BY <1>8, <1>a, <2>1 DEF NotDuplicate, Positions, InTransaction, AfterDeactivate
<1>b. ASSUME worker[w].pc \in {"transition", "stored"}
      PROVE  worker[w].task \in Untracked \cup DOMAIN ReplayOf => Doc(w) \in documents
  BY <1>0, <1>b DEF ItemsKnown, PassesForeignKey
<1>9. ASSUME Deactivate(w) PROVE KnownInv'
  <2> DEFINE found == ActiveIndex(versions[Doc(w)])
             after == AfterTransition(w)
  <2>1. /\ worker[w].pc = "transition" /\ worker[w].deact = 0 /\ worker[w].active = found
        /\ ~HasHash(versions[Doc(w)], Hash(w))
        /\ Doc(w) \in documents => lock[Doc(w)] = w
        /\ \A d \in Docs : lock[d] = w => d = Doc(w)
        /\ \A d \in Docs : rowlock[d] # w
    BY <1>0, <1>9 DEF Deactivate, ReadsCurrent, LocksHeld, AfterDeactivate, InTransaction
  <2>2. /\ after \in {"store", "upsert"} /\ UNCHANGED <<Tables, lock>>
        /\ after \in {"upsert", "insert"} => Doc(w) \in documents
    <3>1. Replaying(w) => Doc(w) \in documents
      BY <1>b, <2>1 DEF Replaying
    <3> QED BY <1>9, <3>1 DEF Deactivate, AfterTransition
  <2>3. CASE found = 0
    <3>1. Goto(w, after) /\ UNCHANGED rowlock
      BY <1>9, <2>1, <2>3 DEF Deactivate
    <3> HIDE DEF found, after
    <3>2. worker[w].active = ActiveIndex(versions[Doc(w)])
      BY <2>1 DEF found
    <3> QED BY <1>a, <2>1, <2>2, <2>3, <3>1, <3>2 DEF Positions, InTransaction, AfterDeactivate
  <2>4. CASE found # 0
    <3>1. Doc(w) \in documents /\ Doc(w) \in Docs
      <4>1. ActiveIndex({}) = 0
        BY DEF ActiveIndex
      <4> QED BY <1>0, <2>1, <2>4, <4>1 DEF NoNewDocument
    <3>2. rowlock[Doc(w)] = None
      <4> SUFFICES ASSUME rowlock[Doc(w)] \in Workers PROVE FALSE
        BY <1>0, <3>1
      <4>1. lock[Doc(w)] = rowlock[Doc(w)]
        BY <1>0, <3>1 DEF LocksHeld, AfterDeactivate, InTransaction
      <4> QED BY <2>1, <3>1, <4>1
    <3>3. /\ rowlock' = [rowlock EXCEPT ![Doc(w)] = w]
          /\ worker' = [worker EXCEPT ![w].pc = after, ![w].deact = found]
      BY <1>9, <2>1, <2>4, <3>2 DEF Deactivate
    <3> DEFINE self == [worker[w] EXCEPT !.pc = after, !.deact = found]
    <3>4. /\ self.task = worker[w].task /\ self.rest = worker[w].rest
          /\ self.item = worker[w].item /\ self.pc = after /\ self.deact = found
          /\ self.active = worker[w].active
      BY <1>0 DEF WorkerState
    <3>5. worker' = [worker EXCEPT ![w] = self]
      BY <1>0, <3>3
    <3>6. \A d \in Docs : rowlock'[d] = w => d = Doc(w)
      BY <1>0, <2>1, <3>3
    <3>7. self.active = ActiveIndex(versions[Doc(w)])
      BY <2>1, <3>4
    <3> HIDE DEF self, found, after
    <3>8. Moves(w, self)
      BY <1>0, <2>1, <2>2, <3>1, <3>2, <3>3, <3>4, <3>6, <3>7
         DEF Moves, InTransaction, AfterDeactivate
    <3> QED BY <2>1, <2>2, <3>5, <3>8, MoveInv
  <2> QED BY <2>3, <2>4
<1>10. ASSUME ResumeDeactivate(w) PROVE KnownInv'
  BY <1>0, <1>10 DEF ResumeDeactivate, LocksHeld
<1>c. ASSUME worker[w].pc \in AfterDeactivate
      PROVE  /\ worker[w].deact = worker[w].active
             /\ worker[w].active = ActiveIndex(versions[Doc(w)])
             /\ ~HasHash(versions[Doc(w)], Hash(w))
             /\ Doc(w) \in documents => lock[Doc(w)] = w
             /\ \A d \in Docs : lock[d] = w => d = Doc(w)
  BY <1>0, <1>c DEF ReadsCurrent, LocksHeld, AfterDeactivate, InTransaction
<1>11. ASSUME WriteRawFile(w) PROVE KnownInv'
  <2>1. worker[w].pc \in AfterDeactivate
    BY <1>11 DEF WriteRawFile, AfterDeactivate
  <2> QED BY <1>11, <1>a, <1>c, <2>1 DEF WriteRawFile, Positions, InTransaction, AfterDeactivate
<1>12. ASSUME RecordRawStored(w) PROVE KnownInv'
  <2>0. worker[w].pc = "stored" /\ worker[w].pc \in AfterDeactivate
    BY <1>12 DEF RecordRawStored, AfterDeactivate
  <2>1. CASE Abort(w)
    BY <2>0, <2>1, AbortInv
  <2>2. CASE ~Abort(w)
    <3>1. Doc(w) \in documents
      BY <1>12, <1>b, <2>0, <2>2 DEF RecordRawStored, Tracked
    <3>2. /\ Goto(w, "upsert") /\ UNCHANGED <<Tables, rowlock>>
          /\ lock' = lock \/ lock' = [lock EXCEPT ![Doc(w)] = w]
      BY <1>12, <2>2 DEF RecordRawStored
    <3>3. lock'[Doc(w)] = w /\ lock[Doc(w)] = w /\ \A d \in Docs : lock'[d] = w => d = Doc(w)
      BY <1>0, <1>c, <2>0, <3>1, <3>2
    <3>4. lock' = lock
      BY <1>0, <3>1, <3>2, <3>3
    <3> QED BY <1>a, <1>c, <2>0, <3>1, <3>2, <3>3, <3>4 DEF Positions, InTransaction, AfterDeactivate
  <2> QED BY <2>1, <2>2
<1>13. ASSUME UpsertDocument(w) PROVE KnownInv'
  <2>1. worker[w].pc \in AfterDeactivate /\ Doc(w) \in documents
    BY <1>0, <1>13 DEF UpsertDocument, AfterDeactivate, ItemsKnown
  <2>2. lock' = lock
    BY <1>0, <1>13, <1>c, <2>1 DEF UpsertDocument
  <2> QED BY <1>13, <1>a, <1>c, <2>1, <2>2 DEF UpsertDocument, Positions, InTransaction, AfterDeactivate
<1>14. ASSUME Register(w) \/ CommitAckLost(w) PROVE KnownInv'
  <2>1. worker[w].pc = "insert" /\ CommitVersion(w)
    BY <1>14 DEF Register, CommitAckLost
  <2>2. PICK pc \in {"loop", "failing"} : EndTransaction(w, pc)
    BY <1>14 DEF Register, CommitAckLost
  <2> DEFINE d == Doc(w)
             n == ActiveIndex(versions[d])
  <2>3. /\ d \in documents /\ d \in Docs /\ documents' = documents
        /\ n \in Nat \ {0} /\ Numbered(versions'[d], n + 1) /\ ActiveIndex(versions'[d]) = n + 1
        /\ \A e \in Docs \ {d} : versions'[e] = versions[e] /\ payloads'[e] = payloads[e]
    <3>1. \A e \in Docs \ {d} : versions'[e] = versions[e] /\ payloads'[e] = payloads[e]
      BY <2>1 DEF CommitVersion, TypeInv, TypeOK
    <3> QED BY <1>0, <2>1, <3>1, CommitAppends
  <2> HIDE DEF d, n
  <2>4. NoNewDocument' /\ NewestIsActive'
    BY <1>0, <2>3 DEF NoNewDocument, NewestIsActive
  <2>5. \A e \in Docs : versions'[e] = versions[e] \/ (worker[w].pc = "insert" /\ e = Doc(w))
    BY <2>1, <2>3 DEF d
  <2> QED BY <2>1, <2>2, <2>3, <2>4, <2>5, EndInv
<1>15. ASSUME UniqueViolation(w) \/ DeadlockDetected(w) PROVE KnownInv'
  BY <1>15, AbortInv DEF UniqueViolation, DeadlockDetected, WaitsFor
<1>16. ASSUME RecordFailure(w) PROVE KnownInv'
  <2>1. CASE Escape(w)
    BY <1>16, <2>1, IdleInv DEF RecordFailure, Escape, InTransaction, Tables
  <2>2. CASE Goto(w, "loop") /\ UNCHANGED <<Tables, lock, rowlock>>
    <3>1. worker[w].deact = 0 /\ \A d \in Docs : lock[d] # w
      BY <1>0, <1>16 DEF RecordFailure, ReadsCurrent, LocksHeld, AfterDeactivate, InTransaction
    <3> QED BY <1>16, <1>a, <2>2, <3>1 DEF RecordFailure, Positions, InTransaction, AfterDeactivate
  <2> QED BY <1>16, <2>1, <2>2 DEF RecordFailure
<1>17. ASSUME StepFails(w) PROVE KnownInv'
  <2>1. CASE worker[w].pc \in InTransaction \cup {"validated"} /\ Abort(w)
    BY <2>1, AbortInv DEF InTransaction
  <2>2. CASE worker[w].pc \in {"loop", "received", "failing"} /\ Escape(w)
    BY <2>2, IdleInv DEF Escape, InTransaction, Tables
  <2> QED BY <1>17, <2>1, <2>2 DEF StepFails
<1>18. ASSUME NEW outcome \in {"queued", "failed"}, WorkerLost(w, outcome) PROVE KnownInv'
  BY <1>18, IdleInv DEF WorkerLost, Tables
<1> QED
  BY <1>1, <1>2, <1>3, <1>4, <1>5, <1>6, <1>7, <1>8, <1>9, <1>10, <1>11, <1>12, <1>13,
     <1>14, <1>15, <1>16, <1>17, <1>18 DEF Step, Fault

LEMMA KnownNext ==
    ASSUME OnlyKnownDocuments
    PROVE  TypeInv /\ KnownInv /\ [Next]_vars => KnownInv'
<1>1. TypeInv /\ KnownInv /\ UNCHANGED vars => KnownInv'
  BY DEF vars, KnownInv, NoNewDocument, ItemsKnown, PassesForeignKey, LocksHeld, ReadsCurrent,
         NewestIsActive, Doc, Hash
<1> QED BY <1>1, KnownStep DEF Next, Quiescent

\* Whatever the workers, deliveries, replays, failures and crashes: a registered
\* document's newest version, and no other, is active, and its versions are
\* numbered without gap or repetition.
THEOREM NewestActive ==
    ASSUME OnlyKnownDocuments
    PROVE  Spec => []NewestIsActive
<1>1. KnownInv => NewestIsActive
  BY DEF KnownInv
<1> QED BY <1>1, KnownInit, KnownNext, TypeCorrect, PTL DEF Spec

------------------------------------------------------------------------------
(***************************************************************************)
(* The history of a document: no step rewrites it, and the tables          *)
(* implement DocumentVersions.                                             *)
(***************************************************************************)

\* Only a commit writes versions.
LEMMA OnlyCommitsWrite ==
    ASSUME [Next]_vars
    PROVE  \/ versions' = versions
           \/ \E w \in Workers : worker[w].pc = "insert" /\ CommitVersion(w)
<1>1. ASSUME NEW w \in Workers, Step(w) \/ Fault(w)
      PROVE  versions' = versions \/ (worker[w].pc = "insert" /\ CommitVersion(w))
  BY <1>1 DEF Step, Fault, TakeTask, CreateRun, FinishTask, Validate, LockDocument,
         GetActiveVersion, SkipDuplicate, NotDuplicate, Deactivate, ResumeDeactivate,
         WriteRawFile, RecordRawStored, UpsertDocument, Register, UniqueViolation,
         RecordFailure, DeadlockDetected, StepFails, CommitAckLost, WorkerLost, Abort,
         Escape, Tables
<1>2. CASE UNCHANGED vars
  BY <1>2 DEF vars
<1> QED BY <1>1, <1>2 DEF Next, Quiescent

\* Deactivating rows leaves their index, hash and file.
LEMMA DeactivatedKeeps ==
    ASSUME NEW rows \in SUBSET VersionRow, NEW i
    PROVE  /\ \A r \in rows : \E s \in Deactivated(rows, i) :
                 s.index = r.index /\ s.hash = r.hash /\ s.uri = r.uri
           /\ \A s \in Deactivated(rows, i) : \E r \in rows :
                 s.index = r.index /\ s.hash = r.hash /\ s.uri = r.uri
<1>1. ASSUME NEW r \in rows
      PROVE  LET s == [r EXCEPT !.active = r.active /\ r.index # i]
             IN  s.index = r.index /\ s.hash = r.hash /\ s.uri = r.uri
  BY DEF VersionRow
<1> QED BY <1>1 DEF Deactivated

\* No step loses or rewrites a version, or makes an older version active again.
THEOREM VersionsAdvance ==
    ASSUME OnlyKnownDocuments
    PROVE  Spec => VersionsOnlyAdvance
<1> DEFINE Advance ==
       \A d \in Docs :
          /\ \A r \in versions[d] : \E s \in versions'[d] :
                s.index = r.index /\ s.hash = r.hash /\ s.uri = r.uri
          /\ ActiveIndex(versions[d]) <= ActiveIndex(versions'[d])
<1>1. TypeInv /\ KnownInv /\ [Next]_vars => [Advance]_vars
  <2> SUFFICES ASSUME TypeInv, KnownInv, [Next]_vars, NEW d \in Docs
               PROVE  /\ \A r \in versions[d] : \E s \in versions'[d] :
                            s.index = r.index /\ s.hash = r.hash /\ s.uri = r.uri
                      /\ ActiveIndex(versions[d]) <= ActiveIndex(versions'[d])
    OBVIOUS
  <2>1. versions[d] \in SUBSET VersionRow /\ ActiveIndex(versions[d]) \in Nat
    BY ActiveIndexType DEF TypeInv, TypeOK
  <2>2. CASE versions'[d] = versions[d]
    BY <2>1, <2>2
  <2>3. CASE versions'[d] # versions[d]
    <3>1. PICK w \in Workers : worker[w].pc = "insert" /\ CommitVersion(w)
      BY <2>3, OnlyCommitsWrite
    <3> DEFINE n == ActiveIndex(versions[d])
    <3>2. d = Doc(w)
      BY <2>3, <3>1 DEF CommitVersion, TypeInv, TypeOK
    <3>3. /\ versions'[d] = Deactivated(versions[d], n) \cup {NewVersion(w)}
          /\ ActiveIndex(versions'[d]) = n + 1
      BY <3>1, <3>2, CommitAppends DEF TypeInv, TypeOK
    <3> HIDE DEF n
    <3>4. n <= n + 1
      BY <2>1 DEF n
    <3> QED BY <2>1, <3>3, <3>4, DeactivatedKeeps DEF n
  <2> QED BY <2>2, <2>3
<1>2. [][Advance]_vars => VersionsOnlyAdvance
  BY DEF VersionsOnlyAdvance
<1> HIDE DEF Advance
<1> QED BY <1>1, <1>2, KnownInit, KnownNext, TypeInit, TypeCorrect, PTL DEF Spec

\* The tables start as the promised histories.
LEMMA PromiseInit == Init => Promise!InitDocumentVersions
<1> SUFFICES ASSUME Init PROVE Promise!InitDocumentVersions
  OBVIOUS
<1> DEFINE seed(d) == [index |-> 1, hash |-> Seeded[d], active |-> TRUE, uri |-> <<d, 0>>]
<1>1. \A d \in Docs : versions[d] = IF d \in DOMAIN Seeded THEN {seed(d)} ELSE {}
  BY DEF Init
<1>2. \A d \in Docs : {<<r.index, r.hash>> : r \in {seed(d)}} = {<<1, Seeded[d]>>}
  OBVIOUS
<1>3. \A d \in Docs : ActiveIndex({seed(d)}) = 1
  <2> SUFFICES ASSUME NEW d \in Docs PROVE ActiveIndex({seed(d)}) = 1
    OBVIOUS
  <2>1. seed(d).active /\ seed(d).index = 1
    OBVIOUS
  <2> HIDE DEF seed
  <2>2. (CHOOSE r \in {seed(d)} : r.active) = seed(d)
    BY <2>1
  <2> QED BY <2>1, <2>2 DEF ActiveIndex
<1>4. ActiveIndex({}) = 0
  BY DEF ActiveIndex
<1>5. History = [d \in Docs |-> IF d \in DOMAIN Seeded THEN {<<1, Seeded[d]>>} ELSE {}]
  <2>1. \A d \in Docs : {<<r.index, r.hash>> : r \in versions[d]} =
                           IF d \in DOMAIN Seeded THEN {<<1, Seeded[d]>>} ELSE {}
    BY <1>1, <1>2
  <2> QED BY <2>1 DEF History
<1>6. Current = [d \in Docs |-> IF d \in DOMAIN Seeded THEN 1 ELSE 0]
  <2>1. \A d \in Docs : ActiveIndex(versions[d]) = IF d \in DOMAIN Seeded THEN 1 ELSE 0
    BY <1>1, <1>3, <1>4
  <2> QED BY <2>1 DEF Current
<1> QED BY <1>5, <1>6 DEF Promise!InitDocumentVersions

\* A commit appends to the promised history; nothing else shows in it.
LEMMA PromiseStep ==
    ASSUME TypeInv, KnownInv, [Next]_vars
    PROVE  [Promise!NextDocumentVersions]_<<History, Current>>
<1>1. CASE versions' = versions
  BY <1>1 DEF History, Current
<1>2. CASE versions' # versions
  <2>1. PICK w \in Workers : worker[w].pc = "insert" /\ CommitVersion(w)
    BY <1>2, OnlyCommitsWrite
  <2> DEFINE d == Doc(w)
             h == Hash(w)
             n == ActiveIndex(versions[d])
  <2>2. d \in Docs /\ h \in Hashes
    BY <2>1 DEF TypeInv, WorkerOK, Item, Doc, Hash
  <2>3. /\ ~HasHash(versions[d], h) /\ n \in Nat
        /\ versions' = [versions EXCEPT ![d] = Deactivated(versions[d], n) \cup {NewVersion(w)}]
        /\ NewVersion(w).index = n + 1 /\ NewVersion(w).hash = h
        /\ ActiveIndex(versions'[d]) = n + 1
    BY <2>1, CommitAppends
  <2>4. versions \in [Docs -> SUBSET VersionRow]
    BY DEF TypeInv, TypeOK
  <2> HIDE DEF d, h, n
  <2>5. \A p \in History[d] : p[2] # h
    BY <2>2, <2>3 DEF History, HasHash
  <2>6. History' = [History EXCEPT ![d] = @ \cup {<<Current[d] + 1, h>>}]
    <3>1. {<<r.index, r.hash>> : r \in versions'[d]} =
             {<<r.index, r.hash>> : r \in versions[d]} \cup {<<n + 1, h>>}
      <4>1. versions'[d] = Deactivated(versions[d], n) \cup {NewVersion(w)}
        BY <2>2, <2>3, <2>4
      <4>2. {<<r.index, r.hash>> : r \in Deactivated(versions[d], n)} =
               {<<r.index, r.hash>> : r \in versions[d]}
        <5>1. versions[d] \in SUBSET VersionRow
          BY <2>2, <2>4
        <5> QED BY <5>1, DeactivatedKeeps
      <4> QED BY <2>3, <4>1, <4>2
    <3>2. Current[d] = n
      BY <2>2 DEF Current, n
    <3>3. \A e \in Docs \ {d} : versions'[e] = versions[e]
      BY <2>3, <2>4
    <3> QED BY <2>2, <3>1, <3>2, <3>3 DEF History
  <2>7. Current' = [Current EXCEPT ![d] = @ + 1]
    <3>1. Current[d] = n
      BY <2>2 DEF Current, n
    <3>2. \A e \in Docs \ {d} : versions'[e] = versions[e]
      BY <2>3, <2>4
    <3>3. \A e \in Docs : ActiveIndex(versions'[e]) =
                              IF e = d THEN Current[d] + 1 ELSE ActiveIndex(versions[e])
      <4> SUFFICES ASSUME NEW e \in Docs
                   PROVE  ActiveIndex(versions'[e]) =
                            IF e = d THEN Current[d] + 1 ELSE ActiveIndex(versions[e])
        OBVIOUS
      <4>1. CASE e = d
        <5>1. ActiveIndex(versions'[e]) = n + 1
          BY <2>3, <4>1
        <5> QED BY <3>1, <4>1, <5>1
      <4>2. CASE e # d
        <5>1. versions'[e] = versions[e]
          BY <3>2, <4>2
        <5>2. ActiveIndex(versions'[e]) = ActiveIndex(versions[e])
          BY <5>1
        <5> QED BY <4>2, <5>2
      <4> QED BY <4>1, <4>2
    <3>4. Current' = [e \in Docs |-> ActiveIndex(versions'[e])]
      BY DEF Current
    <3>5. Current = [e \in Docs |-> ActiveIndex(versions[e])]
      BY DEF Current
    <3> QED BY <2>2, <3>3, <3>4, <3>5
  <2>8. Promise!AppendVersion(d, h)
    BY <2>5, <2>6, <2>7 DEF Promise!AppendVersion
  <2> QED BY <2>2, <2>8 DEF Promise!NextDocumentVersions
<1> QED BY <1>1, <1>2

\* The ingestion tables implement an append-only version history per document.
THEOREM IngestionRefines ==
    ASSUME OnlyKnownDocuments
    PROVE  Spec => ImplementsDocumentVersions
<1>1. TypeInv /\ KnownInv /\ [Next]_vars => [Promise!NextDocumentVersions]_<<History, Current>>
  BY PromiseStep
<1> QED BY <1>1, PromiseInit, KnownInit, KnownNext, TypeInit, TypeCorrect, PTL
       DEF Spec, ImplementsDocumentVersions, Promise!Spec

------------------------------------------------------------------------------
LEMMA UniqueInit == Init => NeverTwoActive
<1> SUFFICES ASSUME Init PROVE NeverTwoActive
  OBVIOUS
<1>1. \A d \in Docs : versions[d] = {} \/ \E r : versions[d] = {r}
  BY DEF Init
<1> QED BY <1>1 DEF NeverTwoActive

LEMMA UniqueStep ==
    TypeInv /\ NeverTwoActive /\ [Next]_vars => NeverTwoActive'
<1> SUFFICES ASSUME TypeInv, NeverTwoActive, [Next]_vars,
                    NEW d \in Docs, NEW r \in versions'[d], NEW s \in versions'[d],
                    (r.active /\ s.active) \/ r.index = s.index \/ r.hash = s.hash
             PROVE  r = s
  BY DEF NeverTwoActive
<1>1. CASE versions'[d] = versions[d]
  BY <1>1 DEF NeverTwoActive
<1>2. CASE versions'[d] # versions[d]
  <2>1. PICK w \in Workers : worker[w].pc = "insert" /\ CommitVersion(w)
    BY <1>2, OnlyCommitsWrite
  <2> DEFINE rows == versions[d]
             off == Deactivated(rows, worker[w].deact)
  <2>2. d = Doc(w) /\ rows \in SUBSET VersionRow
    BY <1>2, <2>1 DEF CommitVersion, TypeInv, TypeOK
  <2>3. versions'[d] = IF HasHash(rows, Hash(w)) THEN off ELSE off \cup {NewVersion(w)}
    BY <2>1, <2>2 DEF CommitVersion, TypeInv, TypeOK
  <2>4. HasHash(rows, Hash(w)) \/ ~ViolatesUnique(w)
    BY <2>1, <2>2 DEF CommitVersion
  <2>5. \A p \in off : \E q \in rows :
           /\ p = [q EXCEPT !.active = q.active /\ q.index # worker[w].deact]
           /\ p.index = q.index /\ p.hash = q.hash
           /\ p.active <=> q.active /\ q.index # worker[w].deact
    BY <2>2 DEF Deactivated, VersionRow
  <2>6. \A p, q \in rows : (p.active /\ q.active) \/ p.index = q.index \/ p.hash = q.hash => p = q
    BY DEF NeverTwoActive
  <2> HIDE DEF rows, off
  <2>7. ASSUME NEW p \in off, NEW q \in off,
               (p.active /\ q.active) \/ p.index = q.index \/ p.hash = q.hash
        PROVE  p = q
    BY <2>5, <2>6, <2>7
  <2>8. ASSUME ~HasHash(rows, Hash(w)), NEW p \in off
        PROVE  ~p.active /\ p.index # NewVersion(w).index /\ p.hash # NewVersion(w).hash
    <3>1. PICK q \in rows : /\ p.index = q.index /\ p.hash = q.hash
                            /\ p.active <=> q.active /\ q.index # worker[w].deact
      BY <2>5, <2>8
    <3>2. q.index # worker[w].active + 1 /\ ~(q.active /\ q.index # worker[w].deact)
      BY <2>2, <2>4, <2>8 DEF ViolatesUnique, rows
    <3>3. q.hash # Hash(w)
      BY <2>8 DEF HasHash
    <3> QED BY <3>1, <3>2, <3>3 DEF NewVersion
  <2> QED BY <2>3, <2>7, <2>8
<1> QED BY <1>1, <1>2

\* With no assumption on the deliveries: the unique indexes of
\* document_versions alone keep two versions from both being active, or from
\* sharing an index or a hash.
THEOREM UniqueActive == Spec => []NeverTwoActive
BY UniqueInit, UniqueStep, TypeInit, TypeCorrect, PTL DEF Spec

------------------------------------------------------------------------------
(***************************************************************************)
(* Every version can be replayed, whatever the deliveries, faults and      *)
(* crashes.  A fetched payload's file is written before its row is, and no *)
(* rollback removes a file.  A replayed payload never becomes a version of *)
(* its own: raw_payloads rows appear only together with a version of their *)
(* hash, and none disappears.                                              *)
(***************************************************************************)

FileWritten == {"stored", "upsert", "insert"}

StoredItem(i) == i.doc \in Docs /\ [hash |-> i.hash, uri |-> i.uri] \in payloads[i.doc]

WorkerBacked(w) ==
    /\ Replaying(w) =>
          /\ \A i \in worker[w].rest : StoredItem(i)
          /\ worker[w].pc \notin {"idle", "loop"} => StoredItem(worker[w].item)
    /\ ~Replaying(w) /\ worker[w].pc \in FileWritten => <<Doc(w), worker[w].run>> \in files

PayloadsAreVersions == \A d \in Docs : \A p \in payloads[d] : HasHash(versions[d], p.hash)

BackedInv == VersionsAreBacked /\ PayloadsAreVersions /\ \A w \in Workers : WorkerBacked(w)

LEMMA BackedInit == Init => BackedInv
<1> SUFFICES ASSUME Init PROVE BackedInv
  OBVIOUS
<1>1. \A d \in Docs :
         \/ versions[d] = {} /\ payloads[d] = {}
         \/ \E r : /\ versions[d] = {r} /\ payloads[d] = {[hash |-> r.hash, uri |-> r.uri]}
                   /\ r.uri \in files
  <2> SUFFICES ASSUME NEW d \in DOMAIN Seeded
               PROVE  \E r : /\ versions[d] = {r}
                             /\ payloads[d] = {[hash |-> r.hash, uri |-> r.uri]}
                             /\ r.uri \in files
    BY DEF Init
  <2> DEFINE row == [index |-> 1, hash |-> Seeded[d], active |-> TRUE, uri |-> <<d, 0>>]
  <2>1. row.hash = Seeded[d] /\ row.uri = <<d, 0>>
    OBVIOUS
  <2>2. /\ versions[d] = {row} /\ payloads[d] = {[hash |-> Seeded[d], uri |-> <<d, 0>>]}
        /\ <<d, 0>> \in files
    BY IngestionAssumption DEF Init
  <2> QED BY <2>1, <2>2
<1>2. VersionsAreBacked /\ PayloadsAreVersions
  BY <1>1 DEF VersionsAreBacked, PayloadsAreVersions, HasHash
<1>3. \A w \in Workers : WorkerBacked(w)
  BY IngestionAssumption DEF Init, IdleWorker, WorkerBacked, Replaying, FileWritten
<1> QED BY <1>2, <1>3 DEF BackedInv

\* A commit adds a version only for a fetched payload, whose file is written.
LEMMA CommitBacked ==
    ASSUME TypeInv, BackedInv, NEW w \in Workers, worker[w].pc = "insert", CommitVersion(w)
    PROVE  /\ VersionsAreBacked' /\ PayloadsAreVersions'
           /\ files' = files /\ \A d \in Docs : payloads[d] \subseteq payloads'[d]
<1> DEFINE d == Doc(w)
           h == Hash(w)
           rows == versions[d]
           off == Deactivated(rows, worker[w].deact)
           row == [hash |-> h, uri |-> StorageUri(w)]
<1>1. /\ d \in Docs /\ rows \in SUBSET VersionRow
      /\ versions \in [Docs -> SUBSET VersionRow] /\ payloads \in [Docs -> SUBSET PayloadRow]
  BY DEF TypeInv, TypeOK, WorkerOK, Item, Doc
<1>2. /\ \A e \in Docs \ {d} : versions'[e] = versions[e] /\ payloads'[e] = payloads[e]
      /\ versions'[d] = IF HasHash(rows, h) THEN off ELSE off \cup {NewVersion(w)}
      /\ payloads'[d] = IF Replaying(w) \/ HasHash(payloads[d], h) THEN payloads[d]
                        ELSE payloads[d] \cup {row}
      /\ files' = files
  BY <1>1 DEF CommitVersion
<1>3. /\ \A v \in off : \E r \in rows : r.hash = v.hash /\ r.uri = v.uri
      /\ \A r \in rows : \E v \in off : r.hash = v.hash /\ r.uri = v.uri
  BY DeactivatedKeeps, <1>1
<1> HIDE DEF off
<1>4. HasHash(rows, h) <=> HasHash(payloads[d], h)
  <2>1. HasHash(rows, h) => HasHash(payloads[d], h)
    BY <1>1 DEF BackedInv, VersionsAreBacked, HasHash
  <2>2. HasHash(payloads[d], h) => HasHash(rows, h)
    BY <1>1 DEF BackedInv, PayloadsAreVersions, HasHash
  <2> QED BY <2>1, <2>2
<1>5. Replaying(w) => HasHash(rows, h)
  BY <1>1, <1>4 DEF BackedInv, WorkerBacked, StoredItem, HasHash, Hash, Doc
<1>6. ~Replaying(w) => StorageUri(w) \in files
  BY DEF BackedInv, WorkerBacked, FileWritten, StorageUri
<1>7. NewVersion(w).hash = h /\ NewVersion(w).uri = StorageUri(w)
  BY DEF NewVersion
<1>8. \A v \in rows : v.uri \in files /\ [hash |-> v.hash, uri |-> v.uri] \in payloads[d]
  BY <1>1 DEF BackedInv, VersionsAreBacked
<1>9. \A p \in payloads[d] : \E r \in rows : r.hash = p.hash
  BY <1>1 DEF BackedInv, PayloadsAreVersions, HasHash
<1>10. payloads[d] \subseteq payloads'[d]
  BY <1>2
<1>11. VersionsAreBacked'
  <2> SUFFICES ASSUME NEW e \in Docs, NEW v \in versions'[e]
               PROVE  v.uri \in files /\ [hash |-> v.hash, uri |-> v.uri] \in payloads'[e]
    BY <1>2 DEF VersionsAreBacked
  <2>1. CASE e # d
    BY <2>1, <1>2 DEF BackedInv, VersionsAreBacked
  <2>2. CASE e = d /\ v \in off
    BY <2>2, <1>3, <1>8, <1>10
  <2>3. CASE e = d /\ v \notin off
    <3>1. ~HasHash(rows, h) /\ v = NewVersion(w)
      BY <2>3, <1>2
    <3>2. row \in payloads'[d]
      BY <3>1, <1>2, <1>4, <1>5
    <3> QED BY <2>3, <3>1, <3>2, <1>5, <1>6, <1>7
  <2> QED BY <2>1, <2>2, <2>3
<1>12. PayloadsAreVersions'
  <2> SUFFICES ASSUME NEW e \in Docs, NEW p \in payloads'[e]
               PROVE  \E v \in versions'[e] : v.hash = p.hash
    BY DEF PayloadsAreVersions, HasHash
  <2>1. CASE e # d
    BY <2>1, <1>2 DEF BackedInv, PayloadsAreVersions, HasHash
  <2>2. CASE e = d /\ p \in payloads[d]
    BY <2>2, <1>2, <1>3, <1>9
  <2>3. CASE e = d /\ p \notin payloads[d]
    BY <2>3, <1>2, <1>4, <1>7
  <2> QED BY <2>1, <2>2, <2>3
<1> QED BY <1>2, <1>10, <1>11, <1>12

\* What a step does to the worker that takes it, as far as BackedInv goes.
SameItem(w) ==
    /\ worker[w].pc # "idle"
    /\ worker'[w].task = worker[w].task /\ worker'[w].rest = worker[w].rest
    /\ worker'[w].item = worker[w].item /\ worker'[w].run = worker[w].run
    /\ worker'[w].pc \notin {"idle", "loop"} => worker[w].pc \notin {"idle", "loop"}
    /\ worker'[w].pc \in FileWritten =>
          Replaying(w) \/ worker[w].pc \in FileWritten \/ <<Doc(w), worker[w].run>> \in files'

LEMMA StepMoves ==
    ASSUME TypeInv, NEW w \in Workers, Step(w) \/ Fault(w)
    PROVE  /\ \A v \in Workers \ {w} : worker'[v] = worker[v]
           /\ files \subseteq files'
           /\ \/ worker[w].pc = "insert" /\ CommitVersion(w)
              \/ UNCHANGED Tables
           /\ \/ SameItem(w) \/ worker'[w] = IdleWorker
              \/ \E t \in Tasks : worker[w].pc = "idle" /\ TakeTask(w, t)
              \/ \E i \in worker[w].rest : CreateRun(w, i)
<1>0. /\ worker \in [Workers -> WorkerState] /\ worker[w] \in WorkerState
  BY DEF TypeInv, TypeOK
<1> DEFINE Others == \A v \in Workers \ {w} : worker'[v] = worker[v]
           Writes == (worker[w].pc = "insert" /\ CommitVersion(w)) \/ UNCHANGED Tables
           Self == SameItem(w) \/ worker'[w] = IdleWorker
<1> USE DEF Tables
<1>1. ASSUME NEW t \in Tasks, TakeTask(w, t)
      PROVE  Others /\ files \subseteq files' /\ UNCHANGED Tables /\ worker[w].pc = "idle"
  BY <1>0, <1>1 DEF TakeTask
<1>2. ASSUME NEW i \in worker[w].rest, CreateRun(w, i)
      PROVE  Others /\ files \subseteq files' /\ UNCHANGED Tables
  BY <1>0, <1>2 DEF CreateRun
<1>3. CASE FinishTask(w)
  BY <1>0, <1>3 DEF FinishTask
<1>4. CASE Validate(w) \/ LockDocument(w) \/ GetActiveVersion(w) \/ NotDuplicate(w)
  BY <1>0, <1>4 DEF Validate, LockDocument, GetActiveVersion, NotDuplicate, SameItem,
                    FileWritten, Goto, WorkerState
<1>5. CASE SkipDuplicate(w)
  BY <1>0, <1>5 DEF SkipDuplicate, EndTransaction, SameItem, FileWritten, WorkerState
<1>6. CASE Deactivate(w)
  BY <1>0, <1>6 DEF Deactivate, AfterTransition, SameItem, FileWritten, Goto, WorkerState
<1>7. CASE ResumeDeactivate(w)
  BY <1>0, <1>7 DEF ResumeDeactivate, AfterTransition, SameItem, FileWritten, Goto, WorkerState
<1>8. CASE WriteRawFile(w)
  BY <1>0, <1>8 DEF WriteRawFile, SameItem, FileWritten, Goto, WorkerState
<1>9. ASSUME Abort(w), worker[w].pc \notin {"idle", "loop"}, files' = files
      PROVE  Others /\ files \subseteq files' /\ UNCHANGED Tables /\ Self
  BY <1>0, <1>9 DEF Abort, EndTransaction, SameItem, FileWritten, WorkerState
<1>10. CASE RecordRawStored(w)
  BY <1>0, <1>9, <1>10 DEF RecordRawStored, SameItem, FileWritten, Goto, WorkerState
<1>11. CASE UpsertDocument(w)
  BY <1>0, <1>11 DEF UpsertDocument, SameItem, FileWritten, Goto, WorkerState
<1>12. ASSUME CommitVersion(w), worker[w].pc = "insert",
              NEW pc \in {"loop", "failing"}, EndTransaction(w, pc)
       PROVE  Others /\ files \subseteq files' /\ Writes /\ Self
  BY <1>0, <1>12 DEF CommitVersion, EndTransaction, SameItem, FileWritten, WorkerState
<1>13. CASE Register(w) \/ CommitAckLost(w)
  BY <1>12, <1>13 DEF Register, CommitAckLost
<1>14. CASE UniqueViolation(w) \/ DeadlockDetected(w)
  BY <1>9, <1>14 DEF UniqueViolation, DeadlockDetected, WaitsFor
<1>15. ASSUME Escape(w)
       PROVE  Others /\ files \subseteq files' /\ UNCHANGED Tables /\ Self
  BY <1>0, <1>15 DEF Escape
<1>16. CASE RecordFailure(w)
  BY <1>0, <1>15, <1>16 DEF RecordFailure, SameItem, FileWritten, Goto, WorkerState
<1>17. CASE StepFails(w)
  BY <1>9, <1>15, <1>17 DEF StepFails, InTransaction
<1>18. ASSUME NEW outcome \in {"queued", "failed"}, WorkerLost(w, outcome)
       PROVE  Others /\ files \subseteq files' /\ UNCHANGED Tables /\ Self
  BY <1>0, <1>18 DEF WorkerLost
<1> QED
  BY <1>1, <1>2, <1>3, <1>4, <1>5, <1>6, <1>7, <1>8, <1>10, <1>11, <1>13, <1>14, <1>16,
     <1>17, <1>18 DEF Step, Fault

LEMMA WorkersBackedStep ==
    ASSUME TypeInv, NEW w \in Workers, Step(w) \/ Fault(w), \A v \in Workers : WorkerBacked(v),
           \A d \in Docs : payloads[d] \subseteq payloads'[d]
    PROVE  \A v \in Workers : WorkerBacked(v)'
<1> USE IngestionAssumption
<1>0. /\ \A v \in Workers : WorkerBacked(v)
      /\ \A d \in Docs : payloads[d] \subseteq payloads'[d]
  OBVIOUS
<1>1. /\ \A v \in Workers \ {w} : worker'[v] = worker[v]
      /\ files \subseteq files'
      /\ \/ SameItem(w) \/ worker'[w] = IdleWorker
         \/ \E t \in Tasks : worker[w].pc = "idle" /\ TakeTask(w, t)
         \/ \E i \in worker[w].rest : CreateRun(w, i)
  BY StepMoves
<1>3. \A i : StoredItem(i) => StoredItem(i)'
  BY <1>0 DEF StoredItem
<1>4. ASSUME NEW v \in Workers \ {w}
      PROVE  WorkerBacked(v)'
  BY <1>0, <1>1, <1>3 DEF WorkerBacked, StoredItem, Replaying, Doc
<1>5. WorkerBacked(w)'
  <2>0. WorkerBacked(w)
    BY <1>0
  <2>1. CASE SameItem(w)
    BY <1>1, <1>3, <2>0, <2>1 DEF SameItem, WorkerBacked, StoredItem, Replaying, Doc
  <2>2. CASE worker'[w] = IdleWorker
    BY <2>2 DEF IdleWorker, WorkerBacked, Replaying, FileWritten
  <2>3. ASSUME NEW t \in Tasks, worker[w].pc = "idle", TakeTask(w, t)
        PROVE  WorkerBacked(w)'
    <3>1. /\ worker'[w].pc = "loop" /\ worker'[w].task = t /\ worker'[w].rest = Batch(t)
          /\ payloads' = payloads
      BY <2>3 DEF TakeTask, TypeInv, TypeOK, WorkerState, Tables
    <3>2. ASSUME t \in DOMAIN ReplayOf, NEW i \in Batch(t)
          PROVE  StoredItem(i)
      <4>1. payloads[ReplayOf[t]] \in SUBSET PayloadRow /\ ReplayOf[t] \in Docs
        BY <3>2 DEF TypeInv, TypeOK
      <4>2. PICK p \in payloads[ReplayOf[t]] : i = [doc |-> ReplayOf[t], hash |-> p.hash, uri |-> p.uri]
        BY <3>2 DEF Batch
      <4> QED BY <4>1, <4>2 DEF StoredItem, PayloadRow
    <3> QED BY <3>1, <3>2, <1>3 DEF WorkerBacked, Replaying, FileWritten
  <2>4. ASSUME NEW i \in worker[w].rest, CreateRun(w, i)
        PROVE  WorkerBacked(w)'
    <3>1. /\ worker'[w].pc = "received" /\ worker'[w].task = worker[w].task
          /\ worker'[w].rest = worker[w].rest \ {i} /\ worker'[w].item = i
      BY <2>4 DEF CreateRun, TypeInv, TypeOK, WorkerState
    <3> QED BY <2>0, <3>1, <1>3 DEF WorkerBacked, Replaying, FileWritten
  <2> QED BY <1>1, <2>1, <2>2, <2>3, <2>4
<1> QED BY <1>4, <1>5

LEMMA BackedStep ==
    ASSUME TypeInv, BackedInv, NEW w \in Workers, Step(w) \/ Fault(w)
    PROVE  BackedInv'
<1>1. /\ VersionsAreBacked' /\ PayloadsAreVersions'
      /\ \A d \in Docs : payloads[d] \subseteq payloads'[d]
  <2>1. CASE worker[w].pc = "insert" /\ CommitVersion(w)
    BY <2>1, CommitBacked
  <2>2. CASE UNCHANGED Tables
    BY <2>2, StepMoves DEF Tables, BackedInv, VersionsAreBacked, PayloadsAreVersions, HasHash
  <2> QED BY <2>1, <2>2, StepMoves
<1>2. \A v \in Workers : WorkerBacked(v)'
  BY <1>1, WorkersBackedStep DEF BackedInv
<1> QED BY <1>1, <1>2 DEF BackedInv

\* A version can be replayed: its file exists and is the one its raw_payloads
\* row names, for any deliveries, faults and crashes.
THEOREM VersionsBacked == Spec => []VersionsAreBacked
<1>1. TypeInv /\ BackedInv /\ [Next]_vars => BackedInv'
  <2>1. TypeInv /\ BackedInv /\ UNCHANGED vars => BackedInv'
    BY DEF vars, BackedInv, VersionsAreBacked, PayloadsAreVersions, HasHash, WorkerBacked,
           StoredItem, Replaying, Doc
  <2> QED BY <2>1, BackedStep DEF Next, Quiescent
<1>2. BackedInv => VersionsAreBacked
  BY DEF BackedInv
<1> QED BY <1>1, <1>2, BackedInit, TypeCorrect, PTL DEF Spec

------------------------------------------------------------------------------
\* Every variable keeps its type.
THEOREM TypesHold == Spec => []TypeOK
<1>1. TypeInv => TypeOK
  BY DEF TypeInv
<1> QED BY <1>1, TypeCorrect, PTL

\* Of the workers on one document at most one is past the duplicate check, if the
\* documents are registered: each of them holds the document's row lock.
THEOREM OnePast ==
    ASSUME DOMAIN Seeded = Docs
    PROVE  Spec => []OnePastDuplicateCheck
<1>0. OnlyKnownDocuments
  BY IngestionAssumption DEF OnlyKnownDocuments
<1>1. TypeInv /\ KnownInv => OnePastDuplicateCheck
  <2> SUFFICES ASSUME TypeInv, KnownInv, NEW v \in Workers, NEW w \in Workers,
                      worker[v].pc \in PastDuplicateCheck, worker[w].pc \in PastDuplicateCheck,
                      Doc(v) = Doc(w)
               PROVE  v = w
    BY DEF OnePastDuplicateCheck
  <2>1. Doc(v) \in documents
    BY DEF TypeInv, TypeOK, WorkerOK, Item, Doc, KnownInv, NoNewDocument, PastDuplicateCheck
  <2>2. lock[Doc(v)] = v /\ lock[Doc(w)] = w
    BY <2>1 DEF KnownInv, LocksHeld, PastDuplicateCheck, InTransaction
  <2> QED BY <2>2
<1> QED BY <1>0, <1>1, KnownInit, KnownNext, TypeCorrect, PTL DEF Spec

------------------------------------------------------------------------------
(***************************************************************************)
(* The bookkeeping of runs, for any deliveries, faults and crashes.  A     *)
(* run's row is written only by the worker that created it and, once       *)
(* "failed", by nobody: the worker has gone on to its next payload.  So    *)
(* what a worker has left behind of its batch stays accounted for.  Where  *)
(* no commit can lose its acknowledgement, this holds of every terminal    *)
(* status.                                                                 *)
(***************************************************************************)

Final == IF MaxFaults = 0 THEN Terminal ELSE {"failed"}

Working(w) == worker[w].pc \notin {"idle", "loop"}

\* What a step of w does to the runs, to w's payload and to the tasks.
Succeeds(status) == status \in {"registered", "skipped_no_change"}
RunMove(w) ==
    /\ \/ runs' = runs
       \/ \E i \in worker[w].rest : CreateRun(w, i)
       \/ /\ Working(w)
          /\ \E status \in RunStatus, d \in Docs \cup {None}, h \in {None, Hash(w)} :
                /\ SetRun(w, status, d, h)
                /\ status \in Final => worker'[w].pc = "loop"
                /\ Succeeds(status) => d = Doc(w) /\ h = Hash(w) /\ HasHash(versions'[d], h)
    /\ Working(w) /\ worker'[w].pc = "loop" =>
          \/ HasHash(versions'[Doc(w)], Hash(w))
          \/ \E d \in Docs \cup {None}, h \in {None, Hash(w)} : SetRun(w, "failed", d, h)
                /\ (h = None => ~Readable(w))
    /\ nextRun' = nextRun \/ \E i \in worker[w].rest : CreateRun(w, i)
    /\ \A t \in Tasks : task'[t] = "done" =>
          \/ task[t] = "done"
          \/ t = worker[w].task /\ worker[w].pc = "loop" /\ worker[w].rest = {}

LEMMA StepRuns ==
    ASSUME TypeInv, NEW w \in Workers, Step(w) \/ Fault(w)
    PROVE  RunMove(w)
<1> USE IngestionAssumption DEF RunMove, Working
<1>0. /\ worker \in [Workers -> WorkerState] /\ worker[w] \in WorkerState
      /\ task \in [Tasks -> {"queued", "running", "done", "failed"}]
      /\ versions \in [Docs -> SUBSET VersionRow]
      /\ Working(w) => Doc(w) \in Docs
      /\ \A pc \in {"loop", "failing", "received", "validated"} : pc \notin InTransaction
  BY DEF TypeInv, TypeOK, WorkerOK, Item, Doc, InTransaction
<1>a. ASSUME Working(w), nextRun' = nextRun, task' = task,
             NEW status \in RunStatus, NEW d \in Docs \cup {None}, NEW h \in {None, Hash(w)},
             SetRun(w, status, d, h),
             status \in Final => worker'[w].pc = "loop",
             Succeeds(status) => d = Doc(w) /\ h = Hash(w) /\ HasHash(versions'[d], h),
             worker'[w].pc = "loop" =>
                \/ status = "failed" /\ (h = None => ~Readable(w))
                \/ HasHash(versions'[Doc(w)], Hash(w))
      PROVE  RunMove(w)
  <2>1. \E st \in RunStatus, e \in Docs \cup {None}, g \in {None, Hash(w)} :
           /\ SetRun(w, st, e, g)
           /\ st \in Final => worker'[w].pc = "loop"
           /\ Succeeds(st) => e = Doc(w) /\ g = Hash(w) /\ HasHash(versions'[e], g)
    BY <1>a
  <2>2. worker'[w].pc = "loop" =>
           \/ HasHash(versions'[Doc(w)], Hash(w))
           \/ \E e \in Docs \cup {None}, g \in {None, Hash(w)} : SetRun(w, "failed", e, g)
                 /\ (g = None => ~Readable(w))
    BY <1>a
  <2> QED BY <1>a, <2>1, <2>2
<1>1. ASSUME NEW t \in Tasks, TakeTask(w, t)
      PROVE  RunMove(w)
  BY <1>0, <1>1 DEF TakeTask
<1>2. ASSUME NEW i \in worker[w].rest, CreateRun(w, i)
      PROVE  RunMove(w)
  <2>1. worker[w].pc = "loop" /\ task' = task
    BY <1>2 DEF CreateRun
  <2> QED BY <1>0, <1>2, <2>1
<1>3. CASE FinishTask(w)
  BY <1>0, <1>3 DEF FinishTask, IdleWorker
<1>4. CASE Validate(w)
  <2>1. /\ Working(w) /\ nextRun' = nextRun /\ task' = task
        /\ \/ SetRun(w, "validated", None, Hash(w)) /\ worker'[w].pc = "validated"
           \/ SetRun(w, "failed", None, None) /\ worker'[w].pc = "loop" /\ ~Readable(w)
    BY <1>0, <1>4 DEF Validate, Goto, WorkerState
  <2>2. /\ {"validated", "failed"} \subseteq RunStatus
        /\ ~Succeeds("validated") /\ ~Succeeds("failed") /\ "validated" \notin Final
    BY DEF RunStatus, Terminal, Succeeds, Final
  <2> HIDE DEF RunMove, Working
  <2> QED BY <1>a, <2>1, <2>2
<1>5. CASE LockDocument(w) \/ GetActiveVersion(w) \/ NotDuplicate(w) \/ WriteRawFile(w)
  BY <1>0, <1>5 DEF LockDocument, GetActiveVersion, NotDuplicate, WriteRawFile, Goto, WorkerState
<1>6. CASE SkipDuplicate(w)
  <2>1. /\ worker[w].pc = "read" /\ HasHash(versions[Doc(w)], Hash(w)) /\ versions' = versions
        /\ SetRun(w, "skipped_no_change", Doc(w), Hash(w)) /\ nextRun' = nextRun /\ task' = task
        /\ worker'[w].pc = "loop"
    BY <1>0, <1>6 DEF SkipDuplicate, Tables, EndTransaction, WorkerState
  <2>2. Working(w) /\ "skipped_no_change" \in RunStatus
    BY <2>1 DEF RunStatus, Terminal
  <2> HIDE DEF RunMove, Working
  <2> QED BY <1>a, <1>0, <2>1, <2>2
<1>7. CASE Deactivate(w) \/ ResumeDeactivate(w)
  BY <1>0, <1>7 DEF Deactivate, ResumeDeactivate, AfterTransition, Goto, WorkerState
<1>9. ASSUME Abort(w), Working(w)
      PROVE  RunMove(w)
  BY <1>0, <1>9 DEF Abort, EndTransaction, WorkerState
<1>10. CASE RecordRawStored(w)
  BY <1>0, <1>9, <1>10 DEF RecordRawStored, Goto, WorkerState
<1>11. CASE UpsertDocument(w)
  BY <1>0, <1>11 DEF UpsertDocument, Goto, WorkerState
<1>12. ASSUME CommitVersion(w), worker[w].pc = "insert", worker'[w].pc = "loop" \/ MaxFaults # 0
       PROVE  RunMove(w)
  <2>1. HasHash(versions'[Doc(w)], Hash(w))
    <3> DEFINE rows == versions[Doc(w)]
    <3>1. versions'[Doc(w)] = IF HasHash(rows, Hash(w)) THEN Deactivated(rows, worker[w].deact)
                              ELSE Deactivated(rows, worker[w].deact) \cup {NewVersion(w)}
      BY <1>0, <1>12 DEF CommitVersion
    <3>2. HasHash(rows, Hash(w)) => HasHash(Deactivated(rows, worker[w].deact), Hash(w))
      BY <1>0, <1>12, DeactivatedKeeps DEF HasHash
    <3>3. NewVersion(w).hash = Hash(w)
      BY DEF NewVersion
    <3> QED BY <3>1, <3>2, <3>3 DEF HasHash
  <2>2. SetRun(w, "registered", Doc(w), Hash(w)) /\ nextRun' = nextRun /\ task' = task
    BY <1>12 DEF CommitVersion
  <2>3. /\ Working(w) /\ "registered" \in RunStatus
        /\ "registered" \in Final => worker'[w].pc = "loop"
    BY <1>12 DEF RunStatus, Terminal, Final
  <2> HIDE DEF RunMove, Working
  <2> QED BY <1>a, <1>0, <2>1, <2>2, <2>3
<1>13. CASE Register(w) \/ CommitAckLost(w)
  <2>1. Register(w) => worker'[w].pc = "loop"
    BY <1>0 DEF Register, EndTransaction, WorkerState
  <2>2. CommitAckLost(w) => MaxFaults # 0
    BY DEF CommitAckLost, TypeInv, TypeOK
  <2> QED BY <1>12, <1>13, <2>1, <2>2 DEF Register, CommitAckLost
<1>14. CASE UniqueViolation(w) \/ DeadlockDetected(w)
  BY <1>9, <1>14 DEF UniqueViolation, DeadlockDetected, WaitsFor
<1>15. ASSUME Escape(w)
       PROVE  RunMove(w)
  BY <1>0, <1>15 DEF Escape, IdleWorker
<1>16. CASE RecordFailure(w)
  <2>1. CASE Escape(w)
    BY <1>15, <2>1
  <2>2. CASE ~Escape(w)
    <3>1. /\ Working(w) /\ SetRun(w, "failed", Doc(w), Hash(w)) /\ worker'[w].pc = "loop"
          /\ nextRun' = nextRun /\ task' = task
      BY <1>0, <1>16, <2>2 DEF RecordFailure, Goto, WorkerState
    <3>2. "failed" \in RunStatus /\ ~Succeeds("failed")
      BY DEF RunStatus, Terminal, Succeeds
    <3>3. Hash(w) # None
      BY <3>1 DEF TypeInv, WorkerOK, Item, Hash
    <3> HIDE DEF RunMove, Working
    <3> QED BY <1>a, <1>0, <3>1, <3>2, <3>3
  <2> QED BY <2>1, <2>2
<1>17. CASE StepFails(w)
  BY <1>9, <1>15, <1>17 DEF StepFails, InTransaction
<1>18. ASSUME NEW outcome \in {"queued", "failed"}, WorkerLost(w, outcome)
       PROVE  RunMove(w)
  BY <1>0, <1>18 DEF WorkerLost, IdleWorker
<1> QED
  BY <1>1, <1>2, <1>3, <1>4, <1>5, <1>6, <1>7, <1>10, <1>11, <1>13, <1>14, <1>16,
     <1>17, <1>18 DEF Step, Fault

\* No step takes a hash away from a document's versions.
LEMMA HashesStay ==
    ASSUME TypeInv, [Next]_vars, NEW d \in Docs, NEW h, HasHash(versions[d], h)
    PROVE  HasHash(versions'[d], h)
<1>1. CASE versions' = versions
  BY <1>1
<1>2. ASSUME NEW w \in Workers, CommitVersion(w)
      PROVE  HasHash(versions'[d], h)
  <2>1. \/ versions'[d] = versions[d]
        \/ Deactivated(versions[d], worker[w].deact) \subseteq versions'[d]
    BY <1>2 DEF CommitVersion, TypeInv, TypeOK
  <2>2. versions[d] \in SUBSET VersionRow
    BY DEF TypeInv, TypeOK
  <2> QED BY <2>1, <2>2, DeactivatedKeeps DEF HasHash
<1> QED BY <1>1, <1>2, OnlyCommitsWrite

SuccessInv ==
    \A r \in RunIds : Succeeds(runs[r].status) =>
        runs[r].doc \in Docs /\ HasHash(versions[runs[r].doc], runs[r].hash)

\* A run that reports success has its payload among the document's versions.
THEOREM SuccessStored == Spec => []SuccessMeansStored
<1>1. Init => SuccessInv
  BY DEF Init, SuccessInv, Succeeds
<1>2. TypeInv /\ SuccessInv /\ [Next]_vars => SuccessInv'
  <2> SUFFICES ASSUME TypeInv, SuccessInv, [Next]_vars,
                      NEW r \in RunIds, Succeeds(runs'[r].status)
               PROVE  runs'[r].doc \in Docs /\ HasHash(versions'[runs'[r].doc], runs'[r].hash)
    BY DEF SuccessInv
  <2>0. runs \in [RunIds -> RunRow]
    BY DEF TypeInv, TypeOK
  <2>1. CASE runs'[r] = runs[r]
    BY <2>1, HashesStay DEF SuccessInv
  <2>2. CASE runs'[r] # runs[r]
    <3>1. PICK w \in Workers : Step(w) \/ Fault(w)
      BY <2>2 DEF Next, Quiescent, vars
    <3>2. RunMove(w)
      BY <3>1, StepRuns
    <3>3. ASSUME NEW i \in worker[w].rest, CreateRun(w, i)
          PROVE  FALSE
      BY <2>0, <2>2, <3>3 DEF CreateRun, RunRow, Succeeds
    <3>4. Working(w) /\ Doc(w) \in Docs
      BY <2>2, <3>2, <3>3 DEF RunMove, Working, TypeInv, WorkerOK, Item, Doc
    <3>5. PICK status \in RunStatus, d \in Docs \cup {None}, h \in {None, Hash(w)} :
             /\ SetRun(w, status, d, h)
             /\ Succeeds(status) => d = Doc(w) /\ h = Hash(w) /\ HasHash(versions'[d], h)
      BY <2>2, <3>2, <3>3 DEF RunMove
    <3>6. runs'[r] = [status |-> status, doc |-> d, hash |-> h]
      BY <2>0, <2>2, <3>5 DEF SetRun
    <3> QED BY <3>4, <3>5, <3>6
  <2> QED BY <2>1, <2>2
<1>3. SuccessInv => SuccessMeansStored
  BY DEF SuccessInv, SuccessMeansStored, Succeeds
<1> QED BY <1>1, <1>2, <1>3, TypeInit, TypeCorrect, PTL DEF Spec

Accounted(p) == HasHash(versions[p[1]], p[2]) \/ \E r \in RunIds : FailedWith(r, p[2])

Counted == Tasks \ (DOMAIN ReplayOf \cup Untracked)
ItemOf(p) == [doc |-> p[1], hash |-> p[2], uri |-> None]

\* Each payload of a worker's batch is still to come, at hand or accounted for.
BatchCovered ==
    \A w \in Workers : worker[w].pc # "idle" /\ worker[w].task \in Counted =>
        \A p \in Feed[worker[w].task] :
            \/ ItemOf(p) \in worker[w].rest
            \/ Working(w) /\ worker[w].item = ItemOf(p)
            \/ Accounted(p)

\* The run a worker is at is its own, and is not final.
RunsOwned ==
    /\ \A r \in RunIds : r >= nextRun => runs[r].status \notin Final
    /\ \A w \in Workers : Working(w) =>
          /\ worker[w].run < nextRun
          /\ runs[worker[w].run].status \notin Final
          /\ \A v \in Workers : Working(v) /\ worker[v].run = worker[w].run => v = w

DropInv == RunsOwned /\ BatchCovered /\ NothingSilentlyDropped

LEMMA DropInit == Init => DropInv
<1> USE IngestionAssumption DEF Init, IdleWorker
<1>1. Init => RunsOwned
  <2>1. "none" \notin Final
    BY DEF Final, Terminal
  <2>2. Init => /\ \A r \in RunIds : runs[r].status = "none"
                /\ \A w \in Workers : ~Working(w)
    BY DEF Working
  <2> QED BY <2>1, <2>2 DEF RunsOwned
<1>2. Init => BatchCovered
  BY DEF BatchCovered
<1>3. Init => NothingSilentlyDropped
  BY DEF NothingSilentlyDropped
<1> QED BY <1>1, <1>2, <1>3 DEF DropInv

\* Which rows of runs a step may write: its worker's own, or a fresh one.
LEMMA RunsWritten ==
    ASSUME TypeInv, DropInv, NEW w \in Workers, Step(w) \/ Fault(w), NEW r \in RunIds
    PROVE  /\ runs[r].status \in Final => runs'[r] = runs[r]
           /\ runs'[r].status \in Final /\ runs[r].status \notin Final =>
                 Working(w) /\ r = worker[w].run /\ worker'[w].pc = "loop"
<1>0. /\ runs \in [RunIds -> RunRow] /\ RunMove(w)
      /\ r >= nextRun => runs[r].status \notin Final
      /\ Working(w) => runs[worker[w].run].status \notin Final
      /\ nextRun \in 1..(MaxRuns + 1)
  BY StepRuns DEF TypeInv, TypeOK, DropInv, RunsOwned
<1>1. CASE runs' = runs
  BY <1>1
<1>2. ASSUME NEW i \in worker[w].rest, CreateRun(w, i)
      PROVE  /\ runs[r].status \in Final => runs'[r] = runs[r]
             /\ runs'[r].status \notin Final \/ runs[r].status \in Final
  BY <1>0, <1>2 DEF CreateRun, RunRow, Final, Terminal
<1>3. ASSUME Working(w), NEW status \in RunStatus, NEW d \in Docs \cup {None},
             NEW h \in {None, Hash(w)}, SetRun(w, status, d, h),
             status \in Final => worker'[w].pc = "loop"
      PROVE  /\ runs[r].status \in Final => runs'[r] = runs[r]
             /\ runs'[r].status \in Final /\ runs[r].status \notin Final =>
                   Working(w) /\ r = worker[w].run /\ worker'[w].pc = "loop"
  BY <1>0, <1>3 DEF SetRun
<1> QED BY <1>0, <1>1, <1>2, <1>3 DEF RunMove

LEMMA OwnedStep ==
    ASSUME TypeInv, DropInv, NEW w \in Workers, Step(w) \/ Fault(w)
    PROVE  RunsOwned'
<1>0. /\ nextRun \in 1..(MaxRuns + 1) /\ worker \in [Workers -> WorkerState]
      /\ \A v \in Workers : Working(v) => worker[v].run \in RunIds
      /\ \A v \in Workers \ {w} : worker'[v] = worker[v]
      /\ RunsOwned /\ RunMove(w) /\ TypeInv'
      /\ MaxRuns \in Nat
  BY StepMoves, StepRuns, TypeStep, IngestionAssumption
     DEF TypeInv, TypeOK, DropInv, WorkerOK, Working
<1>1. /\ nextRun' \in Nat /\ nextRun' >= nextRun
      /\ nextRun' # nextRun => \E i \in worker[w].rest : CreateRun(w, i)
  <2>1. ASSUME NEW i \in worker[w].rest, CreateRun(w, i)
        PROVE  nextRun' = nextRun + 1
    BY <2>1 DEF CreateRun
  <2> QED BY <1>0, <2>1 DEF RunMove
<1>2. \A v \in Workers \ {w} : Working(v)' <=> Working(v)
  BY <1>0 DEF Working
<1>3. ASSUME NEW r \in RunIds, r >= nextRun'
      PROVE  runs'[r].status \notin Final
  BY <1>0, <1>1, <1>3, RunsWritten DEF RunsOwned, RunIds
<1>4. ASSUME NEW v \in Workers \ {w}, Working(v)
      PROVE  /\ worker'[v].run < nextRun'
             /\ runs'[worker'[v].run].status \notin Final
  <2>1. worker[v].run \in RunIds /\ worker'[v].run = worker[v].run
    BY <1>0, <1>4
  <2>2. ~(Working(w) /\ worker[w].run = worker[v].run)
    BY <1>0, <1>4 DEF RunsOwned
  <2> QED BY <1>0, <1>1, <1>4, <2>1, <2>2, RunsWritten DEF RunsOwned, RunIds
<1>5. CASE \E i \in worker[w].rest : CreateRun(w, i)
  <2>1. PICK i \in worker[w].rest : CreateRun(w, i)
    BY <1>5
  <2>2. /\ worker'[w].run = nextRun /\ nextRun' = nextRun + 1 /\ nextRun \in RunIds
        /\ worker'[w].pc = "received"
    BY <1>0, <2>1 DEF CreateRun, WorkerState, RunIds
  <2>3. runs'[nextRun].status \notin Final
    BY <1>0, <2>2, RunsWritten DEF RunsOwned
  <2>4. \A v \in Workers \ {w} : Working(v) => worker[v].run # nextRun
    BY <1>0 DEF RunsOwned
  <2>5. \A v, u \in Workers : Working(v)' /\ Working(u)' /\ worker'[v].run = worker'[u].run => v = u
    BY <1>0, <1>2, <2>2, <2>4 DEF RunsOwned
  <2>6. \A v \in Workers : Working(v)' =>
           worker'[v].run < nextRun' /\ runs'[worker'[v].run].status \notin Final
    BY <1>0, <1>2, <1>4, <2>2, <2>3
  <2> QED BY <1>3, <2>5, <2>6 DEF RunsOwned
<1>6. CASE ~Working(w)'
  <2>1. \A v, u \in Workers : Working(v)' /\ Working(u)' /\ worker'[v].run = worker'[u].run => v = u
    BY <1>0, <1>2, <1>6 DEF RunsOwned
  <2> QED BY <1>2, <1>3, <1>4, <1>6, <2>1 DEF RunsOwned
<1>7. CASE Working(w)' /\ ~(\E i \in worker[w].rest : CreateRun(w, i))
  <2>1. Working(w) /\ worker'[w].run = worker[w].run
    <3>1. ASSUME NEW t \in Tasks, TakeTask(w, t)
          PROVE  worker'[w].pc = "loop"
      BY <1>0, <3>1 DEF TakeTask, WorkerState
    <3>2. worker'[w] # IdleWorker
      BY <1>7 DEF IdleWorker, Working
    <3>3. SameItem(w)
      BY <1>7, <3>1, <3>2, StepMoves DEF Working
    <3> QED BY <1>7, <3>3 DEF SameItem, Working
  <2>2. worker[w].run \in RunIds /\ worker'[w].pc # "loop"
    BY <1>0, <1>7, <2>1 DEF Working
  <2>3. runs'[worker'[w].run].status \notin Final /\ worker'[w].run < nextRun'
    BY <1>0, <1>1, <2>1, <2>2, RunsWritten DEF RunsOwned, RunIds
  <2>4. \A v, u \in Workers : Working(v)' /\ Working(u)' /\ worker'[v].run = worker'[u].run => v = u
    BY <1>0, <1>2, <2>1 DEF RunsOwned
  <2> QED BY <1>2, <1>3, <1>4, <2>3, <2>4 DEF RunsOwned
<1> QED BY <1>5, <1>6, <1>7

LEMMA AccountedStays ==
    ASSUME TypeInv, DropInv, NEW w \in Workers, Step(w) \/ Fault(w),
           NEW p \in Docs \X Hashes, Accounted(p)
    PROVE  Accounted(p)'
<1>1. CASE HasHash(versions[p[1]], p[2])
  BY <1>1, HashesStay DEF Next, Accounted
<1>2. CASE \E r \in RunIds : FailedWith(r, p[2])
  <2>1. "failed" \in Final
    BY DEF Final, Terminal
  <2> QED BY <1>2, <2>1, RunsWritten DEF Accounted, FailedWith
<1> QED BY <1>1, <1>2 DEF Accounted

\* A worker that goes back to the loop has accounted for the payload at hand.
LEMMA ItemAccounted ==
    ASSUME TypeInv, NEW w \in Workers, Step(w) \/ Fault(w), Working(w), worker'[w].pc = "loop",
           worker[w].task \in Counted, NEW p \in Docs \X Hashes, worker[w].item = ItemOf(p)
    PROVE  Accounted(p)'
<1>1. Doc(w) = p[1] /\ Hash(w) = p[2] /\ Tracked(w)
  BY DEF Doc, Hash, ItemOf, Tracked, Counted
<1>2. \/ HasHash(versions'[Doc(w)], Hash(w))
      \/ \E d \in Docs \cup {None}, h \in {None, Hash(w)} : SetRun(w, "failed", d, h)
            /\ (h = None => ~Readable(w))
  BY StepRuns DEF RunMove
<1>3. ASSUME NEW d \in Docs \cup {None}, NEW h \in {None, Hash(w)}, SetRun(w, "failed", d, h),
             h = None => ~Readable(w)
      PROVE  \E r \in RunIds : FailedWith(r, p[2])'
  <2>1. worker[w].run \in RunIds /\ runs \in [RunIds -> RunRow]
    BY DEF TypeInv, TypeOK, WorkerOK, Working
  <2>2. runs'[worker[w].run] = [status |-> "failed", doc |-> d, hash |-> h]
    BY <1>1, <1>3, <2>1 DEF SetRun
  <2>3. h = None => p[2] \in Malformed
    BY <1>1, <1>3 DEF Readable, Replaying, Counted
  <2> QED BY <1>1, <2>1, <2>2, <2>3 DEF FailedWith
<1> QED BY <1>1, <1>2, <1>3 DEF Accounted

LEMMA CoveredStep ==
    ASSUME TypeInv, DropInv, NEW w \in Workers, Step(w) \/ Fault(w)
    PROVE  BatchCovered'
<1>0. /\ worker \in [Workers -> WorkerState]
      /\ \A v \in Workers \ {w} : worker'[v] = worker[v]
      /\ \A t \in Counted : t \in Tasks /\ \A p \in Feed[t] : p \in Docs \X Hashes
      /\ BatchCovered
  BY StepMoves, IngestionAssumption DEF TypeInv, TypeOK, DropInv, Counted
<1> SUFFICES ASSUME NEW v \in Workers, worker'[v].pc # "idle", worker'[v].task \in Counted,
                    NEW p \in Feed[worker'[v].task]
             PROVE  \/ ItemOf(p) \in worker'[v].rest
                    \/ Working(v)' /\ worker'[v].item = ItemOf(p)
                    \/ Accounted(p)'
  BY DEF BatchCovered
<1>1. p \in Docs \X Hashes /\ (Accounted(p) => Accounted(p)')
  BY <1>0, AccountedStays
<1>2. CASE v # w
  BY <1>0, <1>1, <1>2 DEF BatchCovered, Working
<1>3. CASE v = w /\ SameItem(w)
  <2>0. worker[w].pc # "idle" => \/ ItemOf(p) \in worker[w].rest
                                 \/ Working(w) /\ worker[w].item = ItemOf(p)
                                 \/ Accounted(p)
    BY <1>0, <1>3 DEF BatchCovered, SameItem
  <2>1. worker[w].pc # "idle"
    BY <1>3 DEF SameItem
  <2>2. CASE worker'[w].pc = "loop" /\ Working(w) /\ worker[w].item = ItemOf(p)
    BY <1>1, <1>3, <2>2, ItemAccounted DEF SameItem
  <2>3. CASE worker'[w].pc # "loop" \/ ~(Working(w) /\ worker[w].item = ItemOf(p))
    BY <1>1, <1>3, <2>0, <2>1, <2>3 DEF SameItem, Working
  <2> QED BY <2>2, <2>3
<1>4. CASE v = w /\ worker'[w] = IdleWorker
  BY <1>4 DEF IdleWorker
<1>5. ASSUME v = w, NEW t \in Tasks, worker[w].pc = "idle", TakeTask(w, t)
      PROVE  ItemOf(p) \in worker'[v].rest
  <2>1. worker'[w].task = t /\ worker'[w].rest = Batch(t)
    BY <1>0, <1>5 DEF TakeTask, WorkerState
  <2> QED BY <1>5, <2>1 DEF Batch, ItemOf, Counted
<1>6. ASSUME v = w, NEW i \in worker[w].rest, CreateRun(w, i)
      PROVE  \/ ItemOf(p) \in worker'[v].rest
             \/ Working(v)' /\ worker'[v].item = ItemOf(p)
             \/ Accounted(p)'
  <2>1. /\ worker[w].pc = "loop" /\ worker'[w].pc = "received" /\ worker'[w].task = worker[w].task
        /\ worker'[w].rest = worker[w].rest \ {i} /\ worker'[w].item = i
    BY <1>0, <1>6 DEF CreateRun, WorkerState
  <2>2. ItemOf(p) \in worker[w].rest \/ Accounted(p)
    BY <1>0, <1>6, <2>1 DEF BatchCovered, Working
  <2> QED BY <1>1, <1>6, <2>1, <2>2 DEF Working
<1> QED BY <1>2, <1>3, <1>4, <1>5, <1>6, StepMoves

LEMMA DropNext == TypeInv /\ DropInv /\ [Next]_vars => DropInv'
<1>1. ASSUME TypeInv, DropInv, UNCHANGED vars
      PROVE  DropInv'
  BY <1>1 DEF vars, DropInv, RunsOwned, BatchCovered, NothingSilentlyDropped, Working,
              Accounted, FailedWith, HasHash
<1>2. ASSUME TypeInv, DropInv, NEW w \in Workers, Step(w) \/ Fault(w)
      PROVE  DropInv'
  <2>1. RunsOwned' /\ BatchCovered'
    BY <1>2, OwnedStep, CoveredStep
  <2>2. ASSUME NEW t \in Counted, task'[t] = "done", NEW p \in Feed[t]
        PROVE  Accounted(p)'
    <3>1. p \in Docs \X Hashes /\ t \in Tasks
      BY IngestionAssumption DEF Counted
    <3>2. task[t] = "done" \/ (t = worker[w].task /\ worker[w].pc = "loop" /\ worker[w].rest = {})
      BY <1>2, <2>2, <3>1, StepRuns DEF RunMove
    <3>3. Accounted(p)
      BY <1>2, <3>2 DEF DropInv, BatchCovered, NothingSilentlyDropped, Accounted, Working, Counted
    <3> QED BY <1>2, <3>1, <3>3, AccountedStays
  <2> QED BY <2>1, <2>2 DEF DropInv, NothingSilentlyDropped, Accounted, Counted
<1> QED BY <1>1, <1>2 DEF Next, Quiescent

\* A task that ends normally leaves no fetched payload unaccounted for: each is
\* a version, or a run on record failed with it.
THEOREM NothingDropped == Spec => []NothingSilentlyDropped
<1>1. DropInv => NothingSilentlyDropped
  BY DEF DropInv
<1> QED BY <1>1, DropInit, DropNext, TypeCorrect, PTL DEF Spec

\* A run in a terminal state stays there, where nothing fails: a lost
\* acknowledgement of the commit is what turns "registered" into "failed".
THEOREM TerminalStays ==
    ASSUME MaxFaults = 0
    PROVE  Spec => TerminalIsFinal
<1> DEFINE Stays == \A r \in RunIds : runs[r].status \in Terminal => runs'[r].status = runs[r].status
<1>1. TypeInv /\ DropInv /\ [Next]_vars => [Stays]_vars
  <2> SUFFICES ASSUME TypeInv, DropInv, Next, NEW r \in RunIds, runs[r].status \in Terminal
               PROVE  runs'[r].status = runs[r].status
    OBVIOUS
  <2>1. CASE Quiescent
    BY <2>1 DEF Quiescent, vars
  <2>2. ASSUME NEW w \in Workers, Step(w) \/ Fault(w)
        PROVE  runs'[r] = runs[r]
    BY <2>2, RunsWritten DEF Final
  <2> QED BY <2>1, <2>2 DEF Next
<1> QED BY <1>1, DropInit, DropNext, TypeCorrect, PTL DEF Spec, TerminalIsFinal

------------------------------------------------------------------------------
\* Version rows may be lost.  Of what the proofs above rest on, this survives:
\* workers, files and raw_payloads rows are as before; a raw_payloads row no
\* longer implies a version.
LEMMA LossKeepsTypes ==
    ASSUME TypeInv, NEW d \in Docs, LoseVersions(d)
    PROVE  TypeInv'
<1>1. TypeOK'
  BY IngestionAssumption DEF LoseVersions, TypeInv, TypeOK
<1>2. WorkerOK'
  BY DEF LoseVersions, TypeInv, WorkerOK
<1> QED BY <1>1, <1>2 DEF TypeInv

LEMMA RecoveryTypes == SpecRecovery => []TypeInv
<1>1. TypeInv /\ [NextRecovery]_vars => TypeInv'
  BY TypeNext, LossKeepsTypes DEF NextRecovery
<1> QED BY <1>1, TypeInit, PTL DEF SpecRecovery

\* Losing rows and restoring them from raw payloads, while deliveries go on, never
\* makes two versions active, or gives two of them one index or one hash.
THEOREM RecoveryUnique == SpecRecovery => []NeverTwoActive
<1>1. ASSUME TypeInv, NeverTwoActive, NEW d \in Docs, LoseVersions(d)
      PROVE  NeverTwoActive'
  BY <1>1 DEF LoseVersions, NeverTwoActive, TypeInv, TypeOK
<1>2. TypeInv /\ NeverTwoActive /\ [NextRecovery]_vars => NeverTwoActive'
  BY <1>1, UniqueStep DEF NextRecovery
<1> QED BY <1>2, UniqueInit, RecoveryTypes, PTL DEF SpecRecovery

------------------------------------------------------------------------------
\* A stored payload's file exists, so a replayed version is backed by it.
PayloadsReadable == \A d \in Docs : \A p \in payloads[d] : p.uri \in files

RestoredInv ==
    /\ RestoredVersionsAreBacked /\ PayloadsReadable
    /\ \A w \in Workers : WorkerBacked(w)

LEMMA RestoredInit == Init => RestoredInv
<1> SUFFICES ASSUME Init PROVE RestoredInv
  OBVIOUS
<1>1. VersionsAreBacked /\ \A w \in Workers : WorkerBacked(w)
  BY BackedInit DEF BackedInv
<1>2. RestoredVersionsAreBacked
  BY <1>1 DEF VersionsAreBacked, RestoredVersionsAreBacked, HasHash
<1>3. PayloadsReadable
  BY IngestionAssumption DEF Init, PayloadsReadable
<1> QED BY <1>1, <1>2, <1>3 DEF RestoredInv

LEMMA CommitRestores ==
    ASSUME TypeInv, RestoredInv, NEW w \in Workers, worker[w].pc = "insert", CommitVersion(w)
    PROVE  /\ RestoredVersionsAreBacked' /\ PayloadsReadable'
           /\ \A d \in Docs : payloads[d] \subseteq payloads'[d]
<1> DEFINE d == Doc(w)
           h == Hash(w)
           rows == versions[d]
           off == Deactivated(rows, worker[w].deact)
           row == [hash |-> h, uri |-> StorageUri(w)]
<1>1. /\ d \in Docs /\ rows \in SUBSET VersionRow
      /\ versions \in [Docs -> SUBSET VersionRow] /\ payloads \in [Docs -> SUBSET PayloadRow]
  BY DEF TypeInv, TypeOK, WorkerOK, Item, Doc
<1>2. /\ \A e \in Docs \ {d} : versions'[e] = versions[e] /\ payloads'[e] = payloads[e]
      /\ versions'[d] = IF HasHash(rows, h) THEN off ELSE off \cup {NewVersion(w)}
      /\ payloads'[d] = IF Replaying(w) \/ HasHash(payloads[d], h) THEN payloads[d]
                        ELSE payloads[d] \cup {row}
      /\ files' = files
  BY <1>1 DEF CommitVersion
<1>3. \A v \in off : \E r \in rows : r.hash = v.hash /\ r.uri = v.uri
  BY DeactivatedKeeps, <1>1
<1>4. NewVersion(w).hash = h /\ NewVersion(w).uri = StorageUri(w)
  BY DEF NewVersion
<1> HIDE DEF off
<1>5. StorageUri(w) \in files /\ (Replaying(w) => HasHash(payloads[d], h))
  <2>1. CASE Replaying(w)
    <3>1. [hash |-> h, uri |-> worker[w].item.uri] \in payloads[d]
      BY <2>1 DEF RestoredInv, WorkerBacked, StoredItem, Hash, Doc
    <3> QED BY <1>1, <2>1, <3>1 DEF RestoredInv, PayloadsReadable, HasHash, StorageUri
  <2>2. CASE ~Replaying(w)
    BY <2>2 DEF RestoredInv, WorkerBacked, FileWritten, StorageUri
  <2> QED BY <2>1, <2>2
<1>6. HasHash(payloads'[d], h)
  <2>1. row.hash = h
    OBVIOUS
  <2>2. HasHash(payloads[d], h) \/ row \in payloads'[d]
    BY <1>2, <1>5
  <2> HIDE DEF row
  <2>3. HasHash(payloads[d], h) => HasHash(payloads'[d], h)
    BY <1>2 DEF HasHash
  <2> QED BY <2>1, <2>2, <2>3 DEF HasHash
<1>7. RestoredVersionsAreBacked'
  <2> SUFFICES ASSUME NEW e \in Docs, NEW v \in versions'[e]
               PROVE  v.uri \in files /\ HasHash(payloads'[e], v.hash)
    BY <1>2 DEF RestoredVersionsAreBacked
  <2>1. CASE e # d
    BY <1>2, <2>1 DEF RestoredInv, RestoredVersionsAreBacked
  <2>2. CASE e = d /\ v \in off
    <3>1. PICK r \in rows : r.hash = v.hash /\ r.uri = v.uri
      BY <1>3, <2>2
    <3>2. r.uri \in files /\ HasHash(payloads[d], r.hash)
      BY <1>1 DEF RestoredInv, RestoredVersionsAreBacked
    <3> QED BY <1>2, <2>2, <3>1, <3>2 DEF HasHash
  <2>3. CASE e = d /\ v \notin off
    BY <1>2, <1>4, <1>5, <1>6, <2>3
  <2> QED BY <2>1, <2>2, <2>3
<1>8. PayloadsReadable'
  BY <1>1, <1>2, <1>5 DEF RestoredInv, PayloadsReadable
<1> QED BY <1>2, <1>7, <1>8

\* What a replay restores after a loss is backed: its file exists, and a later
\* replay finds its payload.
THEOREM RestoredBacked == SpecRecovery => []RestoredVersionsAreBacked
<1>1. ASSUME TypeInv, RestoredInv, NEW w \in Workers, Step(w) \/ Fault(w)
      PROVE  RestoredInv'
  <2>1. /\ RestoredVersionsAreBacked' /\ PayloadsReadable'
        /\ \A d \in Docs : payloads[d] \subseteq payloads'[d]
    <3>1. CASE worker[w].pc = "insert" /\ CommitVersion(w)
      BY <1>1, <3>1, CommitRestores
    <3>2. CASE UNCHANGED Tables /\ files \subseteq files'
      BY <1>1, <3>2 DEF Tables, RestoredInv, RestoredVersionsAreBacked, PayloadsReadable, HasHash
    <3> QED BY <1>1, <3>1, <3>2, StepMoves
  <2>2. \A v \in Workers : WorkerBacked(v)'
    BY <1>1, <2>1, WorkersBackedStep DEF RestoredInv
  <2> QED BY <2>1, <2>2 DEF RestoredInv
<1>2. ASSUME TypeInv, RestoredInv, NEW d \in Docs, LoseVersions(d)
      PROVE  RestoredInv'
  <2>1. RestoredVersionsAreBacked' /\ PayloadsReadable'
    BY <1>2 DEF LoseVersions, TypeInv, TypeOK, RestoredInv, RestoredVersionsAreBacked,
                PayloadsReadable, HasHash
  <2>2. \A w \in Workers : WorkerBacked(w)'
    BY <1>2 DEF LoseVersions, RestoredInv, WorkerBacked, StoredItem, Replaying, Doc
  <2> QED BY <2>1, <2>2 DEF RestoredInv
<1>3. ASSUME TypeInv, RestoredInv, UNCHANGED vars
      PROVE  RestoredInv'
  BY <1>3 DEF vars, RestoredInv, RestoredVersionsAreBacked, PayloadsReadable, HasHash,
              WorkerBacked, StoredItem, Replaying, Doc
<1>4. TypeInv /\ RestoredInv /\ [NextRecovery]_vars => RestoredInv'
  BY <1>1, <1>2, <1>3 DEF NextRecovery, Next, Quiescent
<1>5. RestoredInv => RestoredVersionsAreBacked
  BY DEF RestoredInv
<1> QED BY <1>4, <1>5, RestoredInit, RecoveryTypes, PTL DEF SpecRecovery
==============================================================================
