--------------------------- MODULE IngestionRecovery ---------------------------
(***************************************************************************)
(* Ingestion where the version rows of a document can be lost, the case    *)
(* reprocess_github_payloads_to_postgres is documented for ("Data          *)
(* recovery: Recreate document from raw payload after data loss").  The    *)
(* raw_payloads rows and the files survive.                                *)
(***************************************************************************)
EXTENDS Ingestion

\* Outside any transaction on the document; bounded like the other faults.
LoseVersions(d) ==
    /\ faults < MaxFaults
    /\ faults' = faults + 1
    /\ lock[d] = None
    /\ versions[d] # {}
    /\ versions' = [versions EXCEPT ![d] = {}]
    /\ UNCHANGED <<documents, payloads, files, runs, nextRun, lock, rowlock, task,
                   worker, crashes>>

NextRecovery == Next \/ \E d \in Docs : LoseVersions(d)

SpecRecovery == Init /\ [][NextRecovery]_vars

\* What a replay restores after a loss is backed: its file exists, and a later
\* replay finds its payload.  (Not necessarily under that file: a payload fetched
\* again after the loss gets a new file, but keeps its raw_payloads row.)
RestoredVersionsAreBacked ==
    \A d \in Docs : \A v \in versions[d] :
        v.uri \in files /\ HasHash(payloads[d], v.hash)
=============================================================================
