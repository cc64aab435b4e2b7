--------------------------- MODULE DocumentVersions ---------------------------
(***************************************************************************)
(* What the ingestion layer promises to everything downstream: a document  *)
(* is an append-only history of distinct payloads, and its current version *)
(* is the last one appended.  Deliveries may be repeated, late, concurrent *)
(* or cut short by a failure; none of that shows here.                     *)
(***************************************************************************)
EXTENDS Naturals

CONSTANTS Docs, Hashes, InitialHash   \* [documents that exist initially -> hash]

VARIABLES
    history,   \* each document's set of <<index, hash>> pairs
    current    \* the index of each document's current version, 0 before the first

InitDocumentVersions ==
    /\ history = [d \in Docs |->
           IF d \in DOMAIN InitialHash THEN {<<1, InitialHash[d]>>} ELSE {}]
    /\ current = [d \in Docs |-> IF d \in DOMAIN InitialHash THEN 1 ELSE 0]

\* A payload never seen before becomes the next and current version.
AppendVersion(d, h) ==
    /\ \A p \in history[d] : p[2] # h
    /\ history' = [history EXCEPT ![d] = @ \cup {<<current[d] + 1, h>>}]
    /\ current' = [current EXCEPT ![d] = @ + 1]

NextDocumentVersions == \E d \in Docs, h \in Hashes : AppendVersion(d, h)

Spec == InitDocumentVersions /\ [][NextDocumentVersions]_<<history, current>>
=============================================================================
