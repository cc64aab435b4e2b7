--------------------------- MODULE CorpusRevisions ---------------------------
(***************************************************************************)
(* What the rest of the web application may assume of the corpus: each     *)
(* slug names at most one document, whose version grows by one with every  *)
(* revision of its body and whose embedding model is forgotten then.  The  *)
(* graph sidecar keys everything it derives on these three columns         *)
(* (listGraphDocumentVersions).                                            *)
(***************************************************************************)
EXTENDS Integers

CONSTANTS
    Slugs,
    Bodies,       \* document texts; equal bodies have equal content hashes
    Models,       \* embedding models
    None

VARIABLE corpus   \* the document each slug names, None without one

Revision == [version : Nat \ {0}, body : Bodies, model : Models \cup {None}]

TypeOKCorpus == corpus \in [Slugs -> Revision \cup {None}]

InitCorpus == corpus = [s \in Slugs |-> None]

Named(s) == corpus[s] # None

Add(s, b) ==
    /\ ~Named(s)
    /\ corpus' = [corpus EXCEPT ![s] = [version |-> 1, body |-> b, model |-> None]]

Revise(s, b) ==
    /\ Named(s)
    /\ corpus' = [corpus EXCEPT ![s] =
                    [version |-> corpus[s].version + 1, body |-> b, model |-> None]]

Index(s, m) ==
    /\ Named(s)
    /\ corpus' = [corpus EXCEPT ![s].model = m]

Remove(s) ==
    /\ Named(s)
    /\ corpus' = [corpus EXCEPT ![s] = None]

NextCorpus ==
    \E s \in Slugs :
        \/ \E b \in Bodies : Add(s, b) \/ Revise(s, b)
        \/ \E m \in Models : Index(s, m)
        \/ Remove(s)

SpecCorpus == InitCorpus /\ [][NextCorpus]_corpus
==============================================================================
