----------------------------- MODULE MCProcessing -----------------------------
(* Small instances of Processing: versions that share a chunk, lose one, gain one. *)
EXTENDS Processing, TLC

CONSTANTS c1, c2, c3, w1, w2, w3, p1, p2

OneVersion == 1 :> {c1, c2}
TwoVersions == (1 :> {c1, c2}) @@ (2 :> {c2, c3})
\* The second version has no text.
EmptyVersion == (1 :> {c1, c2}) @@ (2 :> {}) @@ (3 :> {c2, c3})

\* Two threads of one process, and another process.
Pool == w1 :> p1 @@ w2 :> p1 @@ w3 :> p2
OneWorker == w1 :> p1

Symmetric == Permutations({w1, w2}) \cup Permutations(Tasks)
=============================================================================
