------------------------- MODULE MCIngestionRecovery -------------------------
(* First deliveries of a document nothing serializes, a loss of its versions,  *)
(* and a replay.                                                               *)
EXTENDS IngestionRecovery, TLC

CONSTANTS d1, h1, h2, t1, t2, t3, t4

NoSeed == [d \in {} |-> None]
\* Three deliveries, two of them equal.
FirstFeed == (t1 :> {<<d1, h1>>}) @@ (t2 :> {<<d1, h2>>}) @@ (t3 :> {<<d1, h2>>}) @@ (t4 :> {})
ReplayFourth == t4 :> d1

Symmetric == Permutations(Workers) \cup Permutations({t2, t3})
=============================================================================
