----------------------------- MODULE MCIngestion -----------------------------
(* Small instances of Ingestion: one scenario per Feed / Replay / Seed triple. *)
EXTENDS Ingestion, TLC

CONSTANTS d1, d2, h0, h1, h2, h3, t1, t2, t3

\* Two tasks deliver the same update of a registered document, stale once the
\* second's other payload is stored; the first's other one is malformed.  A third
\* task replays what is stored.
SeedOne == d1 :> h0
UpdateFeed == (t1 :> {<<d1, h1>>, <<d1, h3>>}) @@ (t2 :> {<<d1, h1>>, <<d1, h2>>}) @@ (t3 :> {})
ReplayThird == t3 :> d1
NoReplay == [t \in {} |-> None]

\* Two tasks deliver the same update, one of them after a second payload.
CrashFeed == (t1 :> {<<d1, h1>>, <<d1, h2>>}) @@ (t2 :> {<<d1, h1>>})

\* One task fetches a registered and an unknown document.
MixedFeed == (t1 :> {<<d1, h1>>, <<d2, h2>>}) @@ (t2 :> {<<d1, h3>>})

WorkerSymmetry == Permutations(Workers)
=============================================================================
