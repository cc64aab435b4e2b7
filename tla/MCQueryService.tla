--------------------------- MODULE MCQueryService ---------------------------
(***************************************************************************)
(* Two requests for an answer, one of which may ask for a stream instead.  *)
(* Each scores its answer: without scores it takes a part of the same      *)
(* steps, and a request for /health those of the warm-up.                  *)
(***************************************************************************)
EXTENDS QueryService, TLC

CONSTANTS r1, r2
MCKinds == r1 :> {[endpoint |-> "query", eval |-> TRUE]}
           @@ r2 :> [endpoint : {"query", "stream"}, eval : {TRUE}]
\* The process stops before the pipeline of a request, in one of its stages,
\* inside of a recording, or after the answer.  With every place but "idle" the
\* states are the same ones.
MCStopsAt == {"check", "open", "write", "over"} \cup Stages
==============================================================================
