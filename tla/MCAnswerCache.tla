---------------------------- MODULE MCAnswerCache ----------------------------
(***************************************************************************)
(* Requests are alike, and so are the bodies: no property is a liveness    *)
(* property.  A state object that is neither the instance's nor in a       *)
(* request's hands is garbage; two states that differ in garbage only are  *)
(* explored once.                                                          *)
(***************************************************************************)
EXTENDS AnswerCache, TLC

MCSymmetry == Permutations(Requests) \cup Permutations(Bodies)

Holds(q, r) == q.pc \in {"listed", "fetching", "saving"} /\ q.using = r
Reachable(i, r) == global[i] = r \/ \E p \in Requests : Holds(request[i][p], r)
MCView ==
    <<corpus,
      [i \in Instances |-> [r \in Requests |-> IF Reachable(i, r) THEN state[i][r] ELSE None]],
      global, stored,
      [i \in Instances |-> [r \in Requests |->
          [request[i][r] EXCEPT !.using = IF Holds(request[i][r], @) THEN @ ELSE None]]],
      gone, counters>>
==============================================================================
