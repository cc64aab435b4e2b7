----------------------------- MODULE Faithfulness -----------------------------
(***************************************************************************)
(* libs/rag/evaluation: how an answer is judged (faithfulness.py), how the *)
(* values of many are summed up (metrics.py, baseline.py) and what the     *)
(* gate makes of them (thresholds.py, quality_gate.py).  Rates are         *)
(* fractions of Scale.                                                     *)
(***************************************************************************)
EXTENDS Generation

CONSTANTS Negations,        \* CONTRADICT_KEYWORDS
          SupportThreshold, \* 0.15 of Scale
          NegationOverlap,  \* 0.1 of Scale
          StableDelta       \* 0.01 of Scale

Rate(n, of) == IF of = 0 THEN 0 ELSE (Scale * n) \div of
ClaimWords(claim) == {claim[i].n : i \in {j \in DOMAIN claim : claim[j].k = "word"}}
Labels == {"SUPPORTS", "CONTRADICTS", "NEUTRAL", "NO_CITATION"}
Verdict(label, judge) == [label |-> label, judge |-> judge]

(* LexicalJudge.judge_entailment                                           *)
LexicalLabel(claim, source) ==
    LET said == ClaimWords(claim)
        overlap == Rate(Cardinality(said \cap Words(source)), Cardinality(said))
        negated(words) == words \cap Negations # {}
    IN  IF said = {} THEN "NEUTRAL"
        ELSE IF negated(said) # negated(Words(source)) /\ overlap > NegationOverlap
        THEN "CONTRADICTS"
        ELSE IF overlap >= SupportThreshold THEN "SUPPORTS" ELSE "NEUTRAL"
(* OllamaJudge.judge_entailment_with_origin: the first word of the reply,  *)
(* when it is a label; a failed call or another word is judged lexically.  *)
ModelVerdict(reply, claim, source) ==
    IF reply \in Labels THEN Verdict(reply, "llm")
    ELSE Verdict(LexicalLabel(claim, source), "llm-fallback-lexical")
(* _judge_entailment; reply is "none" without a model.                     *)
Judged(reply, claim, source) ==
    IF reply = "none" THEN Verdict(LexicalLabel(claim, source), "lexical")
    ELSE ModelVerdict(reply, claim, source)

(* The loop of evaluate over the verdicts of a claim's citations: the      *)
(* first support ends it, a contradiction is only replaced by a support    *)
(* or a later contradiction.                                               *)
Best(verdicts) ==
    LET at(label) == {k \in DOMAIN verdicts : verdicts[k].label = label}
        other == at("NO_CITATION")
    IN  IF at("SUPPORTS") # {} THEN verdicts[Min(at("SUPPORTS"))]
        ELSE IF at("CONTRADICTS") # {} THEN verdicts[Max(at("CONTRADICTS"))]
        ELSE IF other # {} THEN verdicts[Min(other)] ELSE verdicts[Len(verdicts)]
(* The verdicts asked for: none after a support.                           *)
AskedFor(verdicts) ==
    LET supports == {k \in DOMAIN verdicts : verdicts[k].label = "SUPPORTS"}
    IN  IF supports = {} THEN verdicts ELSE SubSeq(verdicts, 1, Min(supports))
(* reply[n] is what the model says of the source numbered n.               *)
EvaluateClaim(answer, claim, chunks, reply) ==
    LET verdicts(cited) == [k \in DOMAIN cited |->
                               Judged(reply[cited[k].source_index], claim, cited[k].source_text)]
        outcome(citations, fallback, best) ==
            [claim |-> claim, citations |-> citations, fallback |-> fallback,
             label |-> best.label, judge |-> best.judge]
        backed(cited, v) ==
            outcome([k \in DOMAIN cited |-> cited[k].source_index],
                    \E u \in ToSet(AskedFor(v)) : u.judge = "llm-fallback-lexical", Best(v))
        of(cited) == IF cited = <<>> THEN outcome(<<>>, FALSE, Verdict("NO_CITATION", "none"))
                     ELSE backed(cited, verdicts(cited))
    IN  of(CitationsForClaim(answer, claim, chunks))

(* _answer_relevancy                                                       *)
AnswerRelevancy(query, answer) ==
    Rate(Cardinality(Words(query) \cap ClaimWords(answer)), Cardinality(Words(query)))
Scores(claims, refused, empty, relevancy) ==
    LET total == Len(claims)
        count(label) == Len(Where(claims, LAMBDA c : c.label = label))
        citations == MapThenSumSet(LAMBDA k : Len(claims[k].citations), DOMAIN claims)
        unbacked == count("NO_CITATION") + count("NEUTRAL")
    IN  [claims |-> claims, refused |-> refused, total_claims |-> total,
         supported_claims |-> count("SUPPORTS"),
         faithfulness |-> IF refused THEN Scale ELSE Rate(count("SUPPORTS"), total),
         citation_recall |-> IF refused THEN Scale ELSE Rate(count("SUPPORTS"), total),
         citation_precision |-> IF refused THEN Scale ELSE Rate(count("SUPPORTS"), citations),
         hallucination_rate |-> IF refused THEN 0
             ELSE IF total = 0 THEN (IF empty THEN 0 ELSE Scale)
             ELSE Rate(unbacked + count("CONTRADICTS"), total),
         unsupported_claim_rate |-> Rate(unbacked, total),
         citation_coverage |-> Rate(total - count("NO_CITATION"), total),
         answer_relevancy |-> IF refused THEN 0 ELSE relevancy,
         judge_fallbacks |-> Len(Where(claims, LAMBDA c : c.fallback))]
(* FaithfulnessEvaluator.evaluate with _aggregate                          *)
EvaluateAnswer(query, r, chunks, reply) ==
    LET texts == ExtractClaims(r.answer)
        claims == [k \in DOMAIN texts |-> EvaluateClaim(r.answer, texts[k], chunks, reply)]
    IN  Scores(IF r.refused THEN <<>> ELSE claims, r.refused, r.answer = <<>>,
               AnswerRelevancy(query, r.answer))

(***************************************************************************)
(* metrics.py: _percentile and compute_distribution of integer values.     *)
(***************************************************************************)
Percentile(sorted, p) ==
    LET at == (Len(sorted) - 1) * p
        low == at \div 100
        part == at % 100
    IN  IF sorted = <<>> THEN 0
        ELSE IF part = 0 THEN sorted[low + 1]
        ELSE (sorted[low + 1] * (100 - part) + sorted[low + 2] * part) \div 100
Distribution(values, passing, higherIsBetter) ==
    LET up == SortedBy(values, LAMBDA v : -v)
        passes == Where(values, LAMBDA v : IF higherIsBetter THEN v >= passing ELSE v <= passing)
    IN  [count |-> Len(values), p10 |-> Percentile(up, 10), p50 |-> Percentile(up, 50),
         p90 |-> Percentile(up, 90), p95 |-> Percentile(up, 95),
         mean |-> IF values = <<>> THEN 0 ELSE FoldLeft(+, 0, values) \div Len(values),
         pass_rate |-> Rate(Len(passes), Len(values))]

(***************************************************************************)
(* thresholds.py and quality_gate.py over a function of metric values, one *)
(* of thresholds [good, warning, higher], and what p10 there is.           *)
(***************************************************************************)
Level(threshold, value) ==
    LET reaches(bound) == IF threshold.higher THEN value >= bound ELSE value <= bound
    IN  IF reaches(threshold.good) THEN "good"
        ELSE IF reaches(threshold.warning) THEN "warning" ELSE "critical"
(* BaselineStore.compare, called without samples of the baseline: nothing  *)
(* is significant.                                                         *)
Deltas(metrics, baseline) ==
    [m \in DOMAIN metrics \cap DOMAIN baseline |->
        LET delta == metrics[m] - baseline[m]
            better == (delta > 0) = (m # "hallucination_rate")
        IN  [delta |-> delta, significant |-> FALSE,
             direction |-> IF -StableDelta < delta /\ delta < StableDelta THEN "stable"
                           ELSE IF better THEN "improved" ELSE "degraded"]]
(* Mutant: the tenth percentile only warns.                                *)
CheckedMeanOnly(metrics, p10, thresholds) ==
    [m \in DOMAIN metrics \cap DOMAIN thresholds |-> Level(thresholds[m], metrics[m])]
Checked(metrics, p10, thresholds) ==
    [m \in DOMAIN metrics \cap DOMAIN thresholds |->
        IF m \in DOMAIN p10 /\ Level(thresholds[m], p10[m]) = "critical" THEN "critical"
        ELSE Level(thresholds[m], metrics[m])]
(* QualityGate.evaluate                                                    *)
Gate(metrics, p10, thresholds, baseline) ==
    LET checks == Checked(metrics, p10, thresholds)
        deltas == Deltas(metrics, baseline)
        failures == {m \in DOMAIN checks : checks[m] = "critical"}
        warnings == {m \in DOMAIN checks : checks[m] = "warning"}
                    \cup {m \in DOMAIN deltas : deltas[m].significant
                                                /\ deltas[m].direction = "degraded"}
    IN  [verdict |-> IF failures # {} THEN "fail" ELSE IF warnings # {} THEN "warning" ELSE "pass",
         checks |-> checks, deltas |-> deltas, failures |-> failures]

(***************************************************************************)
(* What the scores and the gate may be trusted for.                        *)
(***************************************************************************)
(* A claim counts as supported only through a source the answer cites, and *)
(* every claim is counted once: backed, contradicted or unbacked.          *)
ScoresHonest(e, r, chunks) ==
    /\ \A k \in DOMAIN e.claims : e.claims[k].label = "SUPPORTS" =>
          ToSet(e.claims[k].citations) \subseteq
              {r.citations[j].source_index : j \in DOMAIN r.citations}
    /\ ~e.refused /\ e.total_claims > 0 =>
          /\ e.faithfulness + e.hallucination_rate \in (Scale - 1)..Scale
          /\ e.faithfulness <= e.citation_coverage
          /\ e.citation_precision > 0 <=> e.supported_claims > 0
    /\ e.refused => e.claims = <<>>
    /\ e.judge_fallbacks <= e.total_claims
(* A claim is supported if any of the sources it cites supports it, and    *)
(* one that is contradicted and not supported is never passed over.        *)
JudgedFairly(e, chunks, reply) ==
    \A k \in DOMAIN e.claims :
        LET c == e.claims[k]
            labels == {Judged(reply[n], c.claim, SourceIndex(chunks)[n].text).label :
                          n \in ToSet(c.citations)}
        IN  /\ "SUPPORTS" \in labels <=> c.label = "SUPPORTS"
            /\ "CONTRADICTS" \in labels /\ "SUPPORTS" \notin labels => c.label = "CONTRADICTS"
(* The gate never passes a metric whose worst tenth is critical.           *)
GateHolds(g, metrics, p10, thresholds) ==
    /\ g.verdict # "fail" => \A m \in DOMAIN metrics \cap DOMAIN thresholds :
          /\ Level(thresholds[m], metrics[m]) # "critical"
          /\ m \in DOMAIN p10 => Level(thresholds[m], p10[m]) # "critical"
    /\ g.verdict = "pass" => \A m \in DOMAIN metrics \cap DOMAIN thresholds :
          Level(thresholds[m], metrics[m]) = "good"
==============================================================================
