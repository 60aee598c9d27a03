--------------------------- MODULE Recommendations ---------------------------
(***************************************************************************)
(* What an evaluation result must look like and what a policy recommends   *)
(* for a set of results: domain/evaluations.py.                            *)
(*                                                                         *)
(* A result refers to its candidate (an artifact), its suite and review if *)
(* it has them, and the results it is compared with.  Its metrics are a    *)
(* function of their names; values and tolerances are integers, the code's *)
(* decimals scaled.  Identifiers, record shapes and their JSON are left    *)
(* out; model judges and universal scores are refused by name there.       *)
(***************************************************************************)
EXTENDS EvidenceStore, Integers

CONSTANT Candidates    \* the artifacts, in the order of their references

Precedes(a, b) ==
    \E i, j \in DOMAIN Candidates : i < j /\ Candidates[i] = a /\ Candidates[j] = b

RefsTo(r, type) == {q \in r.refs : q.type = type}

CandidateOf(result) == CHOOSE a \in RefsTo(result, "artifact") : TRUE

SuiteBacked(result) == result.body.mode \in {"full_suite", "experiment_loop"}

\* EvaluationResult.__post_init__
ValidResult(result) ==
    LET b == result.body
        suite == RefsTo(result, "evaluation_suite")
        review == RefsTo(result, "review")
        measured == DOMAIN b.metrics # {} \/ b.baselines # {}
    IN  /\ (suite = {}) = (b.suite_state = "none")
        /\ SuiteBacked(result) = (suite # {})
        /\ \A c, d \in b.baselines : c.id = d.id => c = d
        /\ b.baselines # {} => suite # {}
        /\ b.mode = "no_quality_evaluation" =>
               b.evidence = "unevaluated" /\ ~measured /\ review = {}
        /\ b.evidence = "subjective_only" => review # {}
        /\ b.evidence \in {"passed", "failed"} => measured
        /\ b.suite_state = "contaminated" => b.evidence = "contaminated"

-----------------------------------------------------------------------------
(* build_recommendation()                                                  *)

\* HardQualifier.accepts
Qualifies(q, value) ==
    \/ q.operator = ">=" /\ value >= q.threshold - q.tolerance
    \/ q.operator = "<=" /\ value <= q.threshold + q.tolerance
    \/ q.operator = ">" /\ value > q.threshold + q.tolerance
    \/ q.operator = "<" /\ value < q.threshold - q.tolerance
    \/ q.operator = "=" /\ value \in q.threshold - q.tolerance .. q.threshold + q.tolerance

\* RecommendationPolicy.__post_init__
ValidPolicy(policy) ==
    LET objectives == policy.objectives
        rules == policy.rules
    IN  /\ objectives # <<>> /\ rules # <<>>
        /\ \A i, j \in DOMAIN objectives :
               objectives[i].metric = objectives[j].metric => i = j
        /\ \A i, j \in DOMAIN rules : rules[i].label = rules[j].label => i = j
        /\ \A p, q \in policy.qualifiers : p.metric = q.metric => p = q

Failures(policy, result) ==
    LET b == result.body
        m == b.metrics
        names == {c.id : c \in b.baselines}
    IN  {<<"artifact_integrity", "failed">> : x \in {b.integrity} \ {"passed"}}
        \cup {<<"evidence_status", x>> : x \in {b.evidence} \ {"passed", "subjective_only"}}
        \cup {<<"missing_qualifier", q.metric>> :
                  q \in {x \in policy.qualifiers : x.metric \notin DOMAIN m}}
        \cup {<<"failed_qualifier", q.metric>> :
                  q \in {x \in policy.qualifiers :
                      x.metric \in DOMAIN m /\ ~Qualifies(x, m[x.metric].value)}}
        \cup {<<"missing_baseline", i>> : i \in policy.baselines \ names}
        \cup {<<"missing_objective", o.metric>> :
                  o \in {x \in ToSet(policy.objectives) : x.metric \notin DOMAIN m}}

Qualified(policy, results) == {r \in results : Failures(policy, r) = {}}

\* What it refuses: two results of one candidate, one metric with two meanings,
\* an objective against its metric, qualified results of several cohorts.
Comparable(policy, results) ==
    /\ \A q, r \in results : CandidateOf(q) = CandidateOf(r) => q = r
    /\ \A q, r \in results :
           \A m \in DOMAIN q.body.metrics \cap DOMAIN r.body.metrics :
               /\ q.body.metrics[m].kind = r.body.metrics[m].kind
               /\ q.body.metrics[m].direction = r.body.metrics[m].direction
    /\ \A r \in results, o \in ToSet(policy.objectives) :
           o.metric \in DOMAIN r.body.metrics =>
               r.body.metrics[o.metric].direction = o.direction
    /\ \A q, r \in Qualified(policy, results) :
           /\ q.body.mode = r.body.mode /\ q.body.suite_state = r.body.suite_state
           /\ RefsTo(q, "evaluation_suite") = RefsTo(r, "evaluation_suite")

\* The value of an objective, so that more is better.
Score(objective, result) ==
    LET value == result.body.metrics[objective.metric].value
    IN  IF objective.direction = "maximize" THEN value ELSE -value

\* The elements of S in the order of the pairs in before.
Sorted(S, before) ==
    [n \in 1 .. Cardinality(S) |->
        CHOOSE x \in S : Cardinality({y \in S : <<y, x>> \in before}) = n - 1]

Better(objective, q, r) ==
    \/ Score(objective, q) > Score(objective, r)
    \/ /\ Score(objective, q) = Score(objective, r)
       /\ Precedes(CandidateOf(q), CandidateOf(r))

BestFirst(objective, results) ==
    Sorted(results, {p \in results \X results : Better(objective, p[1], p[2])})

\* The cohort of r among those of the results before it.
Placed(of, r, index) == [q \in DOMAIN of \cup {r} |-> IF q = r THEN index ELSE of[q]]

NoCohort == [index |-> 0, anchor |-> 0, of |-> [r \in {} |-> 0]]

\* Mutant: a result joins the cohort of its neighbour, not of its best.
CohortsByNeighbour(objective, results) ==
    FoldLeft(LAMBDA c, r :
        LET score == Score(objective, r)
            joins == c.index > 0 /\ c.anchor - score <= objective.tolerance
            index == IF joins THEN c.index ELSE c.index + 1
        IN  [index |-> index, anchor |-> score, of |-> Placed(c.of, r, index)],
        NoCohort, BestFirst(objective, results)).of

\* _global_tolerance_cohort_keys: best first, those within the tolerance of the
\* best of a cohort belong to it.
Cohorts(objective, results) ==
    FoldLeft(LAMBDA c, r :
        LET score == Score(objective, r)
            joins == c.index > 0 /\ c.anchor - score <= objective.tolerance
            index == IF joins THEN c.index ELSE c.index + 1
        IN  [index |-> index, anchor |-> IF joins THEN c.anchor ELSE score,
             of |-> Placed(c.of, r, index)],
        NoCohort, BestFirst(objective, results)).of

Keys(policy, results) ==
    LET cohorts == [i \in DOMAIN policy.objectives |->
                        Cohorts(policy.objectives[i], results)]
    IN  [r \in results |-> [i \in DOMAIN cohorts |-> cohorts[i][r]]]

Lexicographic(x, y) ==
    \E i \in DOMAIN x : x[i] < y[i] /\ \A j \in 1 .. i - 1 : x[j] = y[j]

\* _rank_results
Ranked(results, keys) ==
    Sorted(results, {p \in results \X results :
        \/ Lexicographic(keys[p[1]], keys[p[2]])
        \/ /\ keys[p[1]] = keys[p[2]]
           /\ Precedes(CandidateOf(p[1]), CandidateOf(p[2]))})

Dominates(q, r, keys) ==
    /\ \A i \in DOMAIN keys[q] : keys[q][i] <= keys[r][i]
    /\ \E i \in DOMAIN keys[q] : keys[q][i] < keys[r][i]

\* _pareto_results
Pareto(results, keys) == {r \in results : ~\E q \in results : Dominates(q, r, keys)}

\* ConfidenceRule.matches
RuleMatches(rule, result) ==
    /\ result.body.evidence \in rule.evidence
    /\ Cardinality(DOMAIN result.body.metrics) >= rule.minimum
    /\ rule.suite_states = {} \/ result.body.suite_state \in rule.suite_states

Confidence(policy, result) ==
    LET matching == {i \in DOMAIN policy.rules : RuleMatches(policy.rules[i], result)}
    IN  IF matching = {} THEN "none"
        ELSE policy.rules[CHOOSE i \in matching : \A j \in matching : i <= j].label

Conflicts(policy, results, pareto, ranked) ==
    UNION {r.body.conflicts : r \in results}
    \cup {<<"advisory_metric_missing", m>> :
              m \in UNION {policy.advisory \ DOMAIN r.body.metrics : r \in results}}
    \cup {<<c.outcome, c.id>> :
              c \in {x \in UNION {r.body.baselines : r \in results} :
                  x.outcome \in {"worse", "inconclusive"}}}
    \cup {<<"qualified_objective_tradeoff", "">> : x \in {Cardinality(pareto)} \ {0, 1}}
    \cup {<<"no_qualified_candidate", "">> : x \in {Len(ranked)} \cap {0}}

\* The body of the recommendation of a policy for comparable results.
Recommended(policy, results) ==
    LET qualified == Qualified(policy, results)
        keys == Keys(policy, qualified)
        ranked == Ranked(qualified, keys)
        pareto == Pareto(qualified, keys)
        selected == {ranked[i] : i \in {1} \cap DOMAIN ranked}
    IN  [ranking |-> [i \in DOMAIN ranked |-> CandidateOf(ranked[i])],
         selected |-> {CandidateOf(r) : r \in selected},
         alternatives |-> {CandidateOf(r) : r \in pareto \ selected},
         assessments |-> {[candidate |-> CandidateOf(r), evidence |-> r.body.evidence,
                           failures |-> Failures(policy, r)] : r \in results},
         conflicts |-> Conflicts(policy, results, pareto, ranked),
         confidence |-> IF selected = {} THEN "none" ELSE Confidence(policy, ranked[1])]

\* Recommendation.__post_init__ and CandidateAssessment.__post_init__: a rank is
\* a place in the ranking, and to have one is to be qualified.
ValidRecommendation(b) ==
    LET ranked == ToSet(b.ranking) IN
    /\ b.assessments # {}
    /\ \A x, y \in b.assessments : x.candidate = y.candidate => x = y
    /\ ranked \subseteq {x.candidate : x \in b.assessments}
    /\ \A x \in b.assessments : x.candidate \in ranked => x.failures = {}
    /\ b.selected = {b.ranking[i] : i \in {1} \cap DOMAIN b.ranking}
    /\ b.alternatives \subseteq ranked \ b.selected
    /\ b.selected = {} => b.confidence = "none"

=============================================================================
