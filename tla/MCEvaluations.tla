---------------------------- MODULE MCEvaluations ----------------------------
\* Two candidates, a confirmation suite and a blind review at the stages a
\* project goes through, and trials of policies on three candidates.
EXTENDS Evaluations

MCSymmetry == Permutations(Service)

Rec(type, id, refs, body) == [type |-> type, id |-> id, refs |-> refs, body |-> body]

Candidate(id) == Rec("artifact", id, {}, [integrity_evidence |-> id])
A1 == Candidate("a1")
A2 == Candidate("a2")
A3 == Candidate("a3")
MCCandidates == <<A1, A2, A3>>

Accuracy == [kind |-> "deterministic", direction |-> "maximize"]
Latency == [kind |-> "deterministic", direction |-> "minimize"]
Measured(x, y) == [accuracy |-> Accuracy @@ [value |-> x], latency |-> Latency @@ [value |-> y]]

Suite(kind, id, cases) ==
    Rec("evaluation_suite", id, {},
        [kind |-> kind, state |-> "unsealed", cases |-> cases,
         metrics |-> [accuracy |-> Accuracy]])
Revised(suite, state) == [suite EXCEPT !.refs = {suite}, !.body.state = state]

Case(id, content) == [id |-> id, content |-> content]
OneCase == {Case("k1", "x")}
OtherCase == {Case("k1", "y")}
SameCases == {Case("k1", "x"), Case("k2", "x")}

Fresh == Suite("confirmation", "c1", OneCase)
Sealed == Revised(Fresh, "sealed")
Inspected == Revised(Sealed, "unsealed")
Regression == Suite("regression", "g1", OneCase)
MCSuiteRequest == {Suite("confirmation", "c1", c) : c \in {OneCase, OtherCase, SameCases}}
MCCases == {OtherCase, SameCases}

Output(text, names) == [text |-> text, names |-> names]
Outputs1 == [c \in {A1, A2} |-> Output(c.id, {})]
MCReviewRequest ==
    {[id |-> "b1", outputs |-> o] :
        o \in {Outputs1, [Outputs1 EXCEPT ![A1] = Output("x", {"a2"})]}}
Prepared == BlindPreparation("b1", <<A2, A1>>, 9, Outputs1)
Judgment(notes, rates) == [notes |-> notes, rates |-> rates]
FirstBetter == Judgment("first better", {1, 2})
Judged == [Prepared EXCEPT !.refs = {Prepared}, !.body.stage = "blind_sealed",
                           !.body.mapping = <<>>, !.body.judgments = {FirstBetter}]
Revealed == [Judged EXCEPT !.refs = {A1, A2, Judged}, !.body.stage = "blind_revealed",
                           !.body.mapping = <<A2, A1>>]
MCJudgments ==
    {{FirstBetter}, {Judgment("second better", {1, 2})}, {Judgment("first good", {1})}}
MCSoloRequest ==
    {Rec("review", "b1", {A1},
         [mode |-> "solo", stage |-> "recorded", mapping |-> <<A1>>, packet |-> "none",
          judgments |-> j]) : j \in {{}, {Judgment("good", {1})}}}

Of(mode, evidence, metrics) ==
    [mode |-> mode, integrity |-> "passed", integrity_evidence |-> "a1",
     evidence |-> evidence, metrics |-> metrics, conflicts |-> {}]
JustAccuracy(x) == [accuracy |-> Accuracy @@ [value |-> x]]
Asked(c, body) ==
    [id |-> "r-" \o c.id, candidate |-> c, body |-> [body EXCEPT !.integrity_evidence = c.id]]
MCResultRequest ==
    {Asked(A1, Of("full_suite", e, JustAccuracy(2))) : e \in {"passed", "contaminated"}}
    \cup {Asked(A1, Of("experiment_loop", "passed", JustAccuracy(2))),
          Asked(A1, Of("standalone_review", "subjective_only", [m \in {} |-> 0]))}

Base == ResultOf(Asked(A2, Of("full_suite", "passed", JustAccuracy(1))), {Sealed}, {}, {})

Objective(m, d, tolerance) == [metric |-> m, direction |-> d, tolerance |-> tolerance]
Policy(qualifiers, objectives) ==
    [qualifiers |-> qualifiers, advisory |-> {"latency"}, objectives |-> objectives,
     baselines |-> {},
     rules |-> <<[label |-> "high", evidence |-> {"passed"}, suite_states |-> {"sealed"},
                  minimum |-> 1]>>]
AtLeast(n) == [metric |-> "accuracy", operator |-> ">=", threshold |-> n, tolerance |-> 0]
ByAccuracy == Policy({AtLeast(1)}, <<Objective("accuracy", "maximize", 0)>>)
MCPolicyRequest == {Rec("recommendation_policy", "y1", {}, ByAccuracy)}
PolicyRecord == CHOOSE y \in MCPolicyRequest : TRUE
MCRecommendationRequest == {"n1"}
Advice ==
    Rec("recommendation", "n1", {PolicyRecord, Base, A2}, Recommended(ByAccuracy, {Base}))
MCDecisionRequest == {[id |-> "u1", status |-> "accepted"], [id |-> "u2", status |-> "rejected"]}

MCStores ==
    {{A1, A2} \cup R : R \in {
        {}, {Fresh}, {Fresh, Sealed}, {Fresh, Sealed, Inspected},
        {Regression, Prepared}, {Prepared, Judged}, {Prepared, Judged, Revealed},
        {Fresh, Sealed, Base, PolicyRecord}, {Fresh, Sealed, Base, PolicyRecord, Advice}}}

Trialled(c, x, y) ==
    Rec("evaluation_result", "r-" \o c.id, {c, Sealed},
        [baselines |-> {}, suite_state |-> "sealed"] @@ Of("full_suite", "passed", Measured(x, y)))

MCTrial ==
    {Policy(q, <<Objective("accuracy", "maximize", d), Objective("latency", "minimize", e)>>) :
        q \in {{}, {AtLeast(2)}}, d \in 0 .. 1, e \in 0 .. 1}
    \X {{Trialled(A1, v[1], 1), Trialled(A2, v[2], v[3]), Trialled(A3, v[4], v[5])} :
        v \in [1 .. 5 -> 1 .. 3]}

=============================================================================
