----------------------------- MODULE Evaluations -----------------------------
(***************************************************************************)
(* EvaluationService (app_services/evaluations.py): suites and reviews are *)
(* lineages of immutable revisions, of which the one without a successor   *)
(* is current; results, policies, recommendations and decisions are single *)
(* records.  A revision is written only after its lineage was read, and    *)
(* the lineage is read again after the write.                              *)
(*                                                                         *)
(* A suite is [kind, state, cases, metrics], a case [id, content]; a       *)
(* review is [mode, stage, packet, mapping, judgments].  A mapping is the  *)
(* sequence of candidates by alias; a packet is what its identity is a     *)
(* hash of: the outputs of its one prompt by alias and the commitment to   *)
(* nonce and mapping.  A judgment says which aliases it rates.  The nonce of a call is  *)
(* its number.  The lineage reads of one call are one step, since a        *)
(* lineage that is broken stays so.  Texts, ratings and settings are left  *)
(* out.                                                                    *)
(***************************************************************************)
EXTENDS Recommendations

CONSTANTS
    SuiteRequest,            \* suites to register
    Cases,                   \* what the cases of a suite may be changed to
    ReviewRequest,           \* [id, outputs]: candidate to its outputs
    SoloRequest,             \* solo reviews
    Judgments,               \* what a reviewer may say of a packet
    ResultRequest,           \* [id, candidate, body]: results without what they refer to
    PolicyRequest,           \* recommendation policies
    RecommendationRequest,   \* ids of recommendations
    DecisionRequest,         \* [id, status]
    Stores,                  \* the sets of records to begin with
    Trial                    \* policies and results to compare: <<policy, results>>

Prior(r) == RefsTo(r, r.type)

Lineage(r) == {q \in records : q.type = r.type /\ q.id = r.id}

\* _blind_review_transition_is_valid and its reading by _validated_review_lineage
BlindTransitionValid(root, before, after) ==
    /\ root.body.stage = "blind_prepared"
    /\ after.body.packet = root.body.packet
    /\ \/ /\ before = root /\ after.body.stage = "blind_sealed"
          /\ after.body.mapping = <<>> /\ after.body.judgments # {}
       \/ /\ before.body.stage = "blind_sealed" /\ after.body.stage = "blind_revealed"
          /\ after.body.judgments = before.body.judgments
          /\ after.body.mapping = root.body.mapping

SuccessorAllowed(root, before, after) ==
    IF root.type = "evaluation_suite" THEN after.body.kind = root.body.kind
    ELSE BlindTransitionValid(root, before, after)

\* _validated_suite_lineage, _validated_review_lineage: one root, and every
\* other revision the only successor of one that is there.
Linear(R) ==
    LET roots == {r \in R : Prior(r) = {}} IN
    /\ Cardinality(roots) = 1
    /\ \A r \in R \ roots :
           /\ Prior(r) \subseteq R
           /\ \A q \in R \ {r} : Prior(q) # Prior(r)
           /\ \A root \in roots, p \in Prior(r) : SuccessorAllowed(root, p, r)

Superseded(r) == \E q \in Lineage(r) : Prior(q) = {r}

Current(r) == r \in records /\ Linear(Lineage(r)) /\ ~Superseded(r)

\* The event that tells of a record, under the identity of the record.
Event(r) ==
    CASE r.type = "evaluation_suite" ->
             Outcome("evaluation-suite-" \o r.id,
                     IF Prior(r) = {} THEN "suite-registered" ELSE "suite-state", r, {})
      [] r.type = "review" -> Outcome("review-" \o r.id, r.body.stage, r, {})
      [] r.type = "evaluation_result" ->
             Outcome("evaluation-results", "evaluation-result-recorded", r, {})
      [] r.type = "recommendation_policy" ->
             Outcome("recommendation-policies", "recommendation-policy-recorded", r, {})
      [] r.type = "recommendation" ->
             Outcome("recommendations", "recommendation-recorded", r, {})
      [] r.type = "user_decision" ->
             Outcome("user-decisions", "user-decision-recorded", r, {})

\* _persist_new with the event and the verification that follow it.
PersistNew(s, r) == Called(s, Request("check", <<r>>, {r}, Event(r)))

\* _persist_suite_revision, _persist_review_revision: a successor that is there
\* is taken if it is the same one.
PersistRevision(s, current, revised) ==
    LET successors == {q \in Lineage(current) : Prior(q) = {current}} IN
    /\ Linear(Lineage(current)) /\ successors \subseteq {revised}
    /\ Called(s, [Request("write", <<revised>>, {}, Event(revised)) EXCEPT
           !.pc = IF successors = {} THEN "write" ELSE "append",
           !.settle = {revised}])

\* Mutant: the lineage is not read again.
SettleUnread(s) ==
    /\ At(s, "settle")
    /\ Moves(s, [call[s] EXCEPT !.pc = "append"])
    /\ UNCHANGED <<records, events, calls, acknowledged>>

\* The lineage as it is after the write.
Settle(s) ==
    /\ At(s, "settle")
    /\ IF \A r \in call[s].settle : Linear(Lineage(r))
       THEN Moves(s, [call[s] EXCEPT !.pc = "append"])
       ELSE Ends(s)
    /\ UNCHANGED <<records, events, calls, acknowledged>>

-----------------------------------------------------------------------------
(* Suites                                                                  *)

Suites == {r \in records : r.type = "evaluation_suite"}

\* EvaluationSuite.__post_init__
ValidSuite(suite) ==
    LET cases == suite.body.cases IN
    /\ cases # {} /\ DOMAIN suite.body.metrics # {}
    /\ \A c, d \in cases : c.id = d.id \/ c.content = d.content => c = d
    /\ Prior(suite) = {} => suite.body.state = "unsealed"

RegisterSuite(s, suite) ==
    /\ CanCall(s) /\ ValidSuite(suite) /\ Prior(suite) = {}
    /\ PersistNew(s, suite)

ReviseSuite(s, suite, state, cases) ==
    LET revised == [suite EXCEPT !.refs = {suite}, !.body.state = state,
                                 !.body.cases = cases]
    IN  ValidSuite(revised) /\ PersistRevision(s, suite, revised)

SealSuite(s, suite) ==
    /\ CanCall(s) /\ suite.body.state = "unsealed" /\ Prior(suite) = {}
    /\ ReviseSuite(s, suite, "sealed", suite.body.cases)

InspectConfirmationSuite(s, suite) ==
    /\ CanCall(s) /\ suite.body.kind = "confirmation" /\ suite.body.state = "sealed"
    /\ ReviseSuite(s, suite, "unsealed", suite.body.cases)

ModifySuite(s, suite, cases) ==
    /\ CanCall(s) /\ suite.body.state \notin {"contaminated", "retired"}
    /\ cases # suite.body.cases
    /\ ReviseSuite(s, suite, "modified", cases)

MarkSuiteContaminated(s, suite) ==
    /\ CanCall(s) /\ suite.body.state \notin {"contaminated", "retired"}
    /\ ReviseSuite(s, suite, "contaminated", suite.body.cases)

RetireSuite(s, suite) ==
    /\ CanCall(s) /\ suite.body.state # "retired"
    /\ ReviseSuite(s, suite, "retired", suite.body.cases)

\* Contaminating or retiring what is so already returns it at once.
AlreadyMarked(s, suite) ==
    /\ CanCall(s) /\ suite.body.state \in {"contaminated", "retired"} /\ Current(suite)
    /\ acknowledged' = acknowledged \cup {suite} /\ calls' = calls + 1
    /\ UNCHANGED <<records, events, call>>

-----------------------------------------------------------------------------
(* Reviews                                                                 *)

Reviews == {r \in records : r.type = "review"}

Aliases(r) == DOMAIN IF r.body.mode = "solo" THEN r.body.mapping ELSE r.body.packet.outputs

\* Review.__post_init__ and ReviewEntry.__post_init__: what a review holds at its
\* stage, and a rating of every output in every judgment.
ValidReview(r) ==
    LET b == r.body IN
    /\ (b.mode = "solo") = (b.stage = "recorded")
    /\ (b.judgments = {}) = (b.stage = "blind_prepared")
    /\ (b.mapping = <<>>) = (b.stage = "blind_sealed")
    /\ (Prior(r) = {}) = (b.stage \in {"recorded", "blind_prepared"})
    /\ \A j \in b.judgments : j.rates = Aliases(r)

RecordSoloReview(s, r) ==
    /\ CanCall(s) /\ ValidReview(r) /\ RefsTo(r, "artifact") \subseteq records
    /\ PersistNew(s, r)

BlindPreparation(id, mapping, nonce, outputs) ==
    [type |-> "review", id |-> id, refs |-> ToSet(mapping),
     body |-> [mode |-> "blind", stage |-> "blind_prepared", mapping |-> mapping,
               packet |-> [outputs |-> [i \in DOMAIN mapping |-> outputs[mapping[i]]],
                           commitment |-> <<nonce, mapping>>],
               judgments |-> {}]]

\* _audit_blind_fields: no output names a candidate.
LeakFree(outputs) ==
    \A c, d \in DOMAIN outputs : c.id \notin outputs[d].names

\* prepare_blind_review: the preparation of a packet id is made once, and the
\* same inputs give the same packet again.
PrepareBlindReview(s, q) ==
    LET existing == {r \in Reviews : r.id = q.id} IN
    /\ CanCall(s) /\ DOMAIN q.outputs \subseteq records /\ LeakFree(q.outputs)
    /\ \/ /\ existing = {}
          /\ \E mapping \in SetToSeqs(DOMAIN q.outputs) :
                 PersistNew(s, BlindPreparation(q.id, mapping, calls, q.outputs))
       \/ /\ existing # {} /\ Linear(existing)
          /\ \E p \in existing :
                 /\ p.body.stage = "blind_prepared"
                 /\ ToSet(p.body.mapping) = DOMAIN q.outputs
                 /\ p = BlindPreparation(q.id, p.body.mapping, p.body.packet.commitment[1],
                                    q.outputs)
                 /\ Called(s, [Request("append", <<>>, {}, Event(p)) EXCEPT !.result = {p}])

\* The packets that callers hold are those of acknowledged preparations.
Packets == {r \in acknowledged : r.type = "review" /\ r.body.stage = "blind_prepared"}

SealBlindReview(s, p, judgments) ==
    LET sealed == [p EXCEPT !.refs = {p}, !.body.stage = "blind_sealed",
                            !.body.mapping = <<>>, !.body.judgments = judgments]
    IN  /\ CanCall(s) /\ ValidReview(sealed) /\ Cardinality(judgments) = 1
        /\ PersistRevision(s, p, sealed)

RevealBlindReview(s, p, sealed) ==
    LET revealed == [sealed EXCEPT !.refs = ToSet(p.body.mapping) \cup {sealed},
                         !.body.stage = "blind_revealed", !.body.mapping = p.body.mapping]
    IN  /\ CanCall(s) /\ p.id = sealed.id
        /\ sealed.body.stage = "blind_sealed" /\ sealed.body.packet = p.body.packet
        /\ ValidReview(revealed)
        /\ PersistRevision(s, sealed, revealed)

-----------------------------------------------------------------------------
(* Results, policies, recommendations, decisions                           *)

\* What the suite's state and evaluators say of the result.
EvidenceAdmits(result, suite) ==
    /\ suite.body.state = result.body.suite_state /\ suite.body.state # "retired"
    /\ ~(result.body.mode = "experiment_loop" /\ suite.body.kind = "confirmation")
    /\ \/ suite.body.kind # "confirmation"
       \/ suite.body.state \notin {"unsealed", "modified", "contaminated"}
       \/ result.body.evidence = "contaminated"
    /\ \A m \in DOMAIN result.body.metrics :
           /\ m \in DOMAIN suite.body.metrics
           /\ suite.body.metrics[m].kind = result.body.metrics[m].kind
           /\ suite.body.metrics[m].direction = result.body.metrics[m].direction

\* Mutant: a revision that was superseded is as good as the current one.
AdmitsStale(result, suite) ==
    /\ suite \in records /\ Linear(Lineage(suite)) /\ EvidenceAdmits(result, suite)

SuiteAdmits(result, suite) == Current(suite) /\ EvidenceAdmits(result, suite)

ReviewAdmits(result, review) ==
    /\ Current(review)
    /\ review.body.mode = "blind" => review.body.stage = "blind_revealed"
    /\ CandidateOf(result) \in ToSet(review.body.mapping)

\* What a comparison with a recorded result must say.
Compared(result, base, metric) ==
    LET mine == result.body.metrics[metric]
        its == base.body.metrics[metric]
        more == IF mine.direction = "maximize" THEN "better" ELSE "worse"
        less == IF mine.direction = "maximize" THEN "worse" ELSE "better"
    IN  IF mine.value = its.value THEN "equivalent"
        ELSE IF mine.value > its.value THEN more ELSE less

BaselineAdmits(result, c) ==
    LET base == c.baseline IN
    /\ base \in records /\ CandidateOf(base) # CandidateOf(result)
    /\ base.body.mode = result.body.mode
    /\ RefsTo(base, "evaluation_suite") = RefsTo(result, "evaluation_suite")
    /\ base.body.suite_state = result.body.suite_state
    /\ base.body.integrity = "passed" /\ base.body.evidence \in {"passed", "failed"}
    /\ c.metric \in DOMAIN result.body.metrics \cap DOMAIN base.body.metrics
    /\ result.body.metrics[c.metric].direction = base.body.metrics[c.metric].direction
    /\ result.body.metrics[c.metric].kind = base.body.metrics[c.metric].kind
    /\ c.outcome \in {"inconclusive", Compared(result, base, c.metric)}

\* The result a caller makes of a request and the evidence it names.
ResultOf(q, suites, reviews, baselines) ==
    [type |-> "evaluation_result", id |-> q.id,
     refs |-> {q.candidate} \cup suites \cup reviews
              \cup {c.baseline : c \in baselines},
     body |-> q.body @@ [baselines |-> baselines,
         suite_state |-> IF suites = {} THEN "none" ELSE (CHOOSE x \in suites : TRUE).body.state]]

RecordResult(s, result) ==
    /\ CanCall(s) /\ ValidResult(result) /\ CandidateOf(result) \in records
    /\ result.body.integrity = "passed" =>
           result.body.integrity_evidence = CandidateOf(result).body.integrity_evidence
    /\ \A suite \in RefsTo(result, "evaluation_suite") : SuiteAdmits(result, suite)
    /\ \A review \in RefsTo(result, "review") : ReviewAdmits(result, review)
    /\ \A c \in result.body.baselines : BaselineAdmits(result, c)
    /\ PersistNew(s, result)

Results == {r \in records : r.type = "evaluation_result"}

RegisterPolicy(s, policy) ==
    CanCall(s) /\ ValidPolicy(policy.body) /\ PersistNew(s, policy)

Recommend(s, id, policy, results) ==
    LET made == [type |-> "recommendation", id |-> id,
                 refs |-> {policy} \cup results \cup {CandidateOf(r) : r \in results},
                 body |-> Recommended(policy.body, results)]
    IN  /\ CanCall(s) /\ policy \in records /\ results # {} /\ results \subseteq records
        /\ \A r \in results : RefsTo(r, "artifact") \subseteq records
        /\ \A r \in results : \A suite \in RefsTo(r, "evaluation_suite") : Current(suite)
        /\ Comparable(policy.body, results) /\ ValidRecommendation(made.body)
        /\ PersistNew(s, made)

\* A decision on one of the candidates, with the evidence status it had.
RecordDecision(s, q, recommendation, assessment) ==
    LET decision == [type |-> "user_decision", id |-> q.id,
                     refs |-> {recommendation, assessment.candidate},
                     body |-> [status |-> q.status, evidence |-> assessment.evidence]]
    IN  /\ CanCall(s) /\ {recommendation, assessment.candidate} \subseteq records
        /\ assessment \in recommendation.body.assessments
        /\ PersistNew(s, decision)

Decisions == {r \in records : r.type = "user_decision"}

\* decision_history(): every decision has its event, and every event its
\* decision, once.
HistoryReadable ==
    LET stream == events["user-decisions"] IN
    /\ {e.id : e \in ToSet(stream)} = Decisions
    /\ \A i, j \in DOMAIN stream : stream[i].id = stream[j].id => i = j

-----------------------------------------------------------------------------

\* The streams of suites and reviews are named after them.
LineageIds ==
    {r.id : r \in SuiteRequest \cup SoloRequest \cup ReviewRequest} \cup
    {r.id : r \in {x \in UNION Stores : x.type \in {"evaluation_suite", "review"}}}

\* A sealed revision is of cases that nobody has looked at or changed.
SealedOnce(suite) ==
    /\ suite.body.state = "sealed"
    /\ \A p \in Prior(suite) : Prior(p) = {} /\ p.body.cases = suite.body.cases

\* The suites a result is confirmation evidence on that counts.
CountsOn(result) ==
    {suite \in RefsTo(result, "evaluation_suite") :
        suite.body.kind = "confirmation" /\ result.body.evidence # "contaminated"}

Unseen(result) == \A suite \in CountsOn(result) : SealedOnce(suite)

\* What the service makes of every suite, review and result it writes.
WellMade(r) ==
    /\ r.type \in {"evaluation_suite", "review"} =>
           /\ DOMAIN r = {"type", "id", "refs", "body"} /\ r.id \in LineageIds
           /\ \A p \in Prior(r) : p.id = r.id
    /\ r.type = "evaluation_suite" =>
           /\ {"state", "cases"} \subseteq DOMAIN r.body
           /\ r.body.state \in {"unsealed", "sealed", "modified", "contaminated", "retired"}
           /\ r.body.state = "sealed" => SealedOnce(r) /\ Prior(r) # {}
    /\ r.type = "review" =>
           /\ "stage" \in DOMAIN r.body
           /\ r.body.stage = "blind_prepared" =>
                  \A c \in ToSet(r.body.mapping) : c.type = "artifact"
    /\ r.type = "evaluation_result" => Unseen(r)

\* Requests are typed, candidates are artifacts, and what is there at first was
\* written by the service, each revision the only successor of the one before.
ASSUME RequestAssumption ==
    /\ \A q \in SuiteRequest :
           /\ q.type = "evaluation_suite" /\ DOMAIN q = {"type", "id", "refs", "body"}
           /\ {"state", "cases"} \subseteq DOMAIN q.body
    /\ \A q \in SoloRequest :
           /\ q.type = "review" /\ DOMAIN q = {"type", "id", "refs", "body"}
           /\ "stage" \in DOMAIN q.body /\ q.body.mode = "solo"
    /\ \A q \in ReviewRequest : \A c \in DOMAIN q.outputs : c.type = "artifact"
    /\ \A q \in PolicyRequest : q.type = "recommendation_policy"
ASSUME StoresAssumption == \A R \in Stores :
    /\ \A r \in R : WellMade(r) /\ r.type # "user_decision"
    /\ \A q, r \in R : q.type = r.type /\ Prior(q) # {} /\ Prior(q) = Prior(r) => q = r
ASSUME NamesAssumption ==
    /\ "user-decisions" \in Stream
    /\ \A n \in LineageIds : "user-decisions" \notin {"evaluation-suite-" \o n, "review-" \o n}

\* Candidates are listed once; a trial is of results the service would compare,
\* whose values are numbers.
ASSUME TrialAssumption ==
    /\ Candidates \in Seq(ToSet(Candidates))
    /\ \A i, j \in DOMAIN Candidates : Candidates[i] = Candidates[j] => i = j
    /\ \A t \in Trial :
           LET objectives == t[1].objectives
               results == t[2]
           IN  /\ Comparable(t[1], results)
               /\ objectives \in Seq(ToSet(objectives))
               /\ \A o \in ToSet(objectives) : o.tolerance \in Nat
               /\ results # {} /\ IsFiniteSet(results)
               /\ \A r \in results :
                      /\ CandidateOf(r) \in ToSet(Candidates)
                      /\ \A m \in DOMAIN r.body.metrics : r.body.metrics[m].value \in Int

Announced == {"evaluation_suite", "review", "evaluation_result", "recommendation_policy",
              "recommendation"}

EvaluationsInit ==
    /\ records \in Stores /\ acknowledged = records
    /\ events = [n \in Stream |->
           SetToSeq({e \in {Event(r) : r \in {x \in records : x.type \in Announced}} : e.stream = n})]
    /\ call = [s \in Service |-> Idle] /\ calls = 0

ReviseSuites(s) ==
    \E suite \in Suites :
        \/ SealSuite(s, suite) \/ InspectConfirmationSuite(s, suite)
        \/ MarkSuiteContaminated(s, suite) \/ RetireSuite(s, suite)
        \/ AlreadyMarked(s, suite)
        \/ \E cases \in Cases : ModifySuite(s, suite, cases)

ReviewCalls(s) ==
    \/ \E q \in ReviewRequest : PrepareBlindReview(s, q)
    \/ \E r \in SoloRequest : RecordSoloReview(s, r)
    \/ \E p \in Packets :
           \/ \E j \in Judgments : SealBlindReview(s, p, j)
           \/ \E sealed \in Reviews : RevealBlindReview(s, p, sealed)

\* At most one suite, one review and one comparison for a result.
Evidence(R) == {{}} \cup {{r} : r \in R}

Comparisons(q) ==
    {[id |-> "versus", metric |-> m, baseline |-> b, outcome |-> o] :
        m \in DOMAIN q.body.metrics, b \in Results,
        o \in {"better", "worse", "equivalent", "inconclusive"}}

ResultCalls(s) ==
    \E q \in ResultRequest, suites \in Evidence(Suites), reviews \in Evidence(Reviews) :
        \E baselines \in Evidence(Comparisons(q)) :
            RecordResult(s, ResultOf(q, suites, reviews, baselines))

ChoiceCalls(s) ==
    \/ \E policy \in PolicyRequest : RegisterPolicy(s, policy)
    \/ \E id \in RecommendationRequest, policy \in PolicyRequest, results \in SUBSET Results :
           Recommend(s, id, policy, results)
    \/ \E q \in DecisionRequest, r \in {x \in records : x.type = "recommendation"} :
           \E assessment \in r.body.assessments : RecordDecision(s, q, r, assessment)

EvaluationsNext ==
    \E s \in Service :
        \/ \E suite \in SuiteRequest : RegisterSuite(s, suite)
        \/ ReviseSuites(s) \/ ReviewCalls(s) \/ ResultCalls(s) \/ ChoiceCalls(s)
        \/ Settle(s) \/ StoreStep(s)

EvaluationsSpec == EvaluationsInit /\ [][EvaluationsNext]_storeVars

-----------------------------------------------------------------------------

\* Of two revisions that overlapping calls made of the same one, at most one is
\* ever acknowledged, be it of a suite or of a review, and whoever retries
\* (app_services/evaluations.py:944).
OneSuccessor ==
    \A a, b \in acknowledged \cap (Suites \cup Reviews) :
        Prior(a) # {} /\ Prior(a) = Prior(b) => a = b

Recording(c) == {r \in ToSet(c.todo) : r.type = "evaluation_result"}

\* No call begins to record a result that counts on a revision of which a
\* successor was acknowledged.
BeginsUnseen ==
    \A s \in Service : At(s, "idle") /\ call'[s].pc # "idle" =>
        \A r \in Recording(call'[s]) : \A suite \in CountsOn(r) :
            \A known \in acknowledged : Prior(known) # {suite}

\* Confirmation evidence that counts is on a sealed revision whose cases nobody
\* had opened or changed before it was sealed, and once a call that inspects,
\* modifies or contaminates that revision has returned no call begins to record
\* evidence on it.  One that had begun by then, and read the revision as current,
\* may still record it (app_services/evaluations.py:606, :614).
SealedUnseen == [](\A r \in Results : Unseen(r)) /\ [][BeginsUnseen]_storeVars

\* When every decision was acknowledged the history can be read, and a decision
\* that was retried has not superseded a later one
\* (app_services/evaluations.py:855).
DecisionsReadable == Decisions \subseteq acknowledged => HistoryReadable

Beaten(policy, r, results) ==
    \E q \in results :
        /\ \A o \in ToSet(policy.objectives) : Score(o, q) >= Score(o, r)
        /\ \E o \in ToSet(policy.objectives) : Score(o, q) > Score(o, r) + o.tolerance

\* The trials in which a candidate is put forward that another qualified one
\* beats by more than the tolerance and nowhere falls behind, or nobody is
\* although somebody qualifies, or what was built is refused by its record.
WronglyAdvised ==
    {t \in Trial :
        LET qualified == Qualified(t[1], t[2])
            advice == Recommended(t[1], t[2])
            forward == advice.selected \cup advice.alternatives
        IN  \/ (advice.selected = {}) # (qualified = {}) \/ ~ValidRecommendation(advice)
            \/ \E r \in qualified : CandidateOf(r) \in forward /\ Beaten(t[1], r, qualified)}

\* Grouping values within a tolerance never puts forward a candidate that
\* another one beats (domain/evaluations.py:1334).
SelectedUndominated == (\E s \in Service : CanCall(s)) => WronglyAdvised = {}

=============================================================================
