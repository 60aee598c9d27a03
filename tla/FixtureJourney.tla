---------------------------- MODULE FixtureJourney ----------------------------
(***************************************************************************)
(* FixtureJourneyService (app_services/fixture_journey.py): what the UI    *)
(* server and the command line ask of the services, one request at a time, *)
(* from a project to an exported adapter.  It keeps the prepared dataset,  *)
(* the resolved candidates, the comparison and the blind review in memory, *)
(* a restart loses them, and every request starts from what the store      *)
(* holds.                                                                  *)
(*                                                                         *)
(* The server runs alone, so what a request will do follows from the store *)
(* and the memory it finds: plan is the list of its steps, and a request   *)
(* that fails, or whose process dies, leaves a prefix of them.  A record   *)
(* is [type, id, no, body, refs]: no numbers the ids that                  *)
(* _next_logical_id makes and the revisions of a suite.  The records of a  *)
(* freeze, a launch or a set-up that precede the last one are left out     *)
(* (Experiments, RunService), and so are files, texts and ratings.         *)
(***************************************************************************)
EXTENDS Naturals, Sequences, FiniteSets, SequencesExt

CONSTANTS
    Source,        \* dataset sources a user may import
    Fixture,       \* the built-in one
    Status,        \* the statuses users decide on
    None,          \* nothing prepared or resolved
    MaxRecords,    \* bound: reviews, captures, decisions, sessions and exports
    MaxFaults      \* bound: failed requests and restarts

ASSUME SourceAssumption == Fixture \in Source /\ None \notin Source
ASSUME BoundsAssumption == MaxRecords \in Nat /\ MaxFaults \in Nat

VARIABLES
    records,    \* the evidence store
    events,     \* events of the store but for decisions: <<kind, record>>
    decided,    \* the stream user-decisions
    claims,     \* the launch claim of each candidate: none, claimed or resolved
    memory,     \* the fields of the service
    plan,       \* the steps left of the request that is handled
    faults      \* failures and restarts

vars == <<records, events, decided, claims, memory, plan, faults>>

Candidate == {"ember", "slate"}

Fresh == [prepared |-> None, resolved |-> None, compared |-> FALSE,
          packet |-> 0, sealed |-> 0]

Init ==
    /\ records = {} /\ events = {} /\ decided = <<>>
    /\ claims = [k \in Candidate |-> "none"]
    /\ memory = Fresh /\ plan = <<>> /\ faults = 0

-----------------------------------------------------------------------------
(* Steps of a request                                                      *)

Refuse == <<[do |-> "refuse"]>>

Remember(field, value) == <<[do |-> "remember", field |-> field, value |-> value]>>

Write(r) == <<[do |-> "write", record |-> r]>>

Tell(kind, r) == <<[do |-> "append", kind |-> kind, record |-> r]>>

Rec(type, id, no, body, refs) ==
    [type |-> type, id |-> id, no |-> no, body |-> body, refs |-> refs]

Of(type, id) == {r \in records : r.type = type /\ r.id = id}

Conflicting(r) == \E s \in Of(r.type, r.id) : s.no = r.no /\ s # r

\* A record under an id of its own, then its event; both idempotent.
PersistNew(r) == IF Conflicting(r) THEN Refuse ELSE Write(r) \o Tell("recorded", r)

PersistRevision(r) == Write(r) \o Tell("recorded", r)

Runs(steps) == \A i \in DOMAIN steps : steps[i].do # "refuse"

\* Mutant: only the records whose event is there are counted.
NextAcknowledged(type, id) ==
    Cardinality({r \in Of(type, id) : <<"recorded", r>> \in events \/ r \in ToSet(decided)}) + 1

\* _next_logical_id
NextLogicalId(type, id) == Cardinality(Of(type, id)) + 1

-----------------------------------------------------------------------------
(* Project, dataset, runs                                                  *)

Project == Rec("project", "fixture", 0, "project", {})

SetupProject == PersistNew(Project)

\* Mutant: another source is another version.
DatasetOfSource(source) == Rec("dataset_version", source, 0, source, {})

\* _dataset_request: one version id, whatever is imported.
Dataset(source) == Rec("dataset_version", "fixture", 0, source, {})

\* A project that is set up already is written again, to no effect.
StoreDataset(source) ==
    SetupProject \o
    (IF Conflicting(Dataset(source)) THEN Refuse ELSE Write(Dataset(source)))

ImportDataset(source) == StoreDataset(source) \o Remember("prepared", source)

\* _prepared_context: after a restart the dataset has to be imported again.
PreparedContext == IF memory.prepared = None THEN SetupProject \o Refuse ELSE <<>>

ResolveCandidates == PreparedContext \o Remember("resolved", memory.prepared)

Experiment(k, prepared) == Rec("experiment", k, 0, "frozen", {Project, Dataset(prepared)})

\* The request and with it the run carry the estimate, here its source.
Run(k, prepared, resolved) == Rec("run", k, 0, resolved, {Experiment(k, prepared)})

Artifact(run) == Rec("artifact", run.id, 0, "adapter", {run})

Availability(artifact) == Rec("artifact_availability", artifact.id, 0, "available", {artifact})

\* launch() of RunService: the claim, the run, its artifact and its end.
Train(run) ==
    <<[do |-> "claim", run |-> run]>> \o Write(run) \o Tell("run_launched", run)
    \o Write(Artifact(run)) \o Write(Availability(Artifact(run)))
    \o Tell("run_completed", run) \o <<[do |-> "resolve", run |-> run]>>

Begun(k) == Of("run", k) # {}

\* _launch: freeze, reopen the completed run or launch one that was never begun
\* and that no launch died with.
LaunchCandidate(k, prepared, resolved) ==
    LET run == Run(k, prepared, resolved) IN
    PersistNew(Experiment(k, prepared)) \o
    (IF ~Begun(k) /\ claims[k] # "claimed" THEN Train(run)
     ELSE IF Of("run", k) = {run} /\ <<"run_completed", run>> \in events THEN <<>>
     ELSE Refuse)

LaunchCandidates ==
    LET resolved == IF memory.resolved = None THEN memory.prepared ELSE memory.resolved IN
    PreparedContext \o Remember("resolved", resolved)
    \o LaunchCandidate("ember", memory.prepared, resolved)
    \o LaunchCandidate("slate", memory.prepared, resolved)

-----------------------------------------------------------------------------
(* Comparison and reviews                                                  *)

\* _candidate_artifacts: by id, whatever became of the run.
CandidateArtifacts == \A k \in Candidate : Of("artifact", k) # {}

ArtifactOf(k) == CHOOSE r \in Of("artifact", k) : TRUE

\* _artifact_dependencies and the verification of the artifact.
Inspectable(k) == Of("artifact", k) # {} /\ Of("artifact_availability", k) # {}

Compare ==
    IF \A k \in Candidate : Inspectable(k) THEN Remember("compared", TRUE) ELSE Refuse

Review(id, no, stage, refs) == Rec("review", id, no, stage, refs)

RecordSoloReview ==
    IF ~memory.compared THEN Refuse
    ELSE PersistNew(Review("solo", NextLogicalId("review", "solo"), "recorded",
                           {ArtifactOf(k) : k \in Candidate}))

Preparation(no) ==
    Review("blind", no, "blind_prepared", {ArtifactOf(k) : k \in Candidate})

Sealed(no) == Review("blind", no, "blind_sealed", {Preparation(no)})

PrepareBlindReview ==
    LET no == NextLogicalId("review", "blind") IN
    IF ~memory.compared THEN Refuse
    ELSE PersistNew(Preparation(no)) \o Remember("packet", no) \o Remember("sealed", 0)

SealBlindReview ==
    IF memory.packet = 0 THEN Refuse
    ELSE PersistRevision(Sealed(memory.packet)) \o Remember("sealed", memory.packet)

RevealBlindReview ==
    IF memory.packet = 0 \/ memory.sealed = 0 THEN Refuse
    ELSE PersistRevision(Review("blind", memory.packet, "blind_revealed",
                                {Sealed(memory.sealed)}))

-----------------------------------------------------------------------------
(* Evaluation                                                              *)

Suite(kind, no, state, refs) == Rec("evaluation_suite", kind, no, state, refs)

\* _ensure_suite: the current revision, registered when there is none.
CurrentSuite(kind) ==
    LET revisions == Of("evaluation_suite", kind) IN
    IF revisions = {} THEN Suite(kind, 0, "unsealed", {})
    ELSE CHOOSE s \in revisions : \A r \in revisions : r.no <= s.no

EnsureSuite(kind) ==
    IF Of("evaluation_suite", kind) = {} THEN PersistNew(CurrentSuite(kind)) ELSE <<>>

Revised(suite, state, reviews) ==
    Suite(suite.id, suite.no + 1, state, {suite} \cup reviews)

Confirmation ==
    LET suite == CurrentSuite("confirmation") IN
    IF suite.body = "unsealed" THEN Revised(suite, "sealed", {}) ELSE suite

Policy == Rec("recommendation_policy", "fixture", 0, "policy", {})

Result(k) == Rec("evaluation_result", k, 0, "passed", {ArtifactOf(k), Confirmation})

Recommendation ==
    Rec("recommendation", "fixture", 0, "tied", {Policy} \cup {Result(k) : k \in Candidate})

EvaluateCandidates ==
    IF \E k \in Candidate : ~Inspectable(k) THEN Refuse
    ELSE EnsureSuite("development") \o EnsureSuite("confirmation")
         \o (IF CurrentSuite("confirmation").body = "unsealed"
             THEN PersistRevision(Confirmation) ELSE <<>>)
         \o PersistNew(Policy) \o PersistNew(Result("ember"))
         \o PersistNew(Result("slate")) \o PersistNew(Recommendation)

Captured(suite) == {r \in suite.refs : r.type = "review"}

Capturable == {r \in records : r.type = "review" /\ r.body # "blind_prepared"}

\* capture_review: a finished review becomes a case; the same one twice is
\* refused by the suite.
CaptureReview(review, kind) ==
    LET suite == CurrentSuite(kind) IN
    EnsureSuite(kind) \o
    (IF review \in Captured(suite) THEN Refuse
     ELSE PersistRevision(Revised(suite, "modified", Captured(suite) \cup {review})))

-----------------------------------------------------------------------------
(* Decisions and local use                                                 *)

RecordDecision(k, status) ==
    IF Of("recommendation", "fixture") = {} \/ ~CandidateArtifacts THEN Refuse
    ELSE PersistNew(Rec("user_decision", "fixture",
                        NextLogicalId("user_decision", "fixture"), status,
                        Of("recommendation", "fixture") \cup {ArtifactOf(k)}))

\* decision_history() of EvaluationService.
HistoryReadable == Of("user_decision", "fixture") = ToSet(decided)

Selects(d, k) == d.body \in {"selected", "pinned"} /\ ArtifactOf(k) \in d.refs

\* Mutant: any decision for the candidate authorizes its use.
AuthorizedOnce(k) ==
    CandidateArtifacts /\ HistoryReadable /\ \E d \in ToSet(decided) : Selects(d, k)

\* _authorized_artifact: the last decision event counts.
Authorized(k) ==
    /\ CandidateArtifacts /\ HistoryReadable /\ decided # <<>>
    /\ Selects(Last(decided), k)

Session(id, no, k) == Rec("local_use_session", id, no, "session", {ArtifactOf(k)})

\* focused_local_use, batch_local_use, when the session is saved.
LocalUse(k, id) ==
    IF ~Authorized(k) \/ ~Inspectable(k) THEN Refuse
    ELSE PersistNew(Session(id, NextLogicalId("local_use_session", id), k))

ExportSelected(k) ==
    IF ~Authorized(k) \/ ~Inspectable(k) THEN Refuse
    ELSE PersistNew(Rec("adapter_export", k, 0, "bundle", {ArtifactOf(k)}))

\* legacy_workflow: the first candidate from set-up to export, which asks for
\* no decision; a command of its own, so that nothing of it is remembered.
LegacyWorkflow ==
    LET run == Run("ember", Fixture, Fixture) IN
    StoreDataset(Fixture) \o LaunchCandidate("ember", Fixture, Fixture)
    \o PersistNew(Rec("local_use_session", "focused", 0, "session", {Artifact(run)}))
    \o PersistNew(Rec("adapter_export", "runtime", 0, "bundle", {Artifact(run)}))

-----------------------------------------------------------------------------
(* The workspace view                                                      *)

\* WorkspaceQueryService.view: which stages are complete, and whether the bytes
\* of the dataset are gone from memory before the runs were trained.
Workspace ==
    [setup |-> Of("project", "fixture") # {},
     data |-> Of("dataset_version", "fixture") # {},
     recipe |-> {r \in records : r.type = "experiment"} # {},
     run |-> Cardinality({r \in records : r.type = "artifact"}) >= 2,
     evaluate |-> {r \in records : r.type = "recommendation"} # {},
     use |-> decided # <<>> /\ Last(decided).body \in {"selected", "pinned"},
     reimport |-> /\ Of("dataset_version", "fixture") # {} /\ memory.prepared = None
                  /\ {r \in records : r.type = "artifact"} = {}]

\* _stage_view
Stages == <<"setup", "data", "recipe", "run", "evaluate", "use">>

-----------------------------------------------------------------------------

Handle(steps) ==
    /\ plan = <<>> /\ plan' = steps
    /\ UNCHANGED <<records, events, decided, claims, memory, faults>>

Counted ==
    {r \in records :
        \/ r.type \in {"review", "user_decision", "local_use_session", "adapter_export"}
        \/ r.body = "modified"}

MoreRecords == Cardinality(Counted) < MaxRecords

\* _dispatch: the routes of the UI server.
Dispatch ==
    \/ Handle(SetupProject) \/ \E c \in Source : Handle(ImportDataset(c))
    \/ Handle(ResolveCandidates) \/ Handle(LaunchCandidates) \/ Handle(Compare)
    \/ Handle(EvaluateCandidates)
    \/ /\ MoreRecords
       /\ \/ Handle(RecordSoloReview) \/ Handle(PrepareBlindReview)
          \/ Handle(SealBlindReview) \/ Handle(RevealBlindReview)
          \/ \E r \in Capturable, kind \in {"development", "regression"} :
                 Handle(CaptureReview(r, kind))
          \/ \E k \in Candidate, status \in Status : Handle(RecordDecision(k, status))
          \/ \E k \in Candidate, mode \in {"focused-", "batch-"} :
                 Handle(LocalUse(k, mode \o k))
          \/ \E k \in Candidate : Handle(ExportSelected(k))

RunLegacyWorkflow == Handle(LegacyWorkflow)

Next1(do) == plan # <<>> /\ Head(plan).do = do /\ plan' = Tail(plan)

WriteRecord ==
    /\ Next1("write") /\ records' = records \cup {Head(plan).record}
    /\ UNCHANGED <<events, decided, claims, memory, faults>>

AppendEvent ==
    LET r == Head(plan).record IN
    /\ Next1("append")
    /\ IF r.type = "user_decision"
       THEN /\ decided' = IF r \in ToSet(decided) THEN decided ELSE Append(decided, r)
            /\ UNCHANGED events
       ELSE events' = events \cup {<<Head(plan).kind, r>>} /\ UNCHANGED decided
    /\ UNCHANGED <<records, claims, memory, faults>>

\* The claim and the resolution of a launch are write-once files: a later
\* launch under a resolved claim finds both.
ClaimRun ==
    LET k == Head(plan).run.id IN
    /\ Next1("claim")
    /\ claims' = [claims EXCEPT ![k] = IF @ = "none" THEN "claimed" ELSE @]
    /\ UNCHANGED <<records, events, decided, memory, faults>>

ResolveRun ==
    /\ Next1("resolve") /\ claims' = [claims EXCEPT ![Head(plan).run.id] = "resolved"]
    /\ UNCHANGED <<records, events, decided, memory, faults>>

RememberState ==
    /\ Next1("remember") /\ memory' = [memory EXCEPT ![Head(plan).field] = Head(plan).value]
    /\ UNCHANGED <<records, events, decided, claims, faults>>

RefuseRequest ==
    /\ plan # <<>> /\ Head(plan).do = "refuse" /\ plan' = <<>>
    /\ UNCHANGED <<records, events, decided, claims, memory, faults>>

\* The run whose launch the request is in the middle of.
Launching ==
    {r \in records \cup {s.record : s \in {x \in ToSet(plan) : x.do = "write"}} :
        /\ r.type = "run" /\ [do |-> "resolve", run |-> r] \in ToSet(plan)
        /\ [do |-> "claim", run |-> r] \notin ToSet(plan)}

\* A call of the request raises before it changed anything: a launched run is
\* recorded as failed, and whatever was launched has ended, so that the claim
\* is resolved.
Fails ==
    LET failed == {r \in Launching : <<"run_launched", r>> \in events
                                     /\ <<"run_completed", r>> \notin events}
        released == IF Head(plan).do = "resolve" THEN {} ELSE {r.id : r \in Launching}
    IN  /\ plan # <<>> /\ faults < MaxFaults
        /\ plan' = <<>> /\ faults' = faults + 1
        /\ events' = events \cup {<<"run_failed", r>> : r \in failed}
        /\ claims' = [k \in Candidate |-> IF k \in released THEN "resolved" ELSE claims[k]]
        /\ UNCHANGED <<records, decided, memory>>

\* The process dies, at rest or in the middle of a request, and starts again; a
\* command that dies takes the server with it here.
Restart ==
    /\ faults < MaxFaults /\ faults' = faults + 1
    /\ plan' = <<>> /\ memory' = Fresh
    /\ UNCHANGED <<records, events, decided, claims>>

Next ==
    \/ Dispatch \/ RunLegacyWorkflow
    \/ WriteRecord \/ AppendEvent \/ ClaimRun \/ ResolveRun \/ RememberState
    \/ RefuseRequest \/ Fails \/ Restart

Spec == Init /\ [][Next]_vars

-----------------------------------------------------------------------------

\* Every launch completed, or ended before its run was recorded.
LaunchesWhole ==
    \A k \in Candidate :
        \/ claims[k] # "claimed" /\ ~Begun(k)
        \/ \E r \in Of("run", k) : <<"run_completed", r>> \in events

\* A stage that the view shows complete has the earlier ones complete, and where
\* it asks for the dataset again a launch is refused.
ShownTruly ==
    HistoryReadable =>
        /\ \A i \in 2 .. Len(Stages) : Workspace[Stages[i]] => Workspace[Stages[i - 1]]
        /\ Workspace.reimport => ~Runs(LaunchCandidates)

\* Whatever request failed or died half-way, and whatever memory a restart
\* lost, each stage can be asked for again and goes through: the import of the
\* dataset that is stored, the launch unless one died or failed, the evaluation of
\* artifacts that can be inspected, a review of what was compared, a decision on
\* what was recommended, a new capture, and the use of what the readable history
\* selects.  The ids a stage chooses never meet a record that an unfinished
\* request left (app_services/fixture_journey.py:1073).
StagesResume ==
    plan = <<>> =>
    /\ ShownTruly
    /\ \A d \in Of("dataset_version", "fixture") : Runs(ImportDataset(d.body))
    /\ memory.prepared # None /\ LaunchesWhole => Runs(LaunchCandidates)
    /\ (\A k \in Candidate : Inspectable(k)) => Runs(EvaluateCandidates)
    /\ memory.compared => Runs(RecordSoloReview) /\ Runs(PrepareBlindReview)
    /\ Of("recommendation", "fixture") # {} =>
           \A k \in Candidate, s \in Status : Runs(RecordDecision(k, s))
    /\ \A r \in Capturable \ Captured(CurrentSuite("development")) :
           Runs(CaptureReview(r, "development"))
    /\ HistoryReadable /\ decided # <<>> =>
           \A k \in Candidate : Selects(Last(decided), k) =>
               Runs(LocalUse(k, "focused-" \o k)) /\ Runs(ExportSelected(k))

\* A run trains the dataset its memory estimate was made for: candidates that
\* were resolved before another import or a restart are not stale
\* (app_services/fixture_journey.py:304).
EstimatesCurrent ==
    \A r \in records : r.type = "run" =>
        \E e \in r.refs : \E d \in e.refs : d.type = "dataset_version" /\ d.body = r.body

\* A session or export that the UI asked for is of the candidate that the last
\* decision event selects, though older events selected others and decisions
\* were interrupted (app_services/fixture_journey.py:991).
UseFollowsSelection ==
    [][\A r \in records' \ records :
          r.type \in {"local_use_session", "adapter_export"}
          /\ r.id \notin {"focused", "runtime"} =>
              decided # <<>> /\ \E k \in Candidate :
                  ArtifactOf(k) \in r.refs /\ Selects(Last(decided), k)]_records
=============================================================================
