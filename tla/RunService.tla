----------------------------- MODULE RunService -----------------------------
(***************************************************************************)
(* The lifecycle of runs (app_services/runs.py): what one attempt of each  *)
(* run id appends to its event stream and writes to files and records, in  *)
(* order, and what status(), recover() and reopen_completed() make of it.  *)
(* That a run id has one attempt is RunOwnership's theorem.                *)
(*                                                                         *)
(* Runs of several processes share the store: they may name the same       *)
(* artifact id, and one may recover another.  A call may fail, before or   *)
(* after its effect is durable; the process may die between any two.       *)
(* What an attempt still has to do is kept as a list of steps, so that the *)
(* order of _launch_owned is the order of the list; each kind of step is   *)
(* an action.                                                              *)
(***************************************************************************)
EXTENDS Naturals, Sequences, FiniteSets

CONSTANTS
    Run,            \* run ids asked for
    NoRun,          \* not a run: the first attempt recovers nothing
    ArtifactId,     \* artifact ids asked for
    Payload,        \* trained adapter bytes
    TrainingSteps,  \* resolution.training_steps
    Cadence,        \* resolution.checkpoint_cadence
    MaxFaults       \* bound: calls that fail

ASSUME NoRunAssumption == NoRun \notin Run
ASSUME StepsAssumption ==
    TrainingSteps \in Nat \ {0} /\ Cadence \in Nat \ {0} /\ MaxFaults \in Nat

VARIABLES
    stream,       \* each run's events, oldest first
    mode, todo,   \* each attempt: where it is and the steps it has left
    prior, start, \* the run and the checkpoint step it recovers from
    target,       \* its artifact id
    payload,      \* the adapter bytes its training produced
    checkpoints,  \* checkpoint files, by run and step
    members,      \* files in the artifact directories
    temps,        \* temporary names in them: artifact id, run, member
    manifests,    \* runs whose bundle manifest is in the store
    artifacts,    \* Artifact records: id and producing run
    available,    \* runs whose artifact has its availability record
    faults,       \* calls that failed
    ambiguous     \* runs told that a terminal event failed that is durable

attemptVars == <<mode, todo>>
requestVars == <<prior, start, target, payload>>
storeVars == <<checkpoints, members, temps, manifests, artifacts, available>>
vars == <<stream, attemptVars, requestVars, storeVars, faults, ambiguous>>

-----------------------------------------------------------------------------
(* Steps                                                                   *)

Step(do, what, at) == [do |-> do, what |-> what, at |-> at]
Append1(type) == <<Step("append", type, 0)>>
Do(what) == <<Step(what, "none", 0)>>

Preparation(p) ==
    Append1("run_preflight_succeeded") \o Append1("runtime_request_frozen")
    \o (IF p = NoRun THEN <<>> ELSE Append1("run_recovered"))
    \o Append1("run_launched")

\* The steps of training after `from` up to `to` that leave a checkpoint.
CheckpointSteps(from, to, last) ==
    {k \in from + 1 .. to : k % Cadence = 0 \/ (last /\ k = to)}

\* Mutant: the event is appended before its file is written.
SaveEventFirst(k) ==
    <<Step("append", "run_checkpoint", k), Step("checkpoint", "none", k)>>

\* A checkpoint's file is written before its event is appended.
Save(k) ==
    <<Step("checkpoint", "none", k), Step("append", "run_checkpoint", k)>>

Saves(S) ==
    LET f[k \in 0 .. TrainingSteps] ==
          IF k = 0 THEN <<>> ELSE f[k - 1] \o (IF k \in S THEN Save(k) ELSE <<>>)
    IN f[TrainingSteps]

\* _record_runtime_output: messages and receipts, progress, checkpoints, logs.
Output(S) ==
    Append1("run_worker_message") \o Append1("run_progress") \o Saves(S)
    \o Append1("run_log")

Name == {"adapter.bin", "adapter_config.json", "provenance.json"}

\* _ingest_artifact, in the phase "artifact_ingestion".
Ingestion ==
    Append1("artifact_ingestion_started")
    \o <<Step("member", "adapter.bin", 0), Step("member", "adapter_config.json", 0),
         Step("member", "provenance.json", 0)>>
    \o Do("verify_bundle") \o Do("manifest") \o Do("check_artifact")
    \o Do("artifact") \o Do("availability") \o Append1("artifact_ingestion_verified")

Ingesting(s) ==
    \/ s.do \in {"member", "stage", "link", "verify_bundle", "manifest", "check_artifact",
                 "artifact", "availability"}
    \/ s.what \in {"artifact_ingestion_started", "artifact_ingestion_verified"}

Ending(type) == Do("verify_store") \o Append1(type)

-----------------------------------------------------------------------------
(* What the streams tell                                                   *)

TerminalType == {"run_preflight_blocked", "run_cancelled", "run_interrupted",
                 "run_completed", "run_failed"}

Has(r, type) == \E i \in DOMAIN stream[r] : stream[r][i].type = type

Terminals(r) == {i \in DOMAIN stream[r] : stream[r][i].type \in TerminalType}

\* RunService.status.
Status(r) ==
    IF stream[r] = <<>> THEN "not_found"
    ELSE IF Cardinality(Terminals(r)) > 1 THEN "conflict"
    ELSE IF Terminals(r) # {}
         THEN IF Len(stream[r]) \in Terminals(r) THEN stream[r][Len(stream[r])].type
                                                 ELSE "after_terminal"
    ELSE IF Has(r, "run_launched") THEN "running" ELSE "incomplete"

CheckpointEvents(r) ==
    {stream[r][i].at : i \in {j \in DOMAIN stream[r] : stream[r][j].type = "run_checkpoint"}}

\* The exact bytes of a member of the bundle: the adapter and its
\* configuration depend on what was trained, the provenance names the run.
Bytes(r, name) == IF name = "provenance.json" THEN <<payload[r], r>> ELSE payload[r]

Member(r, name) == [artifact |-> target[r], name |-> name, bytes |-> Bytes(r, name)]

BundleWhole(r) ==
    {m \in members : m.artifact = target[r]} = {Member(r, name) : name \in Name}

\* verify_artifact_bundle: the directory holds this run's members and no other
\* file, temporary names included.
BundleVerified(r) == BundleWhole(r) /\ \A t \in temps : t[1] # target[r]

\* What reopen_completed asks of a run that status() calls completed, apart
\* from the directory.  (It takes first attempts only; the evidence of a
\* recovered run is as whole.)
Recorded(r) ==
    /\ Cardinality({i \in DOMAIN stream[r] : stream[r][i].type = "run_launched"}) = 1
    /\ Has(r, "artifact_ingestion_verified")
    /\ {x \in artifacts : x.id = target[r] \/ x.run = r} = {[id |-> target[r], run |-> r]}
    /\ r \in manifests /\ r \in available
    /\ \A k \in CheckpointEvents(r) : <<r, k>> \in checkpoints

Reopens(r) == Recorded(r) /\ BundleVerified(r)

-----------------------------------------------------------------------------

\* target and payload never change: what each run is asked for and would train.
Init ==
    /\ stream = [r \in Run |-> <<>>]
    /\ mode = [r \in Run |-> "idle"] /\ todo = [r \in Run |-> <<>>]
    /\ prior = [r \in Run |-> NoRun] /\ start = [r \in Run |-> 0]
    /\ target \in [Run -> ArtifactId] /\ payload \in [Run -> Payload]
    /\ checkpoints = {} /\ members = {} /\ temps = {} /\ manifests = {}
    /\ artifacts = {} /\ available = {}
    /\ faults = 0 /\ ambiguous = {}

Continue(r, m, steps) ==
    /\ mode' = [mode EXCEPT ![r] = m]
    /\ todo' = [todo EXCEPT ![r] = steps]

At(r, do) == todo[r] # <<>> /\ Head(todo[r]).do = do

Done(r) == Continue(r, mode[r], Tail(todo[r]))

\* Mutant: an error of the append before that of run_failed is not caught.
RaisesUncaught(r) ==
    CASE mode[r] = "launching" ->
            Continue(r, IF Head(todo[r]).what = "run_launched" THEN "lost" ELSE "over", <<>>)
      [] mode[r] = "running" /\ Ingesting(Head(todo[r])) ->
            Continue(r, "failing", Append1("artifact_ingestion_failed") \o Append1("run_failed"))
      [] mode[r] = "running" /\ ~Ingesting(Head(todo[r])) ->
            Continue(r, "failing", Append1("run_failed"))
      [] mode[r] = "failing" /\ Len(todo[r]) > 1 -> Continue(r, "over", <<>>)
      [] mode[r] = "failing" /\ Len(todo[r]) = 1 -> Continue(r, "lost", <<>>)

\* A step raises.  Before the launch the attempt is over; after it,
\* _terminalize_post_launch_failure appends run_failed, after
\* artifact_ingestion_failed or the messages of a failed worker.  Of the
\* former it passes over the errors of the store, of the latter any error.
\* The attempt is lost, nothing being caught any more, with the append of
\* run_launched or run_failed, or another error of the former.
Raises(r) ==
    CASE mode[r] = "launching" ->
            Continue(r, IF Head(todo[r]).what = "run_launched" THEN "lost" ELSE "over", <<>>)
      [] mode[r] = "running" /\ Ingesting(Head(todo[r])) ->
            Continue(r, "failing", Append1("artifact_ingestion_failed") \o Append1("run_failed"))
      [] mode[r] = "running" /\ ~Ingesting(Head(todo[r])) ->
            Continue(r, "failing", Append1("run_failed"))
      [] mode[r] = "failing" /\ Len(todo[r]) > 1 ->
            \/ Done(r)
            \/ /\ Head(todo[r]).what = "artifact_ingestion_failed"
               /\ Continue(r, "lost", <<>>)
      [] mode[r] = "failing" /\ Len(todo[r]) = 1 -> Continue(r, "lost", <<>>)

Fault == faults < MaxFaults /\ faults' = faults + 1

\* A durable call returns, or fails after its effect.
Returns(r) == \/ Done(r) /\ UNCHANGED faults
              \/ Fault /\ Raises(r)

-----------------------------------------------------------------------------
(* Launch and recovery                                                     *)

\* Mutant: a run whose process died is launched again.
LaunchAgain(r) ==
    /\ mode[r] \in {"idle", "dead"}
    /\ Continue(r, "preparing", <<>>)
    /\ UNCHANGED <<stream, requestVars, storeVars, faults, ambiguous>>

\* _launch of an unused run id.
Launch(r) ==
    /\ mode[r] = "idle"
    /\ Continue(r, "preparing", <<>>)
    /\ UNCHANGED <<stream, requestVars, storeVars, faults, ambiguous>>

\* Mutant: any run with a checkpoint will do.
RecoverAny(r) ==
    /\ mode[r] = "idle"
    /\ \E p \in Run \ {r}, k \in 1 .. TrainingSteps - 1 :
         /\ k \in CheckpointEvents(p) /\ <<p, k>> \in checkpoints
         /\ prior' = [prior EXCEPT ![r] = p]
         /\ start' = [start EXCEPT ![r] = k]
    /\ Continue(r, "preparing", <<>>)
    /\ UNCHANGED <<stream, target, payload, storeVars, faults, ambiguous>>

\* recover: the other run's status is read, then its checkpoint event, which
\* must be resumable, and its file; the launch follows without a lock on it.
Recover(r) ==
    /\ mode[r] = "idle"
    /\ \E p \in Run \ {r}, k \in 1 .. TrainingSteps - 1 :
         /\ Status(p) = "run_interrupted"
         /\ k \in CheckpointEvents(p) /\ <<p, k>> \in checkpoints
         /\ prior' = [prior EXCEPT ![r] = p]
         /\ start' = [start EXCEPT ![r] = k]
    /\ Continue(r, "preparing", <<>>)
    /\ UNCHANGED <<stream, target, payload, storeVars, faults, ambiguous>>

\* Preflight refuses, or the launch records are written.
Preflight(r) ==
    /\ mode[r] = "preparing"
    /\ \/ Continue(r, "launching", Append1("run_preflight_blocked")) /\ UNCHANGED faults
       \/ Continue(r, "launching", Preparation(prior[r])) /\ UNCHANGED faults
       \/ Continue(r, "over", <<>>) /\ Fault
    /\ UNCHANGED <<stream, requestVars, storeVars, ambiguous>>

\* The adapter ran from start[r] and was cancelled, interrupted or completed
\* after step k, or raised; a failing library adapter hands over its messages.
Execute(r) ==
    /\ mode[r] = "launching" /\ todo[r] = <<>> /\ Has(r, "run_launched")
    /\ \/ \E k \in start[r] + 1 .. TrainingSteps :
            Continue(r, "running", Output(CheckpointSteps(start[r], k, FALSE))
                \o Append1("run_cancellation_requested") \o Ending("run_cancelled"))
       \/ \E k \in start[r] .. TrainingSteps - 1, saved \in BOOLEAN :
            Continue(r, "running", Output(CheckpointSteps(start[r], k, saved))
                \o Ending("run_interrupted"))
       \/ Continue(r, "running", Output(CheckpointSteps(start[r], TrainingSteps, FALSE))
                \o Ingestion \o Ending("run_completed"))
       \/ Continue(r, "failing", Append1("run_failed"))
       \/ Continue(r, "failing", Append1("run_worker_message") \o Append1("run_failed"))
    /\ UNCHANGED <<stream, requestVars, storeVars, faults, ambiguous>>

-----------------------------------------------------------------------------
(* The steps of an attempt                                                 *)

\* _append: the event is durable and the call returns, also after an error
\* that reading the stream again resolves;
AppendEvent(r) ==
    /\ At(r, "append")
    /\ stream' = [stream EXCEPT ![r] =
            Append(@, [type |-> Head(todo[r]).what, at |-> Head(todo[r]).at])]
    /\ Done(r)
    /\ UNCHANGED <<requestVars, storeVars, faults, ambiguous>>

\* or it raises, and when the second reading fails too, the event may be
\* durable all the same.
AppendFails(r) ==
    /\ At(r, "append") /\ Fault /\ Raises(r)
    /\ \/ UNCHANGED <<stream, ambiguous>>
       \/ /\ stream' = [stream EXCEPT ![r] =
                Append(@, [type |-> Head(todo[r]).what, at |-> Head(todo[r]).at])]
          /\ ambiguous' = IF Head(todo[r]).what \in TerminalType
                          THEN ambiguous \cup {r} ELSE ambiguous
    /\ UNCHANGED <<requestVars, storeVars>>

WriteCheckpoint(r) ==
    /\ At(r, "checkpoint")
    /\ checkpoints' = checkpoints \cup {<<r, Head(todo[r]).at>>}
    /\ Returns(r)
    /\ UNCHANGED <<stream, requestVars, members, temps, manifests, artifacts, available, ambiguous>>

SameName(r) ==
    {m \in members : m.artifact = target[r] /\ m.name = Head(todo[r]).what}

\* The next call of the same step.
Then(r, do) ==
    Continue(r, mode[r], <<[Head(todo[r]) EXCEPT !.do = do]>> \o Tail(todo[r]))

\* FileExistsError: the member is there with the same bytes, or the step raises.
Compare(r) ==
    IF SameName(r) = {Member(r, Head(todo[r]).what)} THEN Done(r) ELSE Raises(r)

Temp(r) == <<target[r], r, Head(todo[r]).what>>

\* _write_idempotent looks whether the name is taken,
FindMember(r) ==
    /\ At(r, "member")
    /\ IF SameName(r) = {} THEN Then(r, "stage") ELSE Compare(r)
    /\ UNCHANGED <<stream, requestVars, storeVars, faults, ambiguous>>

\* writes a temporary file beside it,
StageMember(r) ==
    /\ At(r, "stage")
    /\ temps' = temps \cup {Temp(r)}
    /\ Then(r, "link")
    /\ UNCHANGED <<stream, requestVars, checkpoints, members, manifests, artifacts,
                   available, faults, ambiguous>>

\* Mutant: an existing member is replaced.
ReplaceMember(r) ==
    /\ At(r, "link")
    /\ members' = (members \ SameName(r)) \cup {Member(r, Head(todo[r]).what)}
    /\ temps' = temps \ {Temp(r)} /\ Returns(r)
    /\ UNCHANGED <<stream, requestVars, checkpoints, manifests, artifacts, available, ambiguous>>

\* and links it, unless the name has been taken meanwhile.  The temporary
\* name is removed in any case; if that fails, silently, it stays.
LinkMember(r) ==
    /\ At(r, "link")
    /\ IF SameName(r) = {}
         THEN members' = members \cup {Member(r, Head(todo[r]).what)}
         ELSE UNCHANGED members
    /\ \/ /\ temps' = temps \ {Temp(r)}
          /\ IF SameName(r) = {} THEN Returns(r) ELSE Compare(r) /\ UNCHANGED faults
       \/ /\ UNCHANGED temps /\ Fault
          /\ IF SameName(r) = {} THEN Done(r) ELSE Compare(r)
    /\ UNCHANGED <<stream, requestVars, checkpoints, manifests, artifacts, available, ambiguous>>

VerifyBundle(r) ==
    /\ At(r, "verify_bundle")
    /\ IF BundleVerified(r) THEN Done(r) ELSE Raises(r)
    /\ UNCHANGED <<stream, requestVars, storeVars, faults, ambiguous>>

WriteManifest(r) ==
    /\ At(r, "manifest")
    /\ manifests' = manifests \cup {r}
    /\ Returns(r)
    /\ UNCHANGED <<stream, requestVars, checkpoints, members, temps, artifacts, available, ambiguous>>

\* require_no_conflicting_logical_revision, before the write and apart from it.
CheckArtifact(r) ==
    /\ At(r, "check_artifact")
    /\ IF \E x \in artifacts : x.id = target[r] /\ x.run # r THEN Raises(r) ELSE Done(r)
    /\ UNCHANGED <<stream, requestVars, storeVars, faults, ambiguous>>

WriteArtifact(r) ==
    /\ At(r, "artifact")
    /\ artifacts' = artifacts \cup {[id |-> target[r], run |-> r]}
    /\ Returns(r)
    /\ UNCHANGED <<stream, requestVars, checkpoints, members, temps, manifests, available, ambiguous>>

WriteAvailability(r) ==
    /\ At(r, "availability")
    /\ available' = available \cup {r}
    /\ Returns(r)
    /\ UNCHANGED <<stream, requestVars, checkpoints, members, temps, manifests, artifacts, ambiguous>>

VerifyStore(r) ==
    /\ At(r, "verify_store") /\ Done(r)
    /\ UNCHANGED <<stream, requestVars, storeVars, faults, ambiguous>>

\* Any other step raises before it had an effect; a temporary file is removed.
StepFails(r) ==
    /\ todo[r] # <<>> /\ Head(todo[r]).do # "append"
    /\ Fault /\ Raises(r)
    /\ temps' = temps \ {Temp(r)}
    /\ UNCHANGED <<stream, requestVars, checkpoints, members, manifests, artifacts,
                   available, ambiguous>>

\* The process dies; its temporary file stays, linked already or not.
Crash(r) ==
    /\ mode[r] \in {"preparing", "launching", "running", "failing"}
    /\ Continue(r, "dead", <<>>)
    /\ \/ UNCHANGED members
       \/ /\ At(r, "link") /\ SameName(r) = {}
          /\ members' = members \cup {Member(r, Head(todo[r]).what)}
    /\ UNCHANGED <<stream, requestVars, checkpoints, temps, manifests, artifacts,
                   available, faults, ambiguous>>

Attempt(r) ==
    \/ Preflight(r) \/ Execute(r) \/ AppendEvent(r) \/ AppendFails(r)
    \/ WriteCheckpoint(r) \/ FindMember(r) \/ StageMember(r) \/ LinkMember(r)
    \/ VerifyBundle(r) \/ WriteManifest(r) \/ CheckArtifact(r) \/ WriteArtifact(r)
    \/ WriteAvailability(r) \/ VerifyStore(r) \/ StepFails(r)

Next == \E r \in Run : Launch(r) \/ Recover(r) \/ Attempt(r) \/ Crash(r)

\* An attempt goes on until it is over or its process dies.
Fairness == \A r \in Run : WF_vars(Attempt(r))

Spec == Init /\ [][Next]_vars /\ Fairness

-----------------------------------------------------------------------------
(* Properties                                                              *)

EventType == TerminalType \cup {"run_preflight_succeeded", "runtime_request_frozen",
    "run_recovered", "run_launched", "run_worker_message", "run_progress",
    "run_checkpoint", "run_log", "run_cancellation_requested",
    "artifact_ingestion_started", "artifact_ingestion_verified",
    "artifact_ingestion_failed"}

Event == [type : EventType, at : 0 .. TrainingSteps]

\* A run that status() calls completed has whole evidence, for ever, whatever
\* other runs of the same artifact id do; all that can keep it from being
\* reopened is a temporary file another one has in, or left in, its directory.
CompletedReopens ==
    \A r \in Run : Status(r) = "run_completed" =>
        \/ Reopens(r)
        \/ /\ Recorded(r) /\ BundleWhole(r)
           /\ \E t \in temps : t[1] = target[r] /\ t[2] # r

\* A checkpoint event is never ahead of its file, at whatever point the
\* process dies: recover() and reopen_completed() find what it promises.
CheckpointsBacked ==
    \A r \in Run : \A k \in CheckpointEvents(r) : <<r, k>> \in checkpoints

\* A run that recorded its recovery resumes a run that ended interrupted, at
\* a recorded step before the last; the source's answer changes only if its
\* writer was misled about its end.
RecoversInterrupted ==
    \A r \in Run : Has(r, "run_recovered") =>
        /\ Has(prior[r], "run_interrupted")
        /\ start[r] \in CheckpointEvents(prior[r])
        /\ Status(prior[r]) = "run_interrupted" \/ prior[r] \in ambiguous

\* A launched run gets its terminal event, whatever call of it fails and if
\* the first call of its failure handling fails too, unless its process dies
\* or the attempt is lost: run_launched or run_failed itself could not be
\* confirmed, or recording the failed ingestion met an error not the store's.
LaunchedEnds ==
    \A r \in Run :
        Has(r, "run_launched") ~> Terminals(r) # {} \/ mode[r] \in {"dead", "lost"}

\* What status(), the recoveries on record and the Artifact records tell is a
\* run of RunLifecycle.
Lineage == [r \in Run |-> IF Has(r, "run_launched") THEN prior[r] ELSE NoRun]
Lifecycle == INSTANCE RunLifecycle WITH
    status <- [r \in Run |-> Status(r)],
    lineage <- Lineage,
    admitted <- {<<x.id, x.run>> : x \in artifacts}
ImplementsLifecycle == Lifecycle!Spec
=============================================================================
