# Temper-ML: a TLA+ development

Temper-ML is a local-first fine-tuning workbench: a user imports a dataset,
freezes an experiment, launches a training run on a local accelerator, evaluates
what came out and exports what was selected.  All of its evidence is files:
immutable typed records addressed by their hash, and append-only event streams.
There is no database and no daemon; several processes (the UI server, the
command line, a training worker, a restarted copy of any of them) share one
directory.  What can go wrong is therefore mostly in the order of file-system
calls, and in what a later call makes of what an interrupted one left.

Paths below are relative to `src/src/temper_ml/` unless they start with `src/`.

## 1. Inventory

| Component | Code | State | Operations | Talks to |
|---|---|---|---|---|
| Event stream | `store/event_stream.py` | numbered, hash-linked event files in one directory; `.append.lock` | `append` (idempotent by key), `read_verified` | write-once files; used by every service |
| Write-once files | `store/safe_io.py`, `store/write_once.py`, `filesystem.py` | files and temporary names | `write_once_bytes`: temporary file, sync, `os.link`, directory sync, unlink | kernel |
| Evidence store | `store/evidence.py`, `verifier.py`, `layout.py`, `app_services/_records.py` | records and streams of a project | `write_record`, `read_record`, `append_event`, `iter_records`, `iter_streams` | event stream, redaction |
| Canonical JSON, redaction | `store/canonical_json.py`, `store/redaction.py` | none | canonical text; refusal of secrets and host paths | evidence store |
| Run ownership | `runtime/ownership.py` | `claim.json`, `lease.lock`, `resolved.json` of a run id | `claim_run_ownership`, `RunOwnershipLease.resolve` | run service |
| Run service | `app_services/runs.py` | the run's event stream, Run and artifact records, checkpoint files | `launch`, `recover`, `status`, `inspect` | ownership, adapters, evidence store |
| Run controller | `runtime/controller.py` | lifecycle state and message ledger of one invocation | `accept`, `reconstruct` | adapters, worker ledger |
| Resource coordinator | `runtime/controller.py` | leases by owner | `acquire`, `release` | library adapter |
| Runtime protocol | `runtime/protocol.py` | none | messages and their validation | controller, worker |
| Worker launcher | `runtime/worker_port.py` | invocation directory: request, message files, response, logs; the child process | `launch`, `WorkerEventSink.emit` | worker process |
| Worker process | `runtime/worker_process.py` | the same directory | `main`: probe, train, infer | launcher (by files), backend |
| Training backend | `runtime/library_backend.py`, `wsl_backend.py` | model and optimizer state | `train` with callbacks | worker process, adapter |
| Library adapter | `runtime/library_adapter.py`, `library_double.py` | the controller, lease and messages of one execution; the runs that are active | `execute` | backend, coordinator, run service |
| Fixture adapter | `runtime/fixture_adapter.py`, `fixture_inference.py` | none | deterministic stand-in for the library adapter | run service |
| Launch preparation | `runtime/staging.py`, `preflight.py`, `recipe_resolution.py`, `paths.py` | staged files | stage and verify inputs, preflight verdict | run service |
| Artifact integrity | `runtime/artifact_integrity.py` | none | a bundle directory against its record | run service, local use |
| Datasets | `app_services/datasets.py`, `domain/datasets.py` | dataset version records; previews in memory | import JSON, JSONL, CSV or rows; compare a reimport; correction report | evidence store |
| Projects | `app_services/projects.py`, `domain/projects.py` | project and policy records | create, open | evidence store |
| Experiments | `app_services/experiments.py`, `domain/experiments.py` | experiments, derivations | freeze, clone, plan a replay | evidence store |
| Evaluations | `app_services/evaluations.py`, `domain/evaluations.py` | suite and review lineages, results, policies, recommendations, decisions | register, seal, inspect, modify, retire a suite; solo and blind reviews; record, recommend, decide | evidence store |
| Local use | `app_services/local_use.py`, `domain/local_use.py` | sessions, exports and the export directories | run inference, export an adapter, verify an export | evidence store, artifact files |
| Fixture journey | `app_services/fixture_journey.py` | in memory: prepared dataset, resolved candidates, comparison, blind packet | the requests from set-up to export; the workspace view | all services |
| UI server, command line | `ui/server.py`, `cli.py`, `ui/app.js` | none of their own | request handlers and commands | fixture journey |
| Domain records | `domain/*.py` | none | validation, compatibility verdicts, lineage | all |
| Development workflow | `src/scripts/temper-workflow.py`, `temper-gate.py` | one JSON state file | phases, leases, workers, verifications, reviews | — |

How they interact.  A service holds no lock across a whole operation; it reads
the store, decides, and writes.  Three mechanisms make that safe: the per-stream
lock with idempotency keys (event stream), the write-once files, and, for
launches, the ownership lease.  Where none of them applies, a service reads
again after it wrote and refuses.  A training worker is a child process that
reports only through numbered message files; the launcher polls them and
rebuilds the controller state from them.  The UI server and the fixture command
call the services through the fixture journey, which also keeps state in memory.

What is hard.  Crashes between any two file-system calls; a failing sync after
a commit that has already happened; readers without locks; check-then-act
over files; a worker that outlives the host that spawned it; timeouts racing
a completion; cancellation racing completion; bytes that change between their
verification and their use; ids that are counted from what an interrupted
request left.  `PROJECT.json` lists each of these at its line under `hazards`,
with the properties that cover it.

What correctness means:

* *Event stream*: whatever crashes, the files form one hash-linked chain, an
  acknowledged append is never lost, a key is used once, and a reader sees at
  least what had been acknowledged when it began.
* *Ownership and launch*: a run id is launched at most once, all its events
  are of one attempt, and an unexplained claim blocks the id for good.
* *Controller*: its state is a function of its ledger; it ends once, and only
  with the evidence the end needs; a pending cancellation is not forgotten.
* *Worker port*: a run is believed complete only if some worker finished all
  steps and its response says so; handlers see each message once, in order;
  `launch()` always returns.
* *Library adapter*: no two executions train on one exclusive resource; an
  execution stops where it was asked to, or does not claim to; its outcome is in its ledger.
* *Evidence store*: a record's references resolve, an event names a whole record.
* *Datasets*: what is prepared passes the record's own validation, and equal
  governed configurations give a text the same split.  *Evaluations*: what is acknowledged
  is one lineage; confirmation evidence comes from unseen cases; nobody is
  recommended whom another beats.  *Local use*: the adapter that is used and the
  files that are exported are the verified ones.
* *Journey*: every stage can be asked for again after a failure; a run trains
  what it was estimated for; only what is selected is used.
* *Development workflow*: only what was reviewed, gated and audited, in this
  order, reaches integration; two writers never share a path.

## 2. Modules

```
EventLog            what a stream promises (abstract)
  ^ refined by
EventStream         append/read over files and a lock     MCEventStream (symmetry), EventStreamProofs

RunLifecycle        what status() tells of a run (abstract)
  ^ refined by
RunService          launch, recover, the steps of an attempt, reopening     RunServiceProofs
RunOwnership        claim, lease, launch, resolution     RunOwnershipProofs

ControllerRules     accept() as pure operators
  ^ used by
RuntimeController   one controller offered everything     ControllerProofs
WorkerPort          launcher and workers over message files     WorkerPortProofs
LibraryAdapter      executions over a resource coordinator   MCLibraryAdapter, ControllerProofs

EvidenceStore       the steps of any call over the store
  ^ extended by
Datasets, Experiments, LocalUse -> Workbench                 MCWorkbench, EvidenceStoreProofs
Recommendations -> Evaluations                               MCEvaluations, EvidenceStoreProofs

FixtureJourney      the requests of the UI and the fixture command     FixtureJourneyProofs
Workflow            the coordinator of development tasks     MCWorkflow, WorkflowProofs
```

### EventStream, EventLog

State: `files` (the directory: temporary and final names with their events),
`lock`, and per process a program counter, the request, the snapshot of the
listing and the answer.  One action per file-system call that another process
can observe: taking the lock, the listing, the verification (the stat of each
listed entry and its content), writing the temporary file, the link, the
removal of the temporary name, the unlock.  `CommitFails` is every way out of
`write_once_bytes` with an exception, before and after the link.  A crash drops
the lock and leaves the files, temporary ones included.

`EventLog` is the promise: one log; an append adds one event after the last or
returns the event its key already names.  The property `ImplementsLog` is the
refinement, with the log read off the committed files.

Abstractions.  SHA-256 is taken as injective: an event's identity is the event.
The directory listing is one step; a listing made of several system calls could
in addition miss or refuse names for an unlocked reader only.  `EventStreamCorrupt`
raised for an I/O error of the commit is told apart from a refused chain.

### RunOwnership

State: the three files of a run's ownership directory, the holder of the
kernel lock, the run's events as roles (preflight, launched, output, terminal)
stamped with the attempt that wrote them, the Run records.  Each attempt walks
from `WriteClaim` to `ReleaseLease`; a restart is the next attempt.  A failed or
ambiguous append (`_append` and its reconciliation) is a choice in the action
that appends.  Several preflight events are one step; output events are
counted up to a bound.  `recover` takes the same path with a new run id.

### RunService, RunLifecycle

`RunOwnership` shows that a run id has one attempt; `RunService` starts there and
models what the attempt does.  Its control is a list of steps, `todo`, filled
by `Preflight` (preflight and launch events) and by `Execute` (what the adapter
returned: cancelled, interrupted or completed after some step, or raised), in
the order of `_launch_owned`, `_record_runtime_output` and `_ingest_artifact`;
one action per kind of step consumes it.  `Raises` is the error path by phase: before
the launch the attempt returns, after it `_terminalize_post_launch_failure`
appends the failure events.  Of `artifact_ingestion_failed` it passes over the
errors of the store (`app_services/runs.py:1700`) and of a failed worker's messages over
any; whatever else is raised there, by the append of `run_failed` or by that of
`run_launched` is caught by nobody: the attempt is then `lost`, which is told apart from one that
went through (`over`).  Any call may fail before or after its effect is
durable (`faults` bounds how often), an append may be durable though its caller
is told it failed (`ambiguous`), and the process may die between any two steps.
State besides: the event stream of each run, checkpoint files, the members and
the temporary names in the artifact directories, which runs of the same
artifact id share, and the manifest, Artifact and availability records.

`RunLifecycle` is what a caller sees: `status`, which run a launched run resumes,
and which artifact was admitted for which run.  `ImplementsLifecycle` reads these
off the streams and records.

What the model makes plain and a reader may not expect:

* a run whose process died, or whose attempt was lost as above, stays *running* for ever: `recover` takes only
  interrupted runs, and the claim blocks a second launch;
* if `run_completed` is durable but its append cannot be confirmed, `run_failed`
  follows it and `status` refuses the run;
* an Artifact record may belong to a run that then failed;
* the bundle is verified against every name in its directory, so a temporary
  file left by a process that died while ingesting the same artifact id keeps a
  completed run from being reopened, although its evidence is whole
  (`CompletedReopens` says that nothing else can).

Abstractions.  Messages and receipts, progress and logs are one event each;
payloads are reduced to the step of a checkpoint.  Validation of the launch
graph and the details of preflight are a choice.  An artifact's bytes depend on what
was trained and, for the provenance, on the run.  The checkpoint a recovery names is read with
the status in one step (the source run has ended; it changes only by an append its writer was misled about).

### ControllerRules, RuntimeController

`ControllerRules` gives `SerializedRunController.accept` as operators: which
kinds a state admits (`Sources`, `Admits`), what the successor is
(`Successor`), when a message is a replay, accepted or refused.  `RuntimeController`
offers a controller every message of a small universe in every order.  Payloads
are reduced to the fields the transitions read: step and bundle.

### WorkerPort

State: the invocation directory (message files by number, the response), each
worker's place in the training loop with its sequence counter, each host's
place in `launch()` with what it has delivered and what it returned.  A host
may die anywhere and launch again; its worker lives on.  Two workers of one
invocation write the same names: `write_idempotent` accepts equal content
and refuses different content; the contents of messages that hold measurements may differ between two
workers (`MayConflict`).  The ledger is judged with `ControllerRules`.
Gradient accumulation, probe and inference invocations, the worker's log files
and faults of the host's own file accesses are left out.

### LibraryAdapter

State: what each thread is executing (its place in `execute()`, the control it
was given, the step reached, the controller, the number last taken), the runs
that are active, the coordinator's leases.  One action per callback of the backend
(`Check`, `OnProgress`, `OnHeartbeat`, `OnCheckpoint`, `Recheck`) and one per
conclusion.  There are two backends.  A run in the process has the loop of the deterministic
double, which looks at the control after every step; one that reports a step again
is added (`OnProgressAgain`).  A run in `Remote` is trained by a worker over the WSL
backend: the worker goes through its loop on its own and is any number of steps
ahead (`worker`, `WorkerSteps`); the host delivers what it has reported a batch at a
time and looks at the control between two batches (`Poll`), so that it may see no
step, some or all of them; the marker it writes stops the worker in whichever
iteration finds it; and once the worker has left, `WorkerEnded` delivers the rest and takes the
status of its response.  A run id is launched once (`RunOwnership`), so its worker finds
no marker of an earlier one.  Either backend may raise, the worker's connection may be lost.
`emit()` takes a number before the controller has accepted the message,
as in the code, so that a refused message leaves a gap.  A run belongs to one
adapter (that is what `RunOwnership` shows), so one set stands for the active
runs of all adapters.  Staged payloads, losses, logs and the inference session
are left out.

### EvidenceStore

What every service call does to the store after its own checks: check that no
other revision of a logical id is there (`CheckRevisions`), write its records
one file at a time (`WriteRecordThenAppend`, `WriteRecord`), append one event by
its key, read the whole store again (`StartVerify`, `Acknowledge`,
`ScanRefused`).  Nothing is locked between these steps, other calls run between
them, and a call may die after any of them (`Crash`).  A record is its own
identity with its references; `Closed` is the closure the code demands when it
opens a store.  The scan reads the record directories one after the other, as
`iter_records` does, so it may see a record without those it refers to and then
refuses (`Scanned`, `ScanRefused`); a scan during a foreign write may be
refused as well.  `acknowledged` remembers what a caller was told is done.
The envelope's syntax, redaction, the inventory's format and bundle manifests
are left out; single appends are whole because of `EventStream`.

### Datasets, Experiments, LocalUse, Workbench

`Datasets` is the import as pure operators: exclusions in the code's order,
duplicates, the choice of a split by hash and weight, the statistics, and the
validation the record makes of itself; `CompareReimport` is the comparison of two
versions.  `Experiments` has `create` of a project, `freeze` and `clone`, each
with the checks of its dependencies; a manifest is a function of its fields, and
a clone records exactly the fields that differ.  `LocalUse` reads an artifact's
files to verify them and reads them *again* to infer with or copy them; files
may change at any time (`Tamper`).  A session is made of the adapter, which is compared a second
time, and of the configuration, which is read a second time and not compared (`Infer`).  An export writes its members first, one file
at a time, then its record.  `Workbench` lets several processes make these calls
over one store.  A project may be created with a baseline that is fixed to a
record nobody stored, as `create` allows.  Left out: parsing of JSON, JSONL and CSV text, the correction
report, replay planning (which writes nothing), the inference itself.

### Recommendations, Evaluations

`Recommendations` has what a result must look like, who qualifies under a policy
(`Qualified`), and the recommendation (`Recommended`: Pareto selection with
values grouped within a tolerance).  `Evaluations` is the service: suites and
reviews are lineages of immutable revisions; a revision is written after its
lineage was read and the lineage is read again after the write
(`PersistRevision`, `Settle`, `SettleUnread`).  A packet is what its identity
hashes: the outputs by alias and the commitment to nonce and mapping; judgments
say which aliases they rate.  The lineage reads of one call are one step: a
lineage that is broken stays so.  Texts, ratings and settings are left out.

### FixtureJourney

The server handles one request at a time, so what a request will do follows
from the store and the memory it finds: `plan` is the list of its steps (write a
record, append an event, claim and resolve a run, remember something, refuse),
each of which is an action; a request that fails (`Fails`) or whose process dies
(`Restart`) leaves a prefix of them.  Each handler is one operator that makes a
plan (`ImportDataset`, `LaunchCandidates`, `EvaluateCandidates`,
`RecordDecision`, ...), `Dispatch` is the choice of a route.  The services appear as
the records and events they add and by their refusals, no longer step by step:
their own modules look inside.  `Workspace` and `Stages` are the view the UI
shows.  One server is assumed and the `fixture-workflow` command runs between
requests; a command that dies takes the server with it in the model.  The
fixture's constant records, texts, ratings and the rest of the view are left out.

### Workflow

One record, `state`, as `temper-workflow.py` keeps it in its file: phase, leases,
exceptions, workers, handoffs, verification results, reviews.  An action is one
successful command: load, check (`Valid`, the code's `validate_state`), change,
refresh, check, replace.  A command that fails leaves the file alone.  A task is registered with
any of the path sets it may own (`Owned`, the files a path stands for), so two
tasks may overlap.  A
verification that is PASS stands for one `verification_reuse` accepts; a waiting
or blocked worker counts as active.  Event numbers that nothing compares (targeted
results, exceptions, an opened review) are not counted.  Checkpoints, heartbeats,
routes and route trials, and commands that overlap, are left out.

## 3. Runs

| Run | Bounds | Shows |
|---|---|---|
| `EventStream` | 2 processes, 2 keys, 2 bodies, 2 operations and 1 crash each | durability, fresh reads, refinement of `EventLog`; the lock is given back |
| `EventStreamRefusedReader` | the same, with symmetry | *finding*: an intact chain is refused |
| `RunOwnership` | 2 services, 2 claims, 3 attempts each | one launch, an abandoned claim stays blocked, a launched run nobody works on is final; the lease is given back |
| `RunService` | 2 runs of one artifact id, 2 steps, 1 failing call | completed runs stay whole, refinement of `RunLifecycle`, launched runs end unless their process dies or the failure itself cannot be told |
| `RuntimeController` | 5 sequence numbers, 2 steps, 2 bundles | rebuilt from its ledger, ends justified, cancellation kept |
| `WorkerPort` | 1 host with 2 launches, 1 worker, 2 steps, 1 failed write | only proved evidence is believed, and it stays |
| `WorkerPortTwoWorkers` | 2 workers, 1 step | no completion is invented with an orphan writing along; `launch()` returns though workers may hang |
| `LibraryAdapter` | 2 threads, 2 runs over 2 accelerators of capacity 1 and 2, one in the process and one in a worker, 3 steps, 2 executions | leases bound the trainings, none is said to have stopped unasked or early, outcomes are in their ledgers |
| `Workbench` | 2 processes, 2 calls, 1 change of a file; imports of up to 4 rows | the store stays closed, events are backed, one use is acknowledged, adapters of sessions and files of exports are the verified ones; imports are valid and explain themselves |
| `Evaluations` | 2 processes, 2 calls from nine stages of a project; 1944 ranking trials | lineages do not fork in what is acknowledged, evidence is of unseen cases, readable decisions, no beaten candidate |
| `FixtureJourney` | a built-in and an own dataset, 3 counted records, 1 failure or restart | stages resume, runs train what was estimated, use follows the selection |
| `Workflow` | 2 tasks with disjoint or overlapping paths, 2 candidates for the reviewed one (symmetric), 2 worker records, 5 event numbers | integration is backed, writers stay apart |

Why the bounds are enough.  The hazards are races of two actors around one file:
two processes with two operations reach every overlap of append with append and
with read, a key used again with equal and with different content, and a retry
after a failed or crashed append.  Three attempts of each service let one crash,
one race and one come late.  Two training steps with a checkpoint cadence give a
message before, between and after every check of the loop; the library adapter
has three, so that a step reported again still leaves one to come and a
worker can be two steps ahead of the host.  Two runs of
one artifact id are enough for every conflict over its directory and for a
recovery; one failing call, placed anywhere, reaches each error path, and the
crashes come on top.  Two threads and an accelerator of capacity one give a
lease that is refused, and the one of capacity two a lease that is shared.  In `Workbench` and `Evaluations` two calls overlap in every way, or
follow one another as a call and its retry; longer histories are reached by
starting (`Seed`) from every stage a project goes through, each of them a store
the service can have made.  `FixtureJourney` counts the records whose ids the
journey makes up: three of them include an id that was taken by an interrupted request,
its retry and a use of it.  `Workflow` gives out five event numbers: what a candidate needs that is repaired
after its review and then integrated (two handoffs, the passed review, the gate,
the audit); everything that takes no number is unbounded.

The operators over data (`PreparedIsValid`, `ReimportStable`,
`SelectedUndominated`) are proved for every input (section 5) and evaluated in every state in which a call may begin,
over the imports and the trials that `MCWorkbench` and `MCEvaluations` enumerate: rows at,
below and above the length limits, duplicated, empty and malformed, and values that are pairwise within a
tolerance without being so as a group.

Runs may stop because operations are bounded (`CHECK_DEADLOCK FALSE`): an
attempt that is over or a launch that returned is a legitimate end.
`RuntimeController` and no other run checks deadlock: a controller can always be offered
a message.

Fairness.  `EventStream` and `RunOwnership` assume `WF` of a process's own step: a
started call goes on until it returns or its process dies; taking a lock is
not assumed fair beyond that.  `RunService` assumes the same of an attempt.
`WorkerPort` assumes fairness only of hosts, and strong fairness of the deadline
(the clock passes it whatever the polling loop does); nothing is assumed of
workers, which may hang for ever.  The other modules state no fairness and no
liveness: a user may always leave.

## 4. Findings

`EventStreamRefusedReader` is a violation run; its trace is the counterexample.
`read_verified` stats temporary names (`store/event_stream.py:186`), so a
concurrent, correct append can make it report a corrupt stream.

Remarks.  What follows contradicts no sentence of the repository, and the
properties are stated so that they allow it; the models reach each of it.

* Launching.  The resolution written by a refused attempt is not withdrawn when
  the same claim is launched later, and survives a crash of that launch
  (`app_services/runs.py:968`): the claim no longer blocks the id, and only the unused-run
  check prevents a relaunch (`ResolvedLaunchIsFinal`, `LaunchedAtMostOnce`).
  A host that dies before its worker's first message finds an empty message
  directory, reads it as "never launched" and spawns a second worker
  (`runtime/worker_port.py:480`).  A failed message write burns its number
  (`runtime/worker_port.py:587`) and the gap refuses the ledger, verified progress
  included.  With two workers, evidence a launch has believed need not last, because
  the one that is ahead may append a second failed message
  (`runtime/worker_port.py:692`); `EvidenceEndures` therefore speaks of one worker.
* Cancelling.  The double completes a run that is cancelled at its last step.  Over
  the WSL backend several steps may pass between two polls; the comparison for equality
  (`runtime/library_adapter.py:459`) then never holds and the run goes on to its end, or
  it holds and the worker is further already.  `StopsWhereAsked` says what is left: an end that
  is told as cancelled or interrupted was asked for and is not early.
* Store.  The logical-revision check precedes an unlocked write
  (`app_services/_records.py:47`): datasets, experiments, suite roots and blind
  preparations that race under one id can end with two acknowledged revisions.
  For sessions and exports the event's key decides (`OneUseAcknowledged`).  A scan
  during a foreign write may refuse though nothing is wrong; the call that is
  refused has then done its work.  The members of an export that was copied from changed bytes
  stay in its directory and conflict with every later copy.  `create` does not look
  for the record a fixed-reference baseline is pinned to (`app_services/projects.py:63`,
  `domain/policies.py:64`); one that is not there is refused by the verification that
  follows the writes, and by every later one (`store/evidence.py:596`).  `RecordsClosed` leaves
  out that one reference and says that nothing made with it is acknowledged.
* Local use.  A session records `integrity_reverified`, but its `adapter_config.json` is
  read after the verification and compared with nothing (`app_services/local_use.py:443`,
  `:520`); its `adapter_payload_format` decides how a library runtime infers
  (`runtime/library_adapter.py:795`).  `VerifiedBytesOnly` therefore speaks of a session's adapter
  alone, and of every file of an export.
* Evaluations.  A call that has found its suite to be current
  (`app_services/evaluations.py:606`) may still write its result after another has
  inspected that suite and returned; `SealedUnseen` bounds this to calls that had begun before.
  Two calls that revise one suite from the same head both write;
  neither is acknowledged twice, but the fork refuses every later call on that
  lineage.  Racing `prepare_blind_review` calls of one id leave two packets that
  neither can be sealed.  A decision record whose event is missing (a crash
  between the two) makes `decision_history` refuse until the same decision is
  recorded again.
* Journey.  It never retries such a decision, because it counts a new id; from
  then on the workspace view answers every POST with an error although its work
  was done.  A launch that crashed blocks the fixed run ids for ever, and the
  first candidate blocks the second.  An artifact is looked up by its id, also that of an unfinished
  run.  A crash between a suite record and its event loses the event for good.
  `reimport_required` is false as soon as one artifact exists, although the other launch
  still needs the import.
* Workflow.  DISPATCH under IMPLEMENTATION_READY strands the workflow; nothing sets
  INTEGRATED, so CLOSE cannot be reached; an ambiguous spawn that was RETIRED keeps
  the reference `manual:<task>`; `register_task` is no command of the script.  Of two overlapping
  commands the file keeps the later one's change alone, and two `advance`
  commands both return a launch packet (`src/scripts/temper-workflow.py:2835`, `:2893`).

## 5. Proofs

Every theorem holds for any sets of processes, runs, threads or tasks and any
bounds.  What is assumed of the constants is what the modules state next to them:
the value that stands for "nobody" is none of the actors, bounds are naturals, steps and cadences
are positive, every resource has a capacity.  No property of a run below is
inductive by itself; each subsection says what its `IInv` adds.  TLC checked
every `IInv` before it was proved.

`RunOwnershipProofs`: `TypeCorrect`, `Inductive`, and from it
`ExclusiveOwnership`, `SingleAuthor`, `SingleLaunch`, `AbandonedClaimBlocks` and
`ResolvedIsFinal`.  `LaunchedAtMostOnce` alone does not say that the attempt
about to append `run_launched` has looked at the stream.  `IInv` adds `LeaseHeld` (a process
past the lock is the lock's holder), `Progress` (after the unused check and until
its first event the stream is empty and no record is stored; from then on every event is the attempt's
own; before `run_launched` none of them is a launch) and `OneLaunch`.  Because
only the lock's holder is past the lock, the others' `Progress` is untouched by
an append (`OnlyHolder`, `QuietStep`, `AppendStep`).

`ControllerProofs` is about the controller and the adapter that drives one, which is
why `RuntimeController` calls its specification `ControllerSpec`.  Of the controller:
`TypeCorrect`, `ControllerInductive`, `TerminalStatesJustified`, `CancellationKept`, `LedgerOrdered`, `TerminalIsFinal`, `ReconstructsLive` and
`ReconstructionIsExact`, whatever is offered in any order any number of times.
What a controller may still do is fixed by its state and not by its ledger, so
properties of the ledger are not inductive; `Agreement` ties the two together
(what each state says of the last message and of the cancellation; the step
counter bounds every step told).  `ReconstructsLive` proves that there is a list
of controllers, from a new one to the live one, in which each accepts the next
message of the ledger; `ReconstructionIsExact` adds that `reconstruct`, a fold
over the ledger, computes the last of them.  Its induction over the length of the
ledger goes through a least counterexample.

Of `LibraryAdapter`: `Inductive`, `LeasesAreAccounted`, `CapacityKept`,
`StopsAtItsStep` and `OutcomeIsTold`.  The capacity is kept by the
leases, and leases count trainings only because no two threads execute one run
(`Accounts`).  `Sound` says what each point of `execute` has established: the controller is
active and numbered like its adapter while the backend trains, and the step is
before the one to stop at once a backend in the process has looked.  Of a worker `Behind`
says that the host has delivered no more than it did, that a marker was written at or after
the step it stands for, and that its response names a marker it read.  `OutcomeIsTold`
includes the refused message: `execute()` raises and its ledger has no end.  An attempt to prove
`StopsAtItsStep` found the arms of `Check` overlapping; they are now in the code's order.

`EventStreamProofs`: `Inductive`, `Durable`, `FreshReads` and the refinement
`StreamImplementsLog`.  The properties speak of the files, but what the next link
does to them depends on what each process has listed: a listing is the chain
of an earlier history (`Snapshot`); an appender past the lock holds it
(`Locked`), its listing is still the whole directory until it links, and the key
it is about to link is not in it (`Progress`).  The link is the log's append, the
return its acknowledgement, and everything else a stutter.

`RunServiceProofs`: `Inductive`, `CheckpointsAreBacked`,
`RecoversWhatWasInterrupted`, `CompletedStaysWhole` and the refinement
`ServiceImplementsLifecycle`.  An attempt is the list of the steps it has left, so
`IInv` relates three things: the form of what is left, in each mode (`Shape`);
what the stream tells already (`Past`, and `Ends`: one terminal event, after which
nothing is left to tell, save when the end itself was reported as failed though
it was durable); and what is on disk when so many of the closing steps are
left (`Durable`, `Completion`, `Directory`).  `Recovery` says of the source of a
recovery that it was interrupted behind a saved checkpoint, and it stays so when
the source's own attempt goes on.  `CompletedStaysWhole` needs a second invariant,
`EndsTold`, relative to the first: the attempt of a completed run left no temporary
file of its own, so only another run of the same artifact id can keep
`reopen_completed` from the directory.

`WorkerPortProofs`: `Inductive`, `TerminalAgrees`, `HandedInOrder`,
`EvidenceStays` and `CompletionIsProved`, with any number of workers that outlive
their hosts.  `Script` gives, for each point a worker is at, the messages it must have
written by then and their numbers; `Authored` and `Whole` say of the files that
each number is taken once and that a terminal message ends some worker's own messages;
`LastWord` ties it to the response; `Account` says that what a host was
handed begins the durable ledger, and what it reported has its proof there.  The ledger is a set
of files; that reading it in order (`InOrder`) is a list in which the handed
messages are a beginning is proved by counting (`Ranks`, `Listing`, `AlignedBegins`).

`WorkflowProofs`: `TypeCorrect`, `Inductive`, `WritersStayApart` and
`IntegrationIsBacked`.  What `validate_state` checks of every file that is written
(`Valid`) keeps the writers apart: active workers have leases, and leases are of
disjoint paths, whatever the tasks were registered with; that of two writers one has its guards and a
recorded decision needs the list of workers to be finite (`PairCount`).  An integration is backed when it is
authorized, and no command of its phase undoes it.

`EvidenceStoreProofs` is about both compositions of the store, which is why
`Evaluations` calls its specification `EvaluationsSpec`.  Of `Workbench`:
`Inductive`, `Closedness`, `Backing`, `OneAcknowledged` and
`OnlyVerified`, for any services, requests and streams.  Nothing is ever taken back
(`Grows`), so what is known of one call lasts while others step (`Keeps`).  `Good`
says of a call what it has still to write, each record behind those it refers to
(`CreateOrder`, `FreezeOrder`, `OrdersOf` prove it of each service), that its event
names one of them, and that the event of a use it is about to return is in the stream; `Keyed` then
makes the acknowledged revision the only one.  `Serves` keeps what a use verified;
`Steady` says that no step overwrites bytes in an export's directory.  `Whole` and `Returns` are about the
baselines: a call passes its last verification only if the store is closed, so what it
returns was made with none that is open.  Assumed
of the requests: records have the types the service declares, and what refers to
nothing refers to nothing.

Of `Evaluations`: `EvaluationsInductive`, `OneSettled`, `SealedStaysUnseen` and
`HistoryStaysReadable`.  That what is acknowledged does not fork says nothing of the
calls that are about to be acknowledged, so `Single` speaks of every record that is
`Settled`: its lineage was found linear after it was there.  A record that is settled
next has no rival among those, for the rival would be in the lineage that was
just read (`LinearUnrivalled`).  `Makes` says which record a call is about and that
its event is that record's; `History` says of the decisions' stream that it tells of
decisions only, each once, and of each that is acknowledged.  The second half of
`SealedUnseen` is about steps: a call that begins to record evidence has just read
the whole lineage, and an acknowledged successor would be in it.  Assumed of the
constants: requests are typed, candidates are artifacts, what is stored at first
was written by the service (`WellMade`), and the stream of decisions has not the name of
a suite's or a review's.

`FixtureJourneyProofs`: `JourneyInductive`, `EstimatesStayCurrent`, `UseIsOfSelection` and
`StagesGoThrough`, the three properties of the journey.  A request is the list of
its steps, fixed when it is accepted, so `JourneyInv` says of the list what it will find
(`Sound`): whatever step it comes to, the record it writes has what it is made from
in the store or among what the steps before it write, unless one of them refuses.  The lists are
concatenations; `SoundJoin` and `GivesJoin` say what the parts must give each other,
and there is one lemma per request.  All that is stored follows from one
dataset (`Formed`), so a stage that is asked for again meets its own records and no others
(`NoConflict`); until a dataset is stored everything may yet follow from any other
(`Rebase`).  The numbers of reviews, decisions and sessions never pass their count, which makes
`_next_logical_id` fresh (`FreshNumber`) though requests fail between a record and
its event; a blind review is sealed and revealed under a number that is counted already
(`PacketCounted`).  A use is the first step of its request (`Pending`), so the decision it
was authorized by is still the last when it is stored.

The invariants over data hold of every state because of what the operators
compute, so they are proved of the operators: `PreparedStaysValid` and `ReimportsAgree`
for every source, request and tokenizer, `NothingBeatenIsAdvised` for every policy and
set of results.  `Prepared`, `Cohorts` and the sums of the statistics are folds of the
community modules, that is recursive functions on sets of positions; what they compute
is shown position by position up to the length (`Steps`).  `GoodSoFar` says of the first
`n` rows that each has its example or its receipt in their order, a duplicate names the
earlier row that was kept, and tokens were counted alike twice; `SplitsAddUp` that the
counts by split are those of the accepted rows.  Two versions agree on a text because a
configuration fixes the split and the identity of the tokenizer, and a tokenizer that counted
a text twice alike counts it so under the same identity (`TokenizerAssumption`, what
`DeterministicTokenizer` asks for in `app_services/datasets.py:88`; without it
`ReimportStable` is false).  For the recommendation, `Grouped` says
of the cohorts of the first results that they go up, that none is wider than the
tolerance and that equals share one; so who beats another has no higher key
and one that is lower (`BeatenIsDominated`), is ranked before it
(`LexicographicOrders`) and keeps it from the Pareto front.  `SortedOrders`
proves that `Sorted`, which places an element by how many come before it, is the one order
of a strict total order; a sort of the library, its `SelectSeq` and `@@` are
opaque to the provers, which is why `Datasets` and `Recommendations` do without.
Assumed of the constants: `DatasetAssumption` (items are what the adapters can
read, the parts of a split rule are named differently and have weights) and
`TrialAssumption` (a trial is of results that `build_recommendation` would compare,
with numbers for values and one place for each candidate).

Only model-checked: liveness, which is out of the prover's reach.  Every invariant and every
action property a passing run checks is a theorem as well, and so are both refinements;
the exception is the finding, which TLC refutes.

## 6. What is left

In the order in which it would add most:

1. Replay planning and the correction report, as operators against a reference.
2. The journey composed with the services whose calls it makes.

## 7. Not modelled

Text canonicalisation and redaction, hashing, numerics and model loading, HTTP
and HTML, path-safety checks (symbolic links, reparse points), staging, preflight
and recipe resolution, and the contents of reports: sequential and stateless, or
their data is not small.  Overlapping commands of the workflow script are left
out because a property of both cannot hold: the procedures have one coordinator
run them in turn.  `PROJECT.json` gives the reason per component.
