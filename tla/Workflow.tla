------------------------------ MODULE Workflow ------------------------------
(***************************************************************************)
(* The coordinator of development tasks, scripts/temper-workflow.py: one   *)
(* JSON state that a command loads, checks (validate_state), changes,      *)
(* checks again and replaces.  A command that fails leaves the file alone, *)
(* so each action is one successful command.  Commands that overlap, of    *)
(* which the file keeps the later one's change alone, are left out.        *)
(*                                                                         *)
(* Tasks here are those of a class that writes.  A verification that is    *)
(* PASS stands for a record that verification_reuse accepts and, for the   *)
(* targeted request, that the handoff names; FAIL for one that failed,     *)
(* which for a request is as good as none.  UNKNOWN and NON_REUSABLE ones, *)
(* which move nothing, and gates run again for lost evidence are left out. *)
(* ACTIVE stands for WAITING and BLOCKED, from which a worker comes back   *)
(* before its handoff, ENDED for COMPLETE and RETIRED.  The decisions a    *)
(* handoff applies are taken as recorded; checkpoints, heartbeats, routes  *)
(* and route trials are left out, and so are the event numbers of requests *)
(* and exceptions, which nothing compares, and of a review that is opened, *)
(* as no gate precedes it.  Bounds: results are recorded for the candidate *)
(* handed off last, and MaxSequence numbers are given.                     *)
(***************************************************************************)
EXTENDS Naturals, Sequences, FiniteSets

CONSTANTS
    Task,         \* task keys
    Reviewed,     \* tasks the review matrix requires a cold review for
    Owned,        \* the owned paths each task may be registered with: files they hold
    Subject,      \* the candidate identities of each task
    Exception,    \* writer exceptions a maintainer may record: task and mode
    Guarded,      \* tasks whose activations record the independence guards
    None,         \* no handoff, no result, no review yet
    MaxSequence,  \* bound: event_sequence
    MaxWorkers    \* bound: worker records

ASSUME SetsAssumption ==
    /\ Reviewed \subseteq Task /\ Guarded \subseteq Task
    /\ Exception \subseteq Task \X {"root", "subagent"}
    /\ \A t \in Task : {} \notin Owned[t]
ASSUME BoundsAssumption == MaxSequence \in Nat /\ MaxWorkers \in Nat

VARIABLE state    \* the coordinator record

Phases == {"RECONCILE", "DELIBERATE", "DECIDE", "PLAN", "DISPATCH", "VERIFY",
           "INTEGRATE", "CLOSE"}

AllowedTransitions ==
    [RECONCILE |-> {"DELIBERATE"}, DELIBERATE |-> {"DECIDE"}, DECIDE |-> {"PLAN"},
     PLAN |-> {"DISPATCH"}, DISPATCH |-> {"VERIFY", "RECONCILE"},
     VERIFY |-> {"PLAN", "INTEGRATE", "RECONCILE"},
     INTEGRATE |-> {"PLAN", "VERIFY", "DECIDE", "RECONCILE", "CLOSE"}, CLOSE |-> {}]

AuthorizationPhases ==
    [PROPOSED |-> {"RECONCILE"}, REVIEWED_WITH_CORRECTIONS |-> {"RECONCILE"},
     MAINTAINER_AUTHORIZED |-> {"RECONCILE", "DELIBERATE", "DECIDE", "PLAN"},
     IMPLEMENTATION_READY |-> {"PLAN", "DISPATCH"},
     IMPLEMENTING |-> {"DISPATCH", "VERIFY"},
     VERIFIED |-> {"VERIFY"}, INTEGRATION_AUTHORIZED |-> {"INTEGRATE"},
     INTEGRATED |-> {"CLOSE"}]

ActiveStates == {"SPAWN_REQUESTED", "SPAWN_UNKNOWN", "ACTIVE"}

Kind == {"request", "gate", "safety"}

-----------------------------------------------------------------------------
(* Reading the state                                                       *)

Active(s) == {i \in DOMAIN s.workers : s.workers[i].status \in ActiveStates}

ActiveOf(s, t) == {i \in Active(s) : s.workers[i].task = t}

Ambiguous(s) == {i \in Active(s) : s.workers[i].status = "SPAWN_UNKNOWN"}

\* The reference of a worker: root:<task>, manual:<task>, or its own.
Named(s, reference, t) ==
    {i \in DOMAIN s.workers : s.workers[i].reference = reference /\ s.workers[i].task = t}

\* Of two active writers, the one that stands later in the list.
SecondWriter(s) ==
    s.workers[CHOOSE i \in Active(s) : \A j \in Active(s) : j <= i]

\* paths_overlap: two paths are equal or one lies in the other's tree.
PathsOverlap(s, t, u) == s.owned[t] \cap s.owned[u] # {}

\* A lease has exactly its task's paths, which never change.
LeasesApart(s) == \A t, u \in s.leases : t # u => ~PathsOverlap(s, t, u)

OneWorkerPerTask(s) == \A t \in Task : Cardinality(ActiveOf(s, t)) <= 1

\* The worker's reference finds a maintainer's decision on its task and mode.
Approved(s, worker) ==
    worker.exception /\ <<worker.task, worker.mode>> \in s.exceptions

\* Mutant: leases are not looked at.
WorkersUnbound(s) ==
    \A i \in DOMAIN s.workers :
       s.workers[i].mode = "subagent" => Approved(s, s.workers[i])

\* An active worker has a lease, a writing subagent its exception.
WorkersBound(s) ==
    /\ \A i \in Active(s) : s.workers[i].task \in s.leases
    /\ \A i \in DOMAIN s.workers :
          s.workers[i].mode = "subagent" => Approved(s, s.workers[i])

WritersBounded(s) ==
    /\ Cardinality(Active(s)) <= 2
    /\ Cardinality(Active(s)) = 2 => SecondWriter(s).guards /\ Approved(s, SecondWriter(s))

\* Results and reviews belong to registered tasks, and to their candidates.
Recorded(s) ==
    /\ \A t \in s.tasks : s.reviews[t] # None =>
           s.reviews[t].status \in {"REQUIRED", "REPAIR_IN_PROGRESS", "PASS"}
    /\ \A t \in Task \ s.tasks :
           /\ s.reviews[t] = None
           /\ \A u \in Subject[t], k \in Kind : s.results[t][u][k] = None

\* validate_state: what every command checks of the file it read and of the
\* one it writes.
Valid(s) ==
    /\ s.phase \in AuthorizationPhases[s.authorization]
    /\ LeasesApart(s) /\ OneWorkerPerTask(s) /\ WorkersBound(s) /\ WritersBounded(s)
    /\ Recorded(s)

Passes(result) == result # None /\ result.status = "PASS"

\* The latest handoff's request has a reusable result.
Reusable(s, t) ==
    s.handoffs[t] # None /\ Passes(s.results[t][s.handoffs[t].subject]["request"])

\* _latest_root_final_gate: recorded after the handoff and after the review.
LatestGate(s, t) ==
    LET gate == s.results[t][s.handoffs[t].subject]["gate"] IN
    IF /\ gate # None /\ gate.at > s.handoffs[t].at
       /\ s.reviews[t] # None => gate.at > s.reviews[t].at
    THEN gate ELSE None

\* _latest_root_public_safety: recorded after the final gate.
LatestSafety(s, t) ==
    LET safety == s.results[t][s.handoffs[t].subject]["safety"] IN
    IF safety # None /\ safety.at > LatestGate(s, t).at THEN safety ELSE None

ReviewPassed(s, t, subject) ==
    s.reviews[t] # None /\ s.reviews[t].status = "PASS" /\ s.reviews[t].subject = subject

\* _refresh_verification_authorization.
Refresh(s) ==
    [s EXCEPT !.authorization =
        IF \E t \in Task : Reusable(s, t) THEN "VERIFIED" ELSE "IMPLEMENTING"]

-----------------------------------------------------------------------------

Init ==
    state = [phase |-> "RECONCILE", authorization |-> "PROPOSED", tasks |-> {},
             owned |-> [t \in Task |-> {}], leases |-> {}, workers |-> <<>>, exceptions |-> {},
             handoffs |-> [t \in Task |-> None],
             results |-> [t \in Task |-> [u \in Subject[t] |-> [k \in Kind |-> None]]],
             reviews |-> [t \in Task |-> None], sequence |-> 0]

\* write_state: the new state is checked before it replaces the file.
Write(s) == Valid(s) /\ state' = s

CanCount == state.sequence < MaxSequence

\* The command `transition`.
Transition(target) ==
    /\ target \in AllowedTransitions[state.phase] \ {"INTEGRATE"}
    /\ target \in AuthorizationPhases[state.authorization]
    /\ Write([state EXCEPT !.phase = target])

\* The command `authorize`, by the maintainer, before the work
Authorize ==
    /\ state.phase = "RECONCILE"
    /\ state.authorization \in {"PROPOSED", "REVIEWED_WITH_CORRECTIONS", "MAINTAINER_AUTHORIZED"}
    /\ Write([state EXCEPT !.authorization = "MAINTAINER_AUTHORIZED"])

\* Mutant: the final gate may be older than the review.
AuthorizeWithAnyGate(t) ==
    /\ state.phase = "VERIFY" /\ state.authorization = "VERIFIED"
    /\ t \in state.tasks /\ Reusable(state, t)
    /\ LET subject == state.handoffs[t].subject IN
       /\ t \in Reviewed => ReviewPassed(state, t, subject)
       /\ Passes(state.results[t][subject]["gate"])
       /\ Passes(state.results[t][subject]["safety"])
    /\ Write([state EXCEPT !.authorization = "INTEGRATION_AUTHORIZED",
                           !.phase = "INTEGRATE"])

\* and before the integration of a candidate (_authorize_integration).
AuthorizeIntegration(t) ==
    /\ state.phase = "VERIFY" /\ state.authorization = "VERIFIED"
    /\ t \in state.tasks /\ Reusable(state, t)
    /\ t \in Reviewed => state.reviews[t] # None
    /\ state.reviews[t] # None => ReviewPassed(state, t, state.handoffs[t].subject)
    /\ Passes(LatestGate(state, t)) /\ Passes(LatestSafety(state, t))
    /\ Write([state EXCEPT !.authorization = "INTEGRATION_AUTHORIZED",
                           !.phase = "INTEGRATE"])

RegisterTask(t, paths) ==
    /\ state.authorization = "MAINTAINER_AUTHORIZED" /\ state.phase = "RECONCILE"
    /\ t \notin state.tasks
    /\ Write([state EXCEPT !.tasks = @ \cup {t}, !.owned[t] = paths])

\* acquire_ownership returns the task's own lease, or takes one that no active
\* lease overlaps.
AcquireOwnership(t) ==
    /\ state.authorization \in {"MAINTAINER_AUTHORIZED", "IMPLEMENTATION_READY"}
    /\ state.phase = "PLAN" /\ t \in state.tasks
    /\ t \in state.leases \/ \A u \in state.leases : ~PathsOverlap(state, t, u)
    /\ Write([state EXCEPT !.leases = @ \cup {t},
                           !.authorization = "IMPLEMENTATION_READY"])

ReleaseOwnership(t) ==
    /\ ActiveOf(state, t) = {} /\ t \in state.leases
    /\ Write([state EXCEPT !.leases = @ \ {t}])

\* record_evidence of an exceptional writer, once per reference.
RecordException(t, mode) ==
    /\ t \in state.tasks /\ <<t, mode>> \in Exception \ state.exceptions
    /\ Write([state EXCEPT !.exceptions = @ \cup {<<t, mode>>}])

\* A maintainer's decision binds this task and mode.
Excepted(t, mode) == <<t, mode>> \in state.exceptions

\* _check_writer_capacity: a second writer needs the guards and an exception.
Capacity(t, mode) ==
    \/ Active(state) = {}
    \/ /\ Cardinality(Active(state)) = 1 /\ t \in Guarded
       /\ Excepted(t, mode)

Worker(reference, t, mode, status) ==
    [reference |-> reference, task |-> t, mode |-> mode, status |-> status,
     guards |-> t \in Guarded,
     exception |-> mode = "subagent" \/ Active(state) # {}]

\* _activate_root_writer: the task's root record is used again.
WithRoot(t) ==
    LET root == Worker("root", t, "root", "ACTIVE") IN
    IF Named(state, "root", t) = {} THEN Append(state.workers, root)
    ELSE [i \in DOMAIN state.workers |->
             IF i \in Named(state, "root", t) THEN root ELSE state.workers[i]]

Fits(workers) == Len(workers) <= MaxWorkers

Automatic == {"MAINTAINER_AUTHORIZED", "IMPLEMENTATION_READY", "IMPLEMENTING", "VERIFIED"}

\* `advance` goes no further while a spawn is ambiguous.
Advances(t) ==
    /\ state.authorization \in Automatic /\ t \in state.tasks
    /\ Ambiguous(state) = {}

AdvanceToPlan(t) ==
    /\ Advances(t) /\ state.phase \in {"RECONCILE", "DELIBERATE", "DECIDE"}
    /\ Write([state EXCEPT !.phase = "PLAN"])

StartRoot(t) ==
    /\ Advances(t) /\ state.phase = "PLAN"
    /\ state.authorization = "IMPLEMENTATION_READY"
    /\ \A i \in Named(state, "root", t) : i \notin Active(state)
    /\ Capacity(t, "root") /\ Fits(WithRoot(t))
    /\ Write([state EXCEPT !.workers = WithRoot(t), !.phase = "DISPATCH",
                           !.authorization = "IMPLEMENTING"])

\* _create_dispatch_intent, in PLAN or, for a further worker, in DISPATCH.
MayDispatch(t) ==
    /\ ActiveOf(state, t) = {} /\ Excepted(t, "subagent")
    /\ t \in state.leases /\ Capacity(t, "subagent")
    /\ Named(state, "manual", t) = {}

WithIntent(t) ==
    Append(state.workers, Worker("manual", t, "subagent", "SPAWN_REQUESTED"))

DispatchFirst(t) ==
    /\ Advances(t) /\ state.phase = "PLAN"
    /\ state.authorization = "IMPLEMENTATION_READY"
    /\ MayDispatch(t) /\ Fits(WithIntent(t))
    /\ Write([state EXCEPT !.workers = WithIntent(t), !.phase = "DISPATCH",
                           !.authorization = "IMPLEMENTING"])

DispatchNext(t) ==
    /\ Advances(t) /\ state.phase = "DISPATCH"
    /\ MayDispatch(t) /\ Fits(WithIntent(t))
    /\ Write([state EXCEPT !.workers = WithIntent(t)])

Renamed(i, reference, status) ==
    [state.workers EXCEPT ![i].reference = reference, ![i].status = status]

RegisterWorker(t) ==
    /\ state.phase = "DISPATCH" /\ state.authorization = "IMPLEMENTING"
    /\ t \in state.leases
    /\ \E i \in Named(state, "manual", t) :
         /\ state.workers[i].status = "SPAWN_REQUESTED" /\ ActiveOf(state, t) = {i}
         /\ Write([state EXCEPT !.workers = Renamed(i, "worker", "ACTIVE")])

\* Where a worker's status may go (reconcile_worker, monitor_worker); from
\* SPAWN_UNKNOWN only by the maintainer's replacement decision.
NextStatus ==
    [SPAWN_REQUESTED |-> {"ACTIVE", "SPAWN_UNKNOWN", "ENDED"}, ACTIVE |-> {"ENDED"},
     SPAWN_UNKNOWN |-> {"ENDED"}, ENDED |-> {}]

ReconcileWorker(i, status) ==
    /\ status \in NextStatus[state.workers[i].status]
    /\ Write([state EXCEPT !.workers[i].status = status])

\* ingest_handoff completes the worker and, whoever else works, turns to VERIFY.
IngestHandoff(i, subject) ==
    /\ state.phase = "DISPATCH" /\ state.authorization = "IMPLEMENTING"
    /\ state.workers[i].status = "ACTIVE" /\ CanCount
    /\ Write([state EXCEPT
            !.workers[i].status = "ENDED",
            !.handoffs[state.workers[i].task] = [subject |-> subject, at |-> state.sequence + 1],
            !.sequence = @ + 1, !.phase = "VERIFY"])

\* record_verification: the final gate of a candidate once, after its review.
RecordVerification(t, subject, kind, status) ==
    /\ state.phase = "VERIFY" /\ state.authorization \in {"IMPLEMENTING", "VERIFIED"}
    /\ t \in state.tasks
    /\ state.handoffs[t] # None /\ state.handoffs[t].subject = subject
    /\ kind = "gate" =>
         /\ t \in Reviewed => ReviewPassed(state, t, subject)
         /\ state.results[t][subject]["gate"] = None
    /\ IF kind = "request"
       THEN Write(Refresh([state EXCEPT !.results[t][subject][kind] =
                IF status = "PASS" THEN [status |-> status] ELSE None]))
       ELSE /\ CanCount
            /\ Write(Refresh([state EXCEPT !.sequence = @ + 1,
                    !.results[t][subject][kind] = [status |-> status, at |-> state.sequence + 1]]))

\* `advance` in VERIFY goes on with a candidate that is verified.
Candidate(t) ==
    Advances(t) /\ state.phase = "VERIFY" /\ state.authorization = "VERIFIED"
    /\ Reusable(state, t)

OpenReview(t) ==
    /\ Candidate(t) /\ t \in Reviewed /\ state.reviews[t] = None
    /\ Write([state EXCEPT
            !.reviews[t] = [status |-> "REQUIRED", at |-> state.sequence,
                            subject |-> state.handoffs[t].subject]])

\* A repaired candidate is put to the reviewer again.
Renewed(t) ==
    LET review == state.reviews[t] IN
    IF review.status = "REPAIR_IN_PROGRESS" /\ review.subject # state.handoffs[t].subject
    THEN [review EXCEPT !.subject = state.handoffs[t].subject, !.status = "REQUIRED"]
    ELSE review

PassReview(t) ==
    /\ Candidate(t) /\ t \in Reviewed /\ state.reviews[t] # None
    /\ Renewed(t).status # "PASS" /\ CanCount
    /\ Write([state EXCEPT !.sequence = @ + 1,
            !.reviews[t] = [Renewed(t) EXCEPT !.status = "PASS", !.at = state.sequence + 1]])

ReturnToPlan(s) ==
    [s EXCEPT !.phase = "PLAN", !.authorization = "MAINTAINER_AUTHORIZED"]

\* The reviewer asks for a repair.
RequireRepair(t) ==
    /\ Candidate(t) /\ t \in Reviewed /\ state.reviews[t] # None
    /\ Write(ReturnToPlan([state EXCEPT
            !.reviews[t] = [Renewed(t) EXCEPT !.status = "REPAIR_IN_PROGRESS"]]))

AskReviewer(t) ==
    /\ Candidate(t) /\ t \in Reviewed /\ state.reviews[t] # None
    /\ Write([state EXCEPT !.reviews[t] = Renewed(t)])

\* The final gate, or after it the public-safety audit, failed.
RepairFailure(t) ==
    /\ Candidate(t)
    /\ t \in Reviewed => state.reviews[t] # None /\ Renewed(t).status = "PASS"
    /\ LET gate == LatestGate(state, t) IN
       /\ gate # None
       /\ \/ gate.status = "FAIL"
          \/ /\ Passes(gate) /\ LatestSafety(state, t) # None
             /\ LatestSafety(state, t).status = "FAIL"
    /\ Write(ReturnToPlan(
         IF state.reviews[t] = None THEN state
         ELSE [state EXCEPT !.reviews[t].status = "REPAIR_IN_PROGRESS"]))

Status == {"PASS", "FAIL"}

Next ==
    \/ \E target \in Phases : Transition(target)
    \/ Authorize
    \/ \E t \in Task :
         \/ \E paths \in Owned[t] : RegisterTask(t, paths)
         \/ AcquireOwnership(t) \/ ReleaseOwnership(t)
         \/ AdvanceToPlan(t) \/ StartRoot(t) \/ DispatchFirst(t) \/ DispatchNext(t)
         \/ RegisterWorker(t) \/ OpenReview(t) \/ PassReview(t) \/ RequireRepair(t)
         \/ AskReviewer(t) \/ RepairFailure(t) \/ AuthorizeIntegration(t)
         \/ \E mode \in {"root", "subagent"} : RecordException(t, mode)
         \/ \E subject \in Subject[t], kind \in Kind, status \in Status :
              RecordVerification(t, subject, kind, status)
    \/ \E i \in DOMAIN state.workers :
         \/ \E status \in ActiveStates \cup {"ENDED"} : ReconcileWorker(i, status)
         \/ \E subject \in Subject[state.workers[i].task] : IngestHandoff(i, subject)

Spec == Init /\ [][Next]_state

-----------------------------------------------------------------------------
(* Properties                                                              *)

\* What is being integrated was handed off, then, if its class asks for it,
\* reviewed exactly as it is, then passed the final gate, then the public
\* safety audit, in this order and since the last of each.
IntegrationBacked ==
    state.phase = "INTEGRATE" =>
        \E t \in state.tasks :
            LET handoff == state.handoffs[t]
                results == state.results[t][handoff.subject]
            IN /\ handoff # None /\ Passes(results["request"])
               /\ Passes(results["gate"]) /\ Passes(results["safety"])
               /\ handoff.at < results["gate"].at /\ results["gate"].at < results["safety"].at
               /\ t \in Reviewed => /\ ReviewPassed(state, t, handoff.subject)
                                    /\ state.reviews[t].at < results["gate"].at

\* Writers at work own disjoint paths, though tasks with overlapping paths are
\* registered and leases are taken, given back and taken again, and of two at
\* work one has every guard and a decision on record for its task and mode.
WritersApart ==
    \A i, j \in Active(state) : i # j =>
        LET pair == {state.workers[i], state.workers[j]} IN
        /\ state.owned[state.workers[i].task] \cap state.owned[state.workers[j].task] = {}
        /\ \E w \in pair : w.guards /\ <<w.task, w.mode>> \in state.exceptions

=============================================================================
