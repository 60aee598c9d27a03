--------------------------- MODULE LibraryAdapter ---------------------------
(***************************************************************************)
(* Threads that execute training runs through LibraryAdapter.execute()     *)
(* (runtime/library_adapter.py) over one SerializedResourceCoordinator     *)
(* (runtime/controller.py).  Each execution keeps a controller, whose      *)
(* rules are ControllerRules'.                                             *)
(*                                                                         *)
(* A run trains in the process (runtime/library_backend.py, and its        *)
(* deterministic double runtime/library_double.py), where the loop looks   *)
(* at the control before and after every step, or, the runs of Remote, in  *)
(* a worker behind the WSL backend (runtime/wsl_backend.py,                *)
(* runtime/worker_port.py): the worker runs ahead, the host delivers what  *)
(* it wrote in batches, looks at the control between two batches and       *)
(* leaves a marker that the worker's own loop reads.  A backend may raise  *)
(* anywhere.                                                               *)
(*                                                                         *)
(* A run belongs to one adapter (RunOwnership), so Needs names the         *)
(* resources by run and one set stands for every adapter's active runs;    *)
(* it is launched once (RunOwnership), so a worker's directory is new.     *)
(* What a later launch finds there is WorkerPort's.  Step 0 is None in a   *)
(* control.  Staged payloads, losses and logs are left out.                *)
(***************************************************************************)
EXTENDS ControllerRules, FiniteSets

CONSTANTS
    Thread,         \* threads that call execute()
    Run,            \* run ids
    Remote,         \* the runs of an adapter over the WSL backend
    Needs,          \* the resources of the adapter of each run
    Capacity,       \* the coordinator's capacities
    Steps,          \* training_steps
    Cadence,        \* checkpoint_cadence
    MaxExecutions   \* bound: executions of each thread

ASSUME NumbersAssumption ==
    Steps \in Nat /\ Cadence \in Nat \ {0} /\ MaxExecutions \in Nat
ASSUME ResourceAssumption ==
    \A r \in DOMAIN Capacity : Capacity[r] \in Nat \ {0}
ASSUME NeedsAssumption ==
    \A r \in Run : Needs[r] # {} /\ Needs[r] \subseteq DOMAIN Capacity
ASSUME RemoteAssumption == Remote \subseteq Run

VARIABLES
    thread,   \* what each thread is executing
    active,   \* _active_run_ids
    leases,   \* SerializedResourceCoordinator._leases: owner to resources
    worker    \* of each remote run: the steps its worker reported, the control
              \* markers in its directory and the status of its response

vars == <<thread, active, leases, worker>>

\* FixtureControl: a step to cancel after or one to interrupt after, not both;
\* a control out of range is refused before anything happens.
Control == {c \in [cancel : 0 .. Steps, interrupt : 0 .. Steps - 1] :
               c.cancel = 0 \/ c.interrupt = 0}

Idle(n) ==
    [pc |-> "idle", run |-> "none", control |-> [cancel |-> 0, interrupt |-> 0],
     step |-> 0, sequence |-> 0, controller |-> NewController, result |-> "none",
     misled |-> FALSE, executions |-> n]

Init ==
    /\ thread = [t \in Thread |-> Idle(0)]
    /\ active = {} /\ leases = [o \in {} |-> {}]
    /\ worker = [r \in Remote |-> [step |-> 0, asked |-> {}, status |-> "none"]]

-----------------------------------------------------------------------------
(* emit(): the number is taken before the controller sees the message      *)

Emitted(s, kind, value) ==
    LET m == Msg(s.sequence + 1, kind, value) IN
    [s EXCEPT !.sequence = @ + 1,
              !.controller = IF Accepts(@, m) THEN Transition(@, m) ELSE @]

\* The controller raised: the number is taken, the message is not there.
Refused(s) == s.sequence # LastSequence(s.controller)

Moved(t, s) == thread' = [thread EXCEPT ![t] = s]

At(t, pc) == thread[t].pc = pc

\* Mutant: a run that is being executed is executed again.
ExecuteAgain(t, r, c, start) ==
    /\ At(t, "idle") /\ thread[t].executions < MaxExecutions
    /\ active' = active \cup {r} /\ UNCHANGED <<leases, worker>>
    /\ Moved(t, Emitted([Idle(thread[t].executions + 1) EXCEPT
            !.pc = "acquire", !.run = r, !.control = c, !.step = start], "launched", 0))

\* execute(): refused while the run is active; otherwise the request and the
\* control are checked, the inputs staged and the launch reported.
Execute(t, r, c, start) ==
    /\ At(t, "idle") /\ thread[t].executions < MaxExecutions
    /\ r \notin active
    /\ r \in Remote => worker[r].status = "none"
    /\ c.cancel # 0 => start < c.cancel
    /\ c.interrupt # 0 => start < c.interrupt
    /\ active' = active \cup {r} /\ UNCHANGED <<leases, worker>>
    /\ Moved(t, Emitted([Idle(thread[t].executions + 1) EXCEPT
            !.pc = "acquire", !.run = r, !.control = c, !.step = start], "launched", 0))

\* _validate_request or stage_transfer raises before the first message.
RejectRequest(t, r) ==
    /\ At(t, "idle") /\ thread[t].executions < MaxExecutions /\ r \notin active
    /\ Moved(t, Idle(thread[t].executions + 1))
    /\ UNCHANGED <<active, leases, worker>>

-----------------------------------------------------------------------------
(* SerializedResourceCoordinator                                           *)

Usage(resource) == Cardinality({o \in DOMAIN leases : resource \in leases[o]})

\* acquire() gives an owner the lease it has, or one on free resources.
Available(owner) ==
    \/ owner \in DOMAIN leases
    \/ \A resource \in Needs[owner] : Usage(resource) < Capacity[resource]

Acquire(t) ==
    LET run == thread[t].run IN
    /\ At(t, "acquire") /\ Available(run)
    /\ leases' = [o \in DOMAIN leases \cup {run} |->
                     IF o = run THEN Needs[run] ELSE leases[o]]
    /\ Moved(t, [thread[t] EXCEPT !.pc = IF run \in Remote THEN "spawn" ELSE "check"])
    /\ UNCHANGED <<active, worker>>

AcquireFails(t) ==
    /\ At(t, "acquire") /\ ~Available(thread[t].run)
    /\ Moved(t, [Emitted(thread[t], "failed", 0) EXCEPT
                    !.pc = "leave", !.result = "failed"])
    /\ UNCHANGED <<active, leases, worker>>

\* Mutant: only a run that trained to its end gives its lease back.
ReleaseOnSuccess(t) ==
    /\ At(t, "release") /\ UNCHANGED <<active, worker>>
    /\ leases' = IF thread[t].result = "failed" THEN leases
                 ELSE [o \in DOMAIN leases \ {thread[t].run} |-> leases[o]]
    /\ Moved(t, [thread[t] EXCEPT !.pc = IF thread[t].result = "failed"
                                         THEN "leave" ELSE "conclude"])

\* The finally clause, whatever train() did.
Release(t) ==
    /\ At(t, "release") /\ UNCHANGED <<active, worker>>
    /\ leases' = [o \in DOMAIN leases \ {thread[t].run} |-> leases[o]]
    /\ Moved(t, [thread[t] EXCEPT !.pc = IF thread[t].result = "failed"
                                         THEN "leave" ELSE "conclude"])

-----------------------------------------------------------------------------
(* backend.train(): the callbacks                                          *)

\* Mutant: the step at which to stop is passed before it is looked at.
CancellationRequestedLate(s) == s.control.cancel # 0 /\ s.control.cancel < s.step

CancellationRequested(s) == s.control.cancel # 0 /\ s.control.cancel = s.step

InterruptionRequested(s) == s.control.interrupt # 0 /\ s.control.interrupt = s.step

\* A callback whose message the controller refuses raises in the backend.
Called(t, s, next) ==
    /\ Moved(t, IF Refused(s)
                THEN [Emitted(s, "failed", 0) EXCEPT !.pc = "release", !.result = "failed"]
                ELSE [s EXCEPT !.pc = next])
    /\ UNCHANGED <<active, leases, worker>>

\* Where a step's callbacks are followed by the next ones.
Onward(t) == IF thread[t].run \in Remote THEN "poll" ELSE "recheck"

\* The next step: its training in the process is over, or the worker has
\* reported it.
StepDone(t) ==
    \/ At(t, "progress")
    \/ At(t, "poll") /\ thread[t].step < worker[thread[t].run].step

\* on_progress: progress, then the loss.
OnProgress(t) ==
    LET s == Emitted([thread[t] EXCEPT !.step = @ + 1], "progress", thread[t].step + 1) IN
    StepDone(t) /\ Called(t, Emitted(s, "metric", s.step), "heartbeat")

\* A backend in the process that reports a step again.  The WSL backend's
\* handler drops the second report.
OnProgressAgain(t) ==
    LET s == [thread[t] EXCEPT !.step = @ - 1, !.misled = TRUE] IN
    At(t, "progress") /\ s.controller.step > 0 /\ Called(t, Emitted(s, "progress", s.step), "heartbeat")

OnHeartbeat(t) ==
    LET s == thread[t] IN
    /\ At(t, "heartbeat")
    /\ Called(t, Emitted(s, "heartbeat", 0),
              IF s.step % Cadence = 0 \/ s.step = Steps THEN "checkpoint" ELSE Onward(t))

OnCheckpoint(t) ==
    At(t, "checkpoint") /\ Called(t, Emitted(thread[t], "checkpoint", thread[t].step), Onward(t))

-----------------------------------------------------------------------------
(* backend.train() in the process                                          *)

\* The top of the loop: the interruption, the cancellation, the next step.
Check(t) ==
    LET s == thread[t]
        ends(result) == Moved(t, [s EXCEPT !.pc = "release", !.result = result])
    IN
    /\ At(t, "check") /\ UNCHANGED <<active, leases, worker>>
    /\ IF s.step = Steps THEN ends("completed")
       ELSE IF InterruptionRequested(s) THEN ends("interrupted")
       ELSE IF CancellationRequested(s) THEN ends("cancelled")
       ELSE Moved(t, [s EXCEPT !.pc = "progress"])

\* The end of the loop body: the interruption once more.
Recheck(t) ==
    LET s == thread[t] IN
    /\ At(t, "recheck") /\ UNCHANGED <<active, leases, worker>>
    /\ Moved(t, IF InterruptionRequested(s)
                THEN [s EXCEPT !.pc = "release", !.result = "interrupted"]
                ELSE [s EXCEPT !.pc = "check"])

-----------------------------------------------------------------------------
(* backend.train() in a worker                                             *)

\* launch() spawns the worker.
Spawn(t) ==
    /\ At(t, "spawn") /\ UNCHANGED <<active, leases>>
    /\ worker' = [worker EXCEPT ![thread[t].run] =
                     [step |-> thread[t].step, asked |-> {}, status |-> "running"]]
    /\ Moved(t, [thread[t] EXCEPT !.pc = "poll"])

Reporting(t) == thread[t].run \in Remote /\ thread[t].pc \in {"poll", "heartbeat", "checkpoint"}

\* The worker's loop, one iteration: the markers, the next step and its
\* messages.  It reads the interruption once more after the last step, and
\* writes its response.
WorkerSteps(t) ==
    LET r == thread[t].run
        w == worker[r]
    IN
    /\ Reporting(t) /\ w.status = "running"
    /\ worker' = [worker EXCEPT ![r] =
          IF "interrupt" \in w.asked THEN [w EXCEPT !.status = "interrupted"]
          ELSE IF w.step = Steps THEN [w EXCEPT !.status = "completed"]
          ELSE IF "cancel" \in w.asked THEN [w EXCEPT !.status = "cancelled"]
          ELSE [w EXCEPT !.step = @ + 1]]
    /\ UNCHANGED <<thread, active, leases>>

\* launch() has delivered a batch, which may end between any two messages: it
\* looks at the control and writes the marker that is asked for.
Poll(t) ==
    LET s == thread[t]
        asked == {m \in {"cancel", "interrupt"} :
                     IF m = "cancel" THEN CancellationRequested(s) ELSE InterruptionRequested(s)}
    IN
    /\ Reporting(t) /\ asked # {}
    /\ worker' = [worker EXCEPT ![s.run].asked = @ \cup asked]
    /\ UNCHANGED <<thread, active, leases>>

\* The worker has left and everything it wrote is delivered, without another
\* look; the result has the status of its response.
WorkerEnded(t) ==
    LET s == thread[t] IN
    /\ At(t, "poll") /\ UNCHANGED <<active, leases, worker>>
    /\ worker[s.run].status # "running" /\ worker[s.run].step = s.step
    /\ Moved(t, [s EXCEPT !.pc = "release", !.result = worker[s.run].status])

-----------------------------------------------------------------------------
(* backend.train() fails                                                   *)

Trains(t) ==
    thread[t].pc \in {"check", "progress", "recheck", "spawn", "poll", "heartbeat", "checkpoint"}

\* The backend raises; FAILED is offered and its refusal ignored.
BackendRaises(t) ==
    /\ Trains(t) /\ UNCHANGED <<active, leases, worker>>
    /\ Moved(t, [Emitted(thread[t], "failed", 0) EXCEPT !.pc = "release", !.result = "failed"])

\* The WSL backend answers a lost worker and a timeout with an interrupted,
\* disconnected result.
BackendDisconnects(t) ==
    /\ Reporting(t) /\ UNCHANGED <<active, leases, worker>>
    /\ Moved(t, [thread[t] EXCEPT !.pc = "release", !.result = "disconnected"])

-----------------------------------------------------------------------------
(* After train(), without the lease                                        *)

Concludes(t, s) ==
    Moved(t, [s EXCEPT !.pc = "leave"]) /\ UNCHANGED <<active, leases, worker>>

\* Mutant: the acknowledgement is left out.
ConcludeCancelledAtOnce(t) ==
    /\ At(t, "conclude") /\ thread[t].result = "cancelled"
    /\ Concludes(t, Emitted(thread[t], "cancelled", 0))

ConcludeCancelled(t) ==
    /\ At(t, "conclude") /\ thread[t].result = "cancelled"
    /\ Concludes(t, Emitted(Emitted(thread[t], "cancellation_requested", 0), "cancelled", 0))

ConcludeInterrupted(t) ==
    LET s == thread[t] IN
    /\ At(t, "conclude") /\ s.result \in {"interrupted", "disconnected"}
    /\ Concludes(t, Emitted(IF s.result = "disconnected"
                            THEN Emitted(s, "disconnected", s.sequence) ELSE s,
                            "interrupted", 0))

\* The members are staged back, read again and bundled (bundle 1).
ConcludeCompleted(t) ==
    /\ At(t, "conclude") /\ thread[t].result = "completed"
    /\ Concludes(t, Emitted(Emitted(thread[t], "artifact_ready", 1), "completed", 0))

TransferFails(t) ==
    /\ At(t, "conclude") /\ thread[t].result = "completed"
    /\ Concludes(t, [Emitted(thread[t], "failed", 0) EXCEPT !.result = "failed"])

\* The finally clause of execute().
Leave(t) ==
    /\ At(t, "leave")
    /\ active' = active \ {thread[t].run} /\ UNCHANGED <<leases, worker>>
    /\ Moved(t, Idle(thread[t].executions))

Continue(t) ==
    \/ Acquire(t) \/ AcquireFails(t) \/ Check(t) \/ OnProgress(t) \/ OnProgressAgain(t)
    \/ OnHeartbeat(t) \/ OnCheckpoint(t) \/ Recheck(t) \/ Spawn(t) \/ WorkerSteps(t)
    \/ Poll(t) \/ WorkerEnded(t) \/ BackendRaises(t)
    \/ BackendDisconnects(t) \/ Release(t) \/ ConcludeCancelled(t)
    \/ ConcludeInterrupted(t) \/ ConcludeCompleted(t) \/ TransferFails(t) \/ Leave(t)

Next ==
    \E t \in Thread :
       \/ \E r \in Run :
             \/ RejectRequest(t, r)
             \/ \E c \in Control, start \in 0 .. Steps - 1 :
                  start % Cadence = 0 /\ Execute(t, r, c, start)
       \/ Continue(t)

Spec == Init /\ [][Next]_vars

-----------------------------------------------------------------------------
(* Properties                                                              *)

Trainers == {t \in Thread : Trains(t)}

\* A resource is never used by more trainings than its capacity, and no run
\* trains twice at once: the acquire of the coordinator, idempotent for an
\* owner, alone would not give this.
TrainsWithinCapacity ==
    /\ \A resource \in DOMAIN Capacity :
          Cardinality({t \in Trainers : resource \in Needs[thread[t].run]}) <= Capacity[resource]
    /\ \A t, u \in Trainers : thread[t].run = thread[u].run => t = u

\* Cancellation and interruption are asked for by comparing the current step
\* for equality.  In the process no run goes past the step it was to stop at,
\* and one that completes was asked for nothing before its last step.  A worker
\* may run past it while the host delivers, and complete; but where a run
\* trains, it ends cancelled or interrupted only if that was asked for, and
\* never before the step it was asked at.
StopsWhereAsked ==
    \A t \in Thread :
        LET s == thread[t]
            stop(kind, asked) == s.result = kind => asked # 0 /\ s.step >= asked
        IN
        /\ stop("cancelled", s.control.cancel) /\ stop("interrupted", s.control.interrupt)
        /\ s.run \notin Remote =>
             /\ s.control.cancel # 0 => s.step <= s.control.cancel
             /\ s.control.interrupt # 0 => s.step <= s.control.interrupt
             /\ s.result = "completed" => s.control.cancel \in {0, Steps} /\ s.control.interrupt = 0

\* What execute() returns or raises is what its ledger says: the last message
\* is the terminal one of the outcome.  Where the controller refused a message
\* its number is burnt and everything after is refused too: then the backend
\* broke the order, execute() raises, and the ledger has no end at all rather
\* than another one.
OutcomeInLedger ==
    \A t \in Thread :
        LET s == thread[t] IN
        s.pc = "leave" =>
            IF Refused(s)
            THEN s.misled /\ s.result = "failed" /\ s.controller.state \notin Terminal
            ELSE s.controller.state = IF s.result = "disconnected" THEN "interrupted" ELSE s.result

\* The coordinator holds a lease for exactly the runs that are between their
\* acquire and their finally clause: none is kept after a failure, and none is
\* given back under a run that shares its owner name.
LeasesAccounted ==
    DOMAIN leases = {thread[t].run : t \in Trainers \cup {u \in Thread : At(u, "release")}}
=============================================================================
