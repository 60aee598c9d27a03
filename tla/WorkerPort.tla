----------------------------- MODULE WorkerPort -----------------------------
(***************************************************************************)
(* One worker invocation: host processes that launch and watch a training  *)
(* worker (runtime/worker_port.py, runtime/wsl_backend.py) and the worker  *)
(* processes they spawn (runtime/worker_process.py around the training     *)
(* loop of runtime/library_backend.py).                                    *)
(*                                                                         *)
(* Host and worker share only files of the invocation's private directory: *)
(* one write-once file per worker message, the write-once response, and    *)
(* the write-once control markers "cancel" and "interrupt".  The host      *)
(* polls; a worker looks at the markers between training steps.  Either    *)
(* may die between two steps, a spawned worker outlives its host, and      *)
(* terminating it may come too late.                                       *)
(***************************************************************************)
EXTENDS ControllerRules, SequencesExt, FiniteSets

CONSTANTS
    Host,          \* host processes that may launch this invocation
    TrainingSteps, \* resolution.training_steps
    Cadence,       \* resolution.checkpoint_cadence
    MaxLaunches,   \* bound: launch() calls of each host
    MaxWorkers,    \* bound: worker processes ever spawned
    MaxFaults      \* bound: file writes of workers that fail

ASSUME StepsAssumption == TrainingSteps \in Nat \ {0} /\ Cadence \in Nat \ {0}
ASSUME BoundsAssumption ==
    MaxLaunches \in Nat /\ MaxWorkers \in Nat /\ MaxFaults \in Nat

Worker == 1 .. MaxWorkers
Status == TerminalKind

VARIABLES
    ledger,     \* message files, at most one per sequence number
    response,   \* status of the response file, "none" before it is written
    markers,    \* control markers present
    wpc, wctl, wseq, wstep, wresult,   \* the workers: where each is, its sink's
                \* controller and sequence, steps trained, status it ends with
    hpc, child, delivered, seen, current, timedOut, launches,  \* the hosts:
                \* where each is, worker spawned, messages delivered, messages
                \* last read, step known to the caller, timeout, launch() calls
    outcome,    \* how each host's last launch() ended
    cancelAt, interruptAt,   \* the caller's control: after which step (0: never)
    faults      \* worker writes that failed so far

workerVars == <<wpc, wctl, wseq, wstep, wresult>>
hostVars == <<hpc, child, delivered, seen, current, timedOut, launches, outcome>>
vars == <<ledger, response, markers, workerVars, hostVars, cancelAt, interruptAt, faults>>

-----------------------------------------------------------------------------
(* The files                                                               *)

\* SerializedRunController.reconstruct: the controllers that accepted all the
\* messages, one or, when a message is refused, none.
Reconstructed(messages) ==
    FoldLeft(LAMBDA cs, m : {Transition(c, m) : c \in {d \in cs : Accepts(d, m)}},
             {NewController}, messages)

InOrder(files) ==
    [i \in 1 .. Cardinality(files) |->
        CHOOSE m \in files : Cardinality({f \in files : f.sequence <= m.sequence}) = i]

\* _read_messages: file names without gap, and a history a controller accepts.
Readable(files) ==
    LET messages == InOrder(files)
    IN /\ \A i \in DOMAIN messages : messages[i].sequence = i
       /\ Reconstructed(messages) # {}

\* Mutant: any messages do.
SomeEvidence(status, messages) == messages # <<>>

\* _validate_terminal: the messages end in the state the response claims.
TerminalEvidence(status, messages) ==
    \E c \in Reconstructed(messages) : c.state = status

\* _write_idempotent: a write-once file is written, or already there with the
\* same content.  What another worker measured or saved may differ in bytes
\* that a message's one number does not show.
Computed == {"metric", "checkpoint", "artifact_ready", "failed"}
MayWrite(m) == \A f \in ledger : f.sequence = m.sequence => f = m
MayConflict(m) == ~MayWrite(m) \/ (m \in ledger /\ m.kind \in Computed)

-----------------------------------------------------------------------------

Init ==
    /\ ledger = {} /\ response = "none" /\ markers = {}
    /\ wpc = [w \in Worker |-> "unborn"]
    /\ wctl = [w \in Worker |-> NewController]
    /\ wseq = [w \in Worker |-> 0]
    /\ wstep = [w \in Worker |-> 0]
    /\ wresult = [w \in Worker |-> "none"]
    /\ hpc = [h \in Host |-> "idle"]
    /\ child = [h \in Host |-> 0]
    /\ delivered = [h \in Host |-> <<>>]
    /\ seen = [h \in Host |-> <<>>]
    /\ current = [h \in Host |-> 0]
    /\ timedOut = [h \in Host |-> FALSE]
    /\ launches = [h \in Host |-> 0]
    /\ outcome = [h \in Host |-> "none"]
    /\ cancelAt \in 0 .. TrainingSteps
    /\ interruptAt \in 0 .. TrainingSteps - 1
    /\ faults = 0

-----------------------------------------------------------------------------
(* The worker                                                              *)

\* WorkerEventSink.emit: the number is taken and the sink's own controller
\* advanced before the file is written.  A file that is there with another
\* content, or a write that fails, raises and the worker goes to otherwise.
EmitOr(w, kind, value, then, otherwise) ==
    LET m == Msg(wseq[w] + 1, kind, value)
    IN /\ wseq' = [wseq EXCEPT ![w] = @ + 1]
       /\ IF Accepts(wctl[w], m)
          THEN /\ wctl' = [wctl EXCEPT ![w] = Transition(@, m)]
               /\ \/ /\ MayWrite(m)
                     /\ ledger' = ledger \cup {m}
                     /\ wpc' = [wpc EXCEPT ![w] = then]
                     /\ UNCHANGED faults
                  \/ /\ MayConflict(m)
                     /\ wpc' = [wpc EXCEPT ![w] = otherwise]
                     /\ UNCHANGED <<ledger, faults>>
                  \/ /\ faults < MaxFaults
                     /\ faults' = faults + 1
                     /\ wpc' = [wpc EXCEPT ![w] = otherwise]
                     /\ UNCHANGED ledger
          ELSE /\ wpc' = [wpc EXCEPT ![w] = otherwise]
               /\ UNCHANGED <<ledger, wctl, faults>>

\* Inside the operation a raising emit leads to _record_failure.
Emit(w, kind, value, then) == EmitOr(w, kind, value, then, "failing")

files == <<ledger, response, markers, faults>>
request == <<cancelAt, interruptAt>>

\* Before the operation it ends the process with exit code 2.
WorkerLaunched(w) ==
    /\ wpc[w] = "launching"
    /\ EmitOr(w, "launched", 0, "checking", "dead")
    /\ UNCHANGED <<response, markers, wstep, wresult, hostVars, request>>

Conclude(w, status) ==
    /\ wresult' = [wresult EXCEPT ![w] = status]
    /\ wpc' = [wpc EXCEPT ![w] = "responding"]

\* Top of the training loop: the interrupt marker ends it, then the cancel
\* marker does, and is acknowledged.
CheckInterrupt(w) ==
    /\ wpc[w] = "checking"
    /\ IF "interrupt" \in markers THEN Conclude(w, "interrupted")
       ELSE wpc' = [wpc EXCEPT ![w] = "asking"] /\ UNCHANGED wresult
    /\ UNCHANGED <<files, wctl, wseq, wstep, hostVars, request>>

AcknowledgeCancel(w) ==
    /\ wpc[w] = "asking" /\ "cancel" \in markers
    /\ Emit(w, "cancellation_requested", 0, "responding")
    /\ wresult' = [wresult EXCEPT ![w] = "cancelled"]
    /\ UNCHANGED <<response, markers, wstep, hostVars, request>>

\* One optimizer step, announced by a progress message ...
TrainStep(w) ==
    /\ wpc[w] = "asking" /\ "cancel" \notin markers
    /\ wstep' = [wstep EXCEPT ![w] = @ + 1]
    /\ Emit(w, "progress", wstep[w] + 1, "measuring")
    /\ UNCHANGED <<response, markers, wresult, hostVars, request>>

\* ... its loss metric and a heartbeat,
EmitMetric(w) ==
    /\ wpc[w] = "measuring"
    /\ Emit(w, "metric", wstep[w], "beating")
    /\ UNCHANGED <<response, markers, wstep, wresult, hostVars, request>>

EmitHeartbeat(w) ==
    /\ wpc[w] = "beating"
    /\ Emit(w, "heartbeat", 0,
            IF wstep[w] % Cadence = 0 \/ wstep[w] = TrainingSteps
            THEN "saving" ELSE "rechecking")
    /\ UNCHANGED <<response, markers, wstep, wresult, hostVars, request>>

\* and, on the cadence and at the last step, a staged checkpoint.
SaveCheckpoint(w) ==
    /\ wpc[w] = "saving"
    /\ Emit(w, "checkpoint", wstep[w], "rechecking")
    /\ UNCHANGED <<response, markers, wstep, wresult, hostVars, request>>

\* Bottom of the loop: only the interrupt marker is looked at again.
Recheck(w) ==
    /\ wpc[w] = "rechecking"
    /\ CASE "interrupt" \in markers -> Conclude(w, "interrupted")
         [] wstep[w] >= TrainingSteps /\ "interrupt" \notin markers ->
              Conclude(w, "completed")
         [] OTHER -> wpc' = [wpc EXCEPT ![w] = "checking"] /\ UNCHANGED wresult
    /\ UNCHANGED <<files, wctl, wseq, wstep, hostVars, request>>

\* The operation itself fails (model, staging, memory): _record_failure.
OperationFails(w) ==
    /\ wpc[w] \in {"checking", "asking", "measuring", "saving", "rechecking", "responding"}
    /\ faults < MaxFaults
    /\ faults' = faults + 1
    /\ wpc' = [wpc EXCEPT ![w] = "failing"]
    /\ UNCHANGED <<ledger, response, markers, wctl, wseq, wstep, wresult, hostVars, request>>

\* write_worker_response: the response comes before the terminal message; one
\* that is already there with another status, or naming other output bytes,
\* raises.
WriteResponse(w) ==
    /\ wpc[w] = "responding"
    /\ \/ /\ response \in {"none", wresult[w]}
          /\ response' = wresult[w]
          /\ wpc' = [wpc EXCEPT ![w] =
                       IF wresult[w] = "completed" THEN "bundling" ELSE "ending"]
       \/ /\ response # "none"
          /\ response = wresult[w] => response \in {"completed", "interrupted"}
          /\ wpc' = [wpc EXCEPT ![w] = "failing"]
          /\ UNCHANGED response
    /\ UNCHANGED <<ledger, markers, faults, wctl, wseq, wstep, wresult, hostVars, request>>

EmitArtifact(w) ==
    /\ wpc[w] = "bundling"
    /\ Emit(w, "artifact_ready", 1, "ending")
    /\ UNCHANGED <<response, markers, wstep, wresult, hostVars, request>>

EmitTerminal(w) ==
    /\ wpc[w] = "ending"
    /\ Emit(w, wresult[w], 0, "exited")
    /\ UNCHANGED <<response, markers, wstep, wresult, hostVars, request>>

\* Mutant: the failed message follows whatever response there is.
RecordFailureAnyway(w) ==
    /\ wpc[w] = "failing"
    /\ response' = IF response = "none" THEN "failed" ELSE response
    /\ wpc' = [wpc EXCEPT ![w] = "reporting"]
    /\ UNCHANGED <<ledger, markers, faults, wctl, wseq, wstep, wresult, hostVars, request>>

\* _record_failure: a failed response, then a failed message; if either cannot
\* be written the worker gives up silently.  It exits with 0 all the same.
RecordFailure(w) ==
    /\ wpc[w] = "failing"
    /\ \/ /\ response \in {"none", "failed"}
          /\ response' = "failed"
          /\ wpc' = [wpc EXCEPT ![w] = "reporting"]
       \/ /\ response # "none"
          /\ wpc' = [wpc EXCEPT ![w] = "exited"]
          /\ UNCHANGED response
    /\ UNCHANGED <<ledger, markers, faults, wctl, wseq, wstep, wresult, hostVars, request>>

ReportFailure(w) ==
    /\ wpc[w] = "reporting"
    /\ EmitOr(w, "failed", 0, "exited", "exited")
    /\ UNCHANGED <<response, markers, wstep, wresult, hostVars, request>>

Running(w) == wpc[w] \notin {"unborn", "exited", "dead"}

WorkerDies(w) ==
    /\ Running(w)
    /\ wpc' = [wpc EXCEPT ![w] = "dead"]
    /\ UNCHANGED <<files, wctl, wseq, wstep, wresult, hostVars, request>>

WorkerStep(w) ==
    \/ WorkerLaunched(w) \/ CheckInterrupt(w) \/ AcknowledgeCancel(w)
    \/ TrainStep(w) \/ EmitMetric(w) \/ EmitHeartbeat(w) \/ SaveCheckpoint(w)
    \/ Recheck(w)
    \/ WriteResponse(w) \/ EmitArtifact(w) \/ EmitTerminal(w)
    \/ RecordFailure(w) \/ ReportFailure(w)
-----------------------------------------------------------------------------
(* The host                                                                *)

HostAt(h, label) == hpc[h] = label
HostTo(h, label) == hpc' = [hpc EXCEPT ![h] = label]

Returns(h, how) == HostTo(h, "idle") /\ outcome' = [outcome EXCEPT ![h] = how]

\* The step the caller learned from the metrics handed to it.
StepIn(messages) ==
    LET metrics == {i \in DOMAIN messages : messages[i].kind = "metric"}
    IN IF metrics = {} THEN 0 ELSE messages[Max(metrics)].value

\* Mutant: every round starts again with the first message.
DeliverAll(h, messages) ==
    /\ delivered' = [delivered EXCEPT ![h] = @ \o messages]
    /\ current' = [current EXCEPT ![h] = StepIn(messages)]

\* One reading of the message files hands the caller what comes after the
\* messages it was given already.
Deliver(h, messages) ==
    /\ delivered' = [delivered EXCEPT ![h] =
                       @ \o SubSeq(messages, Len(@) + 1, Len(messages))]
    /\ current' = [current EXCEPT ![h] = StepIn(delivered'[h])]

\* The caller's handler raises on one of the messages it was not given yet.
HandlerRaises(h, messages) ==
    /\ \E n \in Len(delivered[h]) .. Len(messages) - 1 :
         Deliver(h, SubSeq(messages, 1, n))
    /\ Returns(h, "callback_failed")

\* launch(): reads the messages an earlier launch may have left,
Launch(h) ==
    /\ HostAt(h, "idle") /\ launches[h] < MaxLaunches
    /\ launches' = [launches EXCEPT ![h] = @ + 1]
    /\ timedOut' = [timedOut EXCEPT ![h] = FALSE]
    /\ delivered' = [delivered EXCEPT ![h] = <<>>]
    /\ current' = [current EXCEPT ![h] = 0]
    /\ seen' = [seen EXCEPT ![h] = InOrder(ledger)]
    /\ IF Readable(ledger) THEN HostTo(h, "opening") /\ UNCHANGED outcome
                           ELSE Returns(h, "ledger_invalid")
    /\ UNCHANGED <<files, workerVars, child, request>>

\* then looks for a response: with one, the messages must prove it and it is
\* reused; messages without one are replayed to the caller as an interrupted
\* attempt (worker_reconciliation_required).
Reopen(h) ==
    /\ HostAt(h, "opening")
    /\ \/ /\ response # "none" /\ TerminalEvidence(response, seen[h])
          /\ Deliver(h, seen[h]) /\ Returns(h, response)
       \/ /\ response # "none" /\ ~TerminalEvidence(response, seen[h])
          /\ Returns(h, "evidence_invalid") /\ UNCHANGED <<delivered, current>>
       \/ /\ response = "none" /\ seen[h] # <<>>
          /\ Deliver(h, seen[h]) /\ Returns(h, "reconciliation")
       \/ /\ seen[h] # <<>>
          /\ response # "none" => TerminalEvidence(response, seen[h])
          /\ HandlerRaises(h, seen[h])
    /\ UNCHANGED <<files, workerVars, child, seen, timedOut, launches, request>>

\* With neither, a worker process is spawned.
Spawn(h) ==
    /\ HostAt(h, "opening") /\ response = "none" /\ seen[h] = <<>>
    /\ \E w \in Worker :
         /\ wpc[w] = "unborn" /\ \A v \in 1 .. w - 1 : wpc[v] # "unborn"
         /\ wpc' = [wpc EXCEPT ![w] = "launching"]
         /\ child' = [child EXCEPT ![h] = w]
    /\ HostTo(h, "polling")
    /\ UNCHANGED <<files, wctl, wseq, wstep, wresult, delivered, seen, current,
                   timedOut, launches, outcome, request>>

\* A round of the polling loop hands new messages over,
Poll(h) ==
    /\ HostAt(h, "polling") /\ Running(child[h]) /\ Readable(ledger)
    /\ Deliver(h, InOrder(ledger))
    /\ HostTo(h, "controlling")
    /\ UNCHANGED <<files, workerVars, child, seen, timedOut, launches, outcome, request>>

\* then asks the caller about cancellation and about interruption; both
\* answers compare for equality with the step the caller knows by now.
RequestCancel(h) ==
    /\ HostAt(h, "controlling") /\ HostTo(h, "clocking")
    /\ markers' = IF cancelAt # 0 /\ cancelAt = current[h]
                  THEN markers \cup {"cancel"} ELSE markers
    /\ UNCHANGED <<ledger, response, faults, workerVars, child, delivered, seen,
                   current, timedOut, launches, outcome, request>>

RequestInterrupt(h) ==
    /\ HostAt(h, "clocking") /\ HostTo(h, "polling")
    /\ markers' = IF interruptAt # 0 /\ interruptAt = current[h]
                  THEN markers \cup {"interrupt"} ELSE markers
    /\ UNCHANGED <<ledger, response, faults, workerVars, child, delivered, seen,
                   current, timedOut, launches, outcome, request>>

\* The time is up at the end of a round: interrupt marker, grace period.
Timeout(h) ==
    /\ HostAt(h, "clocking") /\ HostTo(h, "waiting")
    /\ timedOut' = [timedOut EXCEPT ![h] = TRUE]
    /\ markers' = markers \cup {"interrupt"}
    /\ UNCHANGED <<ledger, response, faults, workerVars, child, delivered, seen,
                   current, launches, outcome, request>>

\* Killing a process may come too late for it: it may also run on.
Kill(w) == wpc' \in {wpc, IF Running(w) THEN [wpc EXCEPT ![w] = "dead"] ELSE wpc}

\* The caller's handler raises after some of the new messages, or the ledger
\* cannot be read: the worker is told to stop and terminated.
PollAborts(h) ==
    /\ HostAt(h, "polling") /\ Running(child[h])
    /\ \/ Readable(ledger) /\ HandlerRaises(h, InOrder(ledger))
       \/ /\ ~Readable(ledger) /\ UNCHANGED <<delivered, current>>
          /\ Returns(h, "ledger_invalid")
    /\ markers' = markers \cup {"interrupt"}
    /\ Kill(child[h])
    /\ UNCHANGED <<ledger, response, faults, wctl, wseq, wstep, wresult, child,
                   seen, timedOut, launches, request>>

\* Mutant: after the grace period the host goes on waiting.
WaitEndsPatiently(h) ==
    /\ hpc[h] \in {"polling", "waiting"} /\ ~Running(child[h])
    /\ HostTo(h, "collecting")
    /\ UNCHANGED <<files, workerVars, child, delivered, seen, current, timedOut,
                   launches, outcome, request>>

\* The worker is gone, or the grace period is over and it is terminated.
WaitEnds(h) ==
    /\ \/ HostAt(h, "polling") /\ ~Running(child[h]) /\ UNCHANGED wpc
       \/ HostAt(h, "waiting") /\ Kill(child[h])
    /\ HostTo(h, "collecting")
    /\ UNCHANGED <<files, wctl, wseq, wstep, wresult, child, delivered, seen,
                   current, timedOut, launches, outcome, request>>

\* A last reading hands over the rest,
Collect(h) ==
    /\ HostAt(h, "collecting")
    /\ \/ /\ Readable(ledger)
          /\ Deliver(h, InOrder(ledger))
          /\ seen' = [seen EXCEPT ![h] = InOrder(ledger)]
          /\ HostTo(h, "judging") /\ UNCHANGED outcome
       \/ /\ Readable(ledger) /\ HandlerRaises(h, InOrder(ledger))
          /\ UNCHANGED seen
       \/ /\ ~Readable(ledger)
          /\ Returns(h, "ledger_invalid") /\ UNCHANGED <<delivered, current, seen>>
    /\ UNCHANGED <<files, workerVars, child, timedOut, launches, request>>

\* Mutant: a response from a worker that exited is believed.
JudgeByExit(h) ==
    /\ HostAt(h, "judging")
    /\ Returns(h, IF response = "none" THEN "disconnected" ELSE response)
    /\ UNCHANGED <<files, workerVars, child, delivered, seen, current, timedOut,
                   launches, request>>

\* and the response is believed only from a worker that exited by itself, in
\* time, and whose messages prove it.
Judge(h) ==
    /\ HostAt(h, "judging")
    /\ \/ timedOut[h] /\ Returns(h, "timeout")
       \/ /\ ~timedOut[h] /\ (wpc[child[h]] # "exited" \/ response = "none")
          /\ Returns(h, "disconnected")
       \/ /\ ~timedOut[h] /\ wpc[child[h]] = "exited" /\ response # "none"
          /\ Returns(h, IF TerminalEvidence(response, seen[h]) THEN response
                                                               ELSE "evidence_invalid")
    /\ UNCHANGED <<files, workerVars, child, delivered, seen, current, timedOut,
                   launches, request>>

\* The host process dies; its worker runs on.
HostDies(h) ==
    /\ hpc[h] # "idle"
    /\ Returns(h, "died")
    /\ UNCHANGED <<files, workerVars, child, delivered, seen, current, timedOut,
                   launches, request>>

-----------------------------------------------------------------------------

Next ==
    \/ \E w \in Worker : WorkerStep(w) \/ OperationFails(w) \/ WorkerDies(w)
    \/ \E h \in Host :
         \/ Launch(h) \/ Reopen(h) \/ Spawn(h) \/ Poll(h) \/ RequestCancel(h)
         \/ RequestInterrupt(h) \/ PollAborts(h) \/ Timeout(h) \/ WaitEnds(h) \/ Collect(h) \/ Judge(h) \/ HostDies(h)

\* The host keeps executing, and the clock runs: of infinitely many rounds one
\* ends after timeout_seconds (strong fairness, as every other round leaves the
\* test), and a grace period ends.  A worker may hang anywhere; nothing makes a
\* caller launch or anything fail.
Fairness ==
    \A h \in Host :
         /\ WF_vars(Reopen(h) \/ Spawn(h))
         /\ WF_vars(Poll(h) \/ PollAborts(h) \/ RequestCancel(h) \/ RequestInterrupt(h))
         /\ SF_vars(Timeout(h))
         /\ WF_vars(WaitEnds(h) \/ Collect(h) \/ Judge(h))

Spec == Init /\ [][Next]_vars /\ Fairness

-----------------------------------------------------------------------------
(* Properties                                                              *)

\* A host reports a completed worker only if the files prove the whole story:
\* every message handed over, all steps trained, an artifact announced, no
\* cancellation acknowledged on the way.
NoFalseCompletion ==
    \A h \in Host : outcome[h] = "completed" /\ hpc[h] = "idle" =>
        /\ delivered[h] = InOrder(ledger)
        /\ Len(delivered[h]) > 1
        /\ delivered[h][Len(delivered[h])].kind = "completed"
        /\ delivered[h][Len(delivered[h]) - 1].kind = "artifact_ready"
        /\ StepIn(delivered[h]) = TrainingSteps
        /\ ~\E m \in ledger : m.kind = "cancellation_requested"

\* The caller is handed the durable messages in order, none twice, none left
\* out, whatever the host read meanwhile.
DeliveredInOrder ==
    \A h \in Host : IsPrefix(delivered[h], InOrder(ledger))

\* A terminal message is on disk only with a response of the same status, and
\* no worker, however late, adds one of another status.
TerminalMatchesResponse ==
    \A m \in ledger : m.kind \in TerminalKind => response = m.kind

Spawned == {w \in Worker : wpc[w] # "unborn"}

\* Evidence a launch believed stays what every later reader finds, whatever a
\* worker whose host has died still writes.  (With two workers it does not: the
\* one that is ahead may add a second failed message.)
EvidenceEndures ==
    \A h \in Host : outcome[h] \in Status /\ Cardinality(Spawned) <= 1 =>
        /\ response = outcome[h]
        /\ Readable(ledger) /\ TerminalEvidence(response, InOrder(ledger))

\* A launch returns, wherever its worker hangs.
LaunchReturns == \A h \in Host : ~HostAt(h, "idle") ~> HostAt(h, "idle")

=============================================================================
