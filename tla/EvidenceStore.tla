---------------------------- MODULE EvidenceStore ----------------------------
(***************************************************************************)
(* The typed evidence store (store/evidence.py, app_services/_records.py)  *)
(* under the calls of several services of one project.  A service checks   *)
(* its request, writes records one file at a time, appends one event and   *)
(* verifies the whole store; nothing locks the store between these steps   *)
(* and a process may die after any of them.                                *)
(*                                                                         *)
(* A record is its own identity: [type, id, refs, body], where refs are    *)
(* the records it refers to or embeds and body is the rest of its payload. *)
(* Files are write-once, so records and events only grow.  Paths, unsafe   *)
(* entries, canonical JSON, redaction and bundle manifests are left out.   *)
(* The handlers that make the requests are the modules that extend this    *)
(* one.  Hardware profiles, which no service writes here, are left out.    *)
(***************************************************************************)
EXTENDS Naturals, Sequences, FiniteSets, SequencesExt

CONSTANTS
    Service,    \* processes that call a service
    Stream,     \* names of the event streams
    MaxCalls    \* bound: calls of all processes

ASSUME CallsAssumption == MaxCalls \in Nat

VARIABLES
    records,        \* the records of .temper/immutable/records
    events,         \* the event streams: name to sequence of events
    call,           \* what each process is doing
    calls,          \* calls made
    acknowledged    \* records whose call has returned

storeVars == <<records, events, call, calls, acknowledged>>

\* The core record types in the order in which a scan lists them.
Types == <<"adapter_export", "artifact", "artifact_availability",
    "base_model_revision", "baseline_policy", "compatibility_group",
    "dataset_version", "evaluation_result", "evaluation_suite",
    "execution_target", "experiment", "experiment_derivation",
    "hardware_requirements", "local_use_session", "manifest_diff", "project",
    "project_policy", "recipe", "recipe_resolution", "recommendation",
    "recommendation_policy", "resolved_runtime_request", "review", "run",
    "task_definition", "user_decision">>

Place(r) == CHOOSE i \in DOMAIN Types : Types[i] = r.type

NoEvent == [stream |-> "none", kind |-> "none", id |-> "none", payload |-> {}]

Outcome(stream, kind, id, payload) ==
    [stream |-> stream, kind |-> kind, id |-> id, payload |-> payload]

\* pc: where the call is; todo: the records still to write; proposed: those a
\* candidate graph adds; single: the records that must be the only revision of
\* their logical id; settle: the successor whose lineage is read again after
\* the write; event: the event to append; seen: the store when its verification
\* began; result: what the call returns.
Idle == [pc |-> "idle", todo |-> <<>>, proposed |-> {}, single |-> {}, settle |-> {},
         event |-> NoEvent, seen |-> {}, result |-> {}]

Request(pc, todo, single, event) ==
    [Idle EXCEPT !.pc = pc, !.todo = todo, !.single = single, !.event = event,
                 !.result = IF todo = <<>> THEN {} ELSE {Last(todo)}]

-----------------------------------------------------------------------------

Closed(R) == \A r \in R : r.refs \subseteq R

Conflicting(r) ==
    \E s \in records : s.type = r.type /\ s.id = r.id /\ s # r

At(s, pc) == call[s].pc = pc

CanCall(s) == At(s, "idle") /\ calls < MaxCalls

\* A handler's first step, after what it reads and refuses.
Called(s, c) ==
    /\ call' = [call EXCEPT ![s] = c]
    /\ calls' = calls + 1
    /\ UNCHANGED <<records, events, acknowledged>>

Moves(s, c) == call' = [call EXCEPT ![s] = c]

Ends(s) == Moves(s, Idle)

\* require_no_conflicting_logical_revision() of each record of the call.
CheckRevisions(s) ==
    /\ At(s, "check")
    /\ IF \E r \in call[s].single : Conflicting(r)
       THEN Ends(s)
       ELSE Moves(s, [call[s] EXCEPT
                !.pc = IF call[s].proposed # {} THEN "graph" ELSE "write"])
    /\ UNCHANGED <<records, events, calls, acknowledged>>

AfterWrites(c) == IF c.settle # {} THEN "settle" ELSE "append"

\* write_record(): a file is created once; the same bytes again are kept.
Written(r) == records \cup {r}

\* Mutant: the event is appended before the rest of the records is written.
WriteRecordThenAppend(s) ==
    /\ At(s, "write") /\ call[s].todo # <<>>
    /\ records' = Written(Head(call[s].todo))
    /\ Moves(s, [call[s] EXCEPT !.todo = Tail(@), !.pc = AfterWrites(call[s])])
    /\ UNCHANGED <<events, calls, acknowledged>>

\* write_record_idempotently(): an identical record is taken as written.
WriteRecord(s) ==
    /\ At(s, "write") /\ call[s].todo # <<>>
    /\ LET rest == Tail(call[s].todo) IN
       /\ records' = Written(Head(call[s].todo))
       /\ Moves(s, [call[s] EXCEPT !.todo = rest,
                        !.pc = IF rest = <<>> THEN AfterWrites(call[s]) ELSE @])
    /\ UNCHANGED <<events, calls, acknowledged>>

\* The event of the stream that has the key <<kind, id>> of this one.
Held(e) ==
    {x \in UNION {ToSet(events[n]) : n \in Stream \cap {e.stream}} :
        x.kind = e.kind /\ x.id = e.id}

Appended(e) == [events EXCEPT ![e.stream] = Append(@, e)]

\* Mutant: a key that is there is taken as appended, whatever it carries.
AppendByKey(s) ==
    LET e == call[s].event IN
    /\ At(s, "append")
    /\ IF e.kind = "none" \/ Held(e) # {} THEN UNCHANGED events ELSE events' = Appended(e)
    /\ Moves(s, [call[s] EXCEPT !.pc = "verify"])
    /\ UNCHANGED <<records, calls, acknowledged>>

\* Mutant: what a retry appends is not looked for.
AppendAgain(s) ==
    LET e == call[s].event IN
    /\ At(s, "append")
    /\ IF e.kind = "none" THEN UNCHANGED events ELSE events' = Appended(e)
    /\ Moves(s, [call[s] EXCEPT !.pc = "verify"])
    /\ UNCHANGED <<records, calls, acknowledged>>

\* append_event(): the same key and payload again is the event that is there;
\* another payload under the key is refused.
AppendEvent(s) ==
    LET e == call[s].event IN
    /\ At(s, "append")
    /\ IF e.kind = "none" \/ Held(e) # {} THEN UNCHANGED events ELSE events' = Appended(e)
    /\ IF Held(e) \ {e} # {} THEN Ends(s)
       ELSE Moves(s, [call[s] EXCEPT !.pc = "verify"])
    /\ UNCHANGED <<records, calls, acknowledged>>

\* verify() lists one record type after the other.
StartVerify(s) ==
    /\ At(s, "verify")
    /\ Moves(s, [call[s] EXCEPT !.pc = "verifying", !.seen = records])
    /\ UNCHANGED <<records, events, calls, acknowledged>>

\* What the scan can have read: types before i as they were at its start, the
\* later ones as they are now, if their directory was there when it began.
Scanned(s, i) ==
    LET seen == call[s].seen IN
    {r \in records :
        IF Place(r) < i THEN r \in seen ELSE \E q \in seen : q.type = r.type}

Scans(s) == {Scanned(s, i) : i \in {1} \cup {Place(r) + 1 : r \in call[s].seen}}

Acknowledge(s) ==
    /\ At(s, "verifying") /\ \E R \in Scans(s) : Closed(R)
    /\ acknowledged' = acknowledged \cup call[s].result
    /\ Ends(s) /\ UNCHANGED <<records, events, calls>>

\* Another process is creating a file: its directory may be half made, and the
\* temporary name may vanish between the listing and the look at it.
Writing(s) == \E o \in Service \ {s} : call[o].pc \in {"write", "append"}

\* iter_records() or iter_streams() refuses: EvidenceCorrupt ends the call.
ScanRefused(s) ==
    /\ call[s].pc \in {"check", "graph", "write", "settle", "verifying"}
    /\ \/ Writing(s)
       \/ At(s, "verifying") /\ \E R \in Scans(s) : ~Closed(R)
    /\ Ends(s) /\ UNCHANGED <<records, events, calls, acknowledged>>

Crash(s) ==
    /\ ~At(s, "idle")
    /\ Ends(s) /\ UNCHANGED <<records, events, calls, acknowledged>>

StoreStep(s) ==
    \/ CheckRevisions(s) \/ WriteRecord(s) \/ AppendEvent(s)
    \/ StartVerify(s) \/ Acknowledge(s) \/ ScanRefused(s) \/ Crash(s)

=============================================================================
