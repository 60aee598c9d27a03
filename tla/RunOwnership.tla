---------------------------- MODULE RunOwnership ----------------------------
(***************************************************************************)
(* Which process may launch a run (runtime/ownership.py, and RunService's   *)
(* _launch, _assert_unused_run_id and _resolve_run_ownership around it).    *)
(*                                                                         *)
(* Several service processes may be asked to launch the same run id.  Each *)
(* attempt writes an immutable claim.json (or finds an equal one), takes   *)
(* lease.lock without waiting, checks resolved.json, and only then checks  *)
(* that the run id is unused, freezes its records, appends run_launched    *)
(* and works until a terminal event.  On the way out it writes             *)
(* resolved.json if nothing was launched or exactly one terminal event is  *)
(* the last one.  A process may die anywhere; the kernel drops its lock,   *)
(* the files stay.                                                         *)
(*                                                                         *)
(* The run's event stream is kept as the sequence of its events' roles;    *)
(* each is stamped with the attempt that appended it.                      *)
(***************************************************************************)
EXTENDS Naturals, Sequences, FiniteSets

CONSTANTS
    Proc,         \* service processes asked to launch this run id
    Claim,        \* claim identities: what exactly an attempt would launch
    NoProc,       \* nobody holds the lease
    NoClaim,      \* the file does not exist
    MaxAttempts,  \* bound: launch attempts of each process
    MaxOutput     \* bound: events between run_launched and the terminal event

ASSUME NoProcAssumption == NoProc \notin Proc
ASSUME NoClaimAssumption == NoClaim \notin Claim
ASSUME BoundsAssumption == MaxAttempts \in Nat /\ MaxOutput \in Nat

VARIABLES
    claimFile,   \* content of claim.json
    resolution,  \* content of resolved.json
    lease,       \* process holding the lock on lease.lock
    stream,      \* the run's events, oldest first
    recorded,    \* Run records with this run id in the store, by the attempt
    pc,          \* where each process is in its attempt
    mine,        \* the claim identity of the process's attempt
    created,     \* processes whose attempt wrote claim.json (claim_created)
    attempt      \* attempts begun by each process

vars == <<claimFile, resolution, lease, stream, recorded, pc, mine, created, attempt>>

files == <<claimFile, resolution, stream, recorded>>

\* preflight: any event before run_launched; output: any event after it that
\* is not terminal; terminal: run_completed, run_cancelled, run_interrupted or
\* run_failed.
Role == {"preflight", "launched", "output", "terminal"}
RunEvent == [role : Role, by : Proc \X Nat]

PC == {"idle", "claimed", "locked", "checking", "preparing", "launching",
       "running", "failing", "resolving", "releasing"}

\* The attempt holds the lease from a successful flock to the unlock.
Holding == {"locked", "checking", "preparing", "launching", "running",
            "failing", "resolving", "releasing"}

Event(p, r) == [role |-> r, by |-> <<p, attempt[p]>>]

Count(r) == Cardinality({i \in DOMAIN stream : stream[i].role = r})

-----------------------------------------------------------------------------

Init ==
    /\ claimFile = NoClaim /\ resolution = NoClaim /\ lease = NoProc
    /\ stream = <<>> /\ recorded = {}
    /\ pc = [p \in Proc |-> "idle"]
    /\ mine \in [Proc -> Claim]
    /\ created = {}
    /\ attempt = [p \in Proc |-> 0]

Goto(p, label) == pc' = [pc EXCEPT ![p] = label]

Begin(p, c) ==
    /\ pc[p] = "idle" /\ attempt[p] < MaxAttempts
    /\ attempt' = [attempt EXCEPT ![p] = @ + 1]
    /\ mine' = [mine EXCEPT ![p] = c]
    /\ created' = IF claimFile = NoClaim THEN created \cup {p} ELSE created \ {p}
    /\ UNCHANGED <<resolution, lease, stream, recorded>>

\* An attempt begins with the write-once claim: it creates claim.json, or
\* goes on because the file has the same content.  A directory sync that
\* fails after the commit raises run_ownership_unavailable.
WriteClaim(p) ==
    \E c \in Claim :
        /\ claimFile \in {NoClaim, c}
        /\ Begin(p, c)
        /\ claimFile' = c
        /\ Goto(p, "claimed") \/ (claimFile = NoClaim /\ Goto(p, "idle"))

\* claim.json names another claim: run_ownership_claim_conflict.
ClaimConflict(p) ==
    \E c \in Claim :
        /\ claimFile \notin {NoClaim, c}
        /\ Begin(p, c)
        /\ UNCHANGED <<claimFile, pc>>

\* flock(LOCK_EX | LOCK_NB): taken, or run_ownership_unavailable at once.
TryLock(p) ==
    /\ pc[p] = "claimed"
    /\ IF lease = NoProc THEN lease' = p /\ Goto(p, "locked")
                         ELSE lease' = lease /\ Goto(p, "idle")
    /\ UNCHANGED <<files, mine, created, attempt>>

Unlock(p) == lease' = NoProc /\ Goto(p, "idle")

\* Mutant: a missing resolution will do.
CheckResolutionLoosely(p) ==
    /\ pc[p] = "locked"
    /\ IF resolution \in {NoClaim, mine[p]}
       THEN Goto(p, "checking") /\ UNCHANGED lease
       ELSE Unlock(p)
    /\ UNCHANGED <<files, mine, created, attempt>>

\* Mutant: a refused attempt keeps the lease.
CheckResolutionLocked(p) ==
    /\ pc[p] = "locked"
    /\ IF resolution = (IF p \in created THEN NoClaim ELSE mine[p])
       THEN Goto(p, "checking") ELSE Goto(p, "idle")
    /\ UNCHANGED <<files, lease, mine, created, attempt>>

\* A fresh claim must not be resolved yet, an existing one must be resolved
\* for exactly this claim; otherwise the lease is dropped with
\* run_ownership_unresolved or run_ownership_resolution_conflict.
CheckResolution(p) ==
    /\ pc[p] = "locked"
    /\ IF resolution = (IF p \in created THEN NoClaim ELSE mine[p])
       THEN Goto(p, "checking") /\ UNCHANGED lease
       ELSE Unlock(p)
    /\ UNCHANGED <<files, mine, created, attempt>>

\* Mutant: a resolved claim is taken for an unused run id.
AssertUnusedSkipped(p) ==
    /\ pc[p] = "checking"
    /\ Goto(p, "preparing")
    /\ UNCHANGED <<files, lease, mine, created, attempt>>

\* _assert_unused_run_id: no event and no Run record; run_id_already_used (or
\* a failed read of either) leaves through the resolution step.
AssertUnused(p) ==
    /\ pc[p] = "checking"
    /\ \/ stream = <<>> /\ recorded = {} /\ Goto(p, "preparing")
       \/ Goto(p, "resolving")
    /\ UNCHANGED <<files, lease, mine, created, attempt>>

\* An append commits and returns, or commits and raises, or only raises.
Appends(p, r) == stream' = Append(stream, Event(p, r))

\* Launch graph, preflight and record validation: any refusal, before or
\* after the preflight-blocked event, raises.
Refused(p) ==
    /\ pc[p] = "preparing"
    /\ Appends(p, "preflight") \/ UNCHANGED stream
    /\ Goto(p, "resolving")
    /\ UNCHANGED <<claimFile, resolution, lease, recorded, mine, created, attempt>>

\* _persist_launch_records: the Run record is written last; a failure may
\* come after it.
PersistRecords(p) ==
    /\ pc[p] = "preparing"
    /\ recorded' = recorded \cup {<<p, attempt[p]>>}
    /\ Goto(p, "launching") \/ Goto(p, "resolving")
    /\ UNCHANGED <<claimFile, resolution, lease, stream, mine, created, attempt>>

\* run_preflight_succeeded, runtime_request_frozen (and run_recovered) in one
\* step; an append that raises ends the attempt, with the event or without.
AppendPreflight(p) ==
    /\ pc[p] = "launching" /\ stream = <<>>
    /\ \/ Appends(p, "preflight") /\ (Goto(p, "launching") \/ Goto(p, "resolving"))
       \/ UNCHANGED stream /\ Goto(p, "resolving")
    /\ UNCHANGED <<claimFile, resolution, lease, recorded, mine, created, attempt>>

\* run_launched.  If the append raises although the event is durable and the
\* reread fails too, the attempt ends without a terminal event.
AppendLaunched(p) ==
    /\ pc[p] = "launching" /\ stream # <<>>
    /\ \/ Appends(p, "launched") /\ (Goto(p, "running") \/ Goto(p, "resolving"))
       \/ UNCHANGED stream /\ Goto(p, "resolving")
    /\ UNCHANGED <<claimFile, resolution, lease, recorded, mine, created, attempt>>

\* The adapter works and its evidence is appended.
AppendOutput(p) ==
    /\ pc[p] = "running" /\ Count("output") < MaxOutput
    /\ Appends(p, "output")
    /\ UNCHANGED <<claimFile, resolution, lease, recorded, pc, mine, created, attempt>>

\* run_completed, run_cancelled or run_interrupted; any exception after the
\* launch, a raising terminal append included, goes on to run_failed.
AppendTerminal(p) ==
    /\ pc[p] = "running"
    /\ \/ Appends(p, "terminal") /\ (Goto(p, "resolving") \/ Goto(p, "failing"))
       \/ UNCHANGED stream /\ Goto(p, "failing")
    /\ UNCHANGED <<claimFile, resolution, lease, recorded, mine, created, attempt>>

\* run_failed, appended whatever the stream already holds.
AppendFailed(p) ==
    /\ pc[p] = "failing"
    /\ Appends(p, "terminal") \/ UNCHANGED stream
    /\ Goto(p, "resolving")
    /\ UNCHANGED <<claimFile, resolution, lease, recorded, mine, created, attempt>>

\* Nothing was launched, or one launch ended in one terminal, final event.
Settled ==
    \/ Count("launched") = 0
    \/ /\ Count("launched") = 1
       /\ Count("terminal") = 1
       /\ stream[Len(stream)].role = "terminal"

\* _resolve_run_ownership: resolved.json is written (once) only for a settled
\* stream; a failed read or write leaves it unwritten.
ResolveOwnership(p) ==
    /\ pc[p] = "resolving"
    /\ \/ /\ Settled
          /\ resolution' = IF resolution = NoClaim THEN mine[p] ELSE resolution
       \/ UNCHANGED resolution
    /\ Goto(p, "releasing")
    /\ UNCHANGED <<claimFile, lease, stream, recorded, mine, created, attempt>>

ReleaseLease(p) ==
    /\ pc[p] = "releasing"
    /\ Unlock(p)
    /\ UNCHANGED <<files, mine, created, attempt>>

\* The process dies; a restart is its next attempt.
Crash(p) ==
    /\ pc[p] # "idle"
    /\ Goto(p, "idle")
    /\ lease' = IF lease = p THEN NoProc ELSE lease
    /\ UNCHANGED <<files, mine, created, attempt>>

Step(p) ==
    \/ TryLock(p) \/ CheckResolution(p) \/ AssertUnused(p)
    \/ Refused(p) \/ PersistRecords(p) \/ AppendPreflight(p)
    \/ AppendLaunched(p) \/ AppendOutput(p) \/ AppendTerminal(p)
    \/ AppendFailed(p) \/ ResolveOwnership(p) \/ ReleaseLease(p)

Next == \E p \in Proc : WriteClaim(p) \/ ClaimConflict(p) \/ Step(p) \/ Crash(p)

\* A started attempt runs on until it returns or its process dies.
Fairness == \A p \in Proc : WF_vars(Step(p))

Spec == Init /\ [][Next]_vars /\ Fairness
-----------------------------------------------------------------------------
(* Properties                                                              *)

TypeOK ==
    /\ claimFile \in Claim \cup {NoClaim}
    /\ resolution \in Claim \cup {NoClaim}
    /\ lease \in Proc \cup {NoProc}
    /\ stream \in Seq(RunEvent)
    /\ recorded \subseteq Proc \X Nat
    /\ pc \in [Proc -> PC]
    /\ mine \in [Proc -> Claim]
    /\ created \subseteq Proc
    /\ attempt \in [Proc -> Nat]

\* Between a successful flock and the unlock a process is alone: no two
\* attempts are ever past the lease, whoever crashed before them.
ExclusiveOwner ==
    \A p, q \in Proc : pc[p] \in Holding /\ pc[q] \in Holding => p = q

\* All events of a run come from one attempt: an attempt that finds anything
\* of an earlier one, be it one event or only the Run record, never appends.
OneAuthor == \A i, j \in DOMAIN stream : stream[i].by = stream[j].by

\* The same immutable run is never launched twice, by two services, by a
\* retry after an error, or by a restart after a crash.
LaunchedAtMostOnce == Count("launched") <= 1

\* A claim without resolution that no live attempt can still resolve blocks
\* every later attempt for good: none gets past the lease and none resolves it.
Abandoned ==
    /\ claimFile # NoClaim /\ resolution = NoClaim
    /\ \A p \in Proc :
         /\ pc[p] \in {"claimed", "locked"} => p \notin created
         /\ pc[p] \notin Holding \ {"locked"}

AbandonedStaysBlocked == [][Abandoned => Abandoned']_vars

\* resolved.json appears only for a run that was not launched or has ended.
\* That of a refused attempt may stand over a later launch that crashed: all
\* the same the stream of a launched run, ended or not, never changes again
\* once the launching attempt is past its failure handling, or dead.
ResolvedLaunchIsFinal ==
    [][/\ resolution' # resolution => Settled'
       /\ Count("launched") > 0 /\ (\A p \in Proc : pc[p] \notin {"running", "failing"})
            => stream' = stream]_vars

\* An attempt that got the lease gives it back.
LeaseReleased == \A p \in Proc : lease = p ~> lease # p

=============================================================================
