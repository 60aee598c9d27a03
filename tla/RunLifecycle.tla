---------------------------- MODULE RunLifecycle ----------------------------
(***************************************************************************)
(* What RunService.status and the store tell about runs, without the       *)
(* events, files and failures behind it: a run is prepared, launched once, *)
(* and ends once; it may resume a run that ended interrupted; it completes *)
(* only after its artifact was admitted, and an artifact id is admitted    *)
(* for one run.  RunService implements it.                                 *)
(***************************************************************************)
CONSTANTS
    Run,         \* run ids
    NoRun,       \* the lineage of a first attempt
    ArtifactId   \* artifact ids

VARIABLES
    status,      \* what status(run_id) answers
    lineage,     \* the interrupted run each launched run resumes
    admitted     \* pairs of an artifact id and its producing run

vars == <<status, lineage, admitted>>

Ended == {"run_completed", "run_cancelled", "run_interrupted", "run_failed"}

Init ==
    /\ status = [r \in Run |-> "not_found"]
    /\ lineage = [r \in Run |-> NoRun]
    /\ admitted = {}

Becomes(r, s) == status' = [status EXCEPT ![r] = s]

Prepare(r) ==
    /\ status[r] = "not_found" /\ Becomes(r, "incomplete")
    /\ UNCHANGED <<lineage, admitted>>

Block(r) ==
    /\ status[r] = "not_found" /\ Becomes(r, "run_preflight_blocked")
    /\ UNCHANGED <<lineage, admitted>>

\* A first attempt, or the recovery of another run that was interrupted.
Launch(r) ==
    /\ status[r] = "incomplete" /\ Becomes(r, "running")
    /\ \E p \in {NoRun} \cup {q \in Run : status[q] \in {"run_interrupted", "conflict"}} :
          lineage' = [lineage EXCEPT ![r] = p]
    /\ UNCHANGED admitted

Admit(r, a) ==
    /\ status[r] = "running"
    /\ \A x \in admitted : x[1] # a /\ x[2] # r
    /\ admitted' = admitted \cup {<<a, r>>}
    /\ UNCHANGED <<status, lineage>>

End(r) ==
    /\ status[r] = "running"
    /\ \E s \in Ended :
         /\ s = "run_completed" => \E x \in admitted : x[2] = r
         /\ Becomes(r, s)
    /\ UNCHANGED <<lineage, admitted>>

\* run_terminal_evidence_conflict: the end was written, and its writer was
\* told it was not.
Conflict(r) ==
    /\ status[r] \in Ended /\ Becomes(r, "conflict")
    /\ UNCHANGED <<lineage, admitted>>

Next ==
    \E r \in Run :
       \/ Prepare(r) \/ Block(r) \/ Launch(r) \/ End(r) \/ Conflict(r)
       \/ \E a \in ArtifactId : Admit(r, a)

Spec == Init /\ [][Next]_vars
=============================================================================
