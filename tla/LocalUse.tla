------------------------------- MODULE LocalUse -------------------------------
(***************************************************************************)
(* Local use of a trained adapter: app_services/local_use.py with          *)
(* domain/local_use.py and the bundle checks of                            *)
(* runtime/artifact_integrity.py.  The service verifies an artifact, then  *)
(* reads its files again, to infer with them or to copy them into an       *)
(* export, and records a session or an export.                             *)
(*                                                                         *)
(* A file is its bytes.  The files of an artifact may change on disk at    *)
(* any time (MaxTampers bounds how often); an artifact's record says what  *)
(* they held when it was recorded.  Inference, settings and inputs are     *)
(* left out, and so are inspect_artifact() and verify_export(), which only *)
(* report.                                                                 *)
(***************************************************************************)
EXTENDS EvidenceStore

CONSTANTS
    UseRequest,   \* [kind, id, artifact, model, group, target, copied]
    MaxTampers    \* bound: changes to the files of artifacts

\* The records a use is about are of their types.
ASSUME UseAssumption == \A q \in UseRequest :
    /\ DOMAIN q = {"kind", "id", "artifact", "model", "group", "target", "copied"}
    /\ q.artifact.type = "artifact" /\ q.model.type = "base_model_revision"
    /\ q.group.type = "compatibility_group" /\ q.target.type = "execution_target"

VARIABLES
    files,     \* the runtime output: directory to member to bytes
    use,       \* the local use each process is serving
    tampers    \* changes made to files

localVars == <<files, use, tampers>>

\* FIXTURE_ARTIFACT_MEMBERS, which an export copies, and its own manifest.
Member == <<"adapter.bin", "adapter_config.json", "provenance.json">>
Manifested == "integrity-manifest.json"

NoUse == [kind |-> "none"]

-----------------------------------------------------------------------------
(* _verified_artifact()                                                    *)

\* ArtifactIntegrityExpectation and the checks before it.
ContextMatches(q) ==
    LET a == q.artifact
        runs == {r \in a.refs : r.type = "run"}
    IN  /\ {a, q.model, q.group, q.target} \subseteq records
        /\ {q.model, q.group} \subseteq a.refs
        /\ q.group.refs = {q.model}
        /\ q.group.body.tokenizer = q.model.body.tokenizer
        /\ q.target.body.class \in q.group.body.runtime_targets
        /\ \A run \in runs :
               /\ run \in records
               /\ \E request \in records :
                      /\ request.type = "resolved_runtime_request"
                      /\ request = run.body.request
                      /\ request.refs \cap run.refs # {}
                      /\ request.body.dataset \in records

\* _current_availability(): the one that no other supersedes.
Availabilities(a) ==
    {v \in records : v.type = "artifact_availability" /\ a \in v.refs}

Available(a) ==
    LET current == {v \in Availabilities(a) :
                       \A o \in Availabilities(a) : v \notin o.refs}
    IN  /\ Cardinality(current) = 1
        /\ \A v \in current : v.body.state = "available"

\* verify_artifact_bundle(): every member holds what was recorded.
Intact(directory, a) ==
    \A m \in ToSet(Member) : files[directory][m] = a.body.content[m]

Requirements(q) == <<q.artifact.id, q.target.body.class>>

\* A use begins with a verification of the store, which a writer may disturb.
StartUse(s, q) ==
    /\ CanCall(s)
    /\ use' = [use EXCEPT ![s] = q]
    /\ Called(s, Request("context", <<>>, {}, NoEvent))
    /\ UNCHANGED <<files, tampers>>

VerifyArtifact(s) ==
    LET q == use[s] IN
    /\ At(s, "context") /\ Closed(records)
    /\ ContextMatches(q) /\ Available(q.artifact) /\ Intact(q.artifact.id, q.artifact)
    /\ Moves(s, [call[s] EXCEPT !.pc = IF q.kind = "export" THEN "copy" ELSE "infer"])
    /\ UNCHANGED <<records, events, calls, acknowledged, localVars>>

RefuseArtifact(s) ==
    LET q == use[s] IN
    /\ At(s, "context")
    /\ \/ Writing(s)
       \/ ~(Closed(records) /\ ContextMatches(q) /\ Available(q.artifact)
            /\ Intact(q.artifact.id, q.artifact))
    /\ Ends(s)
    /\ UNCHANGED <<records, events, calls, acknowledged, localVars>>

-----------------------------------------------------------------------------
(* _infer()                                                                *)

\* What a session infers is decided by the adapter and by its configuration.
Session(q, bytes, configuration) ==
    [type |-> "local_use_session", id |-> q.id,
     refs |-> {q.artifact, q.model, q.group, q.target},
     body |-> [adapter |-> bytes, configuration |-> configuration]]

\* What is left of the call once the record is made.
Records(s, r, event) ==
    Moves(s, [call[s] EXCEPT !.pc = "check", !.todo = <<r>>, !.single = {r},
                             !.event = event, !.result = {r}])

\* The inference fails, is ephemeral, or is recorded.
Inferred(s, bytes) ==
    LET q == use[s]
        r == Session(q, bytes, files[q.artifact.id]["adapter_config.json"])
    IN  \/ Ends(s)
        \/ /\ q.kind = "session"
           /\ Records(s, r, Outcome("local-use", "local-use-session", r.id, {r}))

\* Mutant: the adapter is read again and not compared again.
InferUnchecked(s) ==
    /\ At(s, "infer")
    /\ Inferred(s, files[use[s].artifact.id]["adapter.bin"])
    /\ UNCHANGED <<records, events, calls, acknowledged, localVars>>

\* The adapter is read again and compared with the verified one.  So is the
\* configuration, and not compared: of another one the checks of infer_verified()
\* may refuse some, and inference goes by the rest.
Infer(s) ==
    LET verified == use[s].artifact.body.content["adapter.bin"] IN
    /\ At(s, "infer")
    /\ IF files[use[s].artifact.id]["adapter.bin"] = verified
       THEN Inferred(s, verified) ELSE Ends(s)
    /\ UNCHANGED <<records, events, calls, acknowledged, localVars>>

-----------------------------------------------------------------------------
(* export()                                                                *)

\* The members in their order, then the manifest of the verified artifact.
NextMember(s) ==
    LET q == use[s]
        missing == SelectSeq(Member, LAMBDA m : m \notin q.copied)
    IN  IF missing = <<>> THEN Manifested ELSE Head(missing)

SourceBytes(q, m) ==
    IF m = Manifested THEN Requirements(q) ELSE <<files[q.artifact.id][m]>>

\* _write_idempotent(): a member is written once; other bytes are a conflict.
CopyMember(s) ==
    LET q == use[s]
        m == NextMember(s)
        there == files[q.id][m]
        bytes == SourceBytes(q, m)
    IN  /\ At(s, "copy")
        /\ files' = IF there = <<>> THEN [files EXCEPT ![q.id][m] = bytes] ELSE files
        /\ IF there \notin {<<>>, bytes} THEN Ends(s) /\ UNCHANGED use
           ELSE IF m = Manifested
                THEN Moves(s, [call[s] EXCEPT !.pc = "bundle"]) /\ UNCHANGED use
           ELSE use' = [use EXCEPT ![s].copied = @ \cup {m}] /\ UNCHANGED call
        /\ UNCHANGED <<records, events, calls, acknowledged, tampers>>

Exported(q) ==
    [type |-> "adapter_export", id |-> q.id, refs |-> {q.artifact, q.group},
     body |-> [requirements |-> Requirements(q)]]

\* verify_export_bundle() of what is on disk now.
ExportIntact(r) ==
    \A a \in {x \in r.refs : x.type = "artifact"} :
        /\ files[r.id][Manifested] = r.body.requirements
        /\ \A m \in ToSet(Member) : files[r.id][m] = <<a.body.content[m]>>

VerifyBundle(s) ==
    LET r == Exported(use[s]) IN
    /\ At(s, "bundle")
    /\ IF ExportIntact(r)
       THEN Records(s, r, Outcome("local-use", "adapter-export", r.id, {r}))
       ELSE Ends(s)
    /\ UNCHANGED <<records, events, calls, acknowledged, localVars>>

-----------------------------------------------------------------------------

\* The files of an artifact change: a bad disk, or a hand.
Tamper(a, m) ==
    /\ tampers < MaxTampers
    /\ tampers' = tampers + 1
    /\ files' = [files EXCEPT ![a.id][m] = "changed"]
    /\ UNCHANGED <<records, events, call, calls, acknowledged, use>>

UseStep(s) ==
    \/ VerifyArtifact(s) \/ RefuseArtifact(s) \/ Infer(s) \/ CopyMember(s)
    \/ VerifyBundle(s)

=============================================================================
