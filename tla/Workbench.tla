------------------------------ MODULE Workbench ------------------------------
(***************************************************************************)
(* Processes that import datasets, create projects, freeze and clone       *)
(* experiments and use artifacts over one evidence store, at the same time *)
(* and with crashes between any two of their steps.                        *)
(***************************************************************************)
EXTENDS Datasets, Experiments, LocalUse

CONSTANT Seed    \* the records of a project whose run has completed

SeedArtifacts == {r \in Seed : r.type = "artifact"}

Exports == {q.id : q \in {u \in UseRequest : u.kind = "export"}}

\* Nothing was used yet and exports go to directories of their own.
ASSUME SeedAssumption ==
    /\ Closed(Seed)
    /\ \A r \in Seed : r.type \notin {"local_use_session", "adapter_export"}
    /\ \A a \in SeedArtifacts : a.id \notin Exports
ASSUME StreamAssumption ==
    {"project-lifecycle", "experiment-lifecycle", "local-use"} \subseteq Stream

NoBytes == [m \in ToSet(Member) \cup {Manifested} |-> <<>>]

Init ==
    /\ records = Seed /\ acknowledged = Seed
    /\ events = [s \in Stream |-> <<>>]
    /\ call = [s \in Service |-> Idle] /\ calls = 0
    /\ use = [s \in Service |-> NoUse] /\ tampers = 0
    /\ files = [d \in Exports \cup {a.id : a \in SeedArtifacts} |->
           IF d \in Exports THEN NoBytes
           ELSE (CHOOSE a \in SeedArtifacts : a.id = d).body.content]

Request_(s) ==
    \/ \E i \in Import : ImportSource(s, i[1], Rows(i[1]), i[2])
    \/ \E q \in ProjectRequest : CreateProject(s, q)
    \/ \E q \in FreezeRequest : Freeze(s, q)
    \/ \E q \in CloneRequest : Clone(s, q)

Next ==
    \/ \E s \in Service :
           \/ (Request_(s) \/ PrepareGraph(s) \/ StoreStep(s)) /\ UNCHANGED localVars
           \/ \E q \in UseRequest : StartUse(s, q)
           \/ UseStep(s)
    \/ \E a \in SeedArtifacts, m \in ToSet(Member) : Tamper(a, m)

vars == <<storeVars, localVars>>

Spec == Init /\ [][Next]_vars

-----------------------------------------------------------------------------

ClosedButBaselines(R) == \A r \in R : r.type # "baseline_policy" => r.refs \subseteq R

\* Whatever the calls overlap with and wherever they die, a record never refers
\* to one that is not there, so that the store opens again (store/evidence.py:590);
\* but for a baseline fixed to what nobody stored, which create() does not look
\* for.  It is written and the store refuses: no call that returned made a record
\* with such a baseline (app_services/projects.py:63).
RecordsClosed ==
    /\ ClosedButBaselines(records)
    /\ \A r \in acknowledged : \A part \in r.refs : part.refs \subseteq records

\* An event names a record of which every part is in the store, even if the
\* verification after the append refused (store/evidence.py:286).
OutcomesBacked ==
    \A stream \in Stream : \A e \in ToSet(events[stream]) :
        \E r \in records :
            /\ r.id = e.id /\ r.refs \subseteq records
            /\ r.type = CASE e.kind = "project-created" -> "project"
                          [] e.kind = "adapter-export" -> "adapter_export"
                          [] e.kind = "local-use-session" -> "local_use_session"
                          [] OTHER -> "experiment"
            /\ e.payload \subseteq {r}

\* Of two revisions of a session or an export that overlapping calls wrote,
\* only the one the event tells of is acknowledged (app_services/_records.py:48).
OneUseAcknowledged ==
    \A a, b \in acknowledged :
        /\ a.type \in {"local_use_session", "adapter_export"}
        /\ a.type = b.type /\ a.id = b.id
        => a = b

\* Bytes of an adapter that changed after their verification reach no session,
\* and no changed file of an artifact an export, that was recorded.  The
\* configuration a session is inferred under is outside this: it is whatever the
\* second read found (app_services/local_use.py:437, :443, :312).
VerifiedBytesOnly ==
    \A r \in records :
        /\ r.type = "adapter_export" => ExportIntact(r)
        /\ r.type = "local_use_session" =>
               \A a \in {x \in r.refs : x.type = "artifact"} :
                   r.body.adapter = a.body.content["adapter.bin"]

\* The preparations the service makes a version of, and those the record refuses.
Importable == {i \in Source \X Preparation : Accepts(i[1], Rows(i[1]), i[2])}
Versions == {Version(i[1], i[2]).body : i \in Importable}
Refusals == {v \in Versions : ~ValidVersion(v)}

\* What the service prepares for any import that may be asked, the record's own
\* checks never refuse: the two count, order and pair rows alike
\* (app_services/datasets.py:837, domain/datasets.py:467).
PreparedIsValid == (\E s \in Service : CanCall(s)) => Refusals = {}

\* Pairs of versions under one governed configuration that disagree on a text.
Disagreements ==
    {p \in Versions \X Versions :
        LET compared == CompareReimport(p[1], p[2])
        IN  /\ DOMAIN compared.configuration_deltas = {}
            /\ \/ DOMAIN compared.split_changes # {}
               \/ DOMAIN compared.token_count_deltas # {}}

\* A text that two imports accept under the same governed configuration gets the
\* same split and tokens from both, so that a change has a change of
\* configuration to explain it (app_services/datasets.py:749).
ReimportStable == (\E s \in Service : CanCall(s)) => Disagreements = {}

=============================================================================
