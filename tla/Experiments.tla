----------------------------- MODULE Experiments -----------------------------
(***************************************************************************)
(* Projects and experiments: app_services/projects.py and                  *)
(* app_services/experiments.py with domain/experiments.py.  A project is   *)
(* created from caller-made records; an experiment is frozen with all it   *)
(* depends on; a clone changes some of a parent's manifest and records the *)
(* exact difference.                                                       *)
(*                                                                         *)
(* A record that others name by role is the one of its type among their    *)
(* refs.  A manifest is a function of its fields, a field being the type   *)
(* of a reference or a name of the body; paths inside a field, JSON and    *)
(* canonical equality are left out.                                        *)
(***************************************************************************)
EXTENDS EvidenceStore

CONSTANTS
    ProjectRequest,   \* [task, models, project, baseline, policy]
    FreezeRequest,    \* [id, project, policy, task, dataset, supports]
    CloneRequest      \* [parent, id, derivation, replacements, supports]

\* Requests are typed: tasks, models, recipes, requirements and targets refer to
\* nothing, and nobody brings the record of a local use.
ASSUME ProjectAssumption == \A q \in ProjectRequest :
    /\ q.models \in Seq(ToSet(q.models))
    /\ q.task.type = "task_definition" /\ q.task.refs = {}
    /\ \A m \in ToSet(q.models) : m.type = "base_model_revision" /\ m.refs = {}
    /\ q.project.type = "project" /\ q.baseline.type = "baseline_policy"
    /\ q.policy.type = "project_policy"
ASSUME FreezeAssumption == \A q \in FreezeRequest :
    /\ q.project.type = "project" /\ q.policy.type = "project_policy"
    /\ q.task.type = "task_definition"
    /\ q.supports \in Seq(ToSet(q.supports))
    /\ [i \in DOMAIN q.supports |-> q.supports[i].type] =
           <<"base_model_revision", "recipe", "hardware_requirements",
             "execution_target", "recipe_resolution", "compatibility_group">>
    /\ \A i \in 1 .. 4 : q.supports[i].refs = {}
ASSUME CloneAssumption == \A q \in CloneRequest :
    /\ IsFiniteSet(q.supports)
    /\ \A r \in q.supports : r.type \notin {"local_use_session", "adapter_export"}

RefTo(r, type) == CHOOSE q \in r.refs : q.type = type

OneRefOf(r, type) == Cardinality({q \in r.refs : q.type = type}) = 1

-----------------------------------------------------------------------------
(* ProjectService                                                          *)

\* _validate_create_request
CreateRequestValid(q) ==
    /\ q.project.refs = {q.task} \cup ToSet(q.models)
    /\ q.policy.refs = {q.project, q.task, q.baseline}
    /\ q.policy.body.rendering = q.task.body.rendering

\* Mutant: the project before the records it refers to.
CreateWritesProjectFirst(q) ==
    <<q.project, q.task>> \o q.models \o <<q.baseline, q.policy>>

CreateWrites(q) == <<q.task>> \o q.models \o <<q.project, q.baseline, q.policy>>

\* create(); open() of the exact revisions is the verification that ends it.
CreateProject(s, q) ==
    /\ CanCall(s) /\ CreateRequestValid(q)
    /\ Called(s, Request("check", CreateWrites(q), ToSet(CreateWrites(q)),
                         Outcome("project-lifecycle", "project-created", q.project.id, {})))

-----------------------------------------------------------------------------
(* The manifest of an experiment and its differences                       *)

Roles == {"project", "project_policy", "task_definition", "base_model_revision",
          "recipe", "recipe_resolution", "compatibility_group",
          "hardware_requirements", "execution_target"}

Values == {"dataset_version", "tokenizer", "evaluation_policy"}

Manifest(e) ==
    [f \in Roles \cup Values |->
        IF f \in Roles THEN {RefTo(e, f)} ELSE {e.body[f]}]

\* ManifestDiff.between() and apply(): a replacement per field that differs.
Between(parent, derived) ==
    [f \in {x \in DOMAIN parent : parent[x] # derived[x]} |->
        [before |-> parent[f], after |-> derived[f]]]

Apply(changes, parent) ==
    [f \in DOMAIN parent |->
        IF f \in DOMAIN changes /\ changes[f].before = parent[f]
        THEN changes[f].after ELSE parent[f]]

WithManifest(id, manifest) ==
    [type |-> "experiment", id |-> id,
     refs |-> UNION {manifest[f] : f \in Roles},
     body |-> [v \in Values |-> CHOOSE x \in manifest[v] : TRUE]]

\* derive_experiment(): the embedded diff reproduces the derived manifest.
Derivation(id, parent, derived) ==
    LET changes == Between(Manifest(parent), Manifest(derived))
        diff == [type |-> "manifest_diff", id |-> id, refs |-> {},
                 body |-> [changes |-> changes]]
    IN  [type |-> "experiment_derivation", id |-> id,
         refs |-> {parent, derived, diff}, body |-> [parent |-> parent.id]]

DerivationValid(parent, derived) ==
    LET changes == Between(Manifest(parent), Manifest(derived)) IN
    /\ parent.id # derived.id
    /\ DOMAIN changes # {}
    /\ Apply(changes, Manifest(parent)) = Manifest(derived)

-----------------------------------------------------------------------------
(* _validate_experiment_dependencies                                       *)

ProjectMatches(e) ==
    LET policy == RefTo(e, "project_policy") IN
    /\ {RefTo(e, "project"), RefTo(e, "task_definition")} \subseteq policy.refs
    /\ RefTo(e, "base_model_revision") \in RefTo(e, "project").refs
    /\ e.body.evaluation_policy = policy.body.evaluation_policy
    /\ RefTo(e, "recipe").body.family \in policy.body.families

ResolutionMatches(e) ==
    RefTo(e, "recipe_resolution").refs =
        {RefTo(e, t) : t \in {"recipe", "base_model_revision",
                              "hardware_requirements", "execution_target"}}

GroupMatches(e) ==
    LET group == RefTo(e, "compatibility_group")
        model == RefTo(e, "base_model_revision")
    IN  /\ group.refs = {model}
        /\ e.body.tokenizer = model.body.tokenizer
        /\ group.body.tokenizer = model.body.tokenizer
        /\ group.body.rendering = RefTo(e, "task_definition").body.rendering
        /\ group.body.adapter_type = RefTo(e, "recipe_resolution").body.adapter_type

TargetMatches(e) ==
    LET class == RefTo(e, "execution_target").body.class IN
    /\ class \in RefTo(e, "hardware_requirements").body.classes
    /\ class \in RefTo(e, "compatibility_group").body.runtime_targets

DependenciesValid(e) ==
    /\ \A t \in Roles : OneRefOf(e, t)
    /\ ProjectMatches(e) /\ ResolutionMatches(e) /\ GroupMatches(e)
    /\ TargetMatches(e)

-----------------------------------------------------------------------------
(* ExperimentService                                                       *)

Frozen(q) ==
    [type |-> "experiment", id |-> q.id,
     refs |-> {q.project, q.policy, q.task} \cup ToSet(q.supports),
     body |-> [dataset_version |-> q.dataset,
               tokenizer |-> RefTo([refs |-> ToSet(q.supports)],
                                   "base_model_revision").body.tokenizer,
               evaluation_policy |-> q.policy.body.evaluation_policy]]

\* freeze(): the opened project is still in the store; supports are the model,
\* recipe, requirements, target, resolution and group, in this order.
Freeze(s, q) ==
    LET e == Frozen(q) IN
    /\ CanCall(s)
    /\ {q.project, q.policy, q.task} \subseteq records
    /\ DependenciesValid(e)
    /\ Called(s, Request("check", q.supports \o <<e>>, {e},
                         Outcome("experiment-lifecycle", "experiment-frozen", e.id, {})))

\* clone(): the fields of the parent with the replacements.
Derived(q) ==
    LET manifest == Manifest(q.parent) IN
    WithManifest(q.id, [f \in DOMAIN manifest |->
        IF f \in DOMAIN q.replacements THEN q.replacements[f] ELSE manifest[f]])

Outputs(q) ==
    LET evidence == Derivation(q.derivation, q.parent, Derived(q)) IN
    {Derived(q), RefTo(evidence, "manifest_diff"), evidence}

Clone(s, q) ==
    LET e == Derived(q) IN
    /\ CanCall(s) /\ q.parent \in records /\ DerivationValid(q.parent, e)
    /\ Called(s, [Request("check", <<>>, Outputs(q),
                          Outcome("experiment-lifecycle", "experiment-derived", e.id, {}))
                    EXCEPT !.proposed = q.supports \cup Outputs(q),
                           !.result = Outputs(q)])

\* The orders in which _prepare_candidate_record_graph may write a set of records:
\* a record is ready in the round after those of the records it refers to, within
\* a round the record types decide, and among equals their hashes.
WriteOrders(S) ==
    LET round[r \in S] ==
            IF r.refs \cap S = {} THEN 0
            ELSE 1 + Max({round[q] : q \in r.refs \cap S})
    IN  {order \in SetToSeqs(S) : \A i, j \in DOMAIN order :
            /\ order[i] \in order[j].refs => i < j
            /\ i < j => \/ round[order[i]] < round[order[j]]
                        \/ /\ round[order[i]] = round[order[j]]
                           /\ Place(order[i]) <= Place(order[j])}

\* The candidate graph is closed before anything of it is written, and what a
\* retry finds written is not written again.
PrepareGraph(s) ==
    LET proposed == call[s].proposed IN
    /\ At(s, "graph")
    /\ IF /\ Closed(records) /\ Closed(records \cup proposed)
          /\ \A e \in proposed : e.type = "experiment" => DependenciesValid(e)
       THEN \E order \in WriteOrders(proposed \ records) : Moves(s, [call[s] EXCEPT
                !.pc = IF order = <<>> THEN "append" ELSE "write", !.todo = order])
       ELSE Ends(s)
    /\ UNCHANGED <<records, events, calls, acknowledged>>

=============================================================================
