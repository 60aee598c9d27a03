----------------------------- MODULE MCWorkbench -----------------------------
\* A project with one trained artifact, a second project, two experiments frozen
\* under one id, a clone that brings its own recipe, and two local uses under
\* every id.
EXTENDS Workbench

MCSymmetry == Permutations(Service)

Rec(type, id, refs, body) == [type |-> type, id |-> id, refs |-> refs, body |-> body]

MCText == {"a", "b", "cc"}
MCCharacters == [t \in MCText |-> IF t = "cc" THEN 2 ELSE 1]
MCHash == [t \in MCText |-> IF t = "a" THEN <<3, 5>> ELSE IF t = "b" THEN <<4, 3>> ELSE <<2, 2>>]

Tokens1 == [t \in MCText |-> IF t = "cc" THEN 3 ELSE 1]
Steady == [identity |-> "k1", identity_after |-> "k1", first |-> Tokens1, second |-> Tokens1]
Other == [Steady EXCEPT !.identity = "k2", !.identity_after = "k2", !.first["a"] = 2, !.second["a"] = 2]
Unsteady == [Steady EXCEPT !.second["b"] = 2]
Renamed == [Steady EXCEPT !.identity_after = "k3"]

Asked(id, filter, seed, tokenizer, limit) ==
    [version_id |-> id,
     filter |-> [minimum_characters |-> filter[1], maximum_characters |-> filter[2],
                 maximum_tokens |-> filter[3]],
     split_rule |-> [seed |-> seed, parts |-> <<[name |-> "train", weight |-> 2],
                                                [name |-> "test", weight |-> 1]>>],
     tokenizer |-> tokenizer, preview_limit |-> limit]

Filters == {<<0, 0, 0>>, <<2, 0, 0>>, <<0, 1, 0>>, <<1, 0, 1>>}

MCPreparation ==
    {Asked("d2", f, seed, Steady, 2) : f \in Filters, seed \in 1 .. 2}
    \cup {Asked("d2", <<0, 0, 0>>, 1, k, 2) : k \in {Other, Unsteady, Renamed}}

MCSource ==
    {[adapter |-> "jsonl", items |-> i] :
        i \in [1 .. 3 -> {"a", "cc", "required_text_empty"}]}
    \cup {[adapter |-> a, items |-> i] :
        a \in {"jsonl", "csv"}, i \in [1 .. 2 -> {"a", "b", "blank", "malformed"}]}
    \cup {[adapter |-> "json", items |-> <<"b", "missing_mapped_field", "b", "a">>],
          [adapter |-> "json", items |-> <<"a", "scalar">>],
          [adapter |-> "hugging_face_rows", items |-> <<"mapped_value_not_text", "a">>]}

MCImport ==
    {<<[adapter |-> "json", items |-> i], Asked("d2", <<0, 0, 0>>, 1, Steady, 2)>> :
        i \in {<<"a", "b">>, <<"a", "cc">>}}

Task == Rec("task_definition", "t1", {}, [rendering |-> "chat"])
Task2 == Rec("task_definition", "t2", {}, [rendering |-> "chat"])
Model == Rec("base_model_revision", "m1", {}, [tokenizer |-> "k1"])
ProjectOf(id, task) == Rec("project", id, {task, Model}, [goal |-> id])
Baseline == Rec("baseline_policy", "b1", {}, [stage |-> "first"])
Policy(p, task, baseline, n) ==
    Rec("project_policy", "pp-" \o p.id, {p, task, baseline},
        [rendering |-> "chat", evaluation_policy |-> n, families |-> {"lora"}])

Project1 == ProjectOf("p1", Task)
Policy1 == Policy(Project1, Task, Baseline, 1)

Recipe(id) == Rec("recipe", id, {}, [family |-> "lora"])
Needed == Rec("hardware_requirements", "h1", {}, [classes |-> {"local", "remote"}])
Target(c) == Rec("execution_target", c, {}, [class |-> c])
Resolution(id, recipe) ==
    Rec("recipe_resolution", id, {recipe, Model, Needed, Target("local")},
        [adapter_type |-> "lora"])
Group == Rec("compatibility_group", "g1", {Model},
             [tokenizer |-> "k1", rendering |-> "chat", adapter_type |-> "lora",
              runtime_targets |-> {"local", "remote"}])

Supports == <<Model, Recipe("r1"), Needed, Target("local"),
              Resolution("s1", Recipe("r1")), Group>>

FreezeOf(id, dataset) ==
    [id |-> id, project |-> Project1, policy |-> Policy1, task |-> Task,
     dataset |-> dataset, supports |-> Supports]

Experiment1 == Frozen(FreezeOf("e1", "d1"))

Dataset1 == Rec("dataset_version", "d1", {}, [source_identity |-> <<"a">>])
RunRequest ==
    Rec("resolved_runtime_request", "q1", {Experiment1, Resolution("s1", Recipe("r1"))},
        [dataset |-> Dataset1])
Run1 == Rec("run", "run1", {Experiment1}, [request |-> RunRequest])
Artifact1 ==
    Rec("artifact", "a1", {Project1, Run1, Model, Group},
        [content |-> [m \in ToSet(Member) |-> "trained " \o m]])
Availability1 ==
    Rec("artifact_availability", "v1", {Artifact1}, [state |-> "available"])

\* Fixed to what is stored, and to what a freeze may or may not store.
Fixed == Rec("baseline_policy", "b2", {Artifact1}, [stage |-> "fixed"])
Dangling == Rec("baseline_policy", "b2", {Frozen(FreezeOf("e2", "d1"))}, [stage |-> "fixed"])

MCSeed ==
    ToSet(Supports) \cup {Task, Project1, Baseline, Policy1, Experiment1, Dataset1,
                          RunRequest, Run1, Artifact1, Availability1, Target("remote")}

MCProjectRequest ==
    {[task |-> Task2, models |-> <<Model>>, project |-> ProjectOf("p2", Task2),
      baseline |-> b, policy |-> Policy(ProjectOf("p2", Task2), Task2, b, 1)] :
        b \in {Fixed, Dangling}}

MCFreezeRequest == {FreezeOf("e2", d) : d \in {"d1", "d2"}}

MCCloneRequest ==
    {[parent |-> Experiment1, id |-> "e2", derivation |-> "e2-from-e1",
      replacements |-> [recipe |-> {Recipe("r2")},
                        recipe_resolution |-> {Resolution("s2", Recipe("r2"))}],
      supports |-> S] :
        S \in {{Recipe("r2"), Resolution("s2", Recipe("r2"))}, {Resolution("s2", Recipe("r2"))}}}

MCUseRequest ==
    {[kind |-> k, id |-> "u1", artifact |-> Artifact1, model |-> Model,
      group |-> Group, target |-> Target(c), copied |-> {}] :
        k \in {"session", "export"}, c \in {"local", "remote"}}
    \cup {[kind |-> "ephemeral", id |-> "none", artifact |-> Artifact1, model |-> Model,
           group |-> Group, target |-> Target("local"), copied |-> {}]}

=============================================================================
