---------------------------- MODULE RunServiceProofs ----------------------------
(***************************************************************************)
(* Proofs about RunService, for any number of runs, artifact ids, training *)
(* steps, checkpoints and failing calls.                                   *)
(***************************************************************************)
EXTENDS RunService, FiniteSetTheorems, SequenceTheorems, WellFoundedInduction, TLAPS

-----------------------------------------------------------------------------
(* The inductive invariant                                                 *)

Mode == {"idle", "preparing", "launching", "running", "failing", "over", "lost", "dead"}
Deed == {"append", "checkpoint", "member", "stage", "link", "verify_bundle", "manifest",
         "check_artifact", "artifact", "availability", "verify_store"}
StepType == [do : Deed, what : EventType \cup Name \cup {"none"}, at : 0 .. TrainingSteps]

TypeOK ==
    /\ stream \in [Run -> Seq(Event)]
    /\ mode \in [Run -> Mode] /\ todo \in [Run -> Seq(StepType)]
    /\ prior \in [Run -> Run \cup {NoRun}] /\ DOMAIN start = Run
    /\ target \in [Run -> ArtifactId] /\ payload \in [Run -> Payload]

\* The steps of training and of its messages: each checkpoint event comes
\* directly after the step that writes its file.
Told == {"run_worker_message", "run_progress", "run_log", "run_cancellation_requested"}
PlainAt(q, i) ==
    \/ q[i].do = "append" /\ q[i].what \in Told
    \/ q[i].do = "checkpoint" /\ q[i].what = "none"
    \/ /\ q[i].do = "append" /\ q[i].what = "run_checkpoint"
       /\ i > 1 /\ q[i - 1].do = "checkpoint" /\ q[i - 1].at = q[i].at

Plain(q) == \A i \in DOMAIN q : PlainAt(q, i)

\* What an attempt that completes does after the training.
Closing == <<
    Step("append", "artifact_ingestion_started", 0),
    Step("member", "adapter.bin", 0),
    Step("member", "adapter_config.json", 0),
    Step("member", "provenance.json", 0),
    Step("verify_bundle", "none", 0),
    Step("manifest", "none", 0),
    Step("check_artifact", "none", 0),
    Step("artifact", "none", 0),
    Step("availability", "none", 0),
    Step("append", "artifact_ingestion_verified", 0),
    Step("verify_store", "none", 0),
    Step("append", "run_completed", 0) >>

\* A member of the bundle is looked for, staged and linked.
Fits(s, t) == s.what = t.what /\ (s.do = t.do \/ (t.do = "member" /\ s.do \in {"stage", "link"}))

\* The steps of a launch, of a failure, of an attempt that completes, and of one
\* that is cancelled or interrupted.
LaunchSteps(q) ==
    \A i \in DOMAIN q :
        /\ q[i].do = "append"
        /\ q[i].what \in IF i = Len(q) THEN {"run_launched"}
                         ELSE {"run_preflight_succeeded", "runtime_request_frozen", "run_recovered"}

FailureSteps(q) ==
    \A i \in DOMAIN q :
        /\ q[i].do = "append"
        /\ q[i].what \in IF i = Len(q) THEN {"run_failed"}
                         ELSE {"run_worker_message", "artifact_ingestion_failed"}

\* A step of the training that is left, when the checkpoints of C are saved.
TrainingStep(C, r, q, i) ==
    \/ q[i].do = "append" /\ q[i].what \in Told
    \/ q[i].do = "checkpoint" /\ q[i].what = "none"
    \/ /\ q[i].do = "append" /\ q[i].what = "run_checkpoint"
       /\ \/ <<r, q[i].at>> \in C
          \/ i > 1 /\ q[i - 1].do = "checkpoint" /\ q[i - 1].at = q[i].at

CompletionSteps(C, r, q) ==
    \A i \in DOMAIN q :
        LET j == i + 12 - Len(q)
        IN IF j > 0 THEN IF i = 1 THEN Fits(q[i], Closing[j]) ELSE q[i] = Closing[j]
           ELSE TrainingStep(C, r, q, i)

\* The last two steps verify the store and tell the end.
StopSteps(C, r, q) ==
    \A i \in DOMAIN q :
        IF i = Len(q) THEN q[i].do = "append" /\ q[i].what \in {"run_cancelled", "run_interrupted"}
        ELSE IF i = Len(q) - 1 THEN q[i].do = "verify_store" /\ q[i].what = "none"
        ELSE TrainingStep(C, r, q, i)

Launched(r) == {i \in DOMAIN stream[r] : stream[r][i].type = "run_launched"}

\* The steps an attempt has left, by where it is ...
Shape(r) ==
    /\ mode[r] \in {"idle", "preparing", "over", "lost", "dead"} => todo[r] = <<>>
    /\ mode[r] = "launching" =>
         todo[r] = Append1("run_preflight_blocked") \/ LaunchSteps(todo[r])
    /\ mode[r] = "running" =>
         CompletionSteps(checkpoints, r, todo[r]) \/ StopSteps(checkpoints, r, todo[r])
    /\ mode[r] = "failing" => FailureSteps(todo[r])
    /\ (\E i \in DOMAIN todo[r] : todo[r][i].what = "run_recovered") => prior[r] # NoRun

\* ... and what it told already.
Past(r) ==
    /\ mode[r] \in {"idle", "preparing"} => stream[r] = <<>>
    /\ mode[r] = "idle" => prior[r] = NoRun
    /\ mode[r] = "launching" /\ todo[r] # <<>> =>
         /\ Launched(r) = {} /\ Terminals(r) = {}
         /\ IF LaunchSteps(todo[r]) THEN Len(todo[r]) = 1 => stream[r] # <<>>
                                    ELSE stream[r] = <<>>
    /\ mode[r] = "launching" /\ todo[r] = <<>> => Launched(r) = {} \/ Terminals(r) = {}
    /\ mode[r] \in {"running", "failing"} => Launched(r) # {}
    /\ Launched(r) = {} \/ \E i \in DOMAIN stream[r] : Launched(r) = {i}

\* A run ends once, and then has nothing to add, unless its attempt was told
\* that its end could not be written.
Ends(r) ==
    \/ Terminals(r) = {}
    \/ /\ Terminals(r) = {Len(stream[r])}
       /\ \/ todo[r] = <<>>
          \/ r \in ambiguous /\ mode[r] = "failing" /\ Len(todo[r]) = 1
    \/ Cardinality(Terminals(r)) = 2 /\ r \in ambiguous /\ todo[r] = <<>>

\* A run that was interrupted after step k was saved.
Interrupted(p, k) ==
    /\ Has(p, "run_interrupted") /\ k \in CheckpointEvents(p)
    /\ \/ Status(p) = "run_interrupted"
       \/ Status(p) = "conflict" /\ p \in ambiguous

Recovery(r) ==
    /\ prior[r] # NoRun => prior[r] \in Run /\ Interrupted(prior[r], start[r])
    /\ Has(r, "run_recovered") => prior[r] # NoRun

\* What is durable when n of the closing steps are left.
Durable(r, n) ==
    /\ n <= 10 => Member(r, "adapter.bin") \in members
    /\ n <= 9 => Member(r, "adapter_config.json") \in members
    /\ n <= 8 => Member(r, "provenance.json") \in members
    /\ n <= 7 => \A t \in temps : t[2] # r
    /\ n <= 6 => r \in manifests
    /\ n <= 4 => [id |-> target[r], run |-> r] \in artifacts
    /\ n <= 3 => r \in available
    /\ n <= 2 => Has(r, "artifact_ingestion_verified")

Completes(r) ==
    mode[r] = "running" /\ todo[r] # <<>> /\ todo[r][Len(todo[r])].what = "run_completed"

Completion(r) ==
    /\ Completes(r) => Durable(r, Len(todo[r]))
    /\ Has(r, "run_completed") => Durable(r, 0)

Unadmitted(r) ==
    \/ mode[r] \in {"idle", "preparing", "launching"}
    \/ mode[r] = "running" /\ Len(todo[r]) > 4

\* Files and records are written once, and an Artifact record only by the run
\* whose members its directory holds.
Directory ==
    /\ members \subseteq {Member(r, name) : r \in Run, name \in Name}
    /\ \A m, n \in members : m.artifact = n.artifact /\ m.name = n.name => m = n
    /\ temps \subseteq {<<target[r], r, name>> : r \in Run, name \in Name}
    /\ \A x \in artifacts :
         /\ x.run \in Run /\ x = [id |-> target[x.run], run |-> x.run]
         /\ Member(x.run, "provenance.json") \in members
         /\ ~Unadmitted(x.run)

IInv ==
    /\ TypeOK /\ Directory /\ CheckpointsBacked
    /\ \A r \in Run : Shape(r) /\ Past(r) /\ Ends(r) /\ Recovery(r) /\ Completion(r)

-----------------------------------------------------------------------------
(* Lists of steps                                                          *)

LEMMA Rest ==
    ASSUME NEW S, NEW q \in Seq(S), q # <<>>
    PROVE  /\ Head(q) = q[1] /\ Len(q) \in Nat \ {0} /\ DOMAIN q = 1 .. Len(q)
           /\ Tail(q) \in Seq(S) /\ Len(Tail(q)) = Len(q) - 1
           /\ DOMAIN Tail(q) = 1 .. Len(q) - 1
           /\ \A i \in 1 .. Len(q) - 1 : Tail(q)[i] = q[i + 1]
<1>1. /\ Tail(q) \in Seq(S) /\ Len(Tail(q)) = Len(q) - 1
      /\ \A i \in 1 .. Len(Tail(q)) : Tail(q)[i] = q[i + 1]
  BY HeadTailProperties
<1>2. Head(q) = q[1] /\ Len(q) \in Nat \ {0} /\ DOMAIN q = 1 .. Len(q)
  BY EmptySeq
<1>3. DOMAIN Tail(q) = 1 .. Len(Tail(q))
  BY <1>1
<1> QED
  BY <1>1, <1>2, <1>3

\* The sets of names, spelled out.
LEMMA Names ==
    /\ TrainingSteps \in Nat /\ 0 \in 0 .. TrainingSteps
    /\ Told \subseteq EventType
    /\ {"append", "checkpoint", "member", "stage", "link", "verify_bundle", "manifest",
        "check_artifact", "artifact", "availability", "verify_store"} \subseteq Deed
BY StepsAssumption DEF Told, EventType, Deed

LEMMA StepIsStep ==
    ASSUME NEW do \in Deed, NEW what \in EventType \cup Name \cup {"none"},
           NEW at \in 0 .. TrainingSteps
    PROVE  /\ Step(do, what, at) \in StepType
           /\ Step(do, what, at).do = do /\ Step(do, what, at).what = what
           /\ Step(do, what, at).at = at
BY DEF Step, StepType

LEMMA PlainJoined ==
    ASSUME NEW p \in Seq(StepType), NEW q \in Seq(StepType), Plain(p), Plain(q)
    PROVE  p \o q \in Seq(StepType) /\ Plain(p \o q)
<1> DEFINE s == p \o q
<1>1. /\ s \in Seq(StepType) /\ Len(s) = Len(p) + Len(q)
      /\ \A i \in 1 .. Len(p) + Len(q) : s[i] = IF i <= Len(p) THEN p[i] ELSE q[i - Len(p)]
  BY ConcatProperties
<1>2. /\ Len(p) \in Nat /\ Len(q) \in Nat /\ DOMAIN p = 1 .. Len(p)
      /\ DOMAIN q = 1 .. Len(q) /\ DOMAIN s = 1 .. Len(p) + Len(q)
  BY <1>1
<1> HIDE DEF s
<1>3. ASSUME NEW i \in DOMAIN s, i <= Len(p)
      PROVE  /\ i \in DOMAIN p /\ s[i] = p[i]
             /\ i > 1 => s[i - 1] = p[i - 1]
  BY <1>1, <1>2, <1>3
<1>4. ASSUME NEW i \in DOMAIN s, ~(i <= Len(p))
      PROVE  /\ i - Len(p) \in DOMAIN q /\ s[i] = q[i - Len(p)]
             /\ i - Len(p) > 1 => i > 1 /\ s[i - 1] = q[i - Len(p) - 1]
  <2>1. i - Len(p) \in DOMAIN q /\ s[i] = q[i - Len(p)]
    BY <1>1, <1>2, <1>4
  <2>2. ASSUME i - Len(p) > 1 PROVE i > 1 /\ s[i - 1] = q[i - Len(p) - 1]
    <3>1. i > 1 /\ i - 1 \in DOMAIN s /\ ~(i - 1 <= Len(p)) /\ (i - 1) - Len(p) = i - Len(p) - 1
      BY <1>2, <1>4, <2>2
    <3> QED
      BY <1>1, <1>2, <3>1
  <2> QED
    BY <2>1, <2>2
<1>5. Plain(s)
  <2> SUFFICES ASSUME NEW i \in DOMAIN s PROVE PlainAt(s, i)
    BY DEF Plain
  <2>1. CASE i <= Len(p)
    <3>1. i \in DOMAIN p /\ s[i] = p[i] /\ (i > 1 => s[i - 1] = p[i - 1])
      BY <1>3, <2>1
    <3>2. PlainAt(p, i)
      BY <3>1 DEF Plain
    <3> QED
      BY <3>1, <3>2 DEF PlainAt
  <2>2. CASE ~(i <= Len(p))
    <3> DEFINE k == i - Len(p)
    <3>1. k \in DOMAIN q /\ s[i] = q[k] /\ (k > 1 => i > 1 /\ s[i - 1] = q[k - 1])
      BY <1>4, <2>2
    <3> HIDE DEF k
    <3>2. PlainAt(q, k)
      BY <3>1 DEF Plain
    <3> QED
      BY <3>1, <3>2 DEF PlainAt
  <2> QED
    BY <2>1, <2>2
<1> QED
  BY <1>1, <1>5 DEF s

LEMMA PlainPieces ==
    /\ \A type \in Told : Append1(type) \in Seq(StepType) /\ Plain(Append1(type))
    /\ \A k \in 0 .. TrainingSteps : Save(k) \in Seq(StepType) /\ Plain(Save(k))
    /\ <<>> \in Seq(StepType) /\ Plain(<<>>)
<1>1. ASSUME NEW type \in Told
      PROVE  Append1(type) \in Seq(StepType) /\ Plain(Append1(type))
  <2>1. Step("append", type, 0) \in StepType
    BY Names, StepIsStep
  <2>2. /\ Append1(type) \in Seq(StepType) /\ DOMAIN Append1(type) = {1}
        /\ Append1(type)[1].do = "append" /\ Append1(type)[1].what = type
    BY <2>1 DEF Append1, Step
  <2> QED
    BY <2>2 DEF Plain, PlainAt
<1>2. ASSUME NEW k \in 0 .. TrainingSteps PROVE Save(k) \in Seq(StepType) /\ Plain(Save(k))
  <2>1. Step("checkpoint", "none", k) \in StepType /\ Step("append", "run_checkpoint", k) \in StepType
    BY StepIsStep DEF Deed, EventType
  <2>2. /\ Save(k) \in Seq(StepType) /\ DOMAIN Save(k) = {1, 2}
        /\ Save(k)[1] = Step("checkpoint", "none", k)
        /\ Save(k)[2] = Step("append", "run_checkpoint", k)
    BY <2>1 DEF Save
  <2>3. PlainAt(Save(k), 1)
    BY <2>2 DEF PlainAt, Step
  <2>4. PlainAt(Save(k), 2)
    BY <2>2 DEF PlainAt, Step
  <2> QED
    BY <2>2, <2>3, <2>4 DEF Plain
<1>3. <<>> \in Seq(StepType) /\ Plain(<<>>)
  BY DEF Plain
<1> QED
  BY <1>1, <1>2, <1>3

-----------------------------------------------------------------------------
(* The checkpoints of a training.  Saves goes through the steps by a       *)
(* recursive function, which Saving says of g.                             *)

SaveAt(S, k) == IF k \in S THEN Save(k) ELSE <<>>

Saving(S, n, g) ==
    g = [k \in 0 .. n |-> IF k = 0 THEN <<>> ELSE g[k - 1] \o SaveAt(S, k)]

LEMMA SavingStep ==
    ASSUME NEW S, NEW n \in Nat, NEW g, Saving(S, n, g)
    PROVE  \E f : Saving(S, n + 1, f)
<1> DEFINE f == [k \in 0 .. n + 1 |-> IF k = n + 1 THEN g[n] \o SaveAt(S, k) ELSE g[k]]
<1>1. ASSUME NEW k \in 0 .. n + 1
      PROVE  f[k] = IF k = 0 THEN <<>> ELSE f[k - 1] \o SaveAt(S, k)
  <2>1. CASE k = n + 1
    <3>1. k # 0 /\ k - 1 = n
      BY <2>1
    <3>0. f[k] = g[n] \o SaveAt(S, k)
      BY <2>1, Zenon
    <3>2. f[n] = g[n]
      OBVIOUS
    <3> HIDE DEF f
    <3> QED
      BY <3>0, <3>1, <3>2
  <2>2. CASE k # n + 1
    <3>1. k \in 0 .. n /\ f[k] = g[k]
      BY <2>2
    <3>2. g[k] = IF k = 0 THEN <<>> ELSE g[k - 1] \o SaveAt(S, k)
      BY <3>1 DEF Saving
    <3>3. k # 0 => f[k - 1] = g[k - 1]
      BY <3>1
    <3> HIDE DEF f
    <3> QED
      BY <3>1, <3>2, <3>3
  <2> QED
    BY <2>1, <2>2
<1>2. f = [k \in 0 .. n + 1 |-> f[k]]
  OBVIOUS
<1> HIDE DEF f
<1>3. f = [k \in 0 .. n + 1 |-> IF k = 0 THEN <<>> ELSE f[k - 1] \o SaveAt(S, k)]
  BY <1>1, <1>2
<1> QED
  BY <1>3 DEF Saving

\* The recursive function exists: of the lengths for which it did not there
\* would be a least one.
LEMMA SavingExists ==
    ASSUME NEW S, NEW n \in Nat
    PROVE  \E g : Saving(S, n, g)
<1> DEFINE Bad == {k \in Nat : ~\E g : Saving(S, k, g)}
<1> SUFFICES ASSUME n \in Bad PROVE FALSE
  OBVIOUS
<1>1. PICK k \in Bad : \A j \in Bad : ~(<<j, k>> \in OpToRel(<, Nat))
  BY WFMin, NatLessThanWellFounded
<1>2. k # 0
  <2>1. Saving(S, 0, [j \in 0 .. 0 |-> <<>>])
    BY DEF Saving
  <2> QED
    BY <2>1
<1>3. k - 1 \in Nat /\ k \in Nat /\ k - 1 < k /\ k = (k - 1) + 1
  BY <1>2
<1>4. <<k - 1, k>> \in OpToRel(<, Nat)
  BY <1>3 DEF OpToRel
<1>5. \E g : Saving(S, k - 1, g)
  BY <1>1, <1>3, <1>4
<1>6. \E g : Saving(S, k, g)
  BY <1>3, <1>5, SavingStep
<1> QED
  BY <1>6

LEMMA SavesPlain ==
    ASSUME NEW S
    PROVE  Saves(S) \in Seq(StepType) /\ Plain(Saves(S))
<1> DEFINE n == TrainingSteps
           g == CHOOSE g : Saving(S, n, g)
           Bad == {k \in Nat : k <= n /\ ~(g[k] \in Seq(StepType) /\ Plain(g[k]))}
<1>1. n \in Nat
  BY StepsAssumption
<1>2. Saving(S, n, g)
  BY <1>1, SavingExists
<1>3. Saves(S) = g[n]
  BY DEF Saves, Saving, SaveAt
<1> HIDE DEF n, g
<1>4. \A k \in 0 .. n : g[k] = IF k = 0 THEN <<>> ELSE g[k - 1] \o SaveAt(S, k)
  BY <1>2 DEF Saving
<1> SUFFICES ASSUME n \in Bad PROVE FALSE
  BY <1>1, <1>3
<1>5. PICK k \in Bad : \A j \in Bad : ~(<<j, k>> \in OpToRel(<, Nat))
  BY WFMin, NatLessThanWellFounded
<1>6. k \in 0 .. n
  BY <1>1
<1>7. k # 0
  BY <1>4, <1>6, PlainPieces
<1>8. k - 1 \in Nat /\ k \in Nat /\ k - 1 < k /\ k - 1 <= n
  BY <1>1, <1>6, <1>7
<1>9. <<k - 1, k>> \in OpToRel(<, Nat)
  BY <1>8 DEF OpToRel
<1>10. g[k - 1] \in Seq(StepType) /\ Plain(g[k - 1])
  BY <1>5, <1>8, <1>9
<1>11. SaveAt(S, k) \in Seq(StepType) /\ Plain(SaveAt(S, k))
  BY <1>6, PlainPieces DEF SaveAt, n
<1>12. g[k] = g[k - 1] \o SaveAt(S, k)
  BY <1>4, <1>6, <1>7
<1>13. g[k] \in Seq(StepType) /\ Plain(g[k])
  BY <1>10, <1>11, <1>12, PlainJoined
<1> QED
  BY <1>13

LEMMA OutputPlain ==
    ASSUME NEW S
    PROVE  Output(S) \in Seq(StepType) /\ Plain(Output(S))
<1> DEFINE a == Append1("run_worker_message")
           b == Append1("run_progress")
           c == Append1("run_log")
<1>1. /\ a \in Seq(StepType) /\ Plain(a) /\ b \in Seq(StepType) /\ Plain(b)
      /\ c \in Seq(StepType) /\ Plain(c) /\ Saves(S) \in Seq(StepType) /\ Plain(Saves(S))
  BY SavesPlain, PlainPieces DEF Told
<1>2. Output(S) = ((a \o b) \o Saves(S)) \o c
  BY DEF Output
<1> HIDE DEF a, b, c
<1>3. a \o b \in Seq(StepType) /\ Plain(a \o b)
  BY <1>1, PlainJoined
<1>4. (a \o b) \o Saves(S) \in Seq(StepType) /\ Plain((a \o b) \o Saves(S))
  BY <1>1, <1>3, PlainJoined
<1> QED
  BY <1>1, <1>2, <1>4, PlainJoined


-----------------------------------------------------------------------------
(* The lists of an attempt                                                 *)

LEMMA Joined ==
    ASSUME NEW p \in Seq(StepType), NEW q \in Seq(StepType)
    PROVE  /\ p \o q \in Seq(StepType) /\ Len(p) \in Nat /\ Len(q) \in Nat
           /\ Len(p \o q) = Len(p) + Len(q) /\ DOMAIN p = 1 .. Len(p)
           /\ DOMAIN q = 1 .. Len(q) /\ DOMAIN (p \o q) = 1 .. Len(p) + Len(q)
           /\ \A i \in 1 .. Len(p) : (p \o q)[i] = p[i]
           /\ \A i \in 1 .. Len(q) : (p \o q)[i + Len(p)] = q[i]
<1>1. /\ p \o q \in Seq(StepType) /\ Len(p \o q) = Len(p) + Len(q)
      /\ \A i \in 1 .. Len(p) + Len(q) : (p \o q)[i] = IF i <= Len(p) THEN p[i] ELSE q[i - Len(p)]
  BY ConcatProperties
<1>2. Len(p) \in Nat /\ Len(q) \in Nat /\ DOMAIN p = 1 .. Len(p) /\ DOMAIN q = 1 .. Len(q)
  OBVIOUS
<1>3. DOMAIN (p \o q) = 1 .. Len(p \o q)
  BY <1>1
<1> DEFINE s == p \o q
<1> HIDE DEF s
<1>4. \A i \in 1 .. Len(p) : s[i] = p[i]
  BY <1>1, <1>2 DEF s
<1>5. ASSUME NEW i \in 1 .. Len(q) PROVE s[i + Len(p)] = q[i]
  <2>1. i + Len(p) \in 1 .. Len(p) + Len(q) /\ ~(i + Len(p) <= Len(p)) /\ i + Len(p) - Len(p) = i
    BY <1>2
  <2> QED
    BY <1>1, <2>1 DEF s
<1> QED
  BY <1>1, <1>2, <1>3, <1>4, <1>5 DEF s

\* s is the first n steps of Closing.
Opens(s, n) == s \in Seq(StepType) /\ Len(s) = n /\ \A i \in 1 .. n : s[i] = Closing[i]

LEMMA OpensNext ==
    ASSUME NEW s, NEW n \in Nat, Opens(s, n), NEW x \in StepType, x = Closing[n + 1]
    PROVE  Opens(s \o <<x>>, n + 1)
<1>1. /\ s \in Seq(StepType) /\ <<x>> \in Seq(StepType) /\ Len(s) = n /\ Len(<<x>>) = 1
      /\ <<x>>[1] = x
  BY DEF Opens
<1> DEFINE u == <<x>>
           t == s \o u
<1>2. /\ t \in Seq(StepType) /\ Len(t) = n + 1 /\ \A i \in 1 .. n : t[i] = s[i]
      /\ t[1 + n] = x
  BY <1>1, Joined
<1> HIDE DEF u, t
<1>3. \A i \in 1 .. n + 1 : t[i] = Closing[i]
  <2> SUFFICES ASSUME NEW i \in 1 .. n + 1 PROVE t[i] = Closing[i]
    OBVIOUS
  <2>1. CASE i = n + 1
    BY <1>2, <2>1
  <2>2. CASE i # n + 1
    <3>1. i \in 1 .. n
      BY <2>2
    <3> QED
      BY <3>1, <1>2 DEF Opens
  <2> QED
    BY <2>1, <2>2
<1> QED
  BY <1>2, <1>3 DEF Opens, t, u

LEMMA Regrouped ==
    ASSUME NEW p \in Seq(StepType), NEW q \in Seq(StepType), NEW s \in Seq(StepType)
    PROVE  (p \o q) \o s = p \o (q \o s)
BY ConcatAssociative

LEMMA ClosingSteps ==
    /\ Closing \in Seq(StepType) /\ Len(Closing) = 12 /\ DOMAIN Closing = 1 .. 12
    /\ Ingestion \in Seq(StepType) /\ Ending("run_completed") \in Seq(StepType)
    /\ Ingestion \o Ending("run_completed") = Closing
<1>1. /\ Closing \in Seq(StepType) /\ Len(Closing) = 12 /\ DOMAIN Closing = 1 .. 12
      /\ \A i \in 1 .. 12 : Closing[i] \in StepType
  BY Names DEF Closing, Step, StepType, Name, EventType, TerminalType
<1> DEFINE a == Append1("artifact_ingestion_started")
           b == <<Step("member", "adapter.bin", 0), Step("member", "adapter_config.json", 0),
                  Step("member", "provenance.json", 0)>>
           s4 == a \o b
           s5 == s4 \o Do("verify_bundle")
           s6 == s5 \o Do("manifest")
           s7 == s6 \o Do("check_artifact")
           s8 == s7 \o Do("artifact")
           s9 == s8 \o Do("availability")
           s10 == s9 \o Append1("artifact_ingestion_verified")
           s11 == s10 \o Do("verify_store")
           s12 == s11 \o Append1("run_completed")
           e == Ending("run_completed")
<1>2. /\ Do("verify_bundle") = <<Closing[5]>> /\ Do("manifest") = <<Closing[6]>>
      /\ Do("check_artifact") = <<Closing[7]>> /\ Do("artifact") = <<Closing[8]>>
      /\ Do("availability") = <<Closing[9]>>
      /\ Append1("artifact_ingestion_verified") = <<Closing[10]>>
      /\ Do("verify_store") = <<Closing[11]>> /\ Append1("run_completed") = <<Closing[12]>>
  BY DEF Do, Append1, Closing
<1>3. /\ a = <<Closing[1]>> /\ b = <<Closing[2], Closing[3], Closing[4]>>
  BY DEF Append1, Closing
<1> HIDE DEF a, b
<1>4. Opens(s4, 4)
  <2>1. /\ a \in Seq(StepType) /\ Len(a) = 1 /\ a[1] = Closing[1]
    BY <1>1, <1>3
  <2>2. /\ b \in Seq(StepType) /\ Len(b) = 3 /\ b[1] = Closing[2] /\ b[2] = Closing[3]
        /\ b[3] = Closing[4]
    BY <1>1, <1>3
  <2>3. /\ s4 \in Seq(StepType) /\ Len(s4) = 4 /\ \A i \in 1 .. 1 : s4[i] = a[i]
        /\ \A i \in 1 .. 3 : s4[i + 1] = b[i]
    <3>1. /\ s4 \in Seq(StepType) /\ Len(s4) = Len(a) + Len(b)
          /\ \A i \in 1 .. Len(a) : s4[i] = a[i]
          /\ \A i \in 1 .. Len(b) : s4[i + Len(a)] = b[i]
      BY <2>1, <2>2, Joined
    <3> HIDE DEF s4
    <3> QED
      BY <2>1, <2>2, <3>1
  <2> HIDE DEF s4
  <2>4. s4[1] = Closing[1] /\ s4[1 + 1] = Closing[2] /\ s4[2 + 1] = Closing[3] /\ s4[3 + 1] = Closing[4]
    BY <2>1, <2>2, <2>3
  <2> QED
    BY <2>3, <2>4 DEF Opens
<1> HIDE DEF s4
<1>5. Opens(s5, 5)
  BY <1>1, <1>2, <1>4, OpensNext
<1> HIDE DEF s5
<1>6. Opens(s6, 6)
  BY <1>1, <1>2, <1>5, OpensNext
<1> HIDE DEF s6
<1>7. Opens(s7, 7)
  BY <1>1, <1>2, <1>6, OpensNext
<1> HIDE DEF s7
<1>8. Opens(s8, 8)
  BY <1>1, <1>2, <1>7, OpensNext
<1> HIDE DEF s8
<1>9. Opens(s9, 9)
  BY <1>1, <1>2, <1>8, OpensNext
<1> HIDE DEF s9
<1>10. Opens(s10, 10)
  BY <1>1, <1>2, <1>9, OpensNext
<1> HIDE DEF s10
<1>11. Opens(s11, 11)
  BY <1>1, <1>2, <1>10, OpensNext
<1> HIDE DEF s11
<1>12. Opens(s12, 12)
  BY <1>1, <1>2, <1>11, OpensNext
<1> HIDE DEF s12
<1>13. s12 = Closing
  BY <1>1, <1>12, SeqEqual DEF Opens
<1>14. Ingestion = s10
  BY DEF Ingestion, s10, s9, s8, s7, s6, s5, s4, a, b
<1> DEFINE v == Do("verify_store")
           w == Append1("run_completed")
<1>15. s12 = (s10 \o v) \o w /\ e = v \o w /\ v = <<Closing[11]>> /\ w = <<Closing[12]>>
  BY <1>2 DEF s12, s11, Ending
<1> HIDE DEF v, w, e
<1>16. v \in Seq(StepType) /\ w \in Seq(StepType) /\ s10 \in Seq(StepType)
  BY <1>1, <1>10, <1>15 DEF Opens
<1>17. s10 \o e = s12 /\ e \in Seq(StepType)
  BY <1>15, <1>16, ConcatAssociative, Joined
<1> QED
  BY <1>1, <1>13, <1>14, <1>16, <1>17 DEF e

LEMMA CompletionAttached ==
    ASSUME NEW C, NEW r, NEW p \in Seq(StepType), Plain(p)
    PROVE  /\ p \o Closing \in Seq(StepType) /\ CompletionSteps(C, r, p \o Closing)
           /\ Len(p \o Closing) > 10
<1> DEFINE s == p \o Closing
<1>0. /\ s \in Seq(StepType) /\ Len(p) \in Nat /\ Len(s) = Len(p) + Len(Closing)
      /\ DOMAIN s = 1 .. Len(p) + Len(Closing) /\ DOMAIN p = 1 .. Len(p)
      /\ \A i \in 1 .. Len(p) : s[i] = p[i]
      /\ \A i \in 1 .. Len(Closing) : s[i + Len(p)] = Closing[i]
  BY Joined, ClosingSteps
<1> HIDE DEF s
<1>1. /\ s \in Seq(StepType) /\ Len(p) \in Nat /\ Len(s) = Len(p) + 12
      /\ DOMAIN s = 1 .. Len(p) + 12 /\ DOMAIN p = 1 .. Len(p)
  BY <1>0, ClosingSteps
<1>a. \A i \in 1 .. 12 : s[i + Len(p)] = Closing[i]
  BY <1>0, ClosingSteps, Zenon
<1>b. \A i \in 1 .. Len(p) : s[i] = p[i]
  BY <1>0
<1>c. Len(s) > 10
  BY <1>1
<1> SUFFICES ASSUME NEW i \in DOMAIN s
             PROVE  LET j == i + 12 - Len(s)
                    IN IF j > 0 THEN IF i = 1 THEN Fits(s[i], Closing[j]) ELSE s[i] = Closing[j]
                       ELSE TrainingStep(C, r, s, i)
  <2>1. SUFFICES CompletionSteps(C, r, s)
    BY <1>1, <1>c DEF s
  <2> QED
    BY Zenon DEF CompletionSteps
<1>2. i + 12 - Len(s) = i - Len(p) /\ i \in Nat
  BY <1>1
<1>3. CASE i - Len(p) > 0
  <2>1. i - Len(p) \in 1 .. 12 /\ (i - Len(p)) + Len(p) = i
    <3>1. PICK n \in Nat : n = Len(p)
      BY <1>1
    <3>2. PICK j \in 1 .. n + 12 : j = i
      BY <1>1, <3>1, Zenon
    <3>3. j - n > 0
      BY <1>3, <3>1, <3>2, Zenon
    <3>4. j - n \in 1 .. 12 /\ (j - n) + n = j
      BY <3>3
    <3> QED
      BY <3>1, <3>2, <3>4, Zenon
  <2>2. s[(i - Len(p)) + Len(p)] = Closing[i - Len(p)]
    BY <1>a, <2>1, Zenon
  <2> QED
    BY <1>2, <1>3, <2>1, <2>2 DEF Fits
<1>4. CASE ~(i - Len(p) > 0)
  <2>1. i \in 1 .. Len(p) /\ (i > 1 => i - 1 \in 1 .. Len(p))
    BY <1>1, <1>4
  <2>2. s[i] = p[i] /\ (i > 1 => s[i - 1] = p[i - 1]) /\ PlainAt(p, i)
    BY <1>1, <1>b, <2>1 DEF Plain
  <2>3. TrainingStep(C, r, s, i)
    BY <2>2 DEF PlainAt, TrainingStep
  <2> QED
    BY <1>2, <1>4, <2>3
<1> QED
  BY <1>3, <1>4

LEMMA StopAttached ==
    ASSUME NEW C, NEW r, NEW p \in Seq(StepType), Plain(p),
           NEW type \in {"run_cancelled", "run_interrupted"}
    PROVE  p \o Ending(type) \in Seq(StepType) /\ StopSteps(C, r, p \o Ending(type))
<1> DEFINE e == Ending(type)
           s == p \o e
<1>1. /\ Step("verify_store", "none", 0) \in StepType /\ Step("append", type, 0) \in StepType
  BY Names, StepIsStep DEF EventType, TerminalType
<1>2. /\ Do("verify_store") \in Seq(StepType) /\ Append1(type) \in Seq(StepType)
      /\ Len(Do("verify_store")) = 1 /\ Len(Append1(type)) = 1
      /\ Do("verify_store")[1] = Step("verify_store", "none", 0)
      /\ Append1(type)[1] = Step("append", type, 0)
  BY <1>1 DEF Do, Append1
<1>3. /\ e \in Seq(StepType) /\ Len(e) = 2 /\ e[1] = Step("verify_store", "none", 0)
      /\ e[2] = Step("append", type, 0)
  <2> DEFINE v == Do("verify_store")
             w == Append1(type)
  <2>1. e = v \o w
    BY DEF Ending
  <2> HIDE DEF v, w, e
  <2>2. /\ v \in Seq(StepType) /\ w \in Seq(StepType) /\ Len(v) = 1 /\ Len(w) = 1
        /\ v[1] = Step("verify_store", "none", 0) /\ w[1] = Step("append", type, 0)
    BY <1>2 DEF v, w
  <2>3. /\ e \in Seq(StepType) /\ Len(e) = Len(v) + Len(w)
        /\ \A i \in 1 .. Len(v) : e[i] = v[i]
        /\ \A i \in 1 .. Len(w) : e[i + Len(v)] = w[i]
    <3>1. /\ v \o w \in Seq(StepType) /\ Len(v \o w) = Len(v) + Len(w)
          /\ \A i \in 1 .. Len(v) : (v \o w)[i] = v[i]
          /\ \A i \in 1 .. Len(w) : (v \o w)[i + Len(v)] = w[i]
      BY <2>2, Joined
    <3> QED
      BY <2>1, <3>1, Zenon
  <2> QED
    BY <2>2, <2>3
<1> HIDE DEF e
<1>0. /\ s \in Seq(StepType) /\ Len(p) \in Nat /\ Len(s) = Len(p) + Len(e)
      /\ DOMAIN s = 1 .. Len(p) + Len(e) /\ DOMAIN p = 1 .. Len(p)
      /\ \A i \in 1 .. Len(p) : s[i] = p[i]
      /\ \A i \in 1 .. Len(e) : s[i + Len(p)] = e[i]
  BY <1>3, Joined
<1> HIDE DEF s
<1>a. 1 \in 1 .. Len(e) /\ 2 \in 1 .. Len(e)
  BY <1>3
<1>b. s[1 + Len(p)] = e[1] /\ s[2 + Len(p)] = e[2]
  BY <1>0, <1>a, Zenon
<1>4. /\ s \in Seq(StepType) /\ Len(p) \in Nat /\ Len(s) = Len(p) + 2
      /\ DOMAIN s = 1 .. Len(p) + 2
      /\ \A i \in 1 .. Len(p) : s[i] = p[i]
      /\ s[1 + Len(p)] = e[1] /\ s[2 + Len(p)] = e[2]
  BY <1>0, <1>3, <1>b
<1> SUFFICES ASSUME NEW i \in DOMAIN s
             PROVE  IF i = Len(s) THEN s[i].do = "append" /\ s[i].what \in {"run_cancelled", "run_interrupted"}
                    ELSE IF i = Len(s) - 1 THEN s[i].do = "verify_store" /\ s[i].what = "none"
                    ELSE TrainingStep(C, r, s, i)
  <2>1. SUFFICES StopSteps(C, r, s)
    BY <1>4 DEF s, e
  <2> QED
    BY Zenon DEF StopSteps
<1>5. CASE i = Len(s)
  <2>1. s[i] = Step("append", type, 0)
    BY <1>3, <1>4, <1>5
  <2> QED
    BY <1>5, <2>1 DEF Step
<1>6. CASE i = Len(s) - 1
  <2>1. s[i] = Step("verify_store", "none", 0) /\ i # Len(s)
    BY <1>3, <1>4, <1>6
  <2> QED
    BY <1>6, <2>1 DEF Step
<1>7. CASE i # Len(s) /\ i # Len(s) - 1
  <2>1. i \in 1 .. Len(p) /\ (i > 1 => i - 1 \in 1 .. Len(p)) /\ DOMAIN p = 1 .. Len(p)
    BY <1>4, <1>7
  <2>2. s[i] = p[i] /\ (i > 1 => s[i - 1] = p[i - 1]) /\ PlainAt(p, i)
    BY <1>4, <2>1 DEF Plain
  <2>3. TrainingStep(C, r, s, i)
    BY <2>2 DEF PlainAt, TrainingStep
  <2> QED
    BY <1>7, <2>3
<1> QED
  BY <1>5, <1>6, <1>7

\* The lists of one and of two events.
LEMMA Single ==
    ASSUME NEW type \in EventType
    PROVE  /\ Append1(type) \in Seq(StepType) /\ Len(Append1(type)) = 1
           /\ DOMAIN Append1(type) = {1} /\ Append1(type) # <<>>
           /\ Append1(type)[1].do = "append" /\ Append1(type)[1].what = type
<1>1. Step("append", type, 0) \in StepType
  BY Names, StepIsStep
<1> QED
  BY <1>1 DEF Append1, Step

LEMMA Double ==
    ASSUME NEW a \in EventType, NEW b \in EventType
    PROVE  LET s == Append1(a) \o Append1(b)
           IN /\ s \in Seq(StepType) /\ Len(s) = 2 /\ DOMAIN s = 1 .. 2
              /\ s[1].do = "append" /\ s[1].what = a
              /\ s[2].do = "append" /\ s[2].what = b
<1> DEFINE v == Append1(a)
           w == Append1(b)
           s == v \o w
<1>1. /\ v \in Seq(StepType) /\ Len(v) = 1 /\ v[1].do = "append" /\ v[1].what = a
      /\ w \in Seq(StepType) /\ Len(w) = 1 /\ w[1].do = "append" /\ w[1].what = b
  BY Single
<1> HIDE DEF v, w
<1>2. /\ s \in Seq(StepType) /\ Len(s) = Len(v) + Len(w) /\ DOMAIN s = 1 .. Len(v) + Len(w)
      /\ \A i \in 1 .. Len(v) : s[i] = v[i]
      /\ \A i \in 1 .. Len(w) : s[i + Len(v)] = w[i]
  BY <1>1, Joined
<1> HIDE DEF s
<1>3. s[1] = v[1] /\ s[2] = w[1]
  BY <1>1, <1>2
<1> QED
  BY <1>1, <1>2, <1>3 DEF s, v, w

LEMMA Failing ==
    /\ Append1("run_failed") \in Seq(StepType) /\ FailureSteps(Append1("run_failed"))
    /\ Len(Append1("run_failed")) = 1
    /\ \A type \in {"run_worker_message", "artifact_ingestion_failed"} :
         LET s == Append1(type) \o Append1("run_failed")
         IN s \in Seq(StepType) /\ FailureSteps(s) /\ Len(s) = 2
<1>1. "run_failed" \in EventType /\ {"run_worker_message", "artifact_ingestion_failed"} \subseteq EventType
  BY DEF EventType, TerminalType
<1>2. /\ Append1("run_failed") \in Seq(StepType) /\ FailureSteps(Append1("run_failed"))
      /\ Len(Append1("run_failed")) = 1
  BY <1>1, Single DEF FailureSteps
<1>3. ASSUME NEW type \in {"run_worker_message", "artifact_ingestion_failed"}
      PROVE  LET s == Append1(type) \o Append1("run_failed")
             IN s \in Seq(StepType) /\ FailureSteps(s) /\ Len(s) = 2
  <2> DEFINE s == Append1(type) \o Append1("run_failed")
  <2>1. /\ s \in Seq(StepType) /\ Len(s) = 2 /\ DOMAIN s = 1 .. 2
        /\ s[1].do = "append" /\ s[1].what = type
        /\ s[2].do = "append" /\ s[2].what = "run_failed"
    BY <1>1, Double
  <2> HIDE DEF s
  <2>2. FailureSteps(s)
    BY <2>1 DEF FailureSteps
  <2> QED
    BY <2>1, <2>2 DEF s
<1> QED
  BY <1>2, <1>3

LEMMA PreparationSteps ==
    ASSUME NEW p
    PROVE  /\ Preparation(p) \in Seq(StepType) /\ LaunchSteps(Preparation(p))
           /\ Len(Preparation(p)) > 1
           /\ p = NoRun => \A i \in DOMAIN Preparation(p) : Preparation(p)[i].what # "run_recovered"
<1> DEFINE a == Append1("run_preflight_succeeded")
           b == Append1("runtime_request_frozen")
           c == IF p = NoRun THEN <<>> ELSE Append1("run_recovered")
           l == Append1("run_launched")
           ab == a \o b
           q == ab \o c
           s == q \o l
<1>1. {"run_preflight_succeeded", "runtime_request_frozen", "run_recovered", "run_launched"}
      \subseteq EventType
  BY DEF EventType
<1>2. /\ ab \in Seq(StepType) /\ Len(ab) = 2
      /\ ab[1].do = "append" /\ ab[1].what = "run_preflight_succeeded"
      /\ ab[2].do = "append" /\ ab[2].what = "runtime_request_frozen"
  BY <1>1, Double
<1>3. /\ l \in Seq(StepType) /\ Len(l) = 1 /\ l[1].do = "append" /\ l[1].what = "run_launched"
  BY <1>1, Single
<1>4. /\ c \in Seq(StepType) /\ Len(c) \in {0, 1} /\ (p = NoRun => Len(c) = 0)
      /\ Len(c) = 1 => c[1].do = "append" /\ c[1].what = "run_recovered"
  <2>1. CASE p = NoRun
    BY <2>1
  <2>2. CASE p # NoRun
    <3>1. c = Append1("run_recovered")
      BY <2>2
    <3> HIDE DEF c
    <3> QED
      BY <1>1, <2>2, <3>1, Single
  <2> QED
    BY <2>1, <2>2
<1>5. Preparation(p) = s
  BY DEF Preparation
<1> HIDE DEF a, b, c, l, ab
<1>6. /\ q \in Seq(StepType) /\ Len(q) = Len(ab) + Len(c)
      /\ \A i \in 1 .. Len(ab) : q[i] = ab[i]
      /\ \A i \in 1 .. Len(c) : q[i + Len(ab)] = c[i]
  BY <1>2, <1>4, Joined
<1> HIDE DEF q
<1>7. /\ s \in Seq(StepType) /\ Len(s) = Len(q) + Len(l)
      /\ \A i \in 1 .. Len(q) : s[i] = q[i]
      /\ \A i \in 1 .. Len(l) : s[i + Len(q)] = l[i]
  BY <1>3, <1>6, Joined
<1> HIDE DEF s
<1>8. Len(q) = 2 + Len(c) /\ q[1] = ab[1] /\ q[2] = ab[2] /\ (Len(c) = 1 => q[1 + 2] = c[1])
  BY <1>2, <1>4, <1>6
<1>9. Len(s) = 3 + Len(c) /\ s[1] = q[1] /\ s[2] = q[2] /\ (Len(c) = 1 => s[3] = q[3])
  BY <1>3, <1>4, <1>7, <1>8
<1>10. s[1 + Len(q)] = l[1]
  BY <1>3, <1>7
<1>11. DOMAIN s = 1 .. 3 + Len(c)
  BY <1>7, <1>9
<1>12. CASE Len(c) = 0
  <2>1. DOMAIN s = {1, 2, 3} /\ Len(s) = 3 /\ s[3] = l[1]
    BY <1>8, <1>9, <1>10, <1>11, <1>12
  <2>2. LaunchSteps(s)
    BY <2>1, <1>2, <1>3, <1>8, <1>9 DEF LaunchSteps
  <2>3. \A i \in DOMAIN s : s[i].what # "run_recovered"
    BY <2>1, <1>2, <1>3, <1>8, <1>9
  <2>4. Len(s) > 1
    BY <2>1
  <2> QED
    BY <1>5, <1>7, <2>2, <2>3, <2>4, Zenon
<1>13. CASE Len(c) = 1
  <2>1. DOMAIN s = {1, 2, 3, 4} /\ Len(s) = 4 /\ s[3] = c[1] /\ s[4] = l[1]
    BY <1>8, <1>9, <1>10, <1>11, <1>13
  <2>2. LaunchSteps(s)
    BY <2>1, <1>2, <1>3, <1>4, <1>8, <1>9, <1>13 DEF LaunchSteps
  <2> QED
    BY <1>4, <1>5, <1>7, <1>13, <2>1, <2>2, SMTT(90)
<1> QED
  BY <1>4, <1>12, <1>13

-----------------------------------------------------------------------------
(* What the list of an attempt says of its next step                       *)

\* The names of the steps, by where the attempt is.
LEMMA NoRecovery ==
    ASSUME NEW C, NEW r, NEW q \in Seq(StepType), NEW i \in DOMAIN q,
           CompletionSteps(C, r, q) \/ StopSteps(C, r, q) \/ FailureSteps(q)
    PROVE  q[i].what # "run_recovered"
<1>0. \A j \in 1 .. 12 : \A s : Fits(s, Closing[j]) => s.what # "run_recovered"
  BY DEF Fits, Closing, Step
<1>1. CASE CompletionSteps(C, r, q)
  <2> DEFINE j == i + 12 - Len(q)
  <2>1. Len(q) \in Nat /\ i \in 1 .. Len(q)
    OBVIOUS
  <2>2. CASE j > 0
    <3>1. j \in 1 .. 12
      BY <2>1, <2>2
    <3>2. Fits(q[i], Closing[j])
      BY <1>1, <2>2 DEF CompletionSteps, Fits
    <3> QED
      BY <1>0, <3>1, <3>2
  <2>3. CASE ~(j > 0)
    BY <1>1, <2>3 DEF CompletionSteps, TrainingStep, Told
  <2> QED
    BY <2>2, <2>3
<1>2. CASE StopSteps(C, r, q)
  BY <1>2 DEF StopSteps, TrainingStep, Told
<1>3. CASE FailureSteps(q)
  BY <1>3 DEF FailureSteps
<1> QED
  BY <1>1, <1>2, <1>3


\* The step at the head of a list is done: what is left of the list.
LEMMA CompletionRest ==
    ASSUME NEW C, NEW D, NEW r, NEW q \in Seq(StepType), q # <<>>, CompletionSteps(C, r, q),
           C \subseteq D, q[1].do = "checkpoint" => <<r, q[1].at>> \in D
    PROVE  CompletionSteps(D, r, Tail(q))
<1> DEFINE t == Tail(q)
<1>1. /\ Len(q) \in Nat \ {0} /\ DOMAIN q = 1 .. Len(q) /\ Len(t) = Len(q) - 1
      /\ DOMAIN t = 1 .. Len(q) - 1 /\ \A i \in 1 .. Len(q) - 1 : t[i] = q[i + 1]
  BY Rest
<1> HIDE DEF t
<1> SUFFICES CompletionSteps(D, r, t)
  BY DEF t
<1> SUFFICES ASSUME NEW i \in DOMAIN t
             PROVE  LET j == i + 12 - Len(t)
                    IN IF j > 0 THEN IF i = 1 THEN Fits(t[i], Closing[j]) ELSE t[i] = Closing[j]
                       ELSE TrainingStep(D, r, t, i)
  BY Zenon DEF CompletionSteps
<1>2. /\ i \in Nat /\ i + 1 \in DOMAIN q /\ t[i] = q[i + 1] /\ i + 1 # 1
      /\ i + 12 - Len(t) = (i + 1) + 12 - Len(q)
  BY <1>1
<1>3. LET j == (i + 1) + 12 - Len(q)
      IN IF j > 0 THEN q[i + 1] = Closing[j] ELSE TrainingStep(C, r, q, i + 1)
  BY <1>2 DEF CompletionSteps
<1>4. CASE (i + 1) + 12 - Len(q) > 0
  BY <1>2, <1>3, <1>4 DEF Fits
<1>5. CASE ~((i + 1) + 12 - Len(q) > 0)
  <2>1. TrainingStep(C, r, q, i + 1)
    BY <1>3, <1>5
  <2>2. i > 1 => t[i - 1] = q[i]
    BY <1>1, <1>2
  <2>4. (i + 1) - 1 = i /\ (i = 1 \/ i > 1)
    BY <1>1
  <2>5. TrainingStep(D, r, t, i)
    BY <1>2, <2>1, <2>2, <2>4 DEF TrainingStep
  <2> QED
    BY <1>2, <1>5, <2>5
<1> QED
  BY <1>4, <1>5

LEMMA StopRest ==
    ASSUME NEW C, NEW D, NEW r, NEW q \in Seq(StepType), q # <<>>, StopSteps(C, r, q),
           C \subseteq D, q[1].do = "checkpoint" => <<r, q[1].at>> \in D
    PROVE  StopSteps(D, r, Tail(q))
<1> DEFINE t == Tail(q)
<1>1. /\ Len(q) \in Nat \ {0} /\ DOMAIN q = 1 .. Len(q) /\ Len(t) = Len(q) - 1
      /\ DOMAIN t = 1 .. Len(q) - 1 /\ \A i \in 1 .. Len(q) - 1 : t[i] = q[i + 1]
  BY Rest
<1> HIDE DEF t
<1> SUFFICES StopSteps(D, r, t)
  BY DEF t
<1> SUFFICES ASSUME NEW i \in DOMAIN t
             PROVE  IF i = Len(t) THEN t[i].do = "append" /\ t[i].what \in {"run_cancelled", "run_interrupted"}
                    ELSE IF i = Len(t) - 1 THEN t[i].do = "verify_store" /\ t[i].what = "none"
                    ELSE TrainingStep(D, r, t, i)
  BY Zenon DEF StopSteps
<1>2. /\ i \in Nat /\ i + 1 \in DOMAIN q /\ t[i] = q[i + 1] /\ i + 1 # 1
      /\ (i = Len(t) <=> i + 1 = Len(q)) /\ (i = Len(t) - 1 <=> i + 1 = Len(q) - 1)
  BY <1>1, SMTT(90)
<1>3. IF i + 1 = Len(q)
      THEN q[i + 1].do = "append" /\ q[i + 1].what \in {"run_cancelled", "run_interrupted"}
      ELSE IF i + 1 = Len(q) - 1 THEN q[i + 1].do = "verify_store" /\ q[i + 1].what = "none"
      ELSE TrainingStep(C, r, q, i + 1)
  BY <1>2 DEF StopSteps
<1>4. CASE i = Len(t) \/ i = Len(t) - 1
  BY <1>2, <1>3, <1>4
<1>5. CASE ~(i = Len(t) \/ i = Len(t) - 1)
  <2>1. TrainingStep(C, r, q, i + 1)
    BY <1>2, <1>3, <1>5
  <2>2. i > 1 => t[i - 1] = q[i]
    BY <1>1, <1>2
  <2>4. (i + 1) - 1 = i /\ (i = 1 \/ i > 1)
    BY <1>1
  <2>5. TrainingStep(D, r, t, i)
    BY <1>2, <2>1, <2>2, <2>4 DEF TrainingStep
  <2> QED
    BY <1>5, <2>5
<1> QED
  BY <1>4, <1>5

LEMMA EventsRest ==
    ASSUME NEW q \in Seq(StepType), q # <<>>
    PROVE  (LaunchSteps(q) => LaunchSteps(Tail(q))) /\ (FailureSteps(q) => FailureSteps(Tail(q)))
<1> DEFINE t == Tail(q)
<1>1. /\ Len(q) \in Nat \ {0} /\ DOMAIN q = 1 .. Len(q) /\ Len(t) = Len(q) - 1
      /\ DOMAIN t = 1 .. Len(q) - 1 /\ \A i \in 1 .. Len(q) - 1 : t[i] = q[i + 1]
  BY Rest
<1> HIDE DEF t
<1>2. ASSUME NEW i \in DOMAIN t
      PROVE  i + 1 \in DOMAIN q /\ t[i] = q[i + 1] /\ (i = Len(t) <=> i + 1 = Len(q))
  BY <1>1
<1>3. LaunchSteps(q) => LaunchSteps(t)
  BY <1>2 DEF LaunchSteps
<1>4. FailureSteps(q) => FailureSteps(t)
  BY <1>2 DEF FailureSteps
<1> QED
  BY <1>3, <1>4 DEF t


\* What a step of the closing list does, by how many are left.
LEMMA ClosingDeed ==
    ASSUME NEW s, NEW n \in 1 .. 12, Fits(s, Closing[13 - n])
    PROVE  /\ s.do \in {"member", "stage", "link"} =>
                \/ n = 11 /\ s.what = "adapter.bin"
                \/ n = 10 /\ s.what = "adapter_config.json"
                \/ n = 9 /\ s.what = "provenance.json"
           /\ s.do = "verify_bundle" => n = 8
           /\ s.do = "manifest" => n = 7
           /\ s.do = "check_artifact" => n = 6
           /\ s.do = "artifact" => n = 5
           /\ s.do = "availability" => n = 4
           /\ s.do = "verify_store" => n = 2
           /\ s.do # "checkpoint"
           /\ s.do = "append" =>
                \/ n = 12 /\ s.what = "artifact_ingestion_started"
                \/ n = 3 /\ s.what = "artifact_ingestion_verified"
                \/ n = 1 /\ s.what = "run_completed"
           /\ n = 11 => s.what = "adapter.bin" /\ s.do \in {"member", "stage", "link"}
           /\ n = 10 => s.what = "adapter_config.json" /\ s.do \in {"member", "stage", "link"}
           /\ n = 9 => s.what = "provenance.json" /\ s.do \in {"member", "stage", "link"}
           /\ n = 8 => s.do = "verify_bundle"
           /\ n = 7 => s.do = "manifest"
           /\ n = 6 => s.do = "check_artifact"
           /\ n = 5 => s.do = "artifact"
           /\ n = 4 => s.do = "availability"
           /\ n = 3 => s.do = "append" /\ s.what = "artifact_ingestion_verified"
           /\ n = 2 => s.do = "verify_store"
           /\ n = 1 => s.do = "append" /\ s.what = "run_completed"
<1>1. n \in {1, 2, 3, 4, 5, 6, 7, 8, 9, 10, 11, 12}
  OBVIOUS
<1>2. /\ 13 - 1 = 12 /\ 13 - 2 = 11 /\ 13 - 3 = 10 /\ 13 - 4 = 9 /\ 13 - 5 = 8 /\ 13 - 6 = 7
      /\ 13 - 7 = 6 /\ 13 - 8 = 5 /\ 13 - 9 = 4 /\ 13 - 10 = 3 /\ 13 - 11 = 2 /\ 13 - 12 = 1
  OBVIOUS
<1>3. CASE n = 12 \/ n = 11 \/ n = 10 \/ n = 9
  BY <1>2, <1>3 DEF Fits, Closing, Step
<1>4. CASE n = 8 \/ n = 7 \/ n = 6 \/ n = 5
  BY <1>2, <1>4 DEF Fits, Closing, Step
<1>5. CASE n = 4 \/ n = 3 \/ n = 2 \/ n = 1
  BY <1>2, <1>5 DEF Fits, Closing, Step
<1> QED
  BY <1>1, <1>3, <1>4, <1>5

LEMMA CompletionHead ==
    ASSUME NEW C, NEW r, NEW q \in Seq(StepType), q # <<>>, CompletionSteps(C, r, q)
    PROVE  /\ Len(q) \in Nat \ {0}
           /\ Len(q) <= 12 => Fits(q[1], Closing[13 - Len(q)])
           /\ Len(q) > 12 => TrainingStep(C, r, q, 1)
<1>1. Len(q) \in Nat \ {0} /\ 1 \in DOMAIN q /\ 1 + 12 - Len(q) = 13 - Len(q)
  BY Rest
<1>2. LET j == 1 + 12 - Len(q)
      IN IF j > 0 THEN Fits(q[1], Closing[j]) ELSE TrainingStep(C, r, q, 1)
  BY <1>1 DEF CompletionSteps
<1> QED
  BY <1>1, <1>2

LEMMA CompletionLast ==
    ASSUME NEW C, NEW r, NEW q \in Seq(StepType), q # <<>>, CompletionSteps(C, r, q)
    PROVE  q[Len(q)].what = "run_completed"
<1>1. Len(q) \in Nat \ {0} /\ Len(q) \in DOMAIN q /\ Len(q) + 12 - Len(q) = 12
  BY Rest
<1>2. Fits(q[Len(q)], Closing[12])
  BY <1>1 DEF CompletionSteps, Fits
<1> QED
  BY <1>2 DEF Fits, Closing, Step

LEMMA StopHead ==
    ASSUME NEW C, NEW r, NEW q \in Seq(StepType), q # <<>>, StopSteps(C, r, q)
    PROVE  /\ q[1].do \in {"append", "checkpoint", "verify_store"}
           /\ q[1].do = "append" =>
                \/ q[1].what \in Told
                \/ q[1].what = "run_checkpoint" /\ <<r, q[1].at>> \in C
                \/ Len(q) = 1 /\ q[1].what \in {"run_cancelled", "run_interrupted"}
           /\ q[Len(q)].what # "run_completed"
<1>1. Len(q) \in Nat \ {0} /\ 1 \in DOMAIN q /\ Len(q) \in DOMAIN q
  BY Rest
<1>2. q[Len(q)].what \in {"run_cancelled", "run_interrupted"}
  BY <1>1 DEF StopSteps
<1>3. IF 1 = Len(q) THEN q[1].do = "append" /\ q[1].what \in {"run_cancelled", "run_interrupted"}
      ELSE IF 1 = Len(q) - 1 THEN q[1].do = "verify_store" /\ q[1].what = "none"
      ELSE TrainingStep(C, r, q, 1)
  BY <1>1 DEF StopSteps
<1> QED
  BY <1>1, <1>2, <1>3 DEF TrainingStep


-----------------------------------------------------------------------------
(* The moves of an attempt                                                 *)

\* Attempt r is at m with the steps s, the others are where they were.
Moved(r, m, s) ==
    /\ mode' \in [Run -> Mode] /\ todo' \in [Run -> Seq(StepType)]
    /\ mode'[r] = m /\ todo'[r] = s
    /\ \A q \in Run : q # r => mode'[q] = mode[q] /\ todo'[q] = todo[q]

LEMMA Continues ==
    ASSUME TypeOK, NEW r \in Run, NEW m \in Mode, NEW s \in Seq(StepType), Continue(r, m, s)
    PROVE  Moved(r, m, s)
BY DEF TypeOK, Continue, Moved

LEMMA Working ==
    ASSUME TypeOK, NEW r \in Run, Shape(r), todo[r] # <<>>
    PROVE  /\ todo[r] \in Seq(StepType) /\ Head(todo[r]) = todo[r][1] /\ 1 \in DOMAIN todo[r]
           /\ Len(todo[r]) \in Nat \ {0} /\ Head(todo[r]) \in StepType
           /\ Tail(todo[r]) \in Seq(StepType) /\ Len(Tail(todo[r])) = Len(todo[r]) - 1
           /\ mode[r] \in {"launching", "running", "failing"}
           /\ Head(todo[r]).do # "append" => mode[r] = "running"
<1>1. /\ todo[r] \in Seq(StepType) /\ Head(todo[r]) = todo[r][1] /\ 1 \in DOMAIN todo[r]
      /\ Len(todo[r]) \in Nat \ {0} /\ Head(todo[r]) \in StepType
      /\ Tail(todo[r]) \in Seq(StepType) /\ Len(Tail(todo[r])) = Len(todo[r]) - 1
  BY Rest DEF TypeOK
<1>2. mode[r] \in {"launching", "running", "failing"}
  BY DEF TypeOK, Shape, Mode
<1>3. mode[r] = "launching" => todo[r][1].do = "append"
  <2> SUFFICES ASSUME mode[r] = "launching" PROVE todo[r][1].do = "append"
    OBVIOUS
  <2>1. CASE LaunchSteps(todo[r])
    BY <1>1, <2>1 DEF LaunchSteps
  <2>2. CASE todo[r] = Append1("run_preflight_blocked")
    BY <2>2, Single DEF EventType, TerminalType
  <2> QED
    BY <2>1, <2>2 DEF Shape
<1>4. mode[r] = "failing" => todo[r][1].do = "append"
  BY <1>1 DEF Shape, FailureSteps
<1> QED
  BY <1>1, <1>2, <1>3, <1>4

\* A step is done: the rest is a list of the same kind.
LEMMA ShapeDone ==
    ASSUME TypeOK, NEW r \in Run, Shape(r), todo[r] # <<>>, Done(r),
           checkpoints \subseteq checkpoints', prior'[r] = prior[r],
           Head(todo[r]).do = "checkpoint" => <<r, Head(todo[r]).at>> \in checkpoints'
    PROVE  Shape(r)' /\ Moved(r, mode[r], Tail(todo[r]))
<1> DEFINE q == todo[r]
           t == Tail(q)
<1>1. /\ q \in Seq(StepType) /\ q # <<>> /\ t \in Seq(StepType) /\ mode[r] \in Mode
      /\ mode[r] \in {"launching", "running", "failing"} /\ Head(q) = q[1]
  BY Working DEF TypeOK
<1>2. Moved(r, mode[r], t)
  BY <1>1, Continues DEF Done
<1>3. mode'[r] = mode[r] /\ todo'[r] = t
  BY <1>2 DEF Moved
<1>4. mode[r] = "launching" => LaunchSteps(t)
  <2>1. CASE q = Append1("run_preflight_blocked")
    <3>1. Len(q) = 1
      BY <2>1, Single DEF EventType, TerminalType
    <3>2. DOMAIN t = 1 .. Len(q) - 1
      BY <1>1, Rest
    <3>3. DOMAIN t = {}
      BY <3>1, <3>2
    <3> QED
      BY <3>3 DEF LaunchSteps
  <2>2. CASE LaunchSteps(q)
    BY <1>1, <2>2, EventsRest
  <2> QED
    BY <2>1, <2>2 DEF Shape
<1>5. mode[r] = "running" =>
        CompletionSteps(checkpoints', r, t) \/ StopSteps(checkpoints', r, t)
  BY <1>1, CompletionRest, StopRest DEF Shape
<1>6. mode[r] = "failing" => FailureSteps(t)
  BY <1>1, EventsRest DEF Shape
<1>7. (\E i \in DOMAIN t : t[i].what = "run_recovered") => prior[r] # NoRun
  <2> SUFFICES ASSUME NEW i \in DOMAIN t, t[i].what = "run_recovered" PROVE prior[r] # NoRun
    OBVIOUS
  <2>0. /\ Len(q) \in Nat \ {0} /\ DOMAIN q = 1 .. Len(q) /\ DOMAIN t = 1 .. Len(q) - 1
        /\ \A k \in 1 .. Len(q) - 1 : t[k] = q[k + 1]
    BY <1>1, Rest
  <2> HIDE DEF t, q
  <2>1. i + 1 \in DOMAIN q /\ t[i] = q[i + 1]
    BY <2>0
  <2> QED
    BY <2>1 DEF Shape, q
<1>8. prior'[r] = prior[r]
  OBVIOUS
<1> HIDE DEF t
<1>9. Shape(r)'
  BY <1>1, <1>3, <1>4, <1>5, <1>6, <1>7 DEF Shape
<1> QED
  BY <1>2, <1>9 DEF t


\* A member of the bundle goes on to its next call.
LEMMA ShapeThen ==
    ASSUME TypeOK, NEW r \in Run, Shape(r), todo[r] # <<>>, Head(todo[r]).do \in {"member", "stage"},
           NEW do \in {"stage", "link"}, Then(r, do),
           checkpoints' = checkpoints, prior'[r] = prior[r]
    PROVE  /\ Shape(r)' /\ Moved(r, "running", todo'[r])
           /\ Len(todo[r]) \in {9, 10, 11} /\ Len(todo'[r]) = Len(todo[r]) /\ todo'[r] # <<>>
           /\ todo'[r][Len(todo[r])].what = todo[r][Len(todo[r])].what
<1> DEFINE q == todo[r]
           h == Head(q)
           g == [h EXCEPT !.do = do]
           t == Tail(q)
           s == <<g>> \o t
<1>1. /\ q \in Seq(StepType) /\ q # <<>> /\ t \in Seq(StepType) /\ h \in StepType /\ h = q[1]
      /\ Len(q) \in Nat \ {0} /\ mode[r] = "running" /\ Len(t) = Len(q) - 1
  BY Working
<1>2. h.do \in {"member", "stage"} /\ DOMAIN q = 1 .. Len(q)
  BY <1>1
<1>3. \A i \in 1 .. Len(q) - 1 : t[i] = q[i + 1]
  BY <1>1, Rest
<1>4. g \in StepType /\ g.do = do /\ g.what = h.what
  BY <1>1 DEF StepType, Deed
<1>5. mode'[r] = "running" /\ todo'[r] = s /\ s \in Seq(StepType) /\ Moved(r, "running", s)
  <2> HIDE DEF g, t
  <2>1. <<g>> \in Seq(StepType)
    BY <1>4
  <2> DEFINE u == <<g>>
  <2> HIDE DEF u
  <2>2. u \o t \in Seq(StepType)
    BY <2>1, <1>1, Joined DEF u
  <2>3. s \in Seq(StepType)
    BY <2>2 DEF u
  <2>4. Continue(r, "running", s)
    BY <1>1 DEF Then, g, t
  <2> HIDE DEF s
  <2>5. Moved(r, "running", s)
    BY <2>3, <2>4, Continues DEF Mode
  <2> QED
    BY <2>3, <2>5 DEF Moved
<1>6. Len(s) = Len(q) /\ s[1] = g /\ \A i \in 2 .. Len(q) : s[i] = q[i]
  <2> DEFINE u == <<g>>
  <2>1. u \in Seq(StepType) /\ Len(u) = 1 /\ u[1] = g
    BY <1>4
  <2> HIDE DEF u, g, t
  <2>2. /\ Len(u \o t) = Len(u) + Len(t)
        /\ \A i \in 1 .. Len(u) : (u \o t)[i] = u[i]
        /\ \A i \in 1 .. Len(t) : (u \o t)[i + Len(u)] = t[i]
    BY <2>1, <1>1, Joined
  <2>3. s = u \o t
    BY DEF u
  <2> HIDE DEF s
  <2>4. Len(s) = Len(q) /\ s[1] = g
    BY <1>1, <2>1, <2>2, <2>3
  <2>5. ASSUME NEW i \in 2 .. Len(q) PROVE s[i] = q[i]
    <3>1. i - 1 \in 1 .. Len(t) /\ i - 1 \in 1 .. Len(q) - 1 /\ (i - 1) + 1 = i
      BY <1>1
    <3>2. s[(i - 1) + 1] = t[i - 1]
      BY <2>1, <2>2, <2>3, <3>1
    <3>3. t[i - 1] = q[(i - 1) + 1]
      BY <1>3, <3>1
    <3> QED
      BY <3>1, <3>2, <3>3
  <2> QED
    BY <2>4, <2>5
<1> HIDE DEF s, g, h, t
<1>7. CompletionSteps(checkpoints, r, q)
  <2>1. StopSteps(checkpoints, r, q) => FALSE
    <3> SUFFICES ASSUME StopSteps(checkpoints, r, q) PROVE FALSE
      OBVIOUS
    <3>1. q[1].do \in {"append", "checkpoint", "verify_store"}
      BY <1>1, StopHead
    <3> QED
      BY <3>1, <1>1, <1>2
  <2> QED
    BY <1>1, <2>1 DEF Shape
<1>8. Len(q) \in {9, 10, 11} /\ Fits(h, Closing[13 - Len(q)])
  <2>0. /\ Len(q) \in Nat \ {0}
        /\ Len(q) <= 12 => Fits(q[1], Closing[13 - Len(q)])
        /\ Len(q) > 12 => TrainingStep(checkpoints, r, q, 1)
    BY <1>1, <1>7, CompletionHead
  <2>1. ~(Len(q) > 12)
    <3> SUFFICES ASSUME Len(q) > 12 PROVE FALSE
      OBVIOUS
    <3>1. TrainingStep(checkpoints, r, q, 1)
      BY <2>0
    <3> QED
      BY <3>1, <1>1, <1>2 DEF TrainingStep
  <2>2. Len(q) \in 1 .. 12 /\ Fits(h, Closing[13 - Len(q)])
    <3> DEFINE n == Len(q)
    <3>0. n \in Nat \ {0} /\ ~(n > 12)
      BY <2>0, <2>1
    <3> HIDE DEF n
    <3>1. n \in 1 .. 12 /\ n <= 12
      BY <3>0
    <3>2. Fits(q[1], Closing[13 - Len(q)])
      BY <2>0, <3>1, Zenon DEF n
    <3> QED
      BY <1>1, <3>1, <3>2, Zenon DEF n
  <2>3. Len(q) = 11 \/ Len(q) = 10 \/ Len(q) = 9
    BY <1>2, <2>2, ClosingDeed
  <2> QED
    BY <2>2, <2>3
<1> DEFINE n == Len(q)
<1>a. n \in {9, 10, 11}
  BY <1>8
<1> HIDE DEF n
<1>b. n \in Nat /\ n <= 11 /\ n \in 2 .. n
  BY <1>a
<1>9. Fits(g, Closing[13 - Len(q)])
  <2>1. Closing[13 - Len(q)].do = "member"
    <3>1. /\ 13 - 11 = 2 /\ 13 - 10 = 3 /\ 13 - 9 = 4
          /\ Closing[2].do = "member" /\ Closing[3].do = "member" /\ Closing[4].do = "member"
      BY DEF Closing, Step
    <3> QED
      BY <1>8, <3>1
  <2> QED
    BY <1>4, <1>8, <2>1 DEF Fits
<1>10. CompletionSteps(checkpoints, r, s)
  <2> SUFFICES ASSUME NEW i \in DOMAIN s
               PROVE  LET j == i + 12 - Len(s)
                      IN IF j > 0 THEN IF i = 1 THEN Fits(s[i], Closing[j]) ELSE s[i] = Closing[j]
                         ELSE TrainingStep(checkpoints, r, s, i)
    BY Zenon DEF CompletionSteps
  <2>1. DOMAIN s = 1 .. Len(q) /\ i \in Nat /\ i + 12 - Len(s) > 0 /\ i + 12 - Len(s) = i + 12 - Len(q)
    <3>1. Len(s) = n /\ DOMAIN s = 1 .. Len(s)
      BY <1>5, <1>6 DEF n
    <3>2. i \in 1 .. n
      BY <3>1
    <3>3. i \in Nat /\ i + 12 - n > 0
      BY <1>b, <3>2
    <3> QED
      BY <3>1, <3>3, Zenon DEF n
  <2>2. CASE i = 1
    <3>1. i + 12 - Len(q) = 13 - Len(q)
      BY <1>8, <2>2
    <3> QED
      BY <1>6, <1>9, <2>1, <2>2, <3>1
  <2>3. CASE i # 1
    <3>1. i \in 2 .. Len(q) /\ i \in DOMAIN q
      BY <1>1, <1>2, <2>1, <2>3
    <3>2. q[i] = Closing[i + 12 - Len(q)]
      BY <1>7, <2>1, <2>3, <3>1 DEF CompletionSteps
    <3> QED
      BY <1>6, <2>1, <2>3, <3>1, <3>2
  <2> QED
    BY <2>2, <2>3
<1>11. Shape(r)'
  <2>1. ASSUME NEW i \in DOMAIN s PROVE s[i].what # "run_recovered"
    BY <1>5, <1>10, NoRecovery
  <2>2. CompletionSteps(checkpoints', r, s)
    BY <1>10
  <2> QED
    BY <1>5, <2>1, <2>2 DEF Shape
<1>12. s # <<>>
  BY <1>1, <1>6
<1>13. s[Len(q)].what = q[Len(q)].what
  BY <1>6, <1>b, Zenon DEF n
<1> QED
  BY <1>5, <1>6, <1>8, <1>11, <1>12, <1>13


\* An attempt is given a new list.
LEMMA ShapeAt ==
    ASSUME TypeOK, NEW r \in Run, NEW m \in Mode, NEW s \in Seq(StepType), Continue(r, m, s),
           m \in {"idle", "preparing", "over", "lost", "dead"} => s = <<>>,
           m = "launching" => s = Append1("run_preflight_blocked") \/ LaunchSteps(s),
           m = "running" => CompletionSteps(checkpoints', r, s) \/ StopSteps(checkpoints', r, s),
           m = "failing" => FailureSteps(s),
           m = "launching" /\ (\E i \in DOMAIN s : s[i].what = "run_recovered") => prior'[r] # NoRun
    PROVE  Shape(r)' /\ Moved(r, m, s)
<1>1. Moved(r, m, s) /\ mode'[r] = m /\ todo'[r] = s
  BY Continues DEF Moved
<1>2. (\E i \in DOMAIN s : s[i].what = "run_recovered") => prior'[r] # NoRun
  <2>1. CASE m \in {"running", "failing"}
    <3>1. ASSUME NEW i \in DOMAIN s PROVE s[i].what # "run_recovered"
      BY <2>1, NoRecovery
    <3> QED
      BY <3>1
  <2>2. CASE m = "launching"
    BY <2>2
  <2>3. CASE m \in {"idle", "preparing", "over", "lost", "dead"}
    BY <2>3
  <2> QED
    BY <2>1, <2>2, <2>3 DEF Mode
<1>3. Shape(r)'
  BY <1>1, <1>2 DEF Shape
<1> QED
  BY <1>1, <1>3

LEMMA Raised ==
    ASSUME TypeOK, NEW r \in Run, Shape(r), todo[r] # <<>>, Raises(r),
           checkpoints \subseteq checkpoints', prior'[r] = prior[r]
    PROVE  /\ Shape(r)' /\ Moved(r, mode'[r], todo'[r])
           /\ \/ mode[r] = "launching" /\ mode'[r] \in {"over", "lost"} /\ todo'[r] = <<>>
              \/ /\ mode[r] = "running" /\ mode'[r] = "failing"
                 /\ Ingesting(Head(todo[r])) \/ Len(todo'[r]) = 1
              \/ /\ mode[r] = "failing" /\ Len(todo[r]) > 1 /\ mode'[r] = "failing"
                 /\ todo'[r] = Tail(todo[r])
              \/ mode[r] = "failing" /\ mode'[r] = "lost" /\ todo'[r] = <<>>
<1> DEFINE q == todo[r]
           a == Append1("run_failed")
           b == Append1("artifact_ingestion_failed") \o Append1("run_failed")
<1>1. /\ q \in Seq(StepType) /\ q # <<>> /\ mode[r] \in Mode /\ Len(q) \in Nat \ {0}
      /\ mode[r] \in {"launching", "running", "failing"} /\ Head(q) = q[1] /\ 1 \in DOMAIN q
  BY Working DEF TypeOK
<1>2. CASE mode[r] = "launching"
  <2>1. PICK m \in {"over", "lost"} : Continue(r, m, <<>>)
    BY <1>2 DEF Raises
  <2>2. m \in Mode /\ <<>> \in Seq(StepType)
    BY DEF Mode
  <2>3. Shape(r)' /\ Moved(r, m, <<>>)
    BY <2>1, <2>2, ShapeAt
  <2> QED
    BY <1>2, <2>3 DEF Moved
<1>a. ASSUME mode[r] = "failing", Continue(r, "lost", <<>>)
      PROVE  /\ Shape(r)' /\ Moved(r, mode'[r], todo'[r])
             /\ mode'[r] = "lost" /\ todo'[r] = <<>>
  <2>1. "lost" \in Mode /\ <<>> \in Seq(StepType)
    BY DEF Mode
  <2>2. Shape(r)' /\ Moved(r, "lost", <<>>)
    BY <1>a, <2>1, ShapeAt
  <2> QED
    BY <2>2 DEF Moved
<1>3. CASE mode[r] = "running"
  <2>1. \/ ~Ingesting(Head(q)) /\ Continue(r, "failing", a)
        \/ Ingesting(Head(q)) /\ Continue(r, "failing", b)
    BY <1>3 DEF Raises
  <2>2. /\ a \in Seq(StepType) /\ FailureSteps(a) /\ Len(a) = 1
        /\ b \in Seq(StepType) /\ FailureSteps(b)
    BY Failing
  <2>3. "failing" \in Mode
    BY DEF Mode
  <2> HIDE DEF a, b
  <2>4. CASE ~Ingesting(Head(q)) /\ Continue(r, "failing", a)
    <3>1. Shape(r)' /\ Moved(r, "failing", a)
      BY <2>2, <2>3, <2>4, ShapeAt
    <3> QED
      BY <1>3, <2>2, <3>1 DEF Moved
  <2>5. CASE Ingesting(Head(q)) /\ Continue(r, "failing", b)
    <3>1. Shape(r)' /\ Moved(r, "failing", b)
      BY <2>2, <2>3, <2>5, ShapeAt
    <3> QED
      BY <1>3, <2>5, <3>1 DEF Moved
  <2> QED
    BY <2>1, <2>4, <2>5
<1>4. CASE mode[r] = "failing" /\ Len(q) > 1
  <2>0. Len(q) # 1
    <3> DEFINE n == Len(q)
    <3>1. n \in Nat /\ n > 1
      BY <1>1, <1>4
    <3> HIDE DEF n
    <3>2. n # 1
      BY <3>1
    <3> QED
      BY <3>2 DEF n
  <2>1. Done(r) \/ Continue(r, "lost", <<>>)
    BY <1>4, <2>0 DEF Raises
  <2>2. q[1].do = "append"
    BY <1>1, <1>4 DEF Shape, FailureSteps
  <2>3. ASSUME Done(r) PROVE Shape(r)' /\ Moved(r, mode[r], Tail(q))
    BY <1>1, <2>2, <2>3, ShapeDone
  <2> QED
    BY <1>4, <1>a, <2>1, <2>3 DEF Moved
<1>5. CASE mode[r] = "failing" /\ Len(q) = 1
  <2>1. Continue(r, "lost", <<>>)
    BY <1>5 DEF Raises
  <2> QED
    BY <1>5, <1>a, <2>1
<1>6. Len(q) > 1 \/ Len(q) = 1
  <2> DEFINE n == Len(q)
  <2>1. n \in Nat \ {0}
    BY <1>1
  <2> HIDE DEF n
  <2>2. n > 1 \/ n = 1
    BY <2>1
  <2> QED
    BY <2>2 DEF n
<1> QED
  BY <1>1, <1>2, <1>3, <1>4, <1>5, <1>6, Zenon


-----------------------------------------------------------------------------
(* An event is appended                                                    *)

Appends(r, e) == stream' = [stream EXCEPT ![r] = Append(@, e)]

LEMMA Appended ==
    ASSUME stream \in [Run -> Seq(Event)], NEW r \in Run, NEW e \in Event, Appends(r, e)
    PROVE  /\ stream' \in [Run -> Seq(Event)] /\ \A q \in Run : q # r => stream'[q] = stream[q]
           /\ Len(stream[r]) \in Nat /\ Len(stream'[r]) = Len(stream[r]) + 1 /\ stream'[r] # <<>>
           /\ DOMAIN stream[r] = 1 .. Len(stream[r])
           /\ DOMAIN stream'[r] = 1 .. Len(stream[r]) + 1
           /\ \A i \in 1 .. Len(stream[r]) : stream'[r][i] = stream[r][i]
           /\ stream'[r][Len(stream[r]) + 1] = e
<1> DEFINE s == stream[r]
           t == Append(s, e)
<1>1. s \in Seq(Event) /\ stream'[r] = t /\ \A q \in Run : q # r => stream'[q] = stream[q]
  BY DEF Appends
<1>2. /\ t \in Seq(Event) /\ Len(t) = Len(s) + 1 /\ Len(s) \in Nat
      /\ DOMAIN s = 1 .. Len(s)
      /\ \A i \in 1 .. Len(s) : t[i] = s[i]
      /\ t[Len(s) + 1] = e
  BY <1>1, AppendProperties
<1> HIDE DEF t
<1>3. DOMAIN t = 1 .. Len(s) + 1
  BY <1>2
<1>4. stream' \in [Run -> Seq(Event)]
  BY <1>2 DEF Appends, t
<1>5. t # <<>>
  <2>1. Len(s) + 1 \in DOMAIN t
    BY <1>2, <1>3
  <2> QED
    BY <2>1
<1> QED
  BY <1>1, <1>2, <1>3, <1>4, <1>5

\* What the event adds to what the stream tells.
LEMMA Tells ==
    ASSUME stream \in [Run -> Seq(Event)], NEW r \in Run, NEW e \in Event, Appends(r, e)
    PROVE  /\ Terminals(r)' = Terminals(r) \cup
                 (IF e.type \in TerminalType THEN {Len(stream[r]) + 1} ELSE {})
           /\ Launched(r)' = Launched(r) \cup
                 (IF e.type = "run_launched" THEN {Len(stream[r]) + 1} ELSE {})
           /\ CheckpointEvents(r)' = CheckpointEvents(r) \cup
                 (IF e.type = "run_checkpoint" THEN {e.at} ELSE {})
           /\ \A type : Has(r, type)' <=> (Has(r, type) \/ type = e.type)
           /\ Terminals(r) \subseteq 1 .. Len(stream[r]) /\ Launched(r) \subseteq 1 .. Len(stream[r])
<1> DEFINE n == Len(stream[r])
           s == stream[r]
           t == stream'[r]
<1>1. /\ n \in Nat /\ DOMAIN s = 1 .. n /\ DOMAIN t = 1 .. n + 1
      /\ \A i \in 1 .. n : t[i] = s[i]
      /\ t[n + 1] = e
  BY Appended
<1> HIDE DEF n, s, t
<1>2. \A i : i \in DOMAIN t <=> (i \in DOMAIN s \/ i = n + 1)
  BY <1>1
<1>3. \A i \in DOMAIN s : t[i] = s[i]
  BY <1>1
<1>4. n + 1 \notin DOMAIN s /\ n + 1 \in DOMAIN t
  BY <1>1
<1>5. Terminals(r)' = Terminals(r) \cup (IF e.type \in TerminalType THEN {n + 1} ELSE {})
  <2>1. /\ Terminals(r)' = {i \in DOMAIN t : t[i].type \in TerminalType}
        /\ Terminals(r) = {i \in DOMAIN s : s[i].type \in TerminalType}
    BY DEF Terminals, s, t
  <2> QED
    BY <1>1, <1>2, <1>3, <1>4, <2>1
<1>6. Launched(r)' = Launched(r) \cup (IF e.type = "run_launched" THEN {n + 1} ELSE {})
  <2>1. /\ Launched(r)' = {i \in DOMAIN t : t[i].type = "run_launched"}
        /\ Launched(r) = {i \in DOMAIN s : s[i].type = "run_launched"}
    BY DEF Launched, s, t
  <2> QED
    BY <1>1, <1>2, <1>3, <1>4, <2>1
<1>7. CheckpointEvents(r)' = CheckpointEvents(r) \cup (IF e.type = "run_checkpoint" THEN {e.at} ELSE {})
  <2>1. ASSUME NEW k
        PROVE  k \in CheckpointEvents(r)' <=> \E i \in DOMAIN t : t[i].type = "run_checkpoint" /\ k = t[i].at
    BY DEF CheckpointEvents, t
  <2>2. ASSUME NEW k
        PROVE  k \in CheckpointEvents(r) <=> \E i \in DOMAIN s : s[i].type = "run_checkpoint" /\ k = s[i].at
    BY DEF CheckpointEvents, s
  <2>3. ASSUME NEW k
        PROVE  k \in CheckpointEvents(r)'
                 <=> (k \in CheckpointEvents(r) \/ (e.type = "run_checkpoint" /\ k = e.at))
    <3>1. (\E i \in DOMAIN t : t[i].type = "run_checkpoint" /\ k = t[i].at)
            <=> ((\E i \in DOMAIN s : s[i].type = "run_checkpoint" /\ k = s[i].at)
                  \/ (e.type = "run_checkpoint" /\ k = e.at))
      BY <1>1, <1>2, <1>3, <1>4
    <3> QED
      BY <2>1, <2>2, <3>1, Zenon
  <2> QED
    BY <2>3
<1>8. ASSUME NEW type PROVE Has(r, type)' <=> (Has(r, type) \/ type = e.type)
  <2>1. /\ Has(r, type)' <=> \E i \in DOMAIN t : t[i].type = type
        /\ Has(r, type) <=> \E i \in DOMAIN s : s[i].type = type
    BY DEF Has, s, t
  <2>2. (\E i \in DOMAIN t : t[i].type = type)
          <=> ((\E i \in DOMAIN s : s[i].type = type) \/ type = e.type)
    BY <1>1, <1>2, <1>3, <1>4
  <2> QED
    BY <2>1, <2>2, Zenon
<1>9. Terminals(r) \subseteq 1 .. n /\ Launched(r) \subseteq 1 .. n
  BY <1>1 DEF Terminals, Launched, s
<1> QED
  BY <1>5, <1>6, <1>7, <1>8, <1>9 DEF n


-----------------------------------------------------------------------------
(* What a step of r leaves to the other runs                               *)

\* Files, records and requests stay; new temporary names are those of r.
Stays(r) ==
    /\ target' = target /\ payload' = payload
    /\ checkpoints \subseteq checkpoints' /\ members \subseteq members'
    /\ manifests \subseteq manifests' /\ artifacts \subseteq artifacts'
    /\ available \subseteq available' /\ ambiguous \subseteq ambiguous'
    /\ \A t \in temps' : t \in temps \/ t[2] = r

Elsewhere(r) ==
    /\ stream' \in [Run -> Seq(Event)] /\ prior' \in [Run -> Run \cup {NoRun}]
    /\ DOMAIN start' = Run
    /\ \A q \in Run : q # r =>
         stream'[q] = stream[q] /\ prior'[q] = prior[q] /\ start'[q] = start[q]

LEMMA MembersStay ==
    ASSUME NEW r, target' = target, payload' = payload, NEW name
    PROVE  Member(r, name)' = Member(r, name)
BY DEF Member, Bytes

LEMMA MoreCheckpoints ==
    ASSUME NEW C, NEW D, C \subseteq D, NEW r, NEW q
    PROVE  /\ CompletionSteps(C, r, q) => CompletionSteps(D, r, q)
           /\ StopSteps(C, r, q) => StopSteps(D, r, q)
<1>1. ASSUME NEW i, TrainingStep(C, r, q, i) PROVE TrainingStep(D, r, q, i)
  BY <1>1 DEF TrainingStep
<1>2. ASSUME CompletionSteps(C, r, q) PROVE CompletionSteps(D, r, q)
  BY <1>1, <1>2, Zenon DEF CompletionSteps
<1>3. ASSUME StopSteps(C, r, q) PROVE StopSteps(D, r, q)
  BY <1>1, <1>3, Zenon DEF StopSteps
<1> QED
  BY <1>2, <1>3

\* What is durable stays so.
LEMMA DurableStays ==
    ASSUME NEW r, NEW q, NEW n \in Nat, Durable(q, n), Stays(r),
           Has(q, "artifact_ingestion_verified") => Has(q, "artifact_ingestion_verified")',
           n <= 7 /\ q = r => temps' \subseteq temps
    PROVE  Durable(q, n)'
<1>1. \A name : Member(q, name)' = Member(q, name)
  BY MembersStay DEF Stays
<1>2. ASSUME n <= 7 PROVE \A t \in temps' : t[2] # q
  BY <1>2 DEF Durable, Stays
<1>3. [id |-> target'[q], run |-> q] = [id |-> target[q], run |-> q]
  BY DEF Stays
<1> QED
  BY <1>1, <1>2, <1>3 DEF Durable, Stays

LEMMA Frame ==
    ASSUME TypeOK, NEW r \in Run, Moved(r, mode'[r], todo'[r]), Elsewhere(r), Stays(r),
           NEW q \in Run, q # r, Shape(q), Past(q), Ends(q), Completion(q)
    PROVE  Shape(q)' /\ Past(q)' /\ Ends(q)' /\ Completion(q)'
<1>1. /\ mode'[q] = mode[q] /\ todo'[q] = todo[q] /\ stream'[q] = stream[q]
      /\ prior'[q] = prior[q] /\ start'[q] = start[q]
      /\ checkpoints \subseteq checkpoints' /\ ambiguous \subseteq ambiguous'
  BY DEF Moved, Elsewhere, Stays
<1>2. Shape(q)'
  <2>1. /\ CompletionSteps(checkpoints, q, todo[q]) => CompletionSteps(checkpoints', q, todo[q])
        /\ StopSteps(checkpoints, q, todo[q]) => StopSteps(checkpoints', q, todo[q])
    BY <1>1, MoreCheckpoints
  <2> QED
    BY <1>1, <2>1 DEF Shape
<1>3. /\ Terminals(q)' = Terminals(q) /\ Launched(q)' = Launched(q)
      /\ \A type : Has(q, type)' <=> Has(q, type)
  BY <1>1 DEF Terminals, Launched, Has
<1>4. Past(q)'
  BY <1>1, <1>3 DEF Past
<1>5. Ends(q)'
  BY <1>1, <1>3 DEF Ends
<1>6. Completion(q)'
  <2>1. Completes(q)' => Completes(q)
    BY <1>1 DEF Completes
  <2>2. Len(todo[q]) \in Nat /\ 0 \in Nat /\ Len(todo'[q]) = Len(todo[q])
    BY <1>1 DEF TypeOK
  <2>3. Completes(q) => Durable(q, Len(todo[q]))'
    <3> SUFFICES ASSUME Completes(q) PROVE Durable(q, Len(todo[q]))'
      OBVIOUS
    <3>1. PICK n \in Nat : n = Len(todo[q])
      BY <2>2
    <3>2. Durable(q, n)
      BY <3>1 DEF Completion
    <3>3. Durable(q, n)'
      BY <3>2, <1>3, DurableStays
    <3> QED
      BY <3>1, <3>3, <2>2 DEF Durable
  <2>4. Has(q, "run_completed") => Durable(q, 0)'
    BY <1>3, <2>2, DurableStays DEF Completion
  <2> QED
    BY <1>1, <1>3, <2>1, <2>3, <2>4 DEF Completion
<1> QED
  BY <1>2, <1>4, <1>5, <1>6


-----------------------------------------------------------------------------
(* A running attempt, at its next step                                     *)

LEMMA NotEnded ==
    ASSUME TypeOK, NEW r \in Run, Shape(r), Past(r), Ends(r), todo[r] # <<>>
    PROVE  /\ mode[r] \in {"launching", "running"} => Terminals(r) = {}
           /\ mode[r] = "failing" =>
                \/ Terminals(r) = {}
                \/ /\ Terminals(r) = {Len(stream[r])} /\ r \in ambiguous
                   /\ Len(todo[r]) = 1
           /\ Terminals(r) = {} => \A type \in TerminalType : ~Has(r, type)
           /\ mode[r] = "running" => Launched(r) # {}
<1>1. Terminals(r) = {} => \A type \in TerminalType : ~Has(r, type)
  BY DEF Terminals, Has
<1>2. mode[r] = "launching" => Terminals(r) = {}
  BY DEF Past
<1>3. mode[r] \in {"running", "failing"} => Launched(r) # {}
  BY DEF Past
<1>4. \/ Terminals(r) = {}
      \/ Terminals(r) = {Len(stream[r])} /\ r \in ambiguous /\ mode[r] = "failing" /\ Len(todo[r]) = 1
  BY DEF Ends
<1> QED
  BY <1>1, <1>2, <1>3, <1>4

\* A step without an event leaves the attempt running, or failing.
LEMMA Quiet ==
    ASSUME TypeOK, NEW r \in Run, Shape(r), Past(r), Ends(r), todo[r] # <<>>, mode[r] = "running",
           mode'[r] \in {"running", "failing"}, stream' = stream
    PROVE  /\ Past(r)' /\ Ends(r)'
           /\ mode'[r] = "failing" => Completion(r)'
<1>1. /\ Terminals(r) = {} /\ Launched(r) # {} /\ ~Has(r, "run_completed")
  BY NotEnded DEF TerminalType
<1>2. /\ Terminals(r)' = Terminals(r) /\ Launched(r)' = Launched(r)
      /\ Has(r, "run_completed")' <=> Has(r, "run_completed")
  BY DEF Terminals, Launched, Has
<1>3. Launched(r) = {} \/ \E i \in DOMAIN stream[r] : Launched(r) = {i}
  BY DEF Past
<1>4. Past(r)'
  BY <1>1, <1>2, <1>3 DEF Past
<1>5. Ends(r)'
  BY <1>1, <1>2 DEF Ends
<1>6. mode'[r] = "failing" => Completion(r)'
  BY <1>1, <1>2 DEF Completion, Completes
<1> QED
  BY <1>4, <1>5, <1>6

\* A run that will complete has the closing list before it.
LEMMA Completing ==
    ASSUME TypeOK, NEW r \in Run, Shape(r), Completes(r)
    PROVE  /\ todo[r] \in Seq(StepType) /\ todo[r] # <<>> /\ mode[r] = "running"
           /\ CompletionSteps(checkpoints, r, todo[r])
<1>1. todo[r] \in Seq(StepType) /\ todo[r] # <<>> /\ mode[r] = "running"
  BY DEF TypeOK, Completes
<1>2. ~StopSteps(checkpoints, r, todo[r])
  BY <1>1, StopHead DEF Completes
<1> QED
  BY <1>1, <1>2 DEF Shape

\* What the step at the head of the list of a completing run makes durable.
Effect(r) ==
    LET s == Head(todo[r])
    IN /\ s.do \in {"member", "stage", "link"} => Member(r, s.what) \in members'
       /\ s.do = "verify_bundle" => \A t \in temps' : t[2] # r
       /\ s.do = "manifest" => r \in manifests'
       /\ s.do = "artifact" => [id |-> target[r], run |-> r] \in artifacts'
       /\ s.do = "availability" => r \in available'
       /\ s.do = "append" => \A type : type = s.what => Has(r, type)'

LEMMA DurableDone ==
    ASSUME TypeOK, NEW r \in Run, Shape(r), Completion(r), Completes(r), Effect(r), Stays(r),
           temps' \subseteq temps,
           Has(r, "artifact_ingestion_verified") => Has(r, "artifact_ingestion_verified")'
    PROVE  \A n \in Nat : n = Len(todo[r]) - 1 => Durable(r, n)'
<1>0. SUFFICES ASSUME NEW n \in Nat, n = Len(todo[r]) - 1 PROVE Durable(r, n)'
  OBVIOUS
<1>1. PICK k \in Nat \ {0} : k = Len(todo[r])
  BY Completing, Rest
<1>2. k = n + 1
  BY <1>0, <1>1
<1>a. Head(todo[r]) = todo[r][1]
  BY Completing, Rest
<1>3. Durable(r, k)
  BY <1>1 DEF Completion
<1>4. CompletionSteps(checkpoints, r, todo[r])
  BY Completing
<1>5. k <= 12 => Fits(Head(todo[r]), Closing[13 - k])
  BY <1>1, <1>a, <1>4, Completing, CompletionHead
<1>6. Durable(r, k)'
  BY <1>3, DurableStays
<1> DEFINE h == Head(todo[r])
<1> HIDE DEF h
<1>7. /\ k = 11 => h.what = "adapter.bin" /\ h.do \in {"member", "stage", "link"}
      /\ k = 10 => h.what = "adapter_config.json" /\ h.do \in {"member", "stage", "link"}
      /\ k = 9 => h.what = "provenance.json" /\ h.do \in {"member", "stage", "link"}
      /\ k = 8 => h.do = "verify_bundle"
      /\ k = 7 => h.do = "manifest"
      /\ k = 5 => h.do = "artifact"
      /\ k = 4 => h.do = "availability"
      /\ k = 3 => h.do = "append" /\ h.what = "artifact_ingestion_verified"
  <2>1. CASE k <= 12
    <3>1. k \in 1 .. 12 /\ Fits(h, Closing[13 - k])
      BY <1>5, <2>1 DEF h
    <3> QED
      BY <3>1, ClosingDeed
  <2>2. CASE ~(k <= 12)
    BY <2>2
  <2> QED
    BY <2>1, <2>2
<1>8. \A name : Member(r, name)' = Member(r, name)
  BY MembersStay DEF Stays
<1>9. target'[r] = target[r]
  BY DEF Stays
<1>b. /\ h.do \in {"member", "stage", "link"} => Member(r, h.what) \in members'
      /\ h.do = "verify_bundle" => \A t \in temps' : t[2] # r
      /\ h.do = "manifest" => r \in manifests'
      /\ h.do = "artifact" => [id |-> target[r], run |-> r] \in artifacts'
      /\ h.do = "availability" => r \in available'
      /\ h.do = "append" => \A type : type = h.what => Has(r, type)'
  BY DEF Effect, h
<1>10. /\ k = 11 => Member(r, "adapter.bin")' \in members'
       /\ k = 10 => Member(r, "adapter_config.json")' \in members'
       /\ k = 9 => Member(r, "provenance.json")' \in members'
       /\ k = 8 => \A t \in temps' : t[2] # r
       /\ k = 7 => r \in manifests'
       /\ k = 5 => [id |-> target'[r], run |-> r] \in artifacts'
       /\ k = 4 => r \in available'
       /\ k = 3 => Has(r, "artifact_ingestion_verified")'
  BY <1>7, <1>8, <1>9, <1>b
<1>11. /\ n <= 10 => k <= 10 \/ k = 11
       /\ n <= 9 => k <= 9 \/ k = 10
       /\ n <= 8 => k <= 8 \/ k = 9
       /\ n <= 7 => k <= 7 \/ k = 8
       /\ n <= 6 => k <= 6 \/ k = 7
       /\ n <= 4 => k <= 4 \/ k = 5
       /\ n <= 3 => k <= 3 \/ k = 4
       /\ n <= 2 => k <= 2 \/ k = 3
  BY <1>2
<1>12. /\ k <= 10 => Member(r, "adapter.bin")' \in members'
       /\ k <= 9 => Member(r, "adapter_config.json")' \in members'
       /\ k <= 8 => Member(r, "provenance.json")' \in members'
       /\ k <= 7 => \A t \in temps' : t[2] # r
       /\ k <= 6 => r \in manifests'
       /\ k <= 4 => [id |-> target'[r], run |-> r] \in artifacts'
       /\ k <= 3 => r \in available'
       /\ k <= 2 => Has(r, "artifact_ingestion_verified")'
  BY <1>6 DEF Durable
<1> QED
  BY <1>10, <1>11, <1>12 DEF Durable


LEMMA CompletionDone ==
    ASSUME TypeOK, NEW r \in Run, Shape(r), Completion(r), todo[r] # <<>>,
           mode'[r] = mode[r], todo'[r] = Tail(todo[r]), Stays(r), Effect(r), temps' \subseteq temps,
           Has(r, "artifact_ingestion_verified") => Has(r, "artifact_ingestion_verified")',
           Has(r, "run_completed")' =>
               Has(r, "run_completed") \/ (Completes(r) /\ Len(todo[r]) = 1)
    PROVE  Completion(r)'
<1> DEFINE q == todo[r]
           t == Tail(q)
<1>1. /\ q \in Seq(StepType) /\ q # <<>> /\ todo'[r] = t
  BY Working
<1>2. /\ Len(q) \in Nat \ {0} /\ Len(t) = Len(q) - 1 /\ t \in Seq(StepType)
      /\ \A i \in 1 .. Len(q) - 1 : t[i] = q[i + 1]
  BY <1>1, Rest
<1> HIDE DEF t
<1>3. Completes(r)' => Completes(r)
  <2> SUFFICES ASSUME Completes(r)' PROVE Completes(r)
    OBVIOUS
  <2>1. t # <<>> /\ t[Len(t)].what = "run_completed" /\ mode[r] = "running"
    BY <1>1 DEF Completes
  <2>2. Len(t) \in Nat \ {0}
    BY <1>2, <2>1, Rest
  <2> DEFINE n == Len(q)
             k == Len(t)
  <2>3. n \in Nat /\ k \in Nat \ {0} /\ k = n - 1
    BY <1>2, <2>2
  <2> HIDE DEF n, k
  <2>4. k \in 1 .. n - 1 /\ k + 1 = n
    BY <2>3
  <2>5. t[k] = q[n]
    BY <1>2, <2>4 DEF n
  <2> QED
    BY <1>1, <2>1, <2>5 DEF Completes, n, k
<1>4. Completes(r) => \A n \in Nat : n = Len(q) - 1 => Durable(r, n)'
  BY DurableDone
<1>5. Completes(r)' => Durable(r, Len(todo[r]))'
  <2> SUFFICES ASSUME Completes(r)' PROVE Durable(r, Len(todo[r]))'
    OBVIOUS
  <2>1. PICK n \in Nat : n = Len(t) /\ n = Len(q) - 1
    BY <1>2
  <2>2. Durable(r, n)'
    BY <1>3, <1>4, <2>1
  <2>3. n = Len(todo'[r])
    BY <1>1, <2>1
  <2> QED
    BY <2>2, <2>3 DEF Durable
<1>6. Has(r, "run_completed")' => Durable(r, 0)'
  <2>1. CASE Has(r, "run_completed")
    <3>1. Durable(r, 0) /\ 0 \in Nat
      BY <2>1 DEF Completion
    <3> QED
      BY <3>1, DurableStays
  <2>2. CASE Completes(r) /\ Len(todo[r]) = 1
    <3>1. 0 \in Nat /\ 0 = Len(q) - 1
      BY <2>2
    <3> QED
      BY <1>4, <2>2, <3>1
  <2> QED
    BY <2>1, <2>2
<1> QED
  BY <1>5, <1>6 DEF Completion

LEMMA CompletionThen ==
    ASSUME TypeOK, NEW r \in Run, Shape(r), Past(r), Ends(r), Completion(r), todo[r] # <<>>,
           mode[r] = "running", mode'[r] = "running", Len(todo[r]) \in {9, 10, 11},
           Len(todo'[r]) = Len(todo[r]), todo'[r][Len(todo[r])].what = todo[r][Len(todo[r])].what,
           Stays(r), stream' = stream
    PROVE  Completion(r)'
<1>1. ~Has(r, "run_completed") /\ \A type : Has(r, type)' <=> Has(r, type)
  <2>1. \A type : Has(r, type)' <=> Has(r, type)
    BY DEF Has
  <2> QED
    BY <2>1, NotEnded DEF TerminalType
<1>2. Completes(r)' => Completes(r)
  BY DEF Completes
<1>3. PICK n \in {9, 10, 11} : n = Len(todo[r])
  OBVIOUS
<1>4. n \in Nat /\ ~(n <= 7)
  OBVIOUS
<1>5. Completes(r) => Durable(r, n)'
  <2> SUFFICES ASSUME Completes(r) PROVE Durable(r, n)'
    OBVIOUS
  <2>1. Durable(r, n)
    BY <1>3 DEF Completion
  <2> QED
    BY <2>1, <1>1, <1>4, DurableStays
<1>6. Completes(r)' => Durable(r, Len(todo[r]))'
  <2>1. n = Len(todo'[r])
    BY <1>3
  <2> QED
    BY <1>2, <1>5, <2>1 DEF Durable
<1> QED
  BY <1>1, <1>6 DEF Completion

-----------------------------------------------------------------------------
(* The directory, the recoveries and the invariant as a whole              *)

LEMMA DirectoryKept ==
    ASSUME Directory, NEW r \in Run, Moved(r, mode'[r], todo'[r]), Stays(r),
           ~Unadmitted(r) => ~Unadmitted(r)',
           temps' \subseteq {<<target[q], q, name>> : q \in Run, name \in Name},
           \/ members' = members
           \/ \E name \in Name :
                /\ members' = members \cup {Member(r, name)}
                /\ \A m \in members : ~(m.artifact = target[r] /\ m.name = name),
           \/ artifacts' = artifacts
           \/ /\ artifacts' = artifacts \cup {[id |-> target[r], run |-> r]}
              /\ Member(r, "provenance.json") \in members /\ ~Unadmitted(r)'
    PROVE  Directory'
<1>1. /\ target' = target /\ payload' = payload /\ members \subseteq members'
      /\ \A q \in Run : \A name : Member(q, name)' = Member(q, name)
  BY MembersStay DEF Stays
<1>2. \A name : Member(r, name).artifact = target[r] /\ Member(r, name).name = name
  BY DEF Member
<1>3. members' \subseteq {Member(q, name)' : q \in Run, name \in Name}
  BY <1>1 DEF Directory
<1>4. \A m, n \in members' : m.artifact = n.artifact /\ m.name = n.name => m = n
  BY <1>2 DEF Directory
<1>5. temps' \subseteq {<<target'[q], q, name>> : q \in Run, name \in Name}
  BY <1>1
<1>6. ASSUME NEW q \in Run, ~Unadmitted(q) PROVE ~Unadmitted(q)'
  <2>1. CASE q = r
    BY <1>6, <2>1
  <2>2. CASE q # r
    BY <1>6, <2>2 DEF Unadmitted, Moved
  <2> QED
    BY <2>1, <2>2
<1>7. ASSUME NEW x \in artifacts'
      PROVE  /\ x.run \in Run /\ x = [id |-> target'[x.run], run |-> x.run]
             /\ Member(x.run, "provenance.json")' \in members'
             /\ ~Unadmitted(x.run)'
  <2>1. CASE x \in artifacts
    <3>1. PICK q \in Run : q = x.run
      BY <2>1 DEF Directory
    <3>2. /\ x = [id |-> target[q], run |-> q] /\ Member(q, "provenance.json") \in members
          /\ ~Unadmitted(q)
      BY <2>1, <3>1 DEF Directory
    <3>3. /\ x = [id |-> target'[q], run |-> q] /\ Member(q, "provenance.json")' \in members'
          /\ ~Unadmitted(q)'
      BY <3>2, <1>1, <1>6
    <3>4. Unadmitted(x.run)' <=> Unadmitted(q)'
      BY <3>1 DEF Unadmitted
    <3>5. Member(x.run, "provenance.json")' = Member(q, "provenance.json")'
      BY <3>1 DEF Member, Bytes
    <3> QED
      BY <3>1, <3>3, <3>4, <3>5
  <2>2. CASE x \notin artifacts
    <3>1. /\ x = [id |-> target[r], run |-> r] /\ Member(r, "provenance.json") \in members
          /\ ~Unadmitted(r)' /\ x.run = r
      BY <1>7, <2>2
    <3>2. Unadmitted(x.run)' <=> Unadmitted(r)'
      BY <3>1 DEF Unadmitted
    <3>3. Member(x.run, "provenance.json")' = Member(r, "provenance.json")'
      BY <3>1 DEF Member, Bytes
    <3> QED
      BY <1>1, <3>1, <3>2, <3>3
  <2> QED
    BY <2>1, <2>2
<1> QED
  BY <1>3, <1>4, <1>5, <1>7 DEF Directory


LEMMA AdmittedStays ==
    ASSUME TypeOK, NEW r \in Run, Shape(r), todo[r] # <<>>, mode'[r] \in Mode,
           todo'[r] \in Seq(StepType),
           \/ mode'[r] = mode[r] /\ Len(todo'[r]) <= Len(todo[r])
           \/ mode'[r] \in {"over", "lost", "failing", "dead"}
    PROVE  ~Unadmitted(r) => ~Unadmitted(r)'
<1>1. CASE mode'[r] \in {"over", "lost", "failing", "dead"}
  BY <1>1 DEF Unadmitted
<1>2. CASE mode'[r] = mode[r] /\ Len(todo'[r]) <= Len(todo[r])
  <2>1. PICK n \in Nat, k \in Nat : n = Len(todo[r]) /\ k = Len(todo'[r])
    BY Working
  <2>2. k <= n /\ (k > 4 => n > 4)
    BY <1>2, <2>1
  <2> QED
    BY <1>2, <2>1, <2>2 DEF Unadmitted
<1> QED
  BY <1>1, <1>2

\* A run that is resumed stays as interrupted as it was: while its stream does
\* not change,
LEMMA InterruptedQuiet ==
    ASSUME stream' = stream, ambiguous \subseteq ambiguous', NEW p, NEW k, Interrupted(p, k)
    PROVE  Interrupted(p, k)'
BY DEF Interrupted, Has, CheckpointEvents, Status, Terminals

\* and when another event is appended to it.
LEMMA InterruptedAppended ==
    ASSUME TypeOK, NEW r \in Run, Shape(r), Past(r), Ends(r), todo[r] # <<>>,
           NEW e \in Event, Appends(r, e), e.type = Head(todo[r]).what,
           ambiguous \subseteq ambiguous', NEW p \in Run, NEW k, Interrupted(p, k)
    PROVE  Interrupted(p, k)'
<1>0. stream \in [Run -> Seq(Event)]
  BY DEF TypeOK
<1>1. CASE p # r
  <2>1. stream'[p] = stream[p]
    BY <1>0, <1>1, Appended
  <2> QED
    BY <2>1 DEF Interrupted, Has, CheckpointEvents, Status, Terminals
<1>2. CASE p = r
  <2> DEFINE n == Len(stream[r])
  <2>1. Has(r, "run_interrupted") /\ k \in CheckpointEvents(r)
    BY <1>2 DEF Interrupted
  <2>2. Terminals(r) # {}
    BY <2>1, NotEnded DEF TerminalType
  <2>3. mode[r] = "failing" /\ Terminals(r) = {n} /\ r \in ambiguous /\ Len(todo[r]) = 1
    BY <2>2, NotEnded, Working
  <2>4. e.type = "run_failed"
    <3>1. FailureSteps(todo[r]) /\ 1 \in DOMAIN todo[r] /\ Head(todo[r]) = todo[r][1]
      BY <2>3, Working DEF Shape
    <3> QED
      BY <2>3, <3>1 DEF FailureSteps
  <2>5. Terminals(r)' = {n} \cup {n + 1}
    BY <1>0, <2>3, <2>4, Tells DEF TerminalType
  <2>6. n \in Nat /\ stream'[r] # <<>>
    BY <1>0, Appended
  <2> HIDE DEF n
  <2>7. Cardinality(Terminals(r)') = 2
    <3>1. IsFiniteSet({n}) /\ Cardinality({n}) = 1 /\ n + 1 \notin {n}
      <4>1. n + 1 # n
        BY <2>6
      <4> QED
        BY <4>1, FS_Singleton, Zenon
    <3>2. Cardinality({n} \cup {n + 1}) = Cardinality({n}) + 1
      BY <3>1, FS_AddElement
    <3>3. 1 + 1 = 2
      OBVIOUS
    <3> QED
      BY <2>5, <3>1, <3>2, <3>3, Zenon
  <2>8. Status(r)' = "conflict"
    BY <2>6, <2>7 DEF Status
  <2>9. Has(r, "run_interrupted")' /\ k \in CheckpointEvents(r)' /\ r \in ambiguous'
    BY <1>0, <2>1, <2>3, Tells
  <2> QED
    BY <1>2, <2>8, <2>9 DEF Interrupted
<1> QED
  BY <1>1, <1>2

LEMMA Assembled ==
    ASSUME IInv, NEW r \in Run, Moved(r, mode'[r], todo'[r]), Elsewhere(r), Stays(r),
           Shape(r)', Past(r)', Ends(r)', Completion(r)', Directory', CheckpointsBacked',
           \A p \in Run : \A k : Interrupted(p, k) => Interrupted(p, k)',
           \/ prior'[r] = prior[r] /\ start'[r] = start[r]
           \/ \E p \in Run : \E k : Interrupted(p, k)' /\ prior'[r] = p /\ start'[r] = k,
           Has(r, "run_recovered")' => prior'[r] # NoRun
    PROVE  IInv'
<1>1. TypeOK'
  BY DEF IInv, TypeOK, Moved, Elsewhere, Stays
<1>2. ASSUME NEW q \in Run, q # r PROVE Shape(q)' /\ Past(q)' /\ Ends(q)' /\ Completion(q)'
  BY <1>2, Frame DEF IInv
<1>3. ASSUME NEW q \in Run, prior'[q] = prior[q], start'[q] = start[q], prior'[q] # NoRun
      PROVE  prior'[q] \in Run /\ Interrupted(prior[q], start[q])'
  <2>0. prior[q] \in Run /\ Interrupted(prior[q], start[q])
    BY <1>3 DEF IInv, Recovery
  <2>1. PICK p \in Run : p = prior[q]
    BY <2>0
  <2>a. PICK k : k = start[q]
    OBVIOUS
  <2>b. Interrupted(p, k)
    BY <2>0, <2>1, <2>a
  <2>2. Interrupted(p, k)'
    BY <2>b
  <2>3. prior'[q] = p /\ start'[q] = k
    BY <1>3, <2>1, <2>a
  <2>4. Interrupted(prior[q], start[q])'
    <3>1. Has(prior[q], "run_interrupted")'
      BY <2>2, <2>3 DEF Interrupted, Has
    <3>2. (start[q] \in CheckpointEvents(prior[q]))'
      BY <2>2, <2>3 DEF Interrupted, CheckpointEvents
    <3>3. Status(prior[q])' = Status(p)'
      BY <2>3 DEF Status, Terminals, Has
    <3> QED
      BY <2>2, <2>3, <3>1, <3>2, <3>3 DEF Interrupted
  <2> QED
    BY <2>3, <2>4
<1>4. ASSUME NEW q \in Run PROVE Recovery(q)'
  <2>1. CASE q # r
    <3>1. prior'[q] = prior[q] /\ start'[q] = start[q] /\ stream'[q] = stream[q]
      BY <2>1 DEF Elsewhere
    <3>2. prior'[q] # NoRun => prior'[q] \in Run /\ Interrupted(prior[q], start[q])'
      BY <1>3, <3>1
    <3>3. Has(q, "run_recovered")' => prior'[q] # NoRun
      BY <3>1 DEF IInv, Recovery, Has
    <3> QED
      BY <3>2, <3>3 DEF Recovery
  <2>2. CASE q = r /\ prior'[r] = prior[r] /\ start'[r] = start[r]
    <3>1. prior'[r] # NoRun => prior'[r] \in Run /\ Interrupted(prior[r], start[r])'
      BY <1>3, <2>2
    <3> QED
      BY <2>2, <3>1 DEF Recovery
  <2>3. CASE q = r /\ \E p \in Run : \E k : Interrupted(p, k)' /\ prior'[r] = p /\ start'[r] = k
    <3>0. PICK p \in Run : \E k : Interrupted(p, k)' /\ prior'[r] = p /\ start'[r] = k
      BY <2>3
    <3>1. PICK k : Interrupted(p, k)' /\ prior'[r] = p /\ start'[r] = k
      BY <3>0
    <3>2. Interrupted(prior[r], start[r])'
      <4>1. Has(prior[r], "run_interrupted")'
        BY <3>1 DEF Interrupted, Has
      <4>2. (start[r] \in CheckpointEvents(prior[r]))'
        BY <3>1 DEF Interrupted, CheckpointEvents
      <4>3. Status(prior[r])' = Status(p)'
        BY <3>1 DEF Status, Terminals, Has
      <4> QED
        BY <3>1, <4>1, <4>2, <4>3 DEF Interrupted
    <3> QED
      BY <2>3, <3>1, <3>2 DEF Recovery
  <2> QED
    BY <2>1, <2>2, <2>3
<1>5. \A q \in Run : Shape(q)' /\ Past(q)' /\ Ends(q)' /\ Recovery(q)' /\ Completion(q)'
  BY <1>2, <1>4
<1> QED
  BY <1>1, <1>5 DEF IInv


-----------------------------------------------------------------------------
(* The actions that begin and break off                                    *)

LEMMA NothingStored ==
    ASSUME UNCHANGED storeVars, target' = target, payload' = payload,
           ambiguous \subseteq ambiguous', NEW r
    PROVE  Stays(r)
BY DEF storeVars, Stays

LEMMA NoEvent ==
    ASSUME IInv, NEW r \in Run, stream' = stream, Stays(r)
    PROVE  /\ \A p \in Run : \A k : Interrupted(p, k) => Interrupted(p, k)'
           /\ CheckpointsBacked'
           /\ Terminals(r)' = Terminals(r) /\ Launched(r)' = Launched(r)
           /\ \A type : Has(r, type)' <=> Has(r, type)
<1>1. \A p \in Run : \A k : Interrupted(p, k) => Interrupted(p, k)'
  BY InterruptedQuiet DEF Stays
<1>2. \A p \in Run : CheckpointEvents(p)' = CheckpointEvents(p)
  BY DEF CheckpointEvents
<1>3. CheckpointsBacked'
  BY <1>2 DEF IInv, CheckpointsBacked, Stays
<1>4. /\ Terminals(r)' = Terminals(r) /\ Launched(r)' = Launched(r)
      /\ \A type : Has(r, type)' <=> Has(r, type)
  BY DEF Terminals, Launched, Has
<1> QED
  BY <1>1, <1>3, <1>4

LEMMA NoneTold ==
    ASSUME NEW r, stream[r] = <<>>
    PROVE  /\ Terminals(r) = {} /\ Launched(r) = {} /\ CheckpointEvents(r) = {}
           /\ \A type : ~Has(r, type)
<1>1. DOMAIN stream[r] = {}
  OBVIOUS
<1> QED
  BY <1>1 DEF Terminals, Launched, CheckpointEvents, Has

\* Without events, files and requests, the steps and what was told remain.
LEMMA Standing ==
    ASSUME IInv, NEW r \in Run, Moved(r, mode'[r], todo'[r]), UNCHANGED <<stream, requestVars>>,
           Stays(r), Shape(r)', Past(r)', Ends(r)', Completion(r)', Directory'
    PROVE  IInv'
<1>1. /\ \A p \in Run : \A k : Interrupted(p, k) => Interrupted(p, k)'
      /\ CheckpointsBacked' /\ (Has(r, "run_recovered")' <=> Has(r, "run_recovered"))
  BY NoEvent
<1>2. Elsewhere(r) /\ prior'[r] = prior[r] /\ start'[r] = start[r]
  BY DEF Elsewhere, requestVars, IInv, TypeOK
<1>3. Has(r, "run_recovered")' => prior'[r] # NoRun
  BY <1>1, <1>2 DEF IInv, Recovery
<1> QED
  BY <1>1, <1>2, <1>3, Assembled

LEMMA DirectoryUnchanged ==
    ASSUME IInv, NEW r \in Run, Moved(r, mode'[r], todo'[r]), UNCHANGED storeVars, Stays(r),
           ~Unadmitted(r) => ~Unadmitted(r)'
    PROVE  Directory'
<1>1. /\ temps' \subseteq {<<target[q], q, name>> : q \in Run, name \in Name}
      /\ members' = members /\ artifacts' = artifacts /\ Directory
  BY DEF IInv, Directory, storeVars
<1> QED
  BY <1>1, DirectoryKept

LEMMA LaunchKeeps ==
    ASSUME IInv, NEW r \in Run, Launch(r)
    PROVE  IInv'
<1>1. /\ mode[r] = "idle" /\ Continue(r, "preparing", <<>>)
      /\ UNCHANGED <<stream, requestVars, storeVars, ambiguous>>
  BY DEF Launch
<1>2. TypeOK /\ Past(r) /\ stream[r] = <<>>
  BY <1>1 DEF IInv, Past
<1>3. "preparing" \in Mode /\ <<>> \in Seq(StepType)
  BY DEF Mode
<1>4. Shape(r)' /\ Moved(r, "preparing", <<>>)
  BY <1>1, <1>2, <1>3, ShapeAt
<1>5. Stays(r)
  BY <1>1, NothingStored DEF requestVars
<1>6. mode'[r] = "preparing" /\ todo'[r] = <<>> /\ stream'[r] = <<>>
  BY <1>1, <1>2, <1>4 DEF Moved
<1>7. /\ Terminals(r)' = {} /\ Launched(r)' = {} /\ ~Has(r, "run_completed")'
  BY <1>1, <1>2, <1>5, NoEvent, NoneTold
<1>8. Past(r)' /\ Ends(r)' /\ Completion(r)'
  BY <1>6, <1>7 DEF Past, Ends, Completion, Completes
<1>9. Directory'
  BY <1>1, <1>4, <1>5, <1>6, DirectoryUnchanged DEF Unadmitted
<1> QED
  BY <1>1, <1>4, <1>5, <1>6, <1>8, <1>9, Standing

LEMMA RecoverKeeps ==
    ASSUME IInv, NEW r \in Run, Recover(r)
    PROVE  IInv'
<1>1. /\ mode[r] = "idle" /\ Continue(r, "preparing", <<>>)
      /\ UNCHANGED <<stream, target, payload, storeVars, ambiguous>>
  BY DEF Recover
<1>2. TypeOK /\ Past(r) /\ stream[r] = <<>>
  BY <1>1 DEF IInv, Past
<1>3. "preparing" \in Mode /\ <<>> \in Seq(StepType)
  BY DEF Mode
<1>4. Shape(r)' /\ Moved(r, "preparing", <<>>)
  BY <1>1, <1>2, <1>3, ShapeAt
<1>5. Stays(r)
  BY <1>1, NothingStored
<1>6. mode'[r] = "preparing" /\ todo'[r] = <<>> /\ stream'[r] = <<>>
  BY <1>1, <1>2, <1>4 DEF Moved
<1>7. /\ Terminals(r)' = {} /\ Launched(r)' = {} /\ ~Has(r, "run_completed")'
      /\ ~Has(r, "run_recovered")'
  BY <1>1, <1>2, <1>5, NoEvent, NoneTold
<1>8. Past(r)' /\ Ends(r)' /\ Completion(r)'
  BY <1>6, <1>7 DEF Past, Ends, Completion, Completes
<1>9. Directory'
  BY <1>1, <1>4, <1>5, <1>6, DirectoryUnchanged DEF Unadmitted
<1>10. PICK p \in Run, k \in 1 .. TrainingSteps - 1 :
         /\ Status(p) = "run_interrupted" /\ k \in CheckpointEvents(p)
         /\ prior' = [prior EXCEPT ![r] = p] /\ start' = [start EXCEPT ![r] = k]
  BY DEF Recover
<1>11. Has(p, "run_interrupted")
  <2>1. stream[p] # <<>> /\ Len(stream[p]) \in Terminals(p) /\ stream[p][Len(stream[p])].type = "run_interrupted"
    BY <1>10 DEF Status
  <2> QED
    BY <2>1 DEF Terminals, Has
<1>12. Interrupted(p, k)'
  BY <1>1, <1>10, <1>11, InterruptedQuiet DEF Interrupted
<1>13. Elsewhere(r) /\ prior'[r] = p /\ start'[r] = k
  BY <1>1, <1>2, <1>10 DEF Elsewhere, TypeOK
<1>14. CheckpointsBacked' /\ \A q \in Run : \A l : Interrupted(q, l) => Interrupted(q, l)'
  BY <1>1, <1>5, NoEvent
<1> QED
  BY <1>4, <1>5, <1>6, <1>7, <1>8, <1>9, <1>12, <1>13, <1>14, Assembled


LEMMA PreflightKeeps ==
    ASSUME IInv, NEW r \in Run, Preflight(r)
    PROVE  IInv'
<1> DEFINE b == Append1("run_preflight_blocked")
           s == Preparation(prior[r])
<1>1. /\ mode[r] = "preparing" /\ UNCHANGED <<stream, requestVars, storeVars, ambiguous>>
      /\ \/ Continue(r, "launching", b)
         \/ Continue(r, "launching", s)
         \/ Continue(r, "over", <<>>)
  BY DEF Preflight
<1>2. TypeOK /\ Past(r) /\ stream[r] = <<>>
  BY <1>1 DEF IInv, Past
<1>3. Stays(r)
  BY <1>1, NothingStored DEF requestVars
<1>4. /\ b \in Seq(StepType) /\ Len(b) = 1 /\ 1 \in DOMAIN b
      /\ b[1].what = "run_preflight_blocked" /\ DOMAIN b = {1}
  BY Single DEF EventType, TerminalType
<1>5. /\ s \in Seq(StepType) /\ LaunchSteps(s) /\ Len(s) > 1
      /\ prior[r] = NoRun => \A i \in DOMAIN s : s[i].what # "run_recovered"
  BY PreparationSteps
<1>6. prior'[r] = prior[r]
  BY <1>1 DEF requestVars
<1> HIDE DEF b, s
<1>7. /\ Terminals(r)' = {} /\ Launched(r)' = {} /\ ~Has(r, "run_completed")' /\ stream'[r] = <<>>
  BY <1>1, <1>2, <1>3, NoEvent, NoneTold
<1> DEFINE Rested(m, t) ==
             /\ m \in {"launching", "over"} /\ t \in Seq(StepType)
             /\ m = "over" => t = <<>>
             /\ m = "launching" => (t = b \/ (LaunchSteps(t) /\ Len(t) > 1))
             /\ Shape(r)' /\ Moved(r, m, t)
<1>8. \E m \in Mode : \E t \in Seq(StepType) : Rested(m, t)
  <2>1. CASE Continue(r, "launching", b)
    <3>1. \A i \in DOMAIN b : b[i].what # "run_recovered"
      BY <1>4
    <3>2. "launching" \in Mode
      BY DEF Mode
    <3>3. Shape(r)' /\ Moved(r, "launching", b)
      BY <1>2, <1>4, <2>1, <3>1, <3>2, ShapeAt DEF b
    <3> QED
      BY <1>4, <3>2, <3>3
  <2>2. CASE Continue(r, "launching", s)
    <3>1. "launching" \in Mode
      BY DEF Mode
    <3>2. Shape(r)' /\ Moved(r, "launching", s)
      BY <1>2, <1>5, <1>6, <2>2, <3>1, ShapeAt
    <3> QED
      BY <1>5, <3>1, <3>2
  <2>3. CASE Continue(r, "over", <<>>)
    <3>1. "over" \in Mode /\ <<>> \in Seq(StepType)
      BY DEF Mode
    <3>2. Shape(r)' /\ Moved(r, "over", <<>>)
      BY <1>2, <2>3, <3>1, ShapeAt
    <3> QED
      BY <3>1, <3>2
  <2> QED
    BY <1>1, <2>1, <2>2, <2>3
<1>9. PICK m \in Mode, t \in Seq(StepType) : Rested(m, t)
  BY <1>8
<1>10. /\ mode'[r] = m /\ todo'[r] = t /\ m \in {"launching", "over"} /\ Shape(r)'
       /\ Moved(r, mode'[r], todo'[r])
  BY <1>9 DEF Moved
<1>11. Past(r)'
  <2>1. ~LaunchSteps(b)
    BY <1>4 DEF LaunchSteps
  <2>2. /\ LaunchSteps(t) => t # b
        /\ m = "launching" /\ LaunchSteps(t) => Len(t) # 1
    <3>1. m = "launching" /\ LaunchSteps(t) => Len(t) > 1 /\ t \in Seq(StepType)
      BY <1>9, <2>1
    <3>2. \A n \in Nat : n > 1 => n # 1
      OBVIOUS
    <3>3. t \in Seq(StepType) => Len(t) \in Nat
      OBVIOUS
    <3> QED
      BY <2>1, <3>1, <3>2, <3>3
  <2> HIDE DEF Rested
  <2> QED
    BY <1>7, <1>10, <2>2 DEF Past
<1> HIDE DEF Rested
<1>12. Ends(r)' /\ Completion(r)'
  BY <1>7, <1>10 DEF Ends, Completion, Completes
<1>13. Directory'
  BY <1>1, <1>3, <1>10, DirectoryUnchanged DEF Unadmitted
<1> QED
  BY <1>1, <1>3, <1>10, <1>11, <1>12, <1>13, Standing

LEMMA ExecuteKeeps ==
    ASSUME IInv, NEW r \in Run, Execute(r)
    PROVE  IInv'
<1>1. /\ mode[r] = "launching" /\ todo[r] = <<>> /\ Has(r, "run_launched")
      /\ UNCHANGED <<stream, requestVars, storeVars, ambiguous>>
  BY DEF Execute
<1>2. TypeOK /\ Past(r)
  BY DEF IInv
<1>3. Stays(r)
  BY <1>1, NothingStored DEF requestVars
<1>4. Launched(r) # {} /\ Terminals(r) = {}
  <2>1. Launched(r) # {}
    BY <1>1 DEF Has, Launched
  <2> QED
    BY <1>1, <1>2, <2>1 DEF Past
<1>5. ~Has(r, "run_completed")
  BY <1>4 DEF Terminals, TerminalType, Has
<1>6. /\ Terminals(r)' = {} /\ Launched(r)' = Launched(r) /\ ~Has(r, "run_completed")'
  BY <1>1, <1>3, <1>4, <1>5, NoEvent
<1> DEFINE Given(m, t) ==
             /\ m = "running" => CompletionSteps(checkpoints, r, t) \/ StopSteps(checkpoints, r, t)
             /\ m = "failing" => FailureSteps(t)
             /\ m = "running" /\ CompletionSteps(checkpoints, r, t) => Len(t) > 10 \/ StopSteps(checkpoints, r, t)
             /\ Continue(r, m, t)
<1>7. \E m \in {"running", "failing"}, t \in Seq(StepType) : Given(m, t)
  <2>1. CASE \E k \in start[r] + 1 .. TrainingSteps :
               Continue(r, "running", Output(CheckpointSteps(start[r], k, FALSE))
                 \o Append1("run_cancellation_requested") \o Ending("run_cancelled"))
    <3>1. PICK S : Continue(r, "running", Output(S)
                     \o Append1("run_cancellation_requested") \o Ending("run_cancelled"))
      BY <2>1
    <3> DEFINE a == Append1("run_cancellation_requested")
               p == Output(S) \o a
               t == p \o Ending("run_cancelled")
    <3>2. a \in Seq(StepType) /\ Plain(a) /\ Output(S) \in Seq(StepType) /\ Plain(Output(S))
      BY PlainPieces, OutputPlain DEF Told
    <3> HIDE DEF a
    <3>3. p \in Seq(StepType) /\ Plain(p)
      BY <3>2, PlainJoined
    <3> HIDE DEF p
    <3>4. t \in Seq(StepType) /\ StopSteps(checkpoints, r, t)
      BY <3>3, StopAttached
    <3>5. Continue(r, "running", t)
      BY <3>1 DEF p, a
    <3> HIDE DEF t
    <3> QED
      BY <3>4, <3>5
  <2>2. CASE \E k \in start[r] .. TrainingSteps - 1, saved \in BOOLEAN :
               Continue(r, "running", Output(CheckpointSteps(start[r], k, saved))
                 \o Ending("run_interrupted"))
    <3>1. PICK S : Continue(r, "running", Output(S) \o Ending("run_interrupted"))
      BY <2>2
    <3> DEFINE t == Output(S) \o Ending("run_interrupted")
    <3>2. Output(S) \in Seq(StepType) /\ Plain(Output(S))
      BY OutputPlain
    <3>3. t \in Seq(StepType) /\ StopSteps(checkpoints, r, t)
      BY <3>2, StopAttached
    <3>4. Continue(r, "running", t)
      BY <3>1
    <3> HIDE DEF t
    <3> QED
      BY <3>3, <3>4
  <2>3. CASE Continue(r, "running", Output(CheckpointSteps(start[r], TrainingSteps, FALSE))
               \o Ingestion \o Ending("run_completed"))
    <3>1. PICK S : Continue(r, "running", Output(S) \o Ingestion \o Ending("run_completed"))
      BY <2>3
    <3> DEFINE t == Output(S) \o Closing
    <3>2. Output(S) \in Seq(StepType) /\ Plain(Output(S))
      BY OutputPlain
    <3>3. t \in Seq(StepType) /\ CompletionSteps(checkpoints, r, t) /\ Len(t) > 10
      BY <3>2, CompletionAttached
    <3>4. Output(S) \o Ingestion \o Ending("run_completed") = t
      <4> DEFINE o == Output(S)
                 i == Ingestion
                 e == Ending("run_completed")
      <4>1. /\ o \in Seq(StepType) /\ i \in Seq(StepType) /\ e \in Seq(StepType)
            /\ i \o e = Closing
        BY <3>2, ClosingSteps
      <4> HIDE DEF o, i, e
      <4>2. (o \o i) \o e = o \o Closing
        BY <4>1, Regrouped
      <4> QED
        BY <4>2 DEF o, i, e
    <3>5. Continue(r, "running", t)
      BY <3>1, <3>4
    <3> HIDE DEF t
    <3> QED
      BY <3>3, <3>5
  <2>4. CASE Continue(r, "failing", Append1("run_failed"))
    BY <2>4, Failing
  <2>5. CASE Continue(r, "failing", Append1("run_worker_message") \o Append1("run_failed"))
    <3> DEFINE t == Append1("run_worker_message") \o Append1("run_failed")
    <3>1. t \in Seq(StepType) /\ FailureSteps(t) /\ Continue(r, "failing", t)
      BY <2>5, Failing
    <3> HIDE DEF t
    <3> QED
      BY <3>1
  <2> QED
    BY <2>1, <2>2, <2>3, <2>4, <2>5 DEF Execute
<1>8. PICK m \in {"running", "failing"}, t \in Seq(StepType) : Given(m, t)
  BY <1>7
<1>9. m \in Mode /\ checkpoints' = checkpoints
  BY <1>1 DEF Mode, storeVars
<1>10. Shape(r)' /\ Moved(r, m, t)
  BY <1>2, <1>8, <1>9, ShapeAt
<1>11. mode'[r] = m /\ todo'[r] = t /\ Moved(r, mode'[r], todo'[r])
  BY <1>10 DEF Moved
<1>12. Completion(r)'
  <2>1. ASSUME Completes(r)' PROVE Durable(r, Len(todo[r]))'
    <3>1. m = "running" /\ t # <<>> /\ t[Len(t)].what = "run_completed"
      BY <1>11, <2>1 DEF Completes
    <3>2. ~StopSteps(checkpoints, r, t)
      BY <3>1, StopHead
    <3>3. Len(t) > 10
      BY <1>8, <3>1, <3>2
    <3>4. PICK n \in Nat : n = Len(t)
      OBVIOUS
    <3>5. /\ ~(n <= 10) /\ ~(n <= 9) /\ ~(n <= 8) /\ ~(n <= 7) /\ ~(n <= 6) /\ ~(n <= 4)
          /\ ~(n <= 3) /\ ~(n <= 2)
      BY <3>3, <3>4
    <3>6. n = Len(todo'[r])
      BY <1>11, <3>4
    <3> QED
      BY <3>5, <3>6 DEF Durable
  <2> QED
    BY <1>6, <2>1 DEF Completion
<1> HIDE DEF Given
<1>13. Past(r)' /\ Ends(r)'
  <2>1. \E i \in DOMAIN stream[r] : Launched(r) = {i}
    BY <1>2, <1>4 DEF Past
  <2>2. \E i \in DOMAIN stream'[r] : Launched(r)' = {i}
    BY <1>1, <1>6, <2>1
  <2>3. Launched(r)' # {} /\ Terminals(r)' = {} /\ mode'[r] \in {"running", "failing"}
    BY <1>4, <1>6, <1>11
  <2> QED
    BY <2>2, <2>3 DEF Past, Ends
<1>14. Directory'
  BY <1>1, <1>3, <1>11, DirectoryUnchanged DEF Unadmitted
<1> QED
  BY <1>1, <1>3, <1>10, <1>11, <1>12, <1>13, <1>14, Standing


\* A step of the closing list other than those that append or verify the store.
LEMMA DeedAt ==
    ASSUME TypeOK, NEW r \in Run, Shape(r), todo[r] # <<>>,
           Head(todo[r]).do \notin {"append", "checkpoint", "verify_store"}
    PROVE  /\ Completes(r) /\ CompletionSteps(checkpoints, r, todo[r])
           /\ Len(todo[r]) \in 1 .. 12 /\ Fits(Head(todo[r]), Closing[13 - Len(todo[r])])
<1> DEFINE q == todo[r]
<1>1. /\ q \in Seq(StepType) /\ q # <<>> /\ mode[r] = "running" /\ Head(q) = q[1]
  BY Working
<1>2. CompletionSteps(checkpoints, r, q)
  <2>1. ~StopSteps(checkpoints, r, q)
    BY <1>1, StopHead
  <2> QED
    BY <1>1, <2>1 DEF Shape
<1>3. Completes(r)
  BY <1>1, <1>2, CompletionLast DEF Completes
<1>4. PICK n \in Nat \ {0} : n = Len(q)
  BY <1>1, Rest
<1>5. n <= 12
  <2>1. n > 12 => TrainingStep(checkpoints, r, q, 1)
    BY <1>1, <1>2, <1>4, CompletionHead
  <2>2. ~TrainingStep(checkpoints, r, q, 1)
    BY <1>1 DEF TrainingStep
  <2>3. ~(n > 12)
    BY <2>1, <2>2
  <2> QED
    BY <2>3
<1>6. Fits(q[1], Closing[13 - n])
  BY <1>1, <1>2, <1>4, <1>5, CompletionHead
<1>7. n \in 1 .. 12
  BY <1>5
<1> QED
  BY <1>1, <1>2, <1>3, <1>4, <1>6, <1>7

LEMMA MemberAt ==
    ASSUME TypeOK, NEW r \in Run, Shape(r), todo[r] # <<>>,
           Head(todo[r]).do \in {"member", "stage", "link"}
    PROVE  Head(todo[r]).what \in Name
<1>1. Len(todo[r]) \in 1 .. 12 /\ Fits(Head(todo[r]), Closing[13 - Len(todo[r])])
  BY DeedAt
<1>a. PICK s : s = Head(todo[r])
  OBVIOUS
<1>2. PICK n \in 1 .. 12 : Fits(s, Closing[13 - n])
  BY <1>1, <1>a
<1>3. s.what \in Name
  BY <1>2, <1>a, ClosingDeed DEF Name
<1> QED
  BY <1>a, <1>3

LEMMA CrashKeeps ==
    ASSUME IInv, NEW r \in Run, Crash(r)
    PROVE  IInv'
<1>1. /\ mode[r] \in {"preparing", "launching", "running", "failing"}
      /\ Continue(r, "dead", <<>>)
      /\ \/ UNCHANGED members
         \/ /\ todo[r] # <<>> /\ Head(todo[r]).do = "link" /\ SameName(r) = {}
            /\ members' = members \cup {Member(r, Head(todo[r]).what)}
      /\ UNCHANGED <<stream, requestVars, checkpoints, temps, manifests, artifacts,
                     available, ambiguous>>
  BY DEF Crash, At
<1>2. TypeOK /\ Shape(r) /\ Past(r) /\ Ends(r) /\ Completion(r)
  BY DEF IInv
<1>3. "dead" \in Mode /\ <<>> \in Seq(StepType)
  BY DEF Mode
<1>4. Shape(r)' /\ Moved(r, "dead", <<>>)
  BY <1>1, <1>2, <1>3, ShapeAt
<1>5. Stays(r)
  BY <1>1 DEF Stays, requestVars
<1>6. mode'[r] = "dead" /\ todo'[r] = <<>> /\ Moved(r, mode'[r], todo'[r])
  BY <1>4 DEF Moved
<1>7. /\ Terminals(r)' = Terminals(r) /\ Launched(r)' = Launched(r)
      /\ \A type : Has(r, type)' <=> Has(r, type)
  BY <1>1, <1>5, NoEvent
<1>8. Past(r)'
  BY <1>1, <1>2, <1>6, <1>7 DEF Past
<1>9. Ends(r)'
  BY <1>1, <1>2, <1>6, <1>7 DEF Ends
<1>10. Completion(r)'
  <2>1. Has(r, "run_completed") => Durable(r, 0)'
    <3>1. 0 \in Nat /\ temps' \subseteq temps
      BY <1>1
    <3> QED
      BY <1>2, <1>5, <1>7, <3>1, DurableStays DEF Completion
  <2> QED
    BY <1>6, <1>7, <2>1 DEF Completion, Completes
<1>11. Directory'
  <2>1. \/ members' = members
        \/ \E name \in Name :
             /\ members' = members \cup {Member(r, name)}
             /\ \A m \in members : ~(m.artifact = target[r] /\ m.name = name)
    <3>1. CASE UNCHANGED members
      BY <3>1
    <3>2. CASE /\ todo[r] # <<>> /\ Head(todo[r]).do = "link" /\ SameName(r) = {}
               /\ members' = members \cup {Member(r, Head(todo[r]).what)}
      <4>1. Head(todo[r]).what \in Name
        BY <1>2, <3>2, MemberAt
      <4>2. \A m \in members : ~(m.artifact = target[r] /\ m.name = Head(todo[r]).what)
        BY <3>2 DEF SameName
      <4> QED
        BY <3>2, <4>1, <4>2
    <3> QED
      BY <1>1, <3>1, <3>2
  <2>2. /\ Directory /\ temps' \subseteq {<<target[q], q, name>> : q \in Run, name \in Name}
        /\ artifacts' = artifacts
    BY <1>1 DEF IInv, Directory
  <2>3. ~Unadmitted(r) => ~Unadmitted(r)'
    BY <1>6 DEF Unadmitted
  <2> QED
    BY <1>5, <1>6, <2>1, <2>2, <2>3, DirectoryKept
<1> QED
  BY <1>1, <1>4, <1>5, <1>6, <1>8, <1>9, <1>10, <1>11, Standing


-----------------------------------------------------------------------------
(* The steps without an event                                              *)

Grows(r) ==
    /\ \/ members' = members
       \/ \E name \in Name :
            /\ members' = members \cup {Member(r, name)}
            /\ \A m \in members : ~(m.artifact = target[r] /\ m.name = name)
    /\ \/ artifacts' = artifacts
       \/ /\ Head(todo[r]).do = "artifact"
          /\ artifacts' = artifacts \cup {[id |-> target[r], run |-> r]}

LEMMA DirectoryGrows ==
    ASSUME IInv, NEW r \in Run, todo[r] # <<>>, Head(todo[r]).do # "append",
           Moved(r, mode'[r], todo'[r]), Stays(r), Grows(r),
           temps' \subseteq {<<target[q], q, name>> : q \in Run, name \in Name},
           \/ mode'[r] = "running" /\ Len(todo'[r]) = Len(todo[r])
           \/ mode'[r] = "running" /\ Len(todo'[r]) = Len(todo[r]) - 1
           \/ mode'[r] = "failing",
           Head(todo[r]).do = "artifact" => ~(mode'[r] = "running" /\ Len(todo'[r]) = Len(todo[r]))
    PROVE  Directory'
<1>1. TypeOK /\ Shape(r) /\ Completion(r) /\ Directory
  BY DEF IInv
<1>2. mode[r] = "running" /\ todo[r] \in Seq(StepType)
  BY <1>1, Working
<1>3. PICK n \in Nat : n = Len(todo[r])
  BY <1>2
<1>4. ~Unadmitted(r) => ~Unadmitted(r)'
  <2>1. n > 4 \/ (~(n > 4) /\ ~(n - 1 > 4))
    OBVIOUS
  <2>2. CASE mode'[r] = "failing"
    BY <2>2 DEF Unadmitted
  <2>3. CASE mode'[r] = "running" /\ Len(todo'[r]) = Len(todo[r])
    BY <1>2, <2>3 DEF Unadmitted
  <2>4. CASE mode'[r] = "running" /\ Len(todo'[r]) = Len(todo[r]) - 1
    BY <1>2, <1>3, <2>1, <2>4 DEF Unadmitted
  <2> QED
    BY <2>2, <2>3, <2>4
<1>5. CASE artifacts' = artifacts
  BY <1>1, <1>4, <1>5, DirectoryKept DEF Grows
<1>6. CASE /\ Head(todo[r]).do = "artifact"
           /\ artifacts' = artifacts \cup {[id |-> target[r], run |-> r]}
  <2>1. Completes(r) /\ n \in 1 .. 12 /\ Fits(Head(todo[r]), Closing[13 - n])
    BY <1>1, <1>3, <1>6, DeedAt
  <2>2. n = 5
    BY <1>6, <2>1, ClosingDeed
  <2>3. Durable(r, n)
    BY <1>1, <1>3, <2>1 DEF Completion
  <2>4. Member(r, "provenance.json") \in members
    BY <2>2, <2>3 DEF Durable
  <2>5. ~Unadmitted(r)'
    <3>1. mode'[r] = "failing" \/ (mode'[r] = "running" /\ Len(todo'[r]) = Len(todo[r]) - 1)
      BY <1>6
    <3>2. ~(n - 1 > 4) /\ Len(todo[r]) - 1 = n - 1
      BY <1>3, <2>2
    <3>3. mode'[r] = "running" => ~(Len(todo'[r]) > 4)
      BY <3>1, <3>2
    <3> QED
      BY <3>1, <3>3 DEF Unadmitted
  <2> QED
    BY <1>1, <1>4, <1>6, <2>4, <2>5, DirectoryKept DEF Grows
<1> QED
  BY <1>5, <1>6 DEF Grows

LEMMA DoneKeeps ==
    ASSUME IInv, NEW r \in Run, todo[r] # <<>>, Head(todo[r]).do # "append", Done(r),
           UNCHANGED <<stream, requestVars>>, Stays(r), Grows(r), Effect(r), temps' \subseteq temps,
           Head(todo[r]).do = "checkpoint" => <<r, Head(todo[r]).at>> \in checkpoints'
    PROVE  IInv'
<1>1. TypeOK /\ Shape(r) /\ Past(r) /\ Ends(r) /\ Completion(r) /\ Directory
  BY DEF IInv
<1>2. mode[r] = "running" /\ Len(Tail(todo[r])) = Len(todo[r]) - 1
  BY <1>1, Working
<1>3. checkpoints \subseteq checkpoints' /\ prior'[r] = prior[r]
  BY DEF Stays, requestVars
<1>4. Shape(r)' /\ Moved(r, mode[r], Tail(todo[r]))
  BY <1>1, <1>3, ShapeDone
<1>5. mode'[r] = mode[r] /\ todo'[r] = Tail(todo[r]) /\ Moved(r, mode'[r], todo'[r])
  BY <1>4 DEF Moved
<1>6. Past(r)' /\ Ends(r)'
  BY <1>1, <1>2, <1>5, Quiet
<1>7. \A type : Has(r, type)' <=> Has(r, type)
  BY NoEvent
<1>8. Completion(r)'
  BY <1>1, <1>5, <1>7, CompletionDone
<1>9. temps' \subseteq {<<target[q], q, name>> : q \in Run, name \in Name}
  BY <1>1 DEF Directory
<1>10. /\ Len(todo'[r]) # Len(todo[r])
       /\ mode'[r] = "running" /\ Len(todo'[r]) = Len(todo[r]) - 1
  <2>1. PICK n \in Nat : n = Len(todo[r])
    BY <1>1, Working
  <2> QED
    BY <1>2, <1>5, <2>1
<1>a. ~(mode'[r] = "running" /\ Len(todo'[r]) = Len(todo[r]))
  BY <1>10
<1>b. \/ mode'[r] = "running" /\ Len(todo'[r]) = Len(todo[r])
      \/ mode'[r] = "running" /\ Len(todo'[r]) = Len(todo[r]) - 1
      \/ mode'[r] = "failing"
  BY <1>10
<1>c. Moved(r, mode'[r], todo'[r])
  BY <1>5
<1>d. Head(todo[r]).do = "artifact" => ~(mode'[r] = "running" /\ Len(todo'[r]) = Len(todo[r]))
  BY <1>a
<1>11. Directory'
  BY <1>9, <1>d, <1>b, <1>c, DirectoryGrows
<1> QED
  BY <1>4, <1>5, <1>6, <1>8, <1>11, Standing

LEMMA RaisesKeeps ==
    ASSUME IInv, NEW r \in Run, todo[r] # <<>>, Head(todo[r]).do # "append", Raises(r),
           UNCHANGED <<stream, requestVars>>, Stays(r), Grows(r), temps' \subseteq temps
    PROVE  IInv'
<1>1. TypeOK /\ Shape(r) /\ Past(r) /\ Ends(r) /\ Completion(r) /\ Directory
  BY DEF IInv
<1>2. mode[r] = "running"
  BY <1>1, Working
<1>3. checkpoints \subseteq checkpoints' /\ prior'[r] = prior[r]
  BY DEF Stays, requestVars
<1>4. Shape(r)' /\ Moved(r, mode'[r], todo'[r]) /\ mode'[r] = "failing"
  BY <1>1, <1>2, <1>3, Raised
<1>5. Past(r)' /\ Ends(r)' /\ Completion(r)'
  BY <1>1, <1>2, <1>4, Quiet
<1>6. temps' \subseteq {<<target[q], q, name>> : q \in Run, name \in Name}
  BY <1>1 DEF Directory
<1>7. Directory'
  BY <1>4, <1>6, DirectoryGrows
<1> QED
  BY <1>4, <1>5, <1>7, Standing

LEMMA ThenKeeps ==
    ASSUME IInv, NEW r \in Run, todo[r] # <<>>, Head(todo[r]).do \in {"member", "stage"},
           NEW do \in {"stage", "link"}, Then(r, do),
           UNCHANGED <<stream, requestVars, checkpoints, members, manifests, artifacts, available,
                       ambiguous>>,
           temps' \subseteq temps \cup {Temp(r)}
    PROVE  IInv'
<1>1. TypeOK /\ Shape(r) /\ Past(r) /\ Ends(r) /\ Completion(r) /\ Directory
  BY DEF IInv
<1>2. mode[r] = "running"
  BY <1>1, Working
<1>3. prior'[r] = prior[r]
  BY DEF requestVars
<1>4. /\ Shape(r)' /\ Moved(r, "running", todo'[r])
      /\ Len(todo[r]) \in {9, 10, 11} /\ Len(todo'[r]) = Len(todo[r])
      /\ todo'[r][Len(todo[r])].what = todo[r][Len(todo[r])].what
  BY <1>1, <1>3, ShapeThen
<1>5. mode'[r] = "running" /\ Moved(r, mode'[r], todo'[r])
  BY <1>4 DEF Moved
<1>6. Temp(r)[2] = r
  BY DEF Temp
<1>7. Stays(r)
  BY <1>6 DEF Stays, requestVars
<1>8. Past(r)' /\ Ends(r)'
  BY <1>1, <1>2, <1>5, Quiet
<1>9. Completion(r)'
  BY <1>1, <1>2, <1>4, <1>5, <1>7, CompletionThen
<1>10. Head(todo[r]).what \in Name
  BY <1>1, MemberAt
<1>11. temps' \subseteq {<<target[q], q, name>> : q \in Run, name \in Name}
  BY <1>1, <1>10 DEF Directory, Temp
<1>12. Grows(r)
  BY DEF Grows
<1>13. Directory'
  BY <1>4, <1>5, <1>7, <1>11, <1>12, DirectoryGrows
<1> QED
  BY <1>4, <1>5, <1>7, <1>8, <1>9, <1>13, Standing


\* A call that does not touch the files and records.
LEMMA NothingGrows ==
    ASSUME NEW r, UNCHANGED <<requestVars, storeVars, ambiguous>>
    PROVE  Stays(r) /\ Grows(r) /\ temps' \subseteq temps
BY NothingStored DEF Grows, requestVars, storeVars

\* The steps but a member's comparison have no effect that a later step relies
\* on, or say it themselves.
LEMMA NoEffect ==
    ASSUME NEW r, Head(todo[r]).do \in {"checkpoint", "check_artifact", "verify_store"}
    PROVE  Effect(r)
BY DEF Effect

LEMMA CompareKeeps ==
    ASSUME IInv, NEW r \in Run, todo[r] # <<>>, Head(todo[r]).do \in {"member", "link"}, Compare(r),
           UNCHANGED <<stream, requestVars>>, Stays(r), Grows(r), temps' \subseteq temps
    PROVE  IInv'
<1>1. CASE SameName(r) = {Member(r, Head(todo[r]).what)}
  <2>1. Done(r)
    BY <1>1 DEF Compare
  <2>2. Member(r, Head(todo[r]).what) \in members'
    BY <1>1 DEF SameName, Stays
  <2>3. Effect(r)
    BY <2>2 DEF Effect
  <2> QED
    BY <2>1, <2>3, DoneKeeps
<1>2. CASE SameName(r) # {Member(r, Head(todo[r]).what)}
  BY <1>2, RaisesKeeps DEF Compare
<1> QED
  BY <1>1, <1>2

LEMMA FindMemberKeeps ==
    ASSUME IInv, NEW r \in Run, FindMember(r)
    PROVE  IInv'
<1>1. /\ todo[r] # <<>> /\ Head(todo[r]).do = "member"
      /\ IF SameName(r) = {} THEN Then(r, "stage") ELSE Compare(r)
      /\ UNCHANGED <<stream, requestVars, storeVars, ambiguous>>
  BY DEF FindMember, At
<1>2. Stays(r) /\ Grows(r) /\ temps' \subseteq temps
  BY <1>1, NothingGrows
<1>3. CASE SameName(r) = {}
  <2>1. UNCHANGED <<stream, requestVars, checkpoints, members, manifests, artifacts, available,
                    ambiguous>>
    BY <1>1 DEF storeVars
  <2>2. Then(r, "stage") /\ Head(todo[r]).do \in {"member", "stage"}
    BY <1>1, <1>3
  <2> QED
    BY <1>1, <1>2, <2>1, <2>2, ThenKeeps
<1>4. CASE SameName(r) # {}
  BY <1>1, <1>2, <1>4, CompareKeeps
<1> QED
  BY <1>3, <1>4

LEMMA StageMemberKeeps ==
    ASSUME IInv, NEW r \in Run, StageMember(r)
    PROVE  IInv'
<1>1. /\ todo[r] # <<>> /\ Head(todo[r]).do \in {"member", "stage"} /\ Then(r, "link")
      /\ temps' \subseteq temps \cup {Temp(r)}
      /\ UNCHANGED <<stream, requestVars, checkpoints, members, manifests, artifacts,
                     available, ambiguous>>
  BY DEF StageMember, At
<1> QED
  BY <1>1, ThenKeeps

LEMMA LinkMemberKeeps ==
    ASSUME IInv, NEW r \in Run, LinkMember(r)
    PROVE  IInv'
<1>1. /\ todo[r] # <<>> /\ Head(todo[r]).do = "link" /\ temps' \subseteq temps
      /\ UNCHANGED <<stream, requestVars, checkpoints, manifests, artifacts, available, ambiguous>>
      /\ IF SameName(r) = {}
           THEN members' = members \cup {Member(r, Head(todo[r]).what)}
           ELSE UNCHANGED members
      /\ IF SameName(r) = {} THEN Done(r) \/ Raises(r) ELSE Compare(r)
  BY DEF LinkMember, At, Returns
<1>2. TypeOK /\ Shape(r)
  BY DEF IInv
<1>3. Head(todo[r]).what \in Name
  BY <1>1, <1>2, MemberAt
<1>4. Stays(r)
  BY <1>1 DEF Stays, requestVars
<1>5. Grows(r)
  <2>1. CASE SameName(r) = {}
    <3>1. \A m \in members : ~(m.artifact = target[r] /\ m.name = Head(todo[r]).what)
      BY <2>1 DEF SameName
    <3> QED
      BY <1>1, <1>3, <2>1, <3>1 DEF Grows
  <2>2. CASE SameName(r) # {}
    BY <1>1, <2>2 DEF Grows
  <2> QED
    BY <2>1, <2>2
<1>6. CASE SameName(r) = {}
  <2>1. Effect(r)
    BY <1>1, <1>6 DEF Effect
  <2>2. CASE Done(r)
    BY <1>1, <1>4, <1>5, <2>1, <2>2, DoneKeeps
  <2>3. CASE Raises(r)
    BY <1>1, <1>4, <1>5, <2>3, RaisesKeeps
  <2> QED
    BY <1>1, <1>6, <2>2, <2>3
<1>7. CASE SameName(r) # {}
  BY <1>1, <1>4, <1>5, <1>7, CompareKeeps
<1> QED
  BY <1>6, <1>7

LEMMA VerifyBundleKeeps ==
    ASSUME IInv, NEW r \in Run, VerifyBundle(r)
    PROVE  IInv'
<1>1. /\ todo[r] # <<>> /\ Head(todo[r]).do = "verify_bundle"
      /\ IF BundleVerified(r) THEN Done(r) ELSE Raises(r)
      /\ UNCHANGED <<stream, requestVars, storeVars, ambiguous>>
  BY DEF VerifyBundle, At
<1>2. Stays(r) /\ Grows(r) /\ temps' \subseteq temps
  BY <1>1, NothingGrows
<1>3. CASE BundleVerified(r)
  <2>1. \A t \in temps' : t[2] # r
    <3>1. ASSUME NEW t \in temps', t[2] = r PROVE FALSE
      <4>1. PICK q \in Run, name \in Name : t = <<target[q], q, name>>
        BY <1>2, <3>1 DEF IInv, Directory
      <4>2. t[1] = target[r]
        BY <3>1, <4>1
      <4> QED
        BY <1>2, <1>3, <3>1, <4>2 DEF BundleVerified
    <3> QED
      BY <3>1
  <2>2. Effect(r)
    BY <1>1, <2>1 DEF Effect
  <2> QED
    BY <1>1, <1>2, <1>3, <2>2, DoneKeeps
<1>4. CASE ~BundleVerified(r)
  BY <1>1, <1>2, <1>4, RaisesKeeps
<1> QED
  BY <1>3, <1>4

LEMMA CheckArtifactKeeps ==
    ASSUME IInv, NEW r \in Run, CheckArtifact(r) \/ VerifyStore(r)
    PROVE  IInv'
<1>1. /\ todo[r] # <<>> /\ Head(todo[r]).do \in {"check_artifact", "verify_store"}
      /\ Done(r) \/ Raises(r)
      /\ UNCHANGED <<stream, requestVars, storeVars, ambiguous>>
  BY DEF CheckArtifact, VerifyStore, At
<1>2. Stays(r) /\ Grows(r) /\ temps' \subseteq temps /\ Effect(r)
  BY <1>1, NothingGrows, NoEffect
<1>3. CASE Done(r)
  BY <1>1, <1>2, <1>3, DoneKeeps
<1>4. CASE Raises(r)
  BY <1>1, <1>2, <1>4, RaisesKeeps
<1> QED
  BY <1>1, <1>3, <1>4

\* The calls that write one file or record of their own.
LEMMA WritesKeep ==
    ASSUME IInv, NEW r \in Run,
           WriteCheckpoint(r) \/ WriteManifest(r) \/ WriteArtifact(r) \/ WriteAvailability(r)
    PROVE  IInv'
<1>1. /\ todo[r] # <<>> /\ Head(todo[r]).do # "append"
      /\ Done(r) \/ Raises(r)
      /\ UNCHANGED <<stream, requestVars, temps, members, ambiguous>>
  BY DEF WriteCheckpoint, WriteManifest, WriteArtifact, WriteAvailability, At, Returns
<1>2. /\ checkpoints \subseteq checkpoints' /\ manifests \subseteq manifests'
      /\ artifacts \subseteq artifacts' /\ available \subseteq available'
  BY DEF WriteCheckpoint, WriteManifest, WriteArtifact, WriteAvailability
<1>3. Stays(r) /\ temps' \subseteq temps
  BY <1>1, <1>2 DEF Stays, requestVars
<1>4. Grows(r)
  BY <1>1 DEF WriteCheckpoint, WriteManifest, WriteArtifact, WriteAvailability, At, Grows
<1>5. Effect(r)
  BY <1>1 DEF WriteCheckpoint, WriteManifest, WriteArtifact, WriteAvailability, At, Effect
<1>6. Head(todo[r]).do = "checkpoint" => <<r, Head(todo[r]).at>> \in checkpoints'
  BY DEF WriteCheckpoint, WriteManifest, WriteArtifact, WriteAvailability, At
<1>7. CASE Done(r)
  BY <1>1, <1>3, <1>4, <1>5, <1>6, <1>7, DoneKeeps
<1>8. CASE Raises(r)
  BY <1>1, <1>3, <1>4, <1>8, RaisesKeeps
<1> QED
  BY <1>1, <1>7, <1>8

LEMMA StepFailsKeeps ==
    ASSUME IInv, NEW r \in Run, StepFails(r)
    PROVE  IInv'
<1>1. /\ todo[r] # <<>> /\ Head(todo[r]).do # "append" /\ Raises(r) /\ temps' \subseteq temps
      /\ UNCHANGED <<stream, requestVars, checkpoints, members, manifests, artifacts,
                     available, ambiguous>>
  BY DEF StepFails
<1>2. Stays(r) /\ Grows(r)
  BY <1>1 DEF Stays, Grows, requestVars
<1> QED
  BY <1>1, <1>2, RaisesKeeps


-----------------------------------------------------------------------------
(* The steps that append an event                                          *)

HeadEvent(r) == [type |-> Head(todo[r]).what, at |-> Head(todo[r]).at]

LEMMA Counted ==
    \A n \in Nat \ {0} : /\ n > 0 /\ (n > 1 \/ n = 1) /\ (n > 1 => 1 # n /\ n # 1)
                        /\ ~(n > 12) => n \in 1 .. 12 /\ n <= 12
OBVIOUS

\* Which event w it is, by where the attempt is, when n steps are left.
ToTell(r, w, n) ==
    /\ w \in EventType /\ n > 0
    /\ mode[r] = "launching" =>
         \/ w = "run_preflight_blocked" /\ n = 1
         \/ /\ LaunchSteps(todo[r]) /\ n > 1
            /\ w \in {"run_preflight_succeeded", "runtime_request_frozen", "run_recovered"}
         \/ LaunchSteps(todo[r]) /\ n = 1 /\ w = "run_launched"
    /\ mode[r] = "failing" =>
         \/ n > 1 /\ w \in {"run_worker_message", "artifact_ingestion_failed"}
         \/ n = 1 /\ w = "run_failed"
    /\ mode[r] = "running" =>
         \/ w \in Told \cup {"artifact_ingestion_started", "artifact_ingestion_verified"}
         \/ w = "run_checkpoint" /\ <<r, Head(todo[r]).at>> \in checkpoints
         \/ n = 1 /\ w = "run_completed" /\ Completes(r)
         \/ n = 1 /\ w \in {"run_cancelled", "run_interrupted"}
    /\ w = "run_recovered" => prior[r] # NoRun

LEMMA EventAt ==
    ASSUME TypeOK, NEW r \in Run, Shape(r), todo[r] # <<>>, Head(todo[r]).do = "append",
           NEW w, w = Head(todo[r]).what
    PROVE  \A n \in Nat : n = Len(todo[r]) => ToTell(r, w, n)
<1> DEFINE q == todo[r]
<1>0. SUFFICES ASSUME NEW n \in Nat, n = Len(q) PROVE ToTell(r, w, n)
  OBVIOUS
<1>1. /\ q \in Seq(StepType) /\ q # <<>> /\ Head(q) = q[1] /\ 1 \in DOMAIN q
      /\ Len(q) \in Nat \ {0} /\ mode[r] \in {"launching", "running", "failing"}
  BY Working
<1>a. n \in Nat \ {0}
  BY <1>0, <1>1
<1>2. /\ n > 0 /\ (n > 1 \/ n = 1) /\ (n > 1 => 1 # n)
      /\ ~(n > 12) => n \in 1 .. 12 /\ n <= 12
  BY <1>a, Counted
<1>3. CASE mode[r] = "launching"
  <2>1. CASE q = Append1("run_preflight_blocked")
    <3>1. Len(q) = 1 /\ q[1].what = "run_preflight_blocked" /\ "run_preflight_blocked" \in EventType
      BY <2>1, Single DEF EventType, TerminalType
    <3> QED
      BY <1>0, <1>1, <1>2, <1>3, <3>1 DEF ToTell
  <2>2. CASE LaunchSteps(q)
    <3>1. q[1].what \in IF 1 = n THEN {"run_launched"}
               ELSE {"run_preflight_succeeded", "runtime_request_frozen", "run_recovered"}
      BY <1>0, <1>1, <2>2 DEF LaunchSteps
    <3>2. {"run_launched", "run_preflight_succeeded", "runtime_request_frozen", "run_recovered"}
          \subseteq EventType
      BY DEF EventType
    <3>3. q[1].what = "run_recovered" => prior[r] # NoRun
      BY <1>1 DEF Shape
    <3> QED
      BY <1>1, <1>2, <1>3, <2>2, <3>1, <3>2, <3>3 DEF ToTell
  <2> QED
    BY <1>3, <2>1, <2>2 DEF Shape
<1>4. CASE mode[r] = "failing"
  <2>1. q[1].what \in IF 1 = n THEN {"run_failed"} ELSE {"run_worker_message", "artifact_ingestion_failed"}
    BY <1>0, <1>1, <1>4 DEF Shape, FailureSteps
  <2>2. {"run_failed", "run_worker_message", "artifact_ingestion_failed"} \subseteq EventType
    BY DEF EventType, TerminalType
  <2> QED
    BY <1>1, <1>2, <1>4, <2>1, <2>2 DEF ToTell
<1>5. CASE mode[r] = "running"
  <2>1. /\ Told \subseteq EventType
        /\ {"artifact_ingestion_started", "artifact_ingestion_verified", "run_checkpoint",
            "run_completed", "run_cancelled", "run_interrupted"} \subseteq EventType
        /\ "run_recovered" \notin Told
    BY Names DEF EventType, TerminalType, Told
  <2>2. CASE StopSteps(checkpoints, r, q)
    <3>1. \/ w \in Told
          \/ w = "run_checkpoint" /\ <<r, Head(q).at>> \in checkpoints
          \/ n = 1 /\ w \in {"run_cancelled", "run_interrupted"}
      BY <1>0, <1>1, <2>2, StopHead
    <3> QED
      BY <1>2, <1>5, <2>1, <3>1 DEF ToTell
  <2>3. CASE CompletionSteps(checkpoints, r, q)
    <3>1. CASE n > 12
      <4>1. TrainingStep(checkpoints, r, q, 1)
        BY <1>0, <1>1, <2>3, <3>1, CompletionHead
      <4>2. \/ w \in Told
            \/ w = "run_checkpoint" /\ <<r, Head(q).at>> \in checkpoints
        BY <1>1, <4>1 DEF TrainingStep
      <4> QED
        BY <1>2, <1>5, <2>1, <4>2 DEF ToTell
    <3>2. CASE ~(n > 12)
      <4>1. n \in 1 .. 12 /\ n <= 12
        BY <1>2, <3>2, Zenon
      <4>2. Fits(q[1], Closing[13 - n])
        BY <1>0, <1>1, <2>3, <4>1, CompletionHead
      <4>3. \/ w \in {"artifact_ingestion_started", "artifact_ingestion_verified"}
            \/ n = 1 /\ w = "run_completed"
        BY <1>1, <4>1, <4>2, ClosingDeed
      <4>4. Completes(r)
        BY <1>1, <1>5, <2>3, CompletionLast DEF Completes
      <4> QED
        BY <1>2, <1>5, <2>1, <4>3, <4>4 DEF ToTell
    <3> QED
      BY <3>1, <3>2
  <2> QED
    BY <1>5, <2>2, <2>3 DEF Shape
<1> QED
  BY <1>1, <1>3, <1>4, <1>5


\* What telling e keeps, once the attempt's own steps are accounted for.
LEMMA EventKeeps ==
    ASSUME IInv, NEW r \in Run, todo[r] # <<>>, Head(todo[r]).do = "append",
           NEW e \in Event, e = HeadEvent(r), Appends(r, e),
           UNCHANGED <<requestVars, storeVars>>, ambiguous \subseteq ambiguous',
           Moved(r, mode'[r], todo'[r]), Shape(r)', Past(r)', Ends(r)', Completion(r)',
           ~Unadmitted(r) => ~Unadmitted(r)'
    PROVE  IInv'
<1>1. TypeOK /\ Shape(r) /\ Past(r) /\ Ends(r) /\ Recovery(r) /\ CheckpointsBacked
  BY DEF IInv
<1>2. e.type = Head(todo[r]).what /\ e.at = Head(todo[r]).at
  BY DEF HeadEvent
<1>3. PICK n \in Nat : n = Len(todo[r])
  BY <1>1, Working
<1>4. PICK w : w = e.type
  OBVIOUS
<1>5. ToTell(r, w, n)
  BY <1>1, <1>2, <1>3, <1>4, EventAt
<1>6. mode[r] \in {"launching", "running", "failing"}
  BY <1>1, Working
<1>7. w = "run_checkpoint" => <<r, e.at>> \in checkpoints
  BY <1>2, <1>5, <1>6 DEF ToTell, Told
<1>8. /\ CheckpointEvents(r)' = CheckpointEvents(r) \cup
           (IF e.type = "run_checkpoint" THEN {e.at} ELSE {})
      /\ Has(r, "run_recovered")' <=> (Has(r, "run_recovered") \/ e.type = "run_recovered")
  BY <1>1, Tells DEF TypeOK
<1>9. /\ stream' \in [Run -> Seq(Event)] /\ \A q \in Run : q # r => stream'[q] = stream[q]
  BY <1>1, Appended DEF TypeOK
<1>10. CheckpointsBacked'
  <2> SUFFICES ASSUME NEW q \in Run, NEW k \in CheckpointEvents(q)' PROVE <<q, k>> \in checkpoints'
    BY DEF CheckpointsBacked
  <2>1. CASE q = r
    BY <1>1, <1>4, <1>7, <1>8, <2>1 DEF CheckpointsBacked, storeVars
  <2>2. CASE q # r
    <3>1. CheckpointEvents(q)' = CheckpointEvents(q)
      BY <1>9, <2>2 DEF CheckpointEvents
    <3> QED
      BY <1>1, <3>1 DEF CheckpointsBacked, storeVars
  <2> QED
    BY <2>1, <2>2
<1>11. Stays(r)
  BY NothingStored DEF requestVars
<1>12. Elsewhere(r) /\ prior'[r] = prior[r] /\ start'[r] = start[r]
  BY <1>1, <1>9 DEF Elsewhere, requestVars, TypeOK
<1>13. Has(r, "run_recovered")' => prior'[r] # NoRun
  BY <1>1, <1>4, <1>5, <1>8, <1>12 DEF ToTell, Recovery
<1>14. \A p \in Run : \A k : Interrupted(p, k) => Interrupted(p, k)'
  BY <1>1, <1>2, InterruptedAppended
<1>15. Directory'
  BY <1>11, DirectoryUnchanged
<1> QED
  BY <1>10, <1>11, <1>12, <1>13, <1>14, <1>15, Assembled

\* A second terminal event is told only by a run that could not confirm its first.
LEMMA EventEnds ==
    ASSUME TypeOK, NEW r \in Run, Shape(r), Past(r), Ends(r), todo[r] # <<>>,
           Head(todo[r]).do = "append", NEW e \in Event, e = HeadEvent(r), Appends(r, e),
           ambiguous \subseteq ambiguous',
           e.type \in TerminalType =>
               \/ todo'[r] = <<>>
               \/ /\ r \in ambiguous' /\ mode[r] = "running"
                  /\ mode'[r] = "failing" /\ Len(todo'[r]) = 1
    PROVE  Ends(r)'
<1>1. PICK n \in Nat : n = Len(todo[r])
  BY Working
<1>2. PICK w : w = e.type
  OBVIOUS
<1>3. ToTell(r, w, n)
  BY <1>1, <1>2, EventAt DEF HeadEvent
<1>4. mode[r] \in {"launching", "running", "failing"}
  BY Working
<1>a. stream[r] \in Seq(Event)
  BY DEF TypeOK
<1>5. PICK m \in Nat : m = Len(stream[r])
  BY <1>a
<1>6. /\ Len(stream'[r]) = m + 1
      /\ Terminals(r)' = Terminals(r) \cup (IF e.type \in TerminalType THEN {m + 1} ELSE {})
  BY <1>5, Appended, Tells DEF TypeOK
<1>7. \/ Terminals(r) = {}
      \/ /\ Terminals(r) = {m} /\ r \in ambiguous /\ mode[r] = "failing" /\ n = 1
  BY <1>1, <1>4, <1>5, NotEnded
<1>8. CASE w \notin TerminalType
  <2>1. Terminals(r) = {}
    <3>1. ~(mode[r] = "failing" /\ n = 1)
      BY <1>3, <1>8 DEF ToTell, TerminalType
    <3> QED
      BY <1>7, <3>1
  <2> QED
    BY <1>2, <1>6, <1>8, <2>1 DEF Ends
<1>9. CASE w \in TerminalType
  <2>1. CASE Terminals(r) = {}
    <3>1. Terminals(r)' = {Len(stream[r])'}
      BY <1>2, <1>6, <1>9, <2>1
    <3> QED
      BY <1>2, <1>9, <3>1 DEF Ends
  <2>2. CASE Terminals(r) = {m} /\ r \in ambiguous /\ mode[r] = "failing" /\ n = 1
    <3>2. PICK k \in Nat : k = m + 1
      OBVIOUS
    <3>a. k \notin {m}
      BY <3>2
    <3>b. IsFiniteSet({m}) /\ Cardinality({m}) = 1
      BY FS_Singleton
    <3>c. Cardinality({m} \cup {k}) = Cardinality({m}) + 1
      BY <3>a, <3>b, FS_AddElement, Zenon
    <3>d. Cardinality({m} \cup {k}) = 2
      <4>1. Cardinality({m} \cup {k}) = 1 + 1
        BY <3>b, <3>c, Zenon
      <4>2. 1 + 1 = 2
        OBVIOUS
      <4> QED
        BY <4>1, <4>2, Zenon
    <3>1. Terminals(r)' = {m} \cup {k}
      BY <1>2, <1>6, <1>9, <2>2, <3>2
    <3>3. Cardinality(Terminals(r)') = 2
      BY <3>1, <3>d, Zenon
    <3>4. todo'[r] = <<>>
      BY <1>2, <1>9, <2>2
    <3> QED
      BY <2>2, <3>3, <3>4 DEF Ends
  <2> QED
    BY <1>7, <2>1, <2>2
<1> QED
  BY <1>8, <1>9


LEMMA LastStep ==
    ASSUME NEW q \in Seq(StepType), q # <<>>, Len(q) = 1
    PROVE  Tail(q) = <<>>
<1>1. Tail(q) \in Seq(StepType) /\ Len(Tail(q)) = 0
  BY Rest
<1> QED
  BY <1>1, EmptySeq

\* The launch is told once, and nothing before it ends the run.
LEMMA EventPast ==
    ASSUME TypeOK, NEW r \in Run, Shape(r), Past(r), Ends(r), todo[r] # <<>>,
           Head(todo[r]).do = "append", NEW e \in Event, e = HeadEvent(r), Appends(r, e),
           \/ mode'[r] = mode[r] /\ todo'[r] = Tail(todo[r])
           \/ /\ mode'[r] \in {"failing", "over", "lost"}
              /\ mode[r] = "launching" => mode'[r] # "failing"
    PROVE  Past(r)'
<1>1. PICK n \in Nat : n = Len(todo[r])
  BY Working
<1>2. PICK w : w = e.type
  OBVIOUS
<1>3. ToTell(r, w, n)
  BY <1>1, <1>2, EventAt DEF HeadEvent
<1>4. mode[r] \in {"launching", "running", "failing"}
  BY Working
<1>a. stream[r] \in Seq(Event)
  BY DEF TypeOK
<1>5. PICK m \in Nat : m = Len(stream[r])
  BY <1>a
<1>6. /\ Len(stream'[r]) = m + 1 /\ stream'[r] # <<>> /\ DOMAIN stream'[r] = 1 .. m + 1
      /\ DOMAIN stream[r] = 1 .. m
      /\ Terminals(r)' = Terminals(r) \cup (IF e.type \in TerminalType THEN {m + 1} ELSE {})
      /\ Launched(r)' = Launched(r) \cup (IF e.type = "run_launched" THEN {m + 1} ELSE {})
  BY <1>5, Appended, Tells DEF TypeOK
<1>7. mode[r] = "launching" => Launched(r) = {} /\ Terminals(r) = {}
  BY DEF Past
<1>8. mode[r] \in {"running", "failing"} => Launched(r) # {} /\ w # "run_launched"
  BY <1>3 DEF Past, ToTell, Told
<1>9. Launched(r)' = {} \/ \E i \in DOMAIN stream'[r] : Launched(r)' = {i}
  <2>1. CASE w = "run_launched"
    <3>1. Launched(r)' = {m + 1} /\ m + 1 \in DOMAIN stream'[r]
      BY <1>2, <1>4, <1>6, <1>7, <1>8, <2>1
    <3> QED
      BY <3>1
  <2>2. CASE w # "run_launched"
    <3>1. Launched(r)' = Launched(r) /\ DOMAIN stream[r] \subseteq DOMAIN stream'[r]
      BY <1>2, <1>6, <2>2
    <3>2. Launched(r) = {} \/ \E i \in DOMAIN stream[r] : Launched(r) = {i}
      BY DEF Past
    <3> QED
      BY <3>1, <3>2
  <2> QED
    BY <2>1, <2>2
<1>10. CASE mode'[r] \in {"failing", "over", "lost"}
  <2>1. mode'[r] = "failing" => Launched(r)' # {}
    BY <1>4, <1>6, <1>8, <1>10
  <2> QED
    BY <1>9, <1>10, <2>1 DEF Past
<1>11. CASE mode'[r] = mode[r] /\ todo'[r] = Tail(todo[r])
  <2>1. CASE mode[r] \in {"running", "failing"}
    <3>1. Launched(r)' # {} /\ mode'[r] \in {"running", "failing"}
      BY <1>6, <1>8, <1>11, <2>1
    <3> QED
      BY <1>9, <3>1 DEF Past
  <2>2. CASE mode[r] = "launching"
    <3>1. /\ todo[r] \in Seq(StepType)
          /\ Len(Tail(todo[r])) = n - 1 /\ Tail(todo[r]) \in Seq(StepType)
      BY <1>1, Working
    <3>2. CASE n = 1
      <4>1. todo'[r] = <<>>
        BY <1>1, <1>11, <3>1, <3>2, LastStep
      <4>2. w \in TerminalType => w # "run_launched"
        BY DEF TerminalType
      <4>3. Launched(r)' = {} \/ Terminals(r)' = {}
        BY <1>2, <1>6, <1>7, <2>2, <4>2
      <4> QED
        BY <1>9, <1>11, <2>2, <4>1, <4>3 DEF Past
    <3>3. CASE n # 1
      <4>1. /\ LaunchSteps(todo[r])
            /\ w \in {"run_preflight_succeeded", "runtime_request_frozen", "run_recovered"}
        BY <1>3, <2>2, <3>3 DEF ToTell
      <4>2. LaunchSteps(todo'[r])
        BY <1>11, <3>1, <4>1, EventsRest
      <4>3. Launched(r)' = {} /\ Terminals(r)' = {}
        BY <1>2, <1>6, <1>7, <2>2, <4>1 DEF TerminalType
      <4>4. mode'[r] = "launching"
        BY <1>11, <2>2
      <4>5. LaunchSteps(todo[r])'
        BY <4>2 DEF LaunchSteps
      <4> QED
        BY <1>6, <1>9, <4>3, <4>4, <4>5 DEF Past
    <3> QED
      BY <3>2, <3>3
  <2> QED
    BY <1>4, <2>1, <2>2
<1> QED
  BY <1>10, <1>11

LEMMA AppendEventKeeps ==
    ASSUME IInv, NEW r \in Run, AppendEvent(r)
    PROVE  IInv'
<1>1. /\ todo[r] # <<>> /\ Head(todo[r]).do = "append" /\ Done(r)
      /\ UNCHANGED <<requestVars, storeVars, ambiguous>>
  BY DEF AppendEvent, At
<1>2. TypeOK /\ Shape(r) /\ Past(r) /\ Ends(r) /\ Completion(r)
  BY DEF IInv
<1>3. PICK e \in Event : e = HeadEvent(r)
  <2>1. Head(todo[r]) \in StepType /\ Len(todo[r]) \in Nat
    BY <1>1, <1>2, Working
  <2>2. Head(todo[r]).what \in EventType
    BY <1>1, <1>2, <2>1, EventAt DEF ToTell
  <2> QED
    BY <2>1, <2>2 DEF HeadEvent, Event, StepType
<1>4. Appends(r, e)
  BY <1>3 DEF AppendEvent, Appends, HeadEvent
<1>5. Shape(r)' /\ Moved(r, mode[r], Tail(todo[r]))
  <2>1. checkpoints \subseteq checkpoints' /\ prior'[r] = prior[r]
    BY <1>1 DEF storeVars, requestVars
  <2> QED
    BY <1>1, <1>2, <2>1, ShapeDone
<1>6. mode'[r] = mode[r] /\ todo'[r] = Tail(todo[r])
  BY <1>5 DEF Moved
<1>7. Moved(r, mode'[r], todo'[r])
  BY <1>5, <1>6
<1>8. Past(r)'
  BY <1>1, <1>2, <1>3, <1>4, <1>6, EventPast
<1>9. PICK n \in Nat : n = Len(todo[r])
  BY <1>1, <1>2, Working
<1>10. /\ Len(Tail(todo[r])) = n - 1 /\ Tail(todo[r]) \in Seq(StepType)
       /\ mode[r] \in {"launching", "running", "failing"} /\ mode[r] \in Mode
       /\ todo[r] \in Seq(StepType)
  BY <1>1, <1>2, <1>9, Working DEF TypeOK
<1>11. e.type = Head(todo[r]).what
  BY <1>3 DEF HeadEvent
<1>12. PICK w : w = e.type
  OBVIOUS
<1>13. ToTell(r, w, n)
  BY <1>1, <1>2, <1>9, <1>11, <1>12, EventAt
<1>14. w \in TerminalType => n = 1
  BY <1>10, <1>13 DEF ToTell, TerminalType, Told
<1>15. n = 1 => todo'[r] = <<>>
  BY <1>1, <1>6, <1>9, <1>10, LastStep
<1>16. Ends(r)'
  BY <1>1, <1>2, <1>3, <1>4, <1>12, <1>14, <1>15, EventEnds
<1>17. Stays(r) /\ temps' \subseteq temps
  BY <1>1, NothingGrows
<1>18. \A type : Has(r, type)' <=> (Has(r, type) \/ type = w)
  BY <1>2, <1>4, <1>12, Tells DEF TypeOK
<1>19. Effect(r)
  BY <1>1, <1>11, <1>12, <1>18 DEF Effect
<1>20. Has(r, "run_completed")' => Has(r, "run_completed") \/ (Completes(r) /\ n = 1)
  <2>1. w = "run_completed" => Completes(r) /\ n = 1
    BY <1>10, <1>13 DEF ToTell, Told
  <2> QED
    BY <1>18, <2>1
<1>21. Completion(r)'
  BY <1>1, <1>2, <1>6, <1>9, <1>17, <1>18, <1>19, <1>20, CompletionDone
<1>22. ~Unadmitted(r) => ~Unadmitted(r)'
  <2>1. Len(Tail(todo[r])) <= Len(todo[r])
    BY <1>9, <1>10
  <2> QED
    BY <1>1, <1>2, <1>6, <1>10, <2>1, AdmittedStays
<1> QED
  BY <1>1, <1>3, <1>4, <1>5, <1>7, <1>8, <1>16, <1>21, <1>22, EventKeeps


\* An append that raises, its event durable or not.
LEMMA AppendFailsKeeps ==
    ASSUME IInv, NEW r \in Run, AppendFails(r)
    PROVE  IInv'
<1>1. /\ todo[r] # <<>> /\ Head(todo[r]).do = "append" /\ Raises(r)
      /\ UNCHANGED <<requestVars, storeVars>> /\ ambiguous \subseteq ambiguous'
  BY DEF AppendFails, At
<1>2. TypeOK /\ Shape(r) /\ Past(r) /\ Ends(r) /\ Completion(r)
  BY DEF IInv
<1>3. PICK e \in Event : e = HeadEvent(r)
  <2>1. Head(todo[r]) \in StepType /\ Len(todo[r]) \in Nat
    BY <1>1, <1>2, Working
  <2>2. Head(todo[r]).what \in EventType
    BY <1>1, <1>2, <2>1, EventAt DEF ToTell
  <2> QED
    BY <2>1, <2>2 DEF HeadEvent, Event, StepType
<1>4. PICK n \in Nat : n = Len(todo[r])
  BY <1>1, <1>2, Working
<1>5. PICK w : w = e.type
  OBVIOUS
<1>6. e.type = Head(todo[r]).what
  BY <1>3 DEF HeadEvent
<1>7. ToTell(r, w, n)
  BY <1>1, <1>2, <1>4, <1>5, <1>6, EventAt
<1>8. prior'[r] = prior[r] /\ checkpoints \subseteq checkpoints'
  BY <1>1 DEF requestVars, storeVars
<1>9. /\ Shape(r)' /\ Moved(r, mode'[r], todo'[r])
      /\ \/ mode[r] = "launching" /\ mode'[r] \in {"over", "lost"} /\ todo'[r] = <<>>
         \/ /\ mode[r] = "running" /\ mode'[r] = "failing"
            /\ Ingesting(Head(todo[r])) \/ Len(todo'[r]) = 1
         \/ mode[r] = "failing" /\ n > 1 /\ mode'[r] = "failing" /\ todo'[r] = Tail(todo[r])
         \/ mode[r] = "failing" /\ mode'[r] = "lost" /\ todo'[r] = <<>>
  BY <1>1, <1>2, <1>4, <1>8, Raised
<1>10. /\ mode'[r] \in {"failing", "over", "lost"} /\ mode'[r] \in Mode
       /\ todo'[r] \in Seq(StepType)
       /\ mode'[r] \in {"over", "lost"} => todo'[r] = <<>>
       /\ mode[r] = "launching" => mode'[r] # "failing"
       /\ mode'[r] = "failing" => mode[r] \in {"running", "failing"}
  BY <1>9 DEF Moved, Mode
<1>11. Stays(r) /\ temps' \subseteq temps
  <2>1. Stays(r)
    BY <1>1, NothingStored DEF requestVars
  <2> QED
    BY <1>1, <2>1 DEF storeVars
<1>12. ~Unadmitted(r) => ~Unadmitted(r)'
  BY <1>1, <1>2, <1>10, AdmittedStays
<1>13. ~Completes(r)'
  BY <1>10 DEF Completes
<1>14. CASE stream' = stream
  <2>1. /\ Terminals(r)' = Terminals(r) /\ Launched(r)' = Launched(r)
        /\ \A type : Has(r, type)' <=> Has(r, type)
    BY <1>11, <1>14, NoEvent
  <2>2. UNCHANGED <<stream, requestVars>>
    BY <1>1, <1>14
  <2>3. Past(r)'
    <3>1. mode'[r] = "failing" => Launched(r)' # {}
      BY <1>2, <1>10, <2>1 DEF Past
    <3>2. Launched(r)' = {} \/ \E i \in DOMAIN stream'[r] : Launched(r)' = {i}
      BY <1>2, <1>14, <2>1 DEF Past
    <3> QED
      BY <1>10, <3>1, <3>2 DEF Past
  <2>4. Ends(r)'
    <3>1. \/ Terminals(r) = {}
          \/ Terminals(r) = {Len(stream[r])} /\ r \in ambiguous /\ mode[r] = "failing" /\ n = 1
      BY <1>1, <1>2, <1>4, <1>9, NotEnded
    <3>2. CASE Terminals(r) = {}
      BY <2>1, <3>2 DEF Ends
    <3>3. CASE Terminals(r) = {Len(stream[r])} /\ r \in ambiguous /\ mode[r] = "failing" /\ n = 1
      <4>1. todo'[r] = <<>>
        BY <1>9, <3>3
      <4>2. Terminals(r)' = {Len(stream'[r])}
        BY <1>14, <2>1, <3>3
      <4> QED
        BY <4>1, <4>2 DEF Ends
    <3> QED
      BY <3>1, <3>2, <3>3
  <2>5. Completion(r)'
    <3>1. Has(r, "run_completed") => Durable(r, 0)'
      BY <1>2, <1>11, <2>1, DurableStays DEF Completion
    <3> QED
      BY <1>13, <2>1, <3>1 DEF Completion
  <2>6. Directory'
    BY <1>1, <1>9, <1>11, <1>12, DirectoryUnchanged
  <2> QED
    BY <1>9, <1>11, <2>2, <2>3, <2>4, <2>5, <2>6, Standing
<1>15. CASE /\ Appends(r, e)
            /\ ambiguous' = IF w \in TerminalType THEN ambiguous \cup {r} ELSE ambiguous
  <2>1. Past(r)'
    BY <1>1, <1>2, <1>3, <1>10, <1>15, EventPast
  <2>2. e.type \in TerminalType =>
            \/ todo'[r] = <<>>
            \/ /\ r \in ambiguous' /\ mode[r] = "running"
               /\ mode'[r] = "failing" /\ Len(todo'[r]) = 1
    <3>1. w \in TerminalType => ~Ingesting(Head(todo[r]))
      BY <1>1, <1>5, <1>6 DEF Ingesting, TerminalType
    <3>2. w \in TerminalType => ~(mode[r] = "failing" /\ n > 1)
      BY <1>7 DEF ToTell, TerminalType
    <3>3. w \in TerminalType => r \in ambiguous'
      BY <1>15
    <3> QED
      BY <1>5, <1>9, <3>1, <3>2, <3>3
  <2>3. Ends(r)'
    BY <1>1, <1>2, <1>3, <1>15, <2>2, EventEnds
  <2>4. \A type : Has(r, type)' <=> (Has(r, type) \/ type = w)
    BY <1>2, <1>5, <1>15, Tells DEF TypeOK
  <2>5. Completion(r)'
    <3>1. Has(r, "run_completed") => Durable(r, 0)'
      BY <1>2, <1>11, <2>4, DurableStays DEF Completion
    <3>2. w = "run_completed" => Durable(r, 0)'
      <4>1. HAVE w = "run_completed"
      <4>2. Completes(r) /\ n = 1
        <5>1. mode[r] \in {"launching", "running", "failing"}
          BY <1>1, <1>2, Working
        <5> QED
          BY <1>7, <4>1, <5>1 DEF ToTell, Told
      <4>3. Effect(r)
        BY <1>1, <1>5, <1>6, <2>4 DEF Effect
      <4>4. 0 = n - 1
        BY <4>2
      <4> QED
        BY <1>2, <1>4, <1>11, <2>4, <4>2, <4>3, <4>4, DurableDone
    <3>3. Has(r, "run_completed")' => Durable(r, 0)'
      BY <2>4, <3>1, <3>2
    <3> QED
      BY <1>13, <3>3 DEF Completion
  <2> QED
    BY <1>1, <1>3, <1>9, <1>12, <1>15, <2>1, <2>3, <2>5, EventKeeps
<1> QED
  <2>1. \/ stream' = stream
        \/ /\ Appends(r, e)
           /\ ambiguous' = IF w \in TerminalType THEN ambiguous \cup {r} ELSE ambiguous
    BY <1>3, <1>5, <1>6 DEF AppendFails, Appends, HeadEvent
  <2> QED
    BY <1>14, <1>15, <2>1

-----------------------------------------------------------------------------
(* The invariant                                                           *)

LEMMA Initially ==
    ASSUME Init
    PROVE  IInv
<1>1. ASSUME NEW r \in Run
      PROVE  /\ stream[r] = <<>> /\ mode[r] = "idle" /\ todo[r] = <<>> /\ prior[r] = NoRun
             /\ DOMAIN todo[r] = {}
  BY DEF Init
<1>2. TypeOK
  <2>1. <<>> \in Seq(Event) /\ <<>> \in Seq(StepType) /\ "idle" \in Mode
    BY DEF Mode
  <2> QED
    BY <2>1 DEF Init, TypeOK
<1>3. Directory /\ CheckpointsBacked
  <2>1. CheckpointsBacked
    BY <1>1, NoneTold DEF CheckpointsBacked
  <2> QED
    BY <2>1 DEF Init, Directory
<1>4. ASSUME NEW r \in Run PROVE Shape(r) /\ Past(r) /\ Ends(r) /\ Recovery(r) /\ Completion(r)
  <2>1. Terminals(r) = {} /\ Launched(r) = {} /\ \A type : ~Has(r, type)
    BY <1>1, NoneTold
  <2> QED
    BY <1>1, <2>1 DEF Shape, Past, Ends, Recovery, Completion, Completes
<1> QED
  BY <1>2, <1>3, <1>4 DEF IInv

LEMMA Stuttering ==
    ASSUME IInv, UNCHANGED vars
    PROVE  IInv'
<1>1. /\ UNCHANGED <<stream, mode, todo, prior, start, target, payload, checkpoints, members,
                     temps, manifests, artifacts, available, ambiguous>>
  BY DEF vars, attemptVars, requestVars, storeVars
<1>2. TypeOK' /\ CheckpointsBacked'
  BY <1>1 DEF IInv, TypeOK, CheckpointsBacked, CheckpointEvents
<1>3. Directory'
  BY <1>1 DEF IInv, Directory, Member, Bytes, Unadmitted
<1>4. ASSUME NEW r \in Run PROVE Shape(r)' /\ Past(r)' /\ Ends(r)' /\ Recovery(r)' /\ Completion(r)'
  <2>0. Shape(r) /\ Past(r) /\ Ends(r) /\ Recovery(r) /\ Completion(r)
    BY DEF IInv
  <2>1. Shape(r)'
    BY <1>1, <2>0 DEF Shape
  <2>2. Past(r)'
    BY <1>1, <2>0 DEF Past, Launched, Terminals
  <2>3. Ends(r)'
    BY <1>1, <2>0 DEF Ends, Terminals
  <2>4. Recovery(r)'
    BY <1>1, <2>0 DEF Recovery, Interrupted, Has, CheckpointEvents, Status, Terminals
  <2>5. Completion(r)'
    BY <1>1, <2>0 DEF Completion, Completes, Durable, Member, Bytes, Has
  <2> QED
    BY <2>1, <2>2, <2>3, <2>4, <2>5
<1> QED
  BY <1>2, <1>3, <1>4 DEF IInv

LEMMA StepKeeps ==
    ASSUME IInv, [Next]_vars
    PROVE  IInv'
<1>1. CASE UNCHANGED vars
  BY <1>1, Stuttering
<1>2. ASSUME NEW r \in Run, Launch(r) \/ Recover(r) \/ Attempt(r) \/ Crash(r)
      PROVE  IInv'
  <2>1. CASE Launch(r) \/ Recover(r) \/ Crash(r)
    BY <2>1, LaunchKeeps, RecoverKeeps, CrashKeeps
  <2>2. CASE Preflight(r) \/ Execute(r)
    BY <2>2, PreflightKeeps, ExecuteKeeps
  <2>3. CASE AppendEvent(r) \/ AppendFails(r)
    BY <2>3, AppendEventKeeps, AppendFailsKeeps
  <2>4. CASE WriteCheckpoint(r) \/ WriteManifest(r) \/ WriteArtifact(r) \/ WriteAvailability(r)
    BY <2>4, WritesKeep
  <2>5. CASE FindMember(r) \/ StageMember(r) \/ LinkMember(r)
    BY <2>5, FindMemberKeeps, StageMemberKeeps, LinkMemberKeeps
  <2>6. CASE VerifyBundle(r) \/ CheckArtifact(r) \/ VerifyStore(r) \/ StepFails(r)
    BY <2>6, VerifyBundleKeeps, CheckArtifactKeeps, StepFailsKeeps
  <2> QED
    BY <1>2, <2>1, <2>2, <2>3, <2>4, <2>5, <2>6 DEF Attempt
<1> QED
  BY <1>1, <1>2 DEF Next

\* The steps an attempt has left, what it told and what it wrote fit together
\* in every reachable state.
THEOREM Inductive == Spec => []IInv
<1>1. Init => IInv
  BY Initially
<1>2. IInv /\ [Next]_vars => IInv'
  BY StepKeeps
<1> QED
  BY <1>1, <1>2, PTL DEF Spec


-----------------------------------------------------------------------------
(* What status() answers                                                   *)

\* Only an append changes a stream.
Telling(r, e) ==
    /\ todo[r] # <<>> /\ Head(todo[r]).do = "append" /\ e = HeadEvent(r) /\ Appends(r, e)
    /\ UNCHANGED <<requestVars, storeVars>>

LEMMA StreamStep ==
    ASSUME IInv, [Next]_vars
    PROVE  stream' = stream \/ \E r \in Run : \E e \in Event : Telling(r, e)
<1>1. CASE UNCHANGED vars
  BY <1>1 DEF vars
<1>2. ASSUME NEW r \in Run, AppendEvent(r) \/ AppendFails(r)
      PROVE  stream' = stream \/ \E e \in Event : Telling(r, e)
  <2>1. /\ todo[r] # <<>> /\ Head(todo[r]).do = "append"
        /\ UNCHANGED <<requestVars, storeVars>>
        /\ stream' = stream \/ Appends(r, HeadEvent(r))
    BY <1>2 DEF AppendEvent, AppendFails, At, Appends, HeadEvent
  <2>2. TypeOK /\ Shape(r)
    BY DEF IInv
  <2>3. Head(todo[r]) \in StepType /\ Len(todo[r]) \in Nat
    BY <2>1, <2>2, Working
  <2>4. Head(todo[r]).what \in EventType
    BY <2>1, <2>2, <2>3, EventAt DEF ToTell
  <2>5. PICK e \in Event : e = HeadEvent(r)
    BY <2>3, <2>4 DEF HeadEvent, Event, StepType
  <2>6. Appends(r, HeadEvent(r)) => Appends(r, e)
    BY <2>5
  <2> QED
    BY <2>1, <2>5, <2>6 DEF Telling
<1>3. ASSUME NEW r \in Run, Launch(r) \/ Recover(r) \/ Attempt(r) \/ Crash(r),
             ~AppendEvent(r), ~AppendFails(r)
      PROVE  stream' = stream
  <2>1. CASE Launch(r) \/ Recover(r) \/ Crash(r) \/ Preflight(r) \/ Execute(r)
    BY <2>1 DEF Launch, Recover, Crash, Preflight, Execute
  <2>2. CASE WriteCheckpoint(r) \/ FindMember(r) \/ StageMember(r) \/ LinkMember(r)
             \/ VerifyBundle(r) \/ WriteManifest(r)
    BY <2>2 DEF WriteCheckpoint, FindMember, StageMember, LinkMember, VerifyBundle, WriteManifest
  <2>3. CASE CheckArtifact(r) \/ WriteArtifact(r) \/ WriteAvailability(r) \/ VerifyStore(r)
             \/ StepFails(r)
    BY <2>3 DEF CheckArtifact, WriteArtifact, WriteAvailability, VerifyStore, StepFails
  <2> QED
    BY <1>3, <2>1, <2>2, <2>3 DEF Attempt
<1> QED
  BY <1>1, <1>2, <1>3 DEF Next

\* A blocked run was not launched, and a completed one was.
EndsTell(r) ==
    /\ Has(r, "run_preflight_blocked") => Launched(r) = {}
    /\ Has(r, "run_completed") => Launched(r) # {}

EndsTold == \A r \in Run : EndsTell(r)

LEMMA EndsToldStep ==
    ASSUME IInv, EndsTold, [Next]_vars
    PROVE  EndsTold'
<1>1. CASE stream' = stream
  BY <1>1 DEF EndsTold, EndsTell, Has, Launched
<1>2. ASSUME NEW r \in Run, NEW e \in Event, Telling(r, e)
      PROVE  EndsTold'
  <2>1. TypeOK /\ Shape(r) /\ Past(r) /\ Ends(r)
    BY DEF IInv
  <2>2. /\ todo[r] # <<>> /\ Head(todo[r]).do = "append" /\ e = HeadEvent(r) /\ Appends(r, e)
        /\ e.type = Head(todo[r]).what
    BY <1>2 DEF Telling, HeadEvent
  <2>3. PICK n \in Nat : n = Len(todo[r])
    BY <2>1, <2>2, Working
  <2>4. PICK w : w = e.type
    OBVIOUS
  <2>5. ToTell(r, w, n) /\ mode[r] \in {"launching", "running", "failing"}
    BY <2>1, <2>2, <2>3, <2>4, EventAt, Working
  <2>6. /\ Launched(r)' = Launched(r) \cup
             (IF e.type = "run_launched" THEN {Len(stream[r]) + 1} ELSE {})
        /\ \A type : Has(r, type)' <=> (Has(r, type) \/ type = e.type)
    BY <2>1, <2>2, Tells DEF TypeOK
  <2>7. mode[r] = "launching" => Launched(r) = {} /\ ~Has(r, "run_preflight_blocked")
    <3>1. mode[r] = "launching" => Launched(r) = {} /\ Terminals(r) = {}
      BY <2>1, <2>2 DEF Past
    <3> QED
      BY <2>1, <2>2, <3>1, NotEnded DEF TerminalType
  <2>8. mode[r] \in {"running", "failing"} => Launched(r) # {}
    BY <2>1 DEF Past
  <2>9. /\ w = "run_preflight_blocked" => mode[r] = "launching"
        /\ w = "run_launched" => mode[r] = "launching"
        /\ w = "run_completed" => mode[r] = "running"
    BY <2>5 DEF ToTell, Told
  <2>10. EndsTell(r)'
    <3>1. Has(r, "run_preflight_blocked")' => Launched(r)' = {}
      BY <2>4, <2>6, <2>7, <2>9 DEF EndsTold, EndsTell
    <3>2. Has(r, "run_completed")' => Launched(r)' # {}
      BY <2>4, <2>6, <2>8, <2>9 DEF EndsTold, EndsTell
    <3> QED
      BY <3>1, <3>2 DEF EndsTell
  <2>11. ASSUME NEW q \in Run, q # r PROVE EndsTell(q)'
    <3>1. stream'[q] = stream[q]
      BY <2>1, <2>2, <2>11, Appended DEF TypeOK
    <3> QED
      BY <3>1 DEF EndsTold, EndsTell, Has, Launched
  <2> QED
    BY <2>10, <2>11 DEF EndsTold
<1> QED
  BY <1>1, <1>2, StreamStep

LEMMA AlwaysEndsTold == Spec => [](IInv /\ EndsTold)
<1>1. Init => EndsTold
  <2> SUFFICES ASSUME Init PROVE EndsTold
    OBVIOUS
  <2>1. \A r \in Run : stream[r] = <<>>
    BY DEF Init
  <2> QED
    BY <2>1, NoneTold DEF EndsTold, EndsTell
<1>2. IInv /\ EndsTold /\ [Next]_vars => EndsTold'
  BY EndsToldStep
<1> QED
  BY <1>1, <1>2, Inductive, PTL DEF Spec

\* A checkpoint event never runs ahead of its file.
THEOREM CheckpointsAreBacked == Spec => []CheckpointsBacked
<1>1. IInv => CheckpointsBacked
  BY DEF IInv
<1> QED
  BY <1>1, Inductive, PTL

\* What a run recorded as its recovery is an interrupted run with a recorded
\* checkpoint, however the source's attempt went on.
THEOREM RecoversWhatWasInterrupted == Spec => []RecoversInterrupted
<1>1. IInv => RecoversInterrupted
  <2> SUFFICES ASSUME IInv, NEW r \in Run, Has(r, "run_recovered")
               PROVE  /\ Has(prior[r], "run_interrupted")
                      /\ start[r] \in CheckpointEvents(prior[r])
                      /\ Status(prior[r]) = "run_interrupted" \/ prior[r] \in ambiguous
    BY DEF RecoversInterrupted
  <2>1. Interrupted(prior[r], start[r])
    BY DEF IInv, Recovery
  <2> QED
    BY <2>1 DEF Interrupted
<1> QED
  BY <1>1, Inductive, PTL

\* The evidence of a run that status() calls completed is whole.
LEMMA CompletedIsWhole ==
    ASSUME IInv, EndsTold, NEW r \in Run, Status(r) = "run_completed"
    PROVE  Recorded(r) /\ BundleWhole(r) /\ \A t \in temps : t[2] # r
<1>1. Has(r, "run_completed")
  <2>1. /\ Terminals(r) # {} /\ Len(stream[r]) \in Terminals(r)
        /\ stream[r][Len(stream[r])].type = "run_completed"
    BY DEF Status
  <2> QED
    BY <2>1 DEF Terminals, Has
<1>2. /\ Member(r, "adapter.bin") \in members
      /\ Member(r, "adapter_config.json") \in members
      /\ Member(r, "provenance.json") \in members
      /\ \A t \in temps : t[2] # r
      /\ r \in manifests /\ [id |-> target[r], run |-> r] \in artifacts
      /\ r \in available /\ Has(r, "artifact_ingestion_verified")
  <2>1. Durable(r, 0)
    BY <1>1 DEF IInv, Completion
  <2> QED
    BY <2>1 DEF Durable
<1>3. Directory /\ CheckpointsBacked
  BY DEF IInv
<1>4. BundleWhole(r)
  <2>1. \A name \in Name : Member(r, name) \in members
    BY <1>2 DEF Name
  <2>2. \A name : Member(r, name).artifact = target[r] /\ Member(r, name).name = name
    BY DEF Member
  <2>3. ASSUME NEW m \in members, m.artifact = target[r]
        PROVE  \E name \in Name : m = Member(r, name)
    <3>1. PICK q \in Run, name \in Name : m = Member(q, name)
      BY <1>3 DEF Directory
    <3>2. m.name = name
      BY <3>1 DEF Member
    <3>3. m = Member(r, name)
      BY <1>3, <2>1, <2>2, <2>3, <3>2 DEF Directory
    <3> QED
      BY <3>3
  <2> QED
    BY <2>1, <2>2, <2>3 DEF BundleWhole
<1>5. {x \in artifacts : x.id = target[r] \/ x.run = r} = {[id |-> target[r], run |-> r]}
  <2>1. ASSUME NEW x \in artifacts, x.id = target[r] \/ x.run = r
        PROVE  x = [id |-> target[r], run |-> r]
    <3>1. /\ x.run \in Run /\ x = [id |-> target[x.run], run |-> x.run]
          /\ Member(x.run, "provenance.json") \in members
      BY <1>3 DEF Directory
    <3>2. CASE x.run = r
      BY <3>1, <3>2
    <3>3. CASE x.id = target[r]
      <4>1. target[x.run] = target[r]
        BY <3>1, <3>3
      <4>2. /\ Member(x.run, "provenance.json").artifact = Member(r, "provenance.json").artifact
            /\ Member(x.run, "provenance.json").name = Member(r, "provenance.json").name
        BY <4>1 DEF Member
      <4>3. Member(x.run, "provenance.json") = Member(r, "provenance.json")
        BY <1>2, <1>3, <3>1, <4>2 DEF Directory
      <4>4. <<payload[x.run], x.run>> = <<payload[r], r>>
        BY <4>3 DEF Member, Bytes
      <4> QED
        BY <3>1, <4>4
    <3> QED
      BY <2>1, <3>2, <3>3
  <2> QED
    BY <1>2, <2>1
<1>6. Cardinality({i \in DOMAIN stream[r] : stream[r][i].type = "run_launched"}) = 1
  <2>1. Launched(r) # {}
    BY <1>1 DEF EndsTold, EndsTell
  <2>2. PICK i : Launched(r) = {i}
    BY <2>1 DEF IInv, Past
  <2>3. Cardinality(Launched(r)) = 1
    BY <2>2, FS_Singleton
  <2> QED
    BY <2>3 DEF Launched
<1>7. \A k \in CheckpointEvents(r) : <<r, k>> \in checkpoints
  BY <1>3 DEF CheckpointsBacked
<1> QED
  BY <1>2, <1>4, <1>5, <1>6, <1>7 DEF Recorded

\* A run that status() calls completed has whole evidence for ever; all that can
\* keep reopen_completed() from it is another run's temporary file.
THEOREM CompletedStaysWhole == Spec => []CompletedReopens
<1>1. IInv /\ EndsTold => CompletedReopens
  <2> SUFFICES ASSUME IInv, EndsTold, NEW r \in Run, Status(r) = "run_completed",
                      ~Reopens(r)
               PROVE  /\ Recorded(r) /\ BundleWhole(r)
                      /\ \E t \in temps : t[1] = target[r] /\ t[2] # r
    BY DEF CompletedReopens
  <2>1. Recorded(r) /\ BundleWhole(r) /\ \A t \in temps : t[2] # r
    BY CompletedIsWhole
  <2>2. ~BundleVerified(r)
    BY <2>1 DEF Reopens
  <2>3. PICK t \in temps : t[1] = target[r]
    BY <2>1, <2>2 DEF BundleVerified
  <2> QED
    BY <2>1, <2>3
<1> QED
  BY <1>1, AlwaysEndsTold, PTL


-----------------------------------------------------------------------------
(* The refinement of RunLifecycle                                          *)

\* status() by what the stream holds, before and after a step.
LEMMA Answers ==
    ASSUME NEW r \in Run
    PROVE  /\ stream[r] = <<>> => Status(r) = "not_found"
           /\ Terminals(r) = {} /\ stream[r] # <<>> =>
                Status(r) = IF Launched(r) # {} THEN "running" ELSE "incomplete"
           /\ Terminals(r) = {Len(stream[r])} /\ stream[r] # <<>> =>
                Status(r) = stream[r][Len(stream[r])].type
           /\ Cardinality(Terminals(r)) = 2 /\ stream[r] # <<>> => Status(r) = "conflict"
<1>1. Launched(r) # {} <=> Has(r, "run_launched")
  BY DEF Launched, Has
<1>2. stream[r] = <<>> => Status(r) = "not_found"
  BY DEF Status
<1>3. Terminals(r) = {} => Cardinality(Terminals(r)) = 0
  BY FS_EmptySet
<1>4. Terminals(r) = {Len(stream[r])} => Cardinality(Terminals(r)) = 1
  BY FS_Singleton
<1>5. Terminals(r) = {} /\ stream[r] # <<>> =>
        Status(r) = IF Launched(r) # {} THEN "running" ELSE "incomplete"
  BY <1>1, <1>3 DEF Status
<1>6. Terminals(r) = {Len(stream[r])} /\ stream[r] # <<>> =>
        Status(r) = stream[r][Len(stream[r])].type
  BY <1>4 DEF Status
<1>7. Cardinality(Terminals(r)) = 2 /\ stream[r] # <<>> => Status(r) = "conflict"
  BY DEF Status
<1> QED
  BY <1>2, <1>5, <1>6, <1>7

LEMMA AnswersNext ==
    ASSUME NEW r \in Run
    PROVE  /\ Terminals(r)' = {} /\ stream'[r] # <<>> =>
                Status(r)' = IF Launched(r)' # {} THEN "running" ELSE "incomplete"
           /\ Terminals(r)' = {Len(stream'[r])} /\ stream'[r] # <<>> =>
                Status(r)' = stream'[r][Len(stream'[r])].type
           /\ Cardinality(Terminals(r)') = 2 /\ stream'[r] # <<>> => Status(r)' = "conflict"
<1>1. Launched(r)' # {} <=> Has(r, "run_launched")'
  BY DEF Launched, Has
<1>3. Terminals(r)' = {} => Cardinality(Terminals(r)') = 0
  BY FS_EmptySet
<1>4. Terminals(r)' = {Len(stream'[r])} => Cardinality(Terminals(r)') = 1
  BY FS_Singleton
<1>5. Terminals(r)' = {} /\ stream'[r] # <<>> =>
        Status(r)' = IF Launched(r)' # {} THEN "running" ELSE "incomplete"
  BY <1>1, <1>3 DEF Status
<1>6. Terminals(r)' = {Len(stream'[r])} /\ stream'[r] # <<>> =>
        Status(r)' = stream'[r][Len(stream'[r])].type
  BY <1>4 DEF Status
<1>7. Cardinality(Terminals(r)') = 2 /\ stream'[r] # <<>> => Status(r)' = "conflict"
  BY DEF Status
<1> QED
  BY <1>5, <1>6, <1>7

\* The abstract state.
Answered == [r \in Run |-> Status(r)]
Admitted == {<<x.id, x.run>> : x \in artifacts}

\* A run that is launched already keeps what it recovers from.
LEMMA LineageKept ==
    ASSUME IInv, [Next]_vars, stream' = stream
    PROVE  Lineage' = Lineage
<1>1. \A r \in Run : Has(r, "run_launched")' <=> Has(r, "run_launched")
  BY DEF Has
<1>2. CASE prior' = prior
  BY <1>1, <1>2 DEF Lineage
<1>3. ASSUME NEW r \in Run, Recover(r) PROVE Lineage' = Lineage
  <2>1. stream[r] = <<>>
    BY <1>3 DEF Recover, IInv, Past
  <2>2. ~Has(r, "run_launched")
    BY <2>1, NoneTold
  <2>3. \A q \in Run : q # r => prior'[q] = prior[q]
    BY <1>3 DEF Recover, IInv, TypeOK
  <2> QED
    BY <1>1, <2>2, <2>3 DEF Lineage
<1>4. prior' = prior \/ \E r \in Run : Recover(r)
  <2>1. CASE UNCHANGED vars
    BY <2>1 DEF vars, requestVars
  <2>2. ASSUME NEW r \in Run, Launch(r) \/ Crash(r) \/ Attempt(r) PROVE prior' = prior
    <3>1. CASE Launch(r) \/ Crash(r) \/ Preflight(r) \/ Execute(r)
      BY <3>1 DEF Launch, Crash, Preflight, Execute, requestVars
    <3>2. CASE AppendEvent(r) \/ AppendFails(r) \/ WriteCheckpoint(r) \/ FindMember(r)
               \/ StageMember(r) \/ LinkMember(r)
      BY <3>2 DEF AppendEvent, AppendFails, WriteCheckpoint, FindMember, StageMember, LinkMember,
                  requestVars
    <3>3. CASE VerifyBundle(r) \/ WriteManifest(r) \/ CheckArtifact(r) \/ WriteArtifact(r)
               \/ WriteAvailability(r) \/ VerifyStore(r) \/ StepFails(r)
      BY <3>3 DEF VerifyBundle, WriteManifest, CheckArtifact, WriteArtifact, WriteAvailability,
                  VerifyStore, StepFails, requestVars
    <3> QED
      BY <2>2, <3>1, <3>2, <3>3 DEF Attempt
  <2> QED
    BY <2>1, <2>2 DEF Next
<1> QED
  BY <1>2, <1>3, <1>4

\* An Artifact record is written once for an id and a run, by a run that is
\* running.
LEMMA ArtifactAdmits ==
    ASSUME IInv, [Next]_vars, stream' = stream
    PROVE  [Lifecycle!Next]_(Lifecycle!vars)
<1>1. Answered' = Answered /\ Lineage' = Lineage
  <2>1. \A r \in Run : Status(r)' = Status(r)
    BY DEF Status, Terminals, Has
  <2> QED
    BY <2>1, LineageKept DEF Answered
<1>2. CASE artifacts' = artifacts
  <2>1. Admitted' = Admitted
    BY <1>2 DEF Admitted
  <2> QED
    BY <1>1, <2>1 DEF Lifecycle!vars, Answered, Admitted
<1>3. ASSUME NEW r \in Run, WriteArtifact(r)
      PROVE  \E a \in ArtifactId : Lifecycle!Admit(r, a)
  <2>1. TypeOK /\ Shape(r) /\ Past(r) /\ Ends(r) /\ Completion(r) /\ Directory
    BY DEF IInv
  <2>2. todo[r] # <<>> /\ Head(todo[r]).do = "artifact"
    BY <1>3 DEF WriteArtifact, At
  <2>3. /\ Completes(r) /\ Len(todo[r]) \in 1 .. 12
        /\ Fits(Head(todo[r]), Closing[13 - Len(todo[r])])
    BY <2>1, <2>2, DeedAt
  <2>4. Len(todo[r]) = 5
    BY <2>2, <2>3, ClosingDeed
  <2>5. Durable(r, 5) /\ mode[r] = "running"
    BY <2>1, <2>3, <2>4 DEF Completion, Completes
  <2>6. Member(r, "provenance.json") \in members
    BY <2>5 DEF Durable
  <2>7. Unadmitted(r)
    BY <2>4, <2>5 DEF Unadmitted
  <2>8. Status(r) = "running"
    <3>1. Terminals(r) = {} /\ Launched(r) # {}
      BY <2>1, <2>2, <2>5, NotEnded
    <3>2. stream[r] # <<>>
      BY <3>1, NoneTold
    <3> QED
      BY <3>1, <3>2, Answers
  <2>9. ASSUME NEW x \in artifacts PROVE x.id # target[r] /\ x.run # r
    <3>1. /\ x.run \in Run /\ x = [id |-> target[x.run], run |-> x.run]
          /\ Member(x.run, "provenance.json") \in members /\ ~Unadmitted(x.run)
      BY <2>1 DEF Directory
    <3>2. x.run # r
      BY <2>7, <3>1
    <3>3. ASSUME x.id = target[r] PROVE FALSE
      <4>1. target[x.run] = target[r]
        BY <3>1, <3>3
      <4>2. /\ Member(x.run, "provenance.json").artifact = Member(r, "provenance.json").artifact
            /\ Member(x.run, "provenance.json").name = Member(r, "provenance.json").name
        BY <4>1 DEF Member
      <4>3. Member(x.run, "provenance.json") = Member(r, "provenance.json")
        BY <2>1, <2>6, <3>1, <4>2 DEF Directory
      <4>4. <<payload[x.run], x.run>> = <<payload[r], r>>
        BY <4>3 DEF Member, Bytes
      <4> QED
        BY <3>2, <4>4
    <3> QED
      BY <3>2, <3>3
  <2>10. \A y \in Admitted : y[1] # target[r] /\ y[2] # r
    BY <2>9 DEF Admitted
  <2>11. Admitted' = Admitted \cup {<<target[r], r>>}
    <3> DEFINE z == [id |-> target[r], run |-> r]
    <3>1. artifacts' = artifacts \cup {z} /\ z.id = target[r] /\ z.run = r
      BY <1>3 DEF WriteArtifact
    <3> HIDE DEF z
    <3>2. Admitted' = Admitted \cup {<<z.id, z.run>>}
      <4>1. \A y : y \in Admitted' <=> \E x \in artifacts' : y = <<x.id, x.run>>
        BY DEF Admitted
      <4>2. \A y : y \in Admitted <=> \E x \in artifacts : y = <<x.id, x.run>>
        BY DEF Admitted
      <4> QED
        BY <3>1, <4>1, <4>2
    <3> QED
      BY <3>1, <3>2
  <2>12. target[r] \in ArtifactId
    BY <2>1 DEF TypeOK
  <2> QED
    BY <1>1, <2>8, <2>10, <2>11, <2>12 DEF Lifecycle!Admit, Answered, Admitted
<1>4. artifacts' = artifacts \/ \E r \in Run : WriteArtifact(r)
  <2>1. CASE UNCHANGED vars
    BY <2>1 DEF vars, storeVars
  <2>2. ASSUME NEW r \in Run, Launch(r) \/ Recover(r) \/ Crash(r) \/ Attempt(r)
        PROVE  artifacts' = artifacts \/ WriteArtifact(r)
    <3>1. CASE Launch(r) \/ Recover(r) \/ Crash(r) \/ Preflight(r) \/ Execute(r)
      BY <3>1 DEF Launch, Recover, Crash, Preflight, Execute, storeVars
    <3>2. CASE AppendEvent(r) \/ AppendFails(r) \/ WriteCheckpoint(r) \/ FindMember(r)
               \/ StageMember(r) \/ LinkMember(r)
      BY <3>2 DEF AppendEvent, AppendFails, WriteCheckpoint, FindMember, StageMember, LinkMember,
                  storeVars
    <3>3. CASE VerifyBundle(r) \/ WriteManifest(r) \/ CheckArtifact(r)
               \/ WriteAvailability(r) \/ VerifyStore(r) \/ StepFails(r)
      BY <3>3 DEF VerifyBundle, WriteManifest, CheckArtifact, WriteAvailability,
                  VerifyStore, StepFails, storeVars
    <3> QED
      BY <2>2, <3>1, <3>2, <3>3 DEF Attempt
  <2> QED
    BY <2>1, <2>2 DEF Next
<1> QED
  BY <1>2, <1>3, <1>4 DEF Lifecycle!Next


\* An event moves the run's status as RunLifecycle allows, or not at all.
LEMMA EventTells ==
    ASSUME IInv, IInv', EndsTold, NEW r \in Run, NEW e \in Event, Telling(r, e)
    PROVE  [Lifecycle!Next]_(Lifecycle!vars)
<1>1. TypeOK /\ Shape(r) /\ Past(r) /\ Ends(r) /\ Completion(r) /\ Recovery(r)
  BY DEF IInv
<1>2. /\ todo[r] # <<>> /\ Head(todo[r]).do = "append" /\ e = HeadEvent(r) /\ Appends(r, e)
      /\ e.type = Head(todo[r]).what /\ prior' = prior /\ artifacts' = artifacts
  BY DEF Telling, HeadEvent, requestVars, storeVars
<1>3. PICK n \in Nat : n = Len(todo[r])
  BY <1>1, <1>2, Working
<1>4. PICK w : w = e.type
  OBVIOUS
<1>5. /\ ToTell(r, w, n) /\ mode[r] \in {"launching", "running", "failing"}
      /\ todo[r] \in Seq(StepType) /\ Head(todo[r]) = todo[r][1] /\ 1 \in DOMAIN todo[r]
  BY <1>1, <1>2, <1>3, <1>4, EventAt, Working
<1>a. stream[r] \in Seq(Event)
  BY <1>1 DEF TypeOK
<1>6. PICK m \in Nat : m = Len(stream[r])
  BY <1>a
<1>7. /\ Len(stream'[r]) = m + 1 /\ stream'[r] # <<>> /\ stream'[r][m + 1] = e
      /\ \A q \in Run : q # r => stream'[q] = stream[q]
      /\ Terminals(r)' = Terminals(r) \cup (IF w \in TerminalType THEN {m + 1} ELSE {})
      /\ Launched(r)' = Launched(r) \cup (IF w = "run_launched" THEN {m + 1} ELSE {})
      /\ Has(r, "run_launched")' <=> (Has(r, "run_launched") \/ w = "run_launched")
  BY <1>1, <1>2, <1>4, <1>6, Appended, Tells DEF TypeOK
<1>8. Admitted' = Admitted
  BY <1>2 DEF Admitted
<1>9. \A q \in Run : q # r =>
        /\ Status(q)' = Status(q)
        /\ Has(q, "run_launched")' <=> Has(q, "run_launched")
  BY <1>7 DEF Status, Terminals, Has
<1>10. Answered' = [Answered EXCEPT ![r] = Status(r)']
  BY <1>9 DEF Answered
<1>11. w # "run_launched" => Lineage' = Lineage
  BY <1>2, <1>7, <1>9 DEF Lineage
<1>12. w = "run_launched" => Lineage' = [Lineage EXCEPT ![r] = prior[r]]
  BY <1>2, <1>7, <1>9 DEF Lineage
<1>13. ASSUME Status(r)' = Status(r), w # "run_launched" PROVE UNCHANGED Lifecycle!vars
  <2>1. Answered' = Answered
    BY <1>10, <1>13 DEF Answered
  <2> QED
    BY <1>8, <1>11, <1>13, <2>1 DEF Lifecycle!vars, Answered, Admitted
<1>14. ASSUME NEW s, Status(r)' = s, w # "run_launched"
       PROVE  Lifecycle!Becomes(r, s) /\ UNCHANGED <<Lineage, Admitted>>
  BY <1>8, <1>10, <1>11, <1>14 DEF Lifecycle!Becomes, Answered
<1>15. Terminals(r)' = {} => Status(r)' = IF Launched(r)' # {} THEN "running" ELSE "incomplete"
  BY <1>7, AnswersNext
<1>16. Terminals(r)' = {m + 1} => Status(r)' = w
  BY <1>4, <1>7, AnswersNext
<1>17. CASE mode[r] = "launching"
  <2>1. Launched(r) = {} /\ Terminals(r) = {}
    BY <1>1, <1>2, <1>17 DEF Past
  <2>2. CASE w = "run_preflight_blocked" /\ n = 1
    <3>1. ~LaunchSteps(todo[r])
      BY <1>2, <1>3, <1>4, <1>5, <2>2 DEF LaunchSteps
    <3>2. stream[r] = <<>>
      BY <1>1, <1>2, <1>17, <3>1 DEF Past
    <3>3. Status(r) = "not_found"
      BY <3>2, Answers
    <3>4. Status(r)' = "run_preflight_blocked"
      BY <1>7, <1>16, <2>1, <2>2 DEF TerminalType
    <3>5. Lifecycle!Block(r)
      BY <1>14, <2>2, <3>3, <3>4 DEF Lifecycle!Block, Answered, Admitted
    <3> QED
      BY <3>5 DEF Lifecycle!Next
  <2>3. CASE w \in {"run_preflight_succeeded", "runtime_request_frozen", "run_recovered"}
    <3>1. Status(r)' = "incomplete"
      BY <1>7, <1>15, <2>1, <2>3 DEF TerminalType
    <3>2. CASE stream[r] = <<>>
      <4>1. Status(r) = "not_found"
        BY <3>2, Answers
      <4>2. Lifecycle!Prepare(r)
        BY <1>14, <2>3, <3>1, <4>1 DEF Lifecycle!Prepare, Answered, Admitted
      <4> QED
        BY <4>2 DEF Lifecycle!Next
    <3>3. CASE stream[r] # <<>>
      <4>1. Status(r) = "incomplete"
        BY <2>1, <3>3, Answers
      <4> QED
        BY <1>13, <2>3, <3>1, <4>1
    <3> QED
      BY <3>2, <3>3
  <2>4. CASE LaunchSteps(todo[r]) /\ n = 1 /\ w = "run_launched"
    <3>1. stream[r] # <<>>
      BY <1>1, <1>2, <1>3, <1>17, <2>4 DEF Past
    <3>2. Status(r) = "incomplete"
      BY <2>1, <3>1, Answers
    <3>3. Status(r)' = "running"
      BY <1>7, <1>15, <2>1, <2>4 DEF TerminalType
    <3>4. Lifecycle!Becomes(r, "running")
      BY <1>10, <3>3 DEF Lifecycle!Becomes, Answered
    <3>5. prior[r] \in {NoRun} \cup {q \in Run : Answered[q] \in {"run_interrupted", "conflict"}}
      BY <1>1 DEF Recovery, Interrupted, Answered
    <3>6. Lifecycle!Launch(r)
      BY <1>8, <1>12, <2>4, <3>2, <3>4, <3>5 DEF Lifecycle!Launch, Answered, Admitted
    <3> QED
      BY <3>6 DEF Lifecycle!Next
  <2> QED
    BY <1>5, <1>17, <2>2, <2>3, <2>4 DEF ToTell
<1>18. CASE mode[r] \in {"running", "failing"}
  <2>1. Launched(r) # {} /\ w # "run_launched"
    BY <1>1, <1>5, <1>18 DEF Past, ToTell, Told
  <2>2. stream[r] # <<>>
    BY <2>1, NoneTold
  <2>3. Launched(r)' # {}
    BY <1>7, <2>1
  <2>4. CASE Terminals(r) = {}
    <3>1. Status(r) = "running"
      BY <2>1, <2>2, <2>4, Answers
    <3>2. CASE w \notin TerminalType
      <4>1. Status(r)' = "running"
        BY <1>7, <1>15, <2>3, <2>4, <3>2
      <4> QED
        BY <1>13, <2>1, <3>1, <4>1
    <3>3. CASE w \in TerminalType
      <4>1. Status(r)' = w
        BY <1>7, <1>16, <2>4, <3>3
      <4>2. w \in Lifecycle!Ended
        BY <1>5, <1>18, <3>3 DEF ToTell, Told, TerminalType, Lifecycle!Ended
      <4>3. w = "run_completed" => \E x \in Admitted : x[2] = r
        <5>1. HAVE w = "run_completed"
        <5>2. n = 1 /\ Completes(r)
          BY <1>5, <5>1 DEF ToTell, Told
        <5>3. Durable(r, 1)
          BY <1>1, <1>3, <5>2 DEF Completion
        <5>4. [id |-> target[r], run |-> r] \in artifacts
          BY <5>3 DEF Durable
        <5>5. PICK x \in artifacts : x.id = target[r] /\ x.run = r
          BY <5>4
        <5>6. <<x.id, x.run>> \in Admitted
          BY DEF Admitted
        <5> QED
          BY <5>5, <5>6
      <4>4. Lifecycle!Becomes(r, w) /\ UNCHANGED <<Lineage, Admitted>>
        BY <1>14, <2>1, <4>1
      <4>5. Lifecycle!End(r)
        BY <3>1, <4>2, <4>3, <4>4 DEF Lifecycle!End, Answered, Admitted
      <4> QED
        BY <4>5 DEF Lifecycle!Next
    <3> QED
      BY <3>2, <3>3
  <2>5. CASE Terminals(r) # {}
    <3>1. Terminals(r) = {m} /\ mode[r] = "failing" /\ n = 1
      BY <1>1, <1>2, <1>3, <1>6, <1>18, <2>5, NotEnded
    <3>2. w = "run_failed"
      BY <1>5, <3>1 DEF ToTell
    <3>3. Status(r) = stream[r][m].type
      BY <1>6, <2>2, <3>1, Answers
    <3>4. m \in DOMAIN stream[r] /\ stream[r][m].type \in TerminalType
      BY <3>1 DEF Terminals
    <3>5. stream[r][m].type # "run_preflight_blocked"
      BY <2>1, <3>4 DEF EndsTold, EndsTell, Has
    <3>6. Status(r) \in Lifecycle!Ended
      BY <3>3, <3>4, <3>5 DEF TerminalType, Lifecycle!Ended
    <3>7. Terminals(r)' = {m} \cup {m + 1}
      BY <1>7, <3>1, <3>2 DEF TerminalType
    <3>8. Cardinality(Terminals(r)') = 2
      <4>1. Terminals(r)' # {} /\ Terminals(r)' # {Len(stream'[r])}
        BY <1>6, <1>7, <3>7
      <4>2. Ends(r)'
        BY DEF IInv
      <4> QED
        BY <4>1, <4>2 DEF Ends
    <3>9. Status(r)' = "conflict"
      BY <1>7, <3>8, AnswersNext
    <3>10. Lifecycle!Becomes(r, "conflict") /\ UNCHANGED <<Lineage, Admitted>>
      BY <1>14, <2>1, <3>9
    <3>11. Lifecycle!Conflict(r)
      BY <3>6, <3>10 DEF Lifecycle!Conflict, Answered, Admitted
    <3> QED
      BY <3>11 DEF Lifecycle!Next
  <2> QED
    BY <2>4, <2>5
<1> QED
  BY <1>5, <1>17, <1>18

\* status(), the recoveries on record and the Artifact records behave as
\* RunLifecycle says: a run is launched once, ends once and completes only behind
\* its admitted artifact, whatever fails and whoever else uses the store.
THEOREM ServiceImplementsLifecycle == Spec => ImplementsLifecycle
<1>1. Init => Lifecycle!Init
  <2> SUFFICES ASSUME Init PROVE Lifecycle!Init
    OBVIOUS
  <2>1. ASSUME NEW r \in Run PROVE Status(r) = "not_found" /\ ~Has(r, "run_launched")
    <3>1. stream[r] = <<>>
      BY DEF Init
    <3> QED
      BY <3>1, Answers, NoneTold
  <2>2. Lineage = [r \in Run |-> NoRun]
    BY <2>1 DEF Lineage
  <2>3. artifacts = {}
    BY DEF Init
  <2> QED
    BY <2>1, <2>2, <2>3 DEF Lifecycle!Init
<1>2. IInv /\ EndsTold /\ IInv' /\ [Next]_vars => [Lifecycle!Next]_(Lifecycle!vars)
  <2> SUFFICES ASSUME IInv, EndsTold, IInv', [Next]_vars
               PROVE  [Lifecycle!Next]_(Lifecycle!vars)
    OBVIOUS
  <2>1. CASE stream' = stream
    BY <2>1, ArtifactAdmits
  <2>2. ASSUME NEW r \in Run, NEW e \in Event, Telling(r, e)
        PROVE  [Lifecycle!Next]_(Lifecycle!vars)
    BY <2>2, EventTells
  <2> QED
    BY <2>1, <2>2, StreamStep
<1>3. Spec => [](IInv /\ EndsTold)
  BY AlwaysEndsTold
<1> QED
  BY <1>1, <1>2, <1>3, PTL DEF Spec, Lifecycle!Spec, ImplementsLifecycle
=============================================================================
