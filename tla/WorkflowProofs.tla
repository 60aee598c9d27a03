--------------------------- MODULE WorkflowProofs ---------------------------
(***************************************************************************)
(* Proofs about Workflow, for any tasks, paths, reviews, exceptions and    *)
(* candidates and any number of workers and events.                        *)
(*                                                                         *)
(* Writers are kept apart by what validate_state checks of every file that *)
(* is written; that two writers means the one approved exception needs the *)
(* list of workers to be finite.  That an integration is backed is         *)
(* established by the authorization and undone by no command of its phase. *)
(***************************************************************************)
EXTENDS Workflow, FiniteSetTheorems, SequenceTheorems, TLAPS

WorkerRecord ==
    [reference : {"root", "manual", "worker"}, task : Task, mode : {"root", "subagent"},
     status : ActiveStates \cup {"ENDED"}, guards : BOOLEAN, exception : BOOLEAN]

Handoff(t) == [subject : Subject[t], at : Nat]

Review(t) ==
    [status : {"REQUIRED", "REPAIR_IN_PROGRESS", "PASS"}, at : Nat, subject : Subject[t]]

Result(k) == IF k = "request" THEN [status : Status] ELSE [status : Status, at : Nat]

Fields == {"phase", "authorization", "tasks", "owned", "leases", "workers", "exceptions",
           "handoffs", "results", "reviews", "sequence"}

TypeOK ==
    /\ DOMAIN state = Fields
    /\ state.phase \in Phases
    /\ state.authorization \in DOMAIN AuthorizationPhases
    /\ state.tasks \subseteq Task /\ state.leases \subseteq Task
    /\ DOMAIN state.owned = Task
    /\ \A t \in Task : state.owned[t] \in {{}} \cup Owned[t]
    /\ state.workers \in Seq(WorkerRecord)
    /\ state.exceptions \subseteq Exception
    /\ DOMAIN state.handoffs = Task
    /\ \A t \in Task : state.handoffs[t] \in {None} \cup Handoff(t)
    /\ DOMAIN state.reviews = Task
    /\ \A t \in Task : state.reviews[t] \in {None} \cup Review(t)
    /\ DOMAIN state.results = Task
    /\ \A t \in Task : DOMAIN state.results[t] = Subject[t]
    /\ \A t \in Task : \A u \in Subject[t] :
         /\ DOMAIN state.results[t][u] = Kind
         /\ \A k \in Kind : state.results[t][u][k] \in {None} \cup Result(k)
    /\ state.sequence \in Nat

IInv == TypeOK /\ Valid(state) /\ IntegrationBacked

-----------------------------------------------------------------------------
(* Lemmas                                                                  *)

\* Worker lists the commands write.
LEMMA WorkersType ==
    ASSUME TypeOK, NEW t \in Task
    PROVE  /\ WithRoot(t) \in Seq(WorkerRecord)
           /\ WithIntent(t) \in Seq(WorkerRecord)
<1>1. Worker("root", t, "root", "ACTIVE") \in WorkerRecord
  BY DEF Worker, WorkerRecord, ActiveStates
<1>2. Worker("manual", t, "subagent", "SPAWN_REQUESTED") \in WorkerRecord
  BY DEF Worker, WorkerRecord, ActiveStates
<1>3. state.workers \in Seq(WorkerRecord)
  BY DEF TypeOK
<1>4. WithIntent(t) \in Seq(WorkerRecord)
  BY <1>2, <1>3 DEF WithIntent
<1>5. WithRoot(t) \in Seq(WorkerRecord)
  <2> DEFINE root == Worker("root", t, "root", "ACTIVE")
             placed == [i \in DOMAIN state.workers |->
                           IF i \in Named(state, "root", t) THEN root ELSE state.workers[i]]
  <2> HIDE DEF root
  <2>1. Append(state.workers, root) \in Seq(WorkerRecord)
    BY <1>1, <1>3 DEF root
  <2>2. placed \in Seq(WorkerRecord)
    <3>1. DOMAIN state.workers = 1 .. Len(state.workers) /\ Len(state.workers) \in Nat
          /\ \A i \in DOMAIN state.workers : state.workers[i] \in WorkerRecord
      BY <1>3
    <3>2. root \in WorkerRecord
      BY <1>1 DEF root
    <3>3. placed \in [1 .. Len(state.workers) -> WorkerRecord]
      BY <3>1, <3>2
    <3> QED
      BY <3>1, <3>3
  <2>3. WithRoot(t) = IF Named(state, "root", t) = {} THEN Append(state.workers, root) ELSE placed
    BY DEF WithRoot, root
  <2> QED
    BY <2>1, <2>2, <2>3
<1> QED
  BY <1>4, <1>5

\* A worker record with another reference or status.
LEMMA WorkerChanges ==
    ASSUME TypeOK, NEW i \in DOMAIN state.workers,
           NEW r \in {"root", "manual", "worker"}, NEW c \in ActiveStates \cup {"ENDED"}
    PROVE  /\ [state.workers EXCEPT ![i].status = c] \in Seq(WorkerRecord)
           /\ [state.workers EXCEPT ![i].reference = r, ![i].status = c] \in Seq(WorkerRecord)
<1>1. state.workers \in Seq(WorkerRecord)
  BY DEF TypeOK
<1>2. state.workers[i] \in WorkerRecord
  BY <1>1
<1>3. [state.workers[i] EXCEPT !.status = c] \in WorkerRecord
  BY <1>2 DEF WorkerRecord
<1>4. [state.workers[i] EXCEPT !.reference = r, !.status = c] \in WorkerRecord
  BY <1>2 DEF WorkerRecord
<1>5. [state.workers EXCEPT ![i] = [state.workers[i] EXCEPT !.status = c]] \in Seq(WorkerRecord)
  BY <1>1, <1>3
<1>6. [state.workers EXCEPT ![i] = [state.workers[i] EXCEPT !.reference = r, !.status = c]]
        \in Seq(WorkerRecord)
  BY <1>1, <1>4
<1>7. [state.workers EXCEPT ![i].reference = r, ![i].status = c]
        = [state.workers EXCEPT ![i] = [state.workers[i] EXCEPT !.reference = r, !.status = c]]
  BY <1>1
<1> QED
  BY <1>5, <1>6, <1>7

\* A candidate is one of its task's, and so is the review put to it again.
LEMMA Candidates ==
    ASSUME TypeOK, NEW t \in Task, Candidate(t)
    PROVE  /\ state.handoffs[t].subject \in Subject[t]
           /\ state.reviews[t] # None => Renewed(t) \in Review(t)
<1>1. state.handoffs[t].subject \in Subject[t]
  BY DEF Candidate, Reusable, TypeOK, Handoff
<1>2. ASSUME state.reviews[t] # None PROVE Renewed(t) \in Review(t)
  <2> DEFINE u == state.handoffs[t].subject
             review == state.reviews[t]
  <2>1. review \in Review(t) /\ u \in Subject[t]
    BY <1>1, <1>2 DEF TypeOK
  <2>2. Renewed(t) = IF review.status = "REPAIR_IN_PROGRESS" /\ review.subject # u
                     THEN [review EXCEPT !.subject = u, !.status = "REQUIRED"] ELSE review
    BY DEF Renewed
  <2> HIDE DEF u, review
  <2> QED
    BY <2>1, <2>2 DEF Review
<1> QED
  BY <1>1, <1>2

\* Every command ends in a state that was checked.
LEMMA Written ==
    ASSUME Next
    PROVE  \E s : Write(s)
<1>1. ASSUME NEW target \in Phases, Transition(target) PROVE \E s : Write(s)
  BY <1>1, Zenon DEF Transition
<1>2. CASE Authorize
  BY <1>2, Zenon DEF Authorize
<1>3. ASSUME NEW t \in Task,
             \/ \E paths \in Owned[t] : RegisterTask(t, paths)
             \/ AcquireOwnership(t) \/ ReleaseOwnership(t)
             \/ AdvanceToPlan(t) \/ StartRoot(t) \/ DispatchFirst(t) \/ DispatchNext(t)
             \/ RegisterWorker(t) \/ OpenReview(t) \/ PassReview(t) \/ RequireRepair(t)
             \/ AskReviewer(t) \/ RepairFailure(t) \/ AuthorizeIntegration(t)
      PROVE  \E s : Write(s)
  BY <1>3, Zenon DEF RegisterTask, AcquireOwnership, ReleaseOwnership, AdvanceToPlan, StartRoot,
         DispatchFirst, DispatchNext, RegisterWorker, OpenReview, PassReview, RequireRepair,
         AskReviewer, RepairFailure, AuthorizeIntegration
<1>4. ASSUME NEW t \in Task, NEW mode, RecordException(t, mode) PROVE \E s : Write(s)
  BY <1>4, Zenon DEF RecordException
<1>5. ASSUME NEW t \in Task, NEW subject, NEW kind, NEW status,
             RecordVerification(t, subject, kind, status)
      PROVE  \E s : Write(s)
  <2>1. CASE kind = "request"
    BY <1>5, <2>1, Zenon DEF RecordVerification
  <2>2. CASE kind # "request"
    BY <1>5, <2>2, Zenon DEF RecordVerification
  <2> QED
    BY <2>1, <2>2
<1>6. ASSUME NEW i, NEW status, ReconcileWorker(i, status) PROVE \E s : Write(s)
  BY <1>6, Zenon DEF ReconcileWorker
<1>7. ASSUME NEW i, NEW subject, IngestHandoff(i, subject) PROVE \E s : Write(s)
  BY <1>7, Zenon DEF IngestHandoff
<1> QED
  BY <1>1, <1>2, <1>3, <1>4, <1>5, <1>6, <1>7 DEF Next

\* The active workers are finitely many.
LEMMA ActiveFinite ==
    ASSUME TypeOK
    PROVE  /\ Active(state) \subseteq 1 .. Len(state.workers) /\ Len(state.workers) \in Nat
           /\ \A S \in SUBSET Active(state) : IsFiniteSet(S) /\ Cardinality(S) \in Nat
<1>1. state.workers \in Seq(WorkerRecord)
  BY DEF TypeOK
<1>2. DOMAIN state.workers = 1 .. Len(state.workers) /\ Len(state.workers) \in Nat
  BY <1>1
<1>3. IsFiniteSet(1 .. Len(state.workers))
  BY <1>2, FS_Interval
<1>4. Active(state) \subseteq 1 .. Len(state.workers)
  BY <1>2 DEF Active
<1> QED
  BY <1>2, <1>3, <1>4, FS_Subset, FS_CardinalityType

\* Two are two.
LEMMA PairCount ==
    ASSUME NEW i, NEW j, i # j
    PROVE  Cardinality({i, j}) = 2
<1>1. IsFiniteSet({i}) /\ Cardinality({i}) = 1
  BY FS_Singleton
<1>2. {i, j} = {i} \cup {j} /\ j \notin {i}
  OBVIOUS
<1> QED
  BY <1>1, <1>2, FS_AddElement

\* validate_state keeps the writers apart.
LEMMA ValidWriters ==
    ASSUME TypeOK, Valid(state)
    PROVE  WritersApart
<1> SUFFICES ASSUME NEW i \in Active(state), NEW j \in Active(state), i # j
             PROVE  LET pair == {state.workers[i], state.workers[j]} IN
                    /\ state.owned[state.workers[i].task]
                         \cap state.owned[state.workers[j].task] = {}
                    /\ \E w \in pair : w.guards /\ <<w.task, w.mode>> \in state.exceptions
  BY DEF WritersApart
<1>1. /\ state.workers[i].task \in state.leases /\ state.workers[j].task \in state.leases
      /\ state.workers[i].task \in Task
  BY DEF Valid, WorkersBound, TypeOK
<1>2. i \in Nat /\ j \in Nat
  BY ActiveFinite
<1>3. state.workers[i].task # state.workers[j].task
  <2> SUFFICES ASSUME state.workers[i].task = state.workers[j].task PROVE FALSE
    OBVIOUS
  <2> DEFINE t == state.workers[i].task
  <2>1. {i, j} \subseteq ActiveOf(state, t) /\ ActiveOf(state, t) \subseteq Active(state)
    BY DEF ActiveOf
  <2>2. Cardinality({i, j}) <= Cardinality(ActiveOf(state, t))
        /\ Cardinality(ActiveOf(state, t)) \in Nat
    BY <2>1, ActiveFinite, FS_Subset
  <2>3. Cardinality({i, j}) = 2
    BY PairCount
  <2>4. Cardinality(ActiveOf(state, t)) <= 1
    BY <1>1 DEF Valid, OneWorkerPerTask
  <2> QED
    BY <2>2, <2>3, <2>4
<1>4. state.owned[state.workers[i].task] \cap state.owned[state.workers[j].task] = {}
  BY <1>1, <1>3 DEF Valid, LeasesApart, PathsOverlap
<1>5. Active(state) = {i, j}
  <2>1. Cardinality({i, j}) = 2
    BY PairCount
  <2>2. Cardinality({i, j}) <= Cardinality(Active(state)) /\ Cardinality(Active(state)) \in Nat
        /\ (Cardinality(Active(state)) = Cardinality({i, j}) => Active(state) = {i, j})
    BY ActiveFinite, FS_Subset
  <2>3. Cardinality(Active(state)) <= 2
    BY DEF Valid, WritersBounded
  <2> QED
    BY <2>1, <2>2, <2>3
<1>6. Cardinality(Active(state)) = 2
  BY <1>5, PairCount
<1>7. LET w == SecondWriter(state) IN w.guards /\ <<w.task, w.mode>> \in state.exceptions
  BY <1>6 DEF Valid, WritersBounded, Approved
<1>8. SecondWriter(state) \in {state.workers[i], state.workers[j]}
  <2> DEFINE k == CHOOSE k \in Active(state) : \A l \in Active(state) : l <= k
  <2>1. \E m \in Active(state) : \A l \in Active(state) : l <= m
    BY <1>2, <1>5
  <2>2. k \in {i, j}
    BY <1>5, <2>1
  <2> QED
    BY <2>2 DEF SecondWriter
<1> QED
  BY <1>4, <1>7, <1>8

-----------------------------------------------------------------------------
(* Type correctness                                                        *)

\* The tables of the coordinator keep their shape: what a command writes of a
\* task is a handoff, a review or a result of that task's candidates.
THEOREM TypeCorrect == Spec => []TypeOK
<1>1. Init => TypeOK
  BY DEF Init, TypeOK, Fields, Phases, AuthorizationPhases, Kind
<1>2. TypeOK /\ [Next]_state => TypeOK'
  <2> SUFFICES ASSUME TypeOK, Next PROVE TypeOK'
    BY DEF TypeOK
  <2>1. ASSUME NEW target \in Phases, Transition(target) PROVE TypeOK'
    BY <2>1 DEF Transition, Write, TypeOK, Fields
  <2>2. CASE Authorize
    BY <2>2 DEF Authorize, Write, TypeOK, Fields, AuthorizationPhases
  <2>3. ASSUME NEW t \in Task, NEW paths \in Owned[t], RegisterTask(t, paths) PROVE TypeOK'
    BY <2>3 DEF RegisterTask, Write, TypeOK, Fields
  <2>4. ASSUME NEW t \in Task, AcquireOwnership(t) PROVE TypeOK'
    BY <2>4 DEF AcquireOwnership, Write, TypeOK, Fields, AuthorizationPhases
  <2>5. ASSUME NEW t \in Task, ReleaseOwnership(t) PROVE TypeOK'
    BY <2>5 DEF ReleaseOwnership, Write, TypeOK, Fields
  <2>6. ASSUME NEW t \in Task, AdvanceToPlan(t) PROVE TypeOK'
    BY <2>6 DEF AdvanceToPlan, Write, TypeOK, Fields, Phases
  <2>7. ASSUME NEW t \in Task, StartRoot(t) PROVE TypeOK'
    <3> DEFINE w == WithRoot(t)
    <3>1. w \in Seq(WorkerRecord)
      BY WorkersType
    <3>2. state' = [state EXCEPT !.workers = w, !.phase = "DISPATCH",
                                 !.authorization = "IMPLEMENTING"]
      BY <2>7 DEF StartRoot, Write
    <3> HIDE DEF w
    <3> QED
      BY <3>1, <3>2 DEF TypeOK, Fields, Phases, AuthorizationPhases
  <2>8. ASSUME NEW t \in Task, DispatchFirst(t) \/ DispatchNext(t) PROVE TypeOK'
    <3> DEFINE w == WithIntent(t)
    <3>1. w \in Seq(WorkerRecord)
      BY WorkersType
    <3>2. \/ state' = [state EXCEPT !.workers = w, !.phase = "DISPATCH",
                                    !.authorization = "IMPLEMENTING"]
          \/ state' = [state EXCEPT !.workers = w]
      BY <2>8 DEF DispatchFirst, DispatchNext, Write
    <3> HIDE DEF w
    <3>3. CASE state' = [state EXCEPT !.workers = w, !.phase = "DISPATCH",
                                      !.authorization = "IMPLEMENTING"]
      BY <3>1, <3>3 DEF TypeOK, Fields, Phases, AuthorizationPhases
    <3>4. CASE state' = [state EXCEPT !.workers = w]
      BY <3>1, <3>4 DEF TypeOK, Fields
    <3> QED
      BY <3>2, <3>3, <3>4
  <2>9. ASSUME NEW t \in Task, RegisterWorker(t) PROVE TypeOK'
    <3>1. PICK i \in Named(state, "manual", t) :
             state' = [state EXCEPT !.workers = Renamed(i, "worker", "ACTIVE")]
      BY <2>9 DEF RegisterWorker, Write
    <3>2. i \in DOMAIN state.workers
      BY DEF Named
    <3> DEFINE w == Renamed(i, "worker", "ACTIVE")
    <3>3. w \in Seq(WorkerRecord)
      BY <3>2, WorkerChanges DEF Renamed, ActiveStates
    <3> HIDE DEF w
    <3> QED
      BY <3>1, <3>3 DEF TypeOK, Fields, w
  <2>10. ASSUME NEW t \in Task, NEW mode \in {"root", "subagent"}, RecordException(t, mode)
         PROVE  TypeOK'
    BY <2>10 DEF RecordException, Write, TypeOK, Fields
  <2>11. ASSUME NEW i \in DOMAIN state.workers, NEW status \in ActiveStates \cup {"ENDED"},
                ReconcileWorker(i, status)
         PROVE  TypeOK'
    <3> DEFINE w == [state.workers EXCEPT ![i].status = status]
    <3>1. w \in Seq(WorkerRecord)
      BY WorkerChanges
    <3>2. state' = [state EXCEPT !.workers = w]
      BY <2>11 DEF ReconcileWorker, Write
    <3> HIDE DEF w
    <3> QED
      BY <3>1, <3>2 DEF TypeOK, Fields
  <2>12. ASSUME NEW i \in DOMAIN state.workers, NEW subject \in Subject[state.workers[i].task],
                IngestHandoff(i, subject)
         PROVE  TypeOK'
    <3> DEFINE w == [state.workers EXCEPT ![i].status = "ENDED"]
               t == state.workers[i].task
               h == [subject |-> subject, at |-> state.sequence + 1]
    <3>1. w \in Seq(WorkerRecord)
      BY WorkerChanges
    <3>2. t \in Task
      <4>1. state.workers \in Seq(WorkerRecord)
        BY DEF TypeOK
      <4>2. state.workers[i] \in WorkerRecord
        BY <4>1
      <4> QED
        BY <4>2 DEF WorkerRecord
    <3>3. h \in Handoff(t)
      BY DEF TypeOK, Handoff
    <3>4. state' = [state EXCEPT !.workers = w, !.handoffs[t] = h,
                                 !.sequence = @ + 1, !.phase = "VERIFY"]
      BY <2>12 DEF IngestHandoff, Write
    <3> HIDE DEF w, t, h
    <3>5. /\ DOMAIN state'.handoffs = Task
          /\ \A u \in Task : state'.handoffs[u] \in {None} \cup Handoff(u)
      <4>1. state'.handoffs = [state.handoffs EXCEPT ![t] = h]
        BY <3>4 DEF TypeOK, Fields
      <4> QED
        BY <3>2, <3>3, <4>1 DEF TypeOK
    <3> QED
      BY <3>1, <3>4, <3>5 DEF TypeOK, Fields, Phases
  <2>13. ASSUME NEW t \in Task, NEW subject \in Subject[t], NEW kind \in Kind,
                NEW status \in Status, RecordVerification(t, subject, kind, status)
         PROVE  TypeOK'
    <3>1. ASSUME NEW r \in {None} \cup Result(kind), NEW n \in Nat,
                 NEW a \in {"VERIFIED", "IMPLEMENTING"},
                 state' = [state EXCEPT !.sequence = n, !.results[t][subject][kind] = r,
                                        !.authorization = a]
          PROVE  TypeOK'
      <4>1. state'.results = [state.results EXCEPT ![t][subject][kind] = r]
        BY <3>1 DEF TypeOK, Fields
      <4>2. /\ DOMAIN state'.results = Task
            /\ \A u \in Task : DOMAIN state'.results[u] = Subject[u]
            /\ \A u \in Task : \A v \in Subject[u] :
                 /\ DOMAIN state'.results[u][v] = Kind
                 /\ \A k \in Kind : state'.results[u][v][k] \in {None} \cup Result(k)
        BY <4>1 DEF TypeOK
      <4> QED
        BY <3>1, <4>2 DEF TypeOK, Fields, AuthorizationPhases
    <3>2. CASE kind = "request"
      <4> DEFINE r == IF status = "PASS" THEN [status |-> status] ELSE None
                 s == [state EXCEPT !.results[t][subject][kind] = r]
      <4>1. state' = Refresh(s)
        BY <2>13, <3>2 DEF RecordVerification, Write
      <4>2. PICK a \in {"VERIFIED", "IMPLEMENTING"} : state' = [s EXCEPT !.authorization = a]
        BY <4>1 DEF Refresh
      <4>3. r \in {None} \cup Result(kind)
        BY <3>2 DEF Result
      <4> HIDE DEF r
      <4>4. state' = [state EXCEPT !.sequence = state.sequence,
                         !.results[t][subject][kind] = r, !.authorization = a]
        BY <4>2 DEF TypeOK, Fields
      <4> QED
        BY <3>1, <4>3, <4>4 DEF TypeOK
    <3>3. CASE kind # "request"
      <4> DEFINE r == [status |-> status, at |-> state.sequence + 1]
                 s == [state EXCEPT !.sequence = @ + 1, !.results[t][subject][kind] = r]
      <4>1. state' = Refresh(s)
        BY <2>13, <3>3 DEF RecordVerification, Write
      <4>2. PICK a \in {"VERIFIED", "IMPLEMENTING"} : state' = [s EXCEPT !.authorization = a]
        BY <4>1 DEF Refresh
      <4>3. r \in {None} \cup Result(kind)
        BY <3>3 DEF Result, TypeOK
      <4> HIDE DEF r
      <4>4. state' = [state EXCEPT !.sequence = state.sequence + 1,
                         !.results[t][subject][kind] = r, !.authorization = a]
        BY <4>2 DEF TypeOK, Fields
      <4>5. state.sequence + 1 \in Nat
        BY DEF TypeOK
      <4> QED
        BY <3>1, <4>3, <4>4, <4>5
    <3> QED
      BY <3>2, <3>3
  <2>14. ASSUME NEW t \in Task, NEW r \in Review(t), NEW n \in Nat, NEW p \in Phases,
                NEW a \in DOMAIN AuthorizationPhases,
                state' = [state EXCEPT !.reviews[t] = r, !.sequence = n, !.phase = p,
                                       !.authorization = a]
         PROVE  TypeOK'
    <3>1. state'.reviews = [state.reviews EXCEPT ![t] = r]
      BY <2>14 DEF TypeOK, Fields
    <3>2. /\ DOMAIN state'.reviews = Task
          /\ \A u \in Task : state'.reviews[u] \in {None} \cup Review(u)
      BY <3>1 DEF TypeOK
    <3> QED
      BY <2>14, <3>2 DEF TypeOK, Fields
  <2>15. ASSUME NEW t \in Task, OpenReview(t) PROVE TypeOK'
    <3> DEFINE r == [status |-> "REQUIRED", at |-> state.sequence,
                     subject |-> state.handoffs[t].subject]
    <3>1. r \in Review(t)
      BY <2>15, Candidates DEF OpenReview, Review, TypeOK
    <3>2. state' = [state EXCEPT !.reviews[t] = r]
      BY <2>15 DEF OpenReview, Write
    <3> HIDE DEF r
    <3> QED
      BY <2>14, <3>1, <3>2 DEF TypeOK, Fields
  <2>16. ASSUME NEW t \in Task, PassReview(t) PROVE TypeOK'
    <3> DEFINE r == [Renewed(t) EXCEPT !.status = "PASS", !.at = state.sequence + 1]
    <3>1. state.sequence + 1 \in Nat
      BY DEF TypeOK
    <3>2. Renewed(t) \in Review(t)
      BY <2>16, Candidates DEF PassReview
    <3>3. r \in Review(t)
      BY <3>1, <3>2 DEF Review
    <3>4. state' = [state EXCEPT !.sequence = @ + 1, !.reviews[t] = r]
      BY <2>16 DEF PassReview, Write
    <3> HIDE DEF r
    <3> QED
      BY <2>14, <3>1, <3>3, <3>4 DEF TypeOK, Fields
  <2>17. ASSUME NEW t \in Task, RequireRepair(t) PROVE TypeOK'
    <3> DEFINE r == [Renewed(t) EXCEPT !.status = "REPAIR_IN_PROGRESS"]
    <3>1. r \in Review(t)
      BY <2>17, Candidates DEF RequireRepair, Review, TypeOK
    <3>2. state' = ReturnToPlan([state EXCEPT !.reviews[t] = r])
      BY <2>17 DEF RequireRepair, Write
    <3> HIDE DEF r
    <3>3. "PLAN" \in Phases /\ "MAINTAINER_AUTHORIZED" \in DOMAIN AuthorizationPhases
      BY DEF Phases, AuthorizationPhases
    <3> QED
      BY <2>14, <3>1, <3>2, <3>3 DEF TypeOK, Fields, ReturnToPlan
  <2>18. ASSUME NEW t \in Task, AskReviewer(t) PROVE TypeOK'
    <3> DEFINE r == Renewed(t)
    <3>1. r \in Review(t)
      BY <2>18, Candidates DEF AskReviewer
    <3>2. state' = [state EXCEPT !.reviews[t] = r]
      BY <2>18 DEF AskReviewer, Write
    <3> HIDE DEF r
    <3> QED
      BY <2>14, <3>1, <3>2 DEF TypeOK, Fields
  <2>19. ASSUME NEW t \in Task, RepairFailure(t) PROVE TypeOK'
    <3>1. CASE state.reviews[t] = None
      BY <2>19, <3>1 DEF RepairFailure, ReturnToPlan, Write, TypeOK, Fields, Phases,
                         AuthorizationPhases
    <3>2. CASE state.reviews[t] # None
      <4> DEFINE r == [state.reviews[t] EXCEPT !.status = "REPAIR_IN_PROGRESS"]
      <4>1. r \in Review(t)
        BY <3>2 DEF TypeOK, Review
      <4>2. state' = ReturnToPlan([state EXCEPT !.reviews[t] = r])
        BY <2>19, <3>2 DEF RepairFailure, Write
      <4> HIDE DEF r
      <4>3. "PLAN" \in Phases /\ "MAINTAINER_AUTHORIZED" \in DOMAIN AuthorizationPhases
        BY DEF Phases, AuthorizationPhases
      <4> QED
        BY <2>14, <4>1, <4>2, <4>3 DEF TypeOK, Fields, ReturnToPlan
    <3> QED
      BY <3>1, <3>2
  <2>20. ASSUME NEW t \in Task, AuthorizeIntegration(t) PROVE TypeOK'
    BY <2>20 DEF AuthorizeIntegration, Write, TypeOK, Fields, Phases, AuthorizationPhases
  <2> QED
    BY <2>1, <2>2, <2>3, <2>4, <2>5, <2>6, <2>7, <2>8, <2>9, <2>10, <2>11, <2>12, <2>13,
       <2>15, <2>16, <2>17, <2>18, <2>19, <2>20 DEF Next
<1> QED
  BY <1>1, <1>2, PTL DEF Spec

-----------------------------------------------------------------------------
(* Safety                                                                  *)

LEMMA InitValid == Init => Valid(state)
<1> SUFFICES ASSUME Init PROVE Valid(state)
  OBVIOUS
<1>1. Active(state) = {}
  BY DEF Init, Active
<1>2. \A t \in Task : ActiveOf(state, t) = {}
  BY <1>1 DEF ActiveOf
<1>3. Cardinality({}) = 0
  BY FS_EmptySet
<1>4. OneWorkerPerTask(state)
  BY <1>2, <1>3 DEF OneWorkerPerTask
<1>5. WritersBounded(state)
  BY <1>1, <1>3 DEF WritersBounded
<1>6. WorkersBound(state)
  BY <1>1 DEF WorkersBound, Init
<1>7. LeasesApart(state) /\ Recorded(state)
  BY DEF Init, LeasesApart, Recorded
<1>8. state.phase \in AuthorizationPhases[state.authorization]
  BY DEF Init, AuthorizationPhases
<1> QED
  BY <1>4, <1>5, <1>6, <1>7, <1>8 DEF Valid

\* The authorization of an integration has seen the whole chain.
LEMMA AuthorizationBacks ==
    ASSUME TypeOK, NEW t \in Task, AuthorizeIntegration(t)
    PROVE  IntegrationBacked'
<1> DEFINE handoff == state.handoffs[t]
           results == state.results[t][handoff.subject]
<1>1. /\ state'.tasks = state.tasks /\ state'.handoffs = state.handoffs
      /\ state'.results = state.results /\ state'.reviews = state.reviews
  BY DEF AuthorizeIntegration, Write, TypeOK, Fields
<1>2. t \in state.tasks /\ handoff # None /\ Passes(results["request"])
  BY DEF AuthorizeIntegration, Reusable
<1>3. /\ LatestGate(state, t) = results["gate"] /\ results["gate"] # None
      /\ results["gate"].at > handoff.at
      /\ state.reviews[t] # None => results["gate"].at > state.reviews[t].at
  BY DEF AuthorizeIntegration, Passes, LatestGate
<1>4. LatestSafety(state, t) = results["safety"] /\ results["safety"].at > results["gate"].at
  BY <1>3 DEF AuthorizeIntegration, Passes, LatestSafety
<1>5. Passes(results["gate"]) /\ Passes(results["safety"])
  BY <1>3, <1>4 DEF AuthorizeIntegration
<1>6. t \in Reviewed => /\ ReviewPassed(state, t, handoff.subject)
                        /\ state.reviews[t].at < results["gate"].at
  BY <1>3 DEF AuthorizeIntegration
<1>7. handoff.at < results["gate"].at /\ results["gate"].at < results["safety"].at
  BY <1>3, <1>4
<1> QED
  BY <1>1, <1>2, <1>5, <1>6, <1>7 DEF IntegrationBacked, ReviewPassed

\* While a candidate is integrated no command touches what was authorized, and
\* no other command enters that phase.
LEMMA IntegrationKept ==
    ASSUME TypeOK, IntegrationBacked, Next, state'.phase = "INTEGRATE",
           \A t \in Task : ~AuthorizeIntegration(t)
    PROVE  /\ state.phase = "INTEGRATE"
           /\ state'.tasks = state.tasks /\ state'.handoffs = state.handoffs
           /\ state'.results = state.results /\ state'.reviews = state.reviews
<1> DEFINE Kept == /\ state.phase = "INTEGRATE"
                   /\ state'.tasks = state.tasks /\ state'.handoffs = state.handoffs
                   /\ state'.results = state.results /\ state'.reviews = state.reviews
<1> SUFFICES Kept
  OBVIOUS
<1>1. ASSUME NEW target \in Phases, Transition(target) PROVE FALSE
  BY <1>1 DEF Transition, Write, TypeOK, Fields
<1>2. CASE Authorize
  BY <1>2 DEF Authorize, Write, TypeOK, Fields
<1>3. ASSUME NEW t \in Task, AcquireOwnership(t) \/ AdvanceToPlan(t) PROVE FALSE
  BY <1>3 DEF AcquireOwnership, AdvanceToPlan, Write, TypeOK, Fields
<1>4. ASSUME NEW t \in Task, \/ StartRoot(t) \/ DispatchFirst(t) \/ DispatchNext(t)
      PROVE  FALSE
  BY <1>4 DEF StartRoot, DispatchFirst, DispatchNext, Write, TypeOK, Fields
<1>5. ASSUME NEW t \in Task, RegisterWorker(t) PROVE FALSE
  BY <1>5 DEF RegisterWorker, Write, TypeOK, Fields
<1>6. ASSUME NEW t \in Task, \/ OpenReview(t) \/ PassReview(t) \/ AskReviewer(t)
      PROVE  FALSE
  BY <1>6 DEF OpenReview, PassReview, AskReviewer, Candidate, Write, TypeOK, Fields
<1>7. ASSUME NEW t \in Task, RequireRepair(t) PROVE FALSE
  BY <1>7 DEF RequireRepair, ReturnToPlan, Candidate, Write, TypeOK, Fields
<1>8. ASSUME NEW t \in Task, RepairFailure(t) PROVE FALSE
  <2>1. PICK s : state' = ReturnToPlan(s) /\ DOMAIN s = Fields
    <3> DEFINE s == IF state.reviews[t] = None THEN state
                    ELSE [state EXCEPT !.reviews[t].status = "REPAIR_IN_PROGRESS"]
    <3>1. DOMAIN s = Fields
      BY DEF TypeOK
    <3>2. state' = ReturnToPlan(s)
      BY <1>8 DEF RepairFailure, Write
    <3> QED
      BY <3>1, <3>2, Zenon
  <2> QED
    BY <2>1 DEF ReturnToPlan, Fields
<1>9. ASSUME NEW t \in Task, NEW subject, NEW kind, NEW status,
             RecordVerification(t, subject, kind, status)
      PROVE  FALSE
  <2>1. PICK s : state' = Refresh(s) /\ s.phase = "VERIFY" /\ DOMAIN s = Fields
    <3>1. DOMAIN state = Fields /\ state.phase = "VERIFY"
      BY <1>9 DEF TypeOK, RecordVerification
    <3>2. CASE kind = "request"
      BY <1>9, <3>1, <3>2 DEF RecordVerification, Write, Fields
    <3>3. CASE kind # "request"
      <4> DEFINE s == [state EXCEPT !.sequence = @ + 1,
                         !.results[t][subject][kind] = [status |-> status,
                                                        at |-> state.sequence + 1]]
      <4>1. s.phase = "VERIFY" /\ DOMAIN s = Fields
        BY <3>1 DEF Fields
      <4>2. state' = Refresh(s)
        BY <1>9, <3>3 DEF RecordVerification, Write
      <4> QED
        BY <4>1, <4>2, Zenon
    <3> QED
      BY <3>2, <3>3
  <2> QED
    BY <2>1 DEF Refresh, Fields
<1>10. ASSUME NEW i, NEW subject, IngestHandoff(i, subject) PROVE FALSE
  BY <1>10 DEF IngestHandoff, Write, TypeOK, Fields
<1>11. ASSUME NEW t \in Task, ReleaseOwnership(t) PROVE Kept
  BY <1>11 DEF ReleaseOwnership, Write, TypeOK, Fields
<1>12. ASSUME NEW t \in Task, NEW mode, RecordException(t, mode) PROVE Kept
  BY <1>12 DEF RecordException, Write, TypeOK, Fields
<1>13. ASSUME NEW i, NEW status, ReconcileWorker(i, status) PROVE Kept
  BY <1>13 DEF ReconcileWorker, Write, TypeOK, Fields
<1>14. ASSUME NEW t \in Task, NEW paths, RegisterTask(t, paths) PROVE FALSE
  BY <1>14 DEF RegisterTask, Write, TypeOK, Fields
<1> HIDE DEF Kept
<1> QED
  BY <1>1, <1>2, <1>3, <1>4, <1>5, <1>6, <1>7, <1>8, <1>9, <1>10, <1>11, <1>12, <1>13,
     <1>14 DEF Next

\* Every file a command leaves behind is well formed, satisfies what
\* validate_state checks, and has a backed integration, if any.
THEOREM Inductive == Spec => []IInv
<1>1. Init => Valid(state) /\ IntegrationBacked
  BY InitValid DEF Init, IntegrationBacked
<1>2. TypeOK /\ Valid(state) /\ [Next]_state => Valid(state)'
  <2>1. ASSUME NEW s, Write(s) PROVE Valid(state)'
    BY <2>1 DEF Write
  <2>2. CASE UNCHANGED state
    BY <2>2
  <2> QED
    BY <2>1, <2>2, Written
<1>3. TypeOK /\ IntegrationBacked /\ [Next]_state => IntegrationBacked'
  <2> SUFFICES ASSUME TypeOK, IntegrationBacked, [Next]_state PROVE IntegrationBacked'
    OBVIOUS
  <2>1. CASE UNCHANGED state
    BY <2>1 DEF IntegrationBacked, ReviewPassed
  <2>2. CASE \E t \in Task : AuthorizeIntegration(t)
    BY <2>2, AuthorizationBacks
  <2>3. CASE Next /\ (\A t \in Task : ~AuthorizeIntegration(t)) /\ state'.phase = "INTEGRATE"
    BY <2>3, IntegrationKept DEF IntegrationBacked, ReviewPassed
  <2>4. CASE state'.phase # "INTEGRATE"
    BY <2>4 DEF IntegrationBacked
  <2> QED
    BY <2>1, <2>2, <2>3, <2>4
<1> QED
  BY <1>1, <1>2, <1>3, TypeCorrect, PTL DEF Spec, IInv

\* Writers at work own disjoint paths, and of two one has its guards and a
\* recorded decision, in every state of any number of commands.
THEOREM WritersStayApart == Spec => []WritersApart
<1>1. IInv => WritersApart
  BY ValidWriters DEF IInv
<1> QED
  BY <1>1, Inductive, PTL

\* Nothing is integrated that was not handed off, reviewed where its class asks
\* for it, gated and audited, in this order.
THEOREM IntegrationIsBacked == Spec => []IntegrationBacked
<1>1. IInv => IntegrationBacked
  BY DEF IInv
<1> QED
  BY <1>1, Inductive, PTL
=============================================================================
