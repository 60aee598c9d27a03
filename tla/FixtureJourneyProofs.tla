------------------------- MODULE FixtureJourneyProofs -------------------------
(***************************************************************************)
(* Proofs about FixtureJourney, for any sources, statuses and bounds.      *)
(*                                                                         *)
(* A request is the list of its steps, so the invariant says of the list   *)
(* what it will find when it comes to each of them (Sound): a record it    *)
(* writes has what it is made from in the store, or among what the steps   *)
(* before it write.  Lists are put together by \o; SoundJoin says what the *)
(* parts must give each other.  Under one dataset there is one record of   *)
(* each kind a stage makes (Formed), so that a stage which is asked for    *)
(* again meets its own records and no others.                              *)
(***************************************************************************)
EXTENDS FixtureJourney, FiniteSetTheorems, SequenceTheorems, WellFoundedInduction, TLAPS

\* The records that follow from the dataset of a source.
RunOf(k, c) == Run(k, c, c)
ArtifactFrom(k, c) == Artifact(RunOf(k, c))

Unsealed == Suite("confirmation", 0, "unsealed", {})
SealedSuite == Revised(Unsealed, "sealed", {})

ResultFrom(k, c) ==
    Rec("evaluation_result", k, 0, "passed", {ArtifactFrom(k, c), SealedSuite})

RecommendationFrom(c) ==
    Rec("recommendation", "fixture", 0, "tied", {Policy} \cup {ResultFrom(k, c) : k \in Candidate})

\* Under one dataset there is one record of each of these kinds and ids.
Formed(c, r) ==
    /\ r.no \in Nat
    /\ r.type = "project" => r = Project
    /\ r.type = "dataset_version" => r = Dataset(c)
    /\ r.type = "experiment" => \E k \in Candidate : r = Experiment(k, c)
    /\ r.type = "run" => \E k \in Candidate : r = RunOf(k, c)
    /\ r.type = "artifact" => \E k \in Candidate : r = ArtifactFrom(k, c)
    /\ r.type = "recommendation_policy" => r = Policy
    /\ r.type = "evaluation_result" => \E k \in Candidate : r = ResultFrom(k, c)
    /\ r.type = "recommendation" => r = RecommendationFrom(c)
    /\ r.type = "evaluation_suite" /\ r.id = "confirmation" => r \in {Unsealed, SealedSuite}
    /\ r.type = "adapter_export" /\ r.id \in Candidate =>
           r = Rec("adapter_export", r.id, 0, "bundle", {ArtifactFrom(r.id, c)})

Derived(r) ==
    \/ r.type \in {"experiment", "run", "artifact", "evaluation_result", "recommendation"}
    \/ r.type = "adapter_export" /\ r.id \in Candidate

OfIn(S, type, id) == {r \in S : r.type = type /\ r.id = id}

\* What is there when a record is written.
Based(c, S, r) ==
    /\ r.type = "dataset_version" => Project \in S
    /\ Derived(r) => Dataset(c) \in S
    /\ r.type = "artifact" => \E e \in S : e.type = "experiment"
    /\ r.type = "recommendation" => \A k \in Candidate :
           OfIn(S, "artifact", k) # {} /\ OfIn(S, "artifact_availability", k) # {}
    /\ r.type = "user_decision" => OfIn(S, "recommendation", "fixture") # {}

Counts(r) == r.type \in {"review", "user_decision", "local_use_session"}

OfUse(r) ==
    /\ r.type \in {"local_use_session", "adapter_export"}
    /\ r.id \notin {"focused", "runtime"}

Selected(r) ==
    /\ decided # <<>>
    /\ \E k \in Candidate : ArtifactOf(k) \in r.refs /\ Selects(Last(decided), k)

\* A record that may be written when S is stored: of the uses only those in U.
Writable(c, U, S, r) ==
    /\ Formed(c, r) /\ Based(c, S, r)
    /\ Counts(r) => r.no = 0 \/ r.no <= Cardinality(OfIn(S, r.type, r.id)) + 1
    /\ OfUse(r) => r \in U

\* A dataset that the service may remember when S is stored.
Known(c, S, v) == v = None \/ (v = c /\ Dataset(c) \in S)

\* The number of a blind packet that the service may remember.
Packet(S, v) == v = 0 \/ \E r \in OfIn(S, "review", "blind") : r.no = v

StepSound(c, U, S, x) ==
    /\ x.do = "write" => Writable(c, U, S, x.record)
    /\ x.do = "remember" /\ x.field \in {"prepared", "resolved"} => Known(c, S, x.value)
    /\ x.do = "remember" /\ x.field = "packet" => Packet(S, x.value)

\* The records written by the steps before the i-th.
Before(p, i) == {p[j].record : j \in {h \in 1 .. i - 1 : p[h].do = "write"}}

\* A plan whose every step is sound when it is reached.
Sound(c, U, S, p) ==
    /\ p \in Seq(ToSet(p))
    /\ \A i \in DOMAIN p :
           (\A j \in 1 .. i - 1 : p[j].do # "refuse") =>
               StepSound(c, U, S \cup Before(p, i), p[i])

\* The session or the export that a request with the steps p is about to write.
Pending(p) ==
    {p[i].record : i \in {j \in DOMAIN p : j = 1 /\ p[j].do = "write" /\ OfUse(p[j].record)}}

Stored(c) ==
    /\ IsFiniteSet(records)
    /\ \E n \in Nat : \A r \in records : r.no \in 0 .. n
    /\ \A r \in records :
           /\ Formed(c, r) /\ Based(c, records, r)
           /\ Counts(r) => r.no <= Cardinality(Of(r.type, r.id))

Remembered(c) ==
    /\ DOMAIN memory = DOMAIN Fresh
    /\ Known(c, records, memory.prepared) /\ Known(c, records, memory.resolved)
    /\ Packet(records, memory.packet)

Planned(c, p) ==
    /\ Sound(c, Pending(p), records, p)
    /\ Pending(p) # {} => \A i \in DOMAIN p : p[i].do = "write" => i = 1
    /\ \A r \in Pending(p) : Selected(r)

JourneyInv ==
    /\ decided \in Seq(ToSet(decided))
    /\ \E c \in Source : Stored(c) /\ Remembered(c) /\ Planned(c, plan)

-----------------------------------------------------------------------------
(* Lists of steps                                                          *)

Written(p) == {p[j].record : j \in {h \in DOMAIN p : p[h].do = "write"}}

Listed(p) == p \in Seq(ToSet(p))

\* A list of steps is a sequence over its own steps.
LEMMA OwnSteps ==
    ASSUME NEW S, NEW p \in Seq(S)
    PROVE  Listed(p) /\ DOMAIN p = 1 .. Len(p) /\ Len(p) \in Nat
<1>1. p \in [1 .. Len(p) -> S] /\ DOMAIN p = 1 .. Len(p) /\ Len(p) \in Nat
  BY LenProperties
<1>2. \A i \in 1 .. Len(p) : p[i] \in ToSet(p)
  BY <1>1 DEF ToSet
<1> QED
  BY <1>1, <1>2 DEF Listed

\* The list p is a and then b.
Follow(a, b, p) ==
    /\ Listed(p) /\ Len(a) \in Nat /\ Len(b) \in Nat
    /\ DOMAIN a = 1 .. Len(a) /\ DOMAIN b = 1 .. Len(b)
    /\ DOMAIN p = 1 .. Len(a) + Len(b)
    /\ \A i \in 1 .. Len(a) : p[i] = a[i]
    /\ \A i \in 1 .. Len(b) : p[Len(a) + i] = b[i]

\* What \o makes of two lists.
LEMMA Joined ==
    ASSUME NEW a, NEW b, Listed(a), Listed(b), NEW p, p = a \o b
    PROVE  Follow(a, b, p)
<1> DEFINE S == ToSet(a) \cup ToSet(b)
<1>1. a \in Seq(S) /\ b \in Seq(S)
  BY DEF Listed
<1>2. /\ p \in Seq(S) /\ Len(p) = Len(a) + Len(b)
      /\ \A i \in 1 .. Len(a) + Len(b) : p[i] = IF i <= Len(a) THEN a[i] ELSE b[i - Len(a)]
  <2> HIDE DEF S
  <2> QED
    BY <1>1, ConcatProperties
<1> HIDE DEF S
<1>3. /\ Len(a) \in Nat /\ Len(b) \in Nat /\ DOMAIN a = 1 .. Len(a)
      /\ DOMAIN b = 1 .. Len(b) /\ DOMAIN p = 1 .. Len(p) /\ Listed(p)
  BY <1>1, <1>2, OwnSteps
<1>4. \A i \in 1 .. Len(a) : i \in 1 .. Len(a) + Len(b) /\ i <= Len(a)
  BY <1>3
<1>5. \A i \in 1 .. Len(b) : /\ Len(a) + i \in 1 .. Len(a) + Len(b)
                             /\ ~(Len(a) + i <= Len(a)) /\ (Len(a) + i) - Len(a) = i
  BY <1>3
<1> QED
  BY <1>2, <1>3, <1>4, <1>5 DEF Follow

\* An index of the joined list is one of the first or, moved, one of the second.
LEMMA Places ==
    ASSUME NEW m \in Nat, NEW n \in Nat, NEW i \in 1 .. m + n
    PROVE  i \in 1 .. m \/ \E j \in 1 .. n : i = m + j
<1>1. CASE i <= m
  BY <1>1
<1>2. CASE ~(i <= m)
  <2>1. i - m \in 1 .. n /\ i = m + (i - m)
    BY <1>2
  <2> QED
    BY <2>1
<1> QED
  BY <1>1, <1>2

\* What a joined list writes, and when none of it refuses.
LEMMA JoinedRuns ==
    ASSUME NEW a, NEW b, Listed(a), Listed(b), NEW p, p = a \o b
    PROVE  /\ Listed(p)
           /\ Written(p) = Written(a) \cup Written(b)
           /\ Runs(p) <=> Runs(a) /\ Runs(b)
<1> DEFINE m == Len(a)
           n == Len(b)
<1>1. /\ Listed(p) /\ m \in Nat /\ n \in Nat /\ DOMAIN a = 1 .. m /\ DOMAIN b = 1 .. n
      /\ DOMAIN p = 1 .. m + n /\ \A i \in 1 .. m : p[i] = a[i]
      /\ \A i \in 1 .. n : p[m + i] = b[i]
  <2>1. Follow(a, b, p)
    BY Joined
  <2> QED
    BY <2>1 DEF Follow
<1> HIDE DEF m, n
<1>2. /\ \A i \in 1 .. m : i \in 1 .. m + n
      /\ \A i \in 1 .. n : m + i \in 1 .. m + n
  BY <1>1
<1>3. \A i \in 1 .. m + n : i \in 1 .. m \/ \E j \in 1 .. n : i = m + j
  BY <1>1, Places
<1>4. Runs(p) <=> Runs(a) /\ Runs(b)
  <2>1. ASSUME Runs(a), Runs(b) PROVE Runs(p)
    BY <1>1, <1>3, <2>1 DEF Runs
  <2>2. ASSUME Runs(p) PROVE Runs(a)
    BY <1>1, <1>2, <2>2 DEF Runs
  <2>3. ASSUME Runs(p), NEW i \in 1 .. n PROVE b[i].do # "refuse"
    <3>1. m + i \in 1 .. m + n /\ p[m + i] = b[i]
      BY <1>1, <1>2
    <3> QED
      BY <1>1, <2>3, <3>1 DEF Runs
  <2> QED
    BY <1>1, <2>1, <2>2, <2>3 DEF Runs
<1>5. ASSUME NEW r PROVE r \in Written(p) <=> r \in Written(a) \/ r \in Written(b)
  <2>1. r \in Written(p) <=> \E i \in 1 .. m + n : p[i].do = "write" /\ r = p[i].record
    BY <1>1 DEF Written
  <2>2. r \in Written(a) <=> \E i \in 1 .. m : a[i].do = "write" /\ r = a[i].record
    BY <1>1 DEF Written
  <2>3. r \in Written(b) <=> \E i \in 1 .. n : b[i].do = "write" /\ r = b[i].record
    BY <1>1 DEF Written
  <2>4. ASSUME r \in Written(p) PROVE r \in Written(a) \/ r \in Written(b)
    <3>1. PICK i \in 1 .. m + n : p[i].do = "write" /\ r = p[i].record
      BY <2>1, <2>4
    <3>2. CASE i \in 1 .. m
      BY <1>1, <2>2, <3>1, <3>2
    <3>3. CASE \E j \in 1 .. n : i = m + j
      BY <1>1, <2>3, <3>1, <3>3
    <3> QED
      BY <1>3, <3>2, <3>3
  <2>5. ASSUME r \in Written(a) PROVE r \in Written(p)
    BY <1>1, <1>2, <2>1, <2>2, <2>5
  <2>6. ASSUME r \in Written(b) PROVE r \in Written(p)
    <3>1. PICK i \in 1 .. n : b[i].do = "write" /\ r = b[i].record
      BY <2>3, <2>6
    <3>2. m + i \in 1 .. m + n /\ p[m + i] = b[i]
      BY <1>1, <1>2
    <3> QED
      BY <2>1, <3>1, <3>2
  <2> QED
    BY <2>4, <2>5, <2>6
<1> QED
  BY <1>1, <1>4, <1>5

\* A list is sound if its first part is and, unless that refuses, its second
\* part is after what the first has written.
LEMMA SoundJoin ==
    ASSUME NEW c, NEW U, NEW S, NEW a, NEW b, Sound(c, U, S, a), Listed(b),
           Runs(a) => Sound(c, U, S \cup Written(a), b), NEW p, p = a \o b
    PROVE  Sound(c, U, S, p)
<1> DEFINE m == Len(a)
           n == Len(b)
<1>1. /\ Listed(p) /\ m \in Nat /\ n \in Nat /\ DOMAIN a = 1 .. m /\ DOMAIN b = 1 .. n
      /\ DOMAIN p = 1 .. m + n /\ \A i \in 1 .. m : p[i] = a[i]
      /\ \A i \in 1 .. n : p[m + i] = b[i]
  <2>1. Listed(a)
    BY DEF Sound, Listed
  <2>2. Follow(a, b, p)
    BY <2>1, Joined
  <2> QED
    BY <2>2 DEF Follow
<1> HIDE DEF m, n
<1> SUFFICES ASSUME NEW i \in 1 .. m + n, \A j \in 1 .. i - 1 : p[j].do # "refuse"
             PROVE  StepSound(c, U, S \cup Before(p, i), p[i])
  BY <1>1 DEF Sound, Listed
<1>2. CASE i \in 1 .. m
  <2>1. \A j \in 1 .. i - 1 : j \in 1 .. m /\ p[j] = a[j]
    BY <1>1, <1>2
  <2>2. Before(p, i) = Before(a, i)
    BY <2>1 DEF Before
  <2>3. p[i] = a[i] /\ \A j \in 1 .. i - 1 : a[j].do # "refuse"
    BY <1>1, <1>2, <2>1
  <2>4. StepSound(c, U, S \cup Before(a, i), a[i])
    BY <1>1, <1>2, <2>3 DEF Sound
  <2> QED
    BY <2>2, <2>3, <2>4
<1>3. CASE \E j \in 1 .. n : i = m + j
  <2>1. PICK k \in 1 .. n : i = m + k
    BY <1>3
  <2>2. \A j \in 1 .. m : j \in 1 .. i - 1
    BY <1>1, <2>1
  <2>3. \A j \in 1 .. k - 1 : j \in 1 .. n /\ m + j \in 1 .. i - 1
    BY <1>1, <2>1
  <2>4. \A j \in 1 .. i - 1 : j \in 1 .. m \/ \E h \in 1 .. k - 1 : j = m + h
    <3>1. k - 1 \in Nat /\ i - 1 = m + (k - 1)
      BY <1>1, <2>1
    <3> QED
      BY <1>1, <3>1, Places
  <2>5. Runs(a)
    BY <1>1, <2>2 DEF Runs
  <2>6. \A j \in 1 .. k - 1 : b[j].do # "refuse"
    BY <1>1, <2>3
  <2>7. StepSound(c, U, (S \cup Written(a)) \cup Before(b, k), b[k])
    BY <1>1, <2>1, <2>5, <2>6 DEF Sound
  <2>8. ASSUME NEW r PROVE r \in Before(p, i) <=> r \in Written(a) \/ r \in Before(b, k)
    <3>1. r \in Before(p, i) <=> \E j \in 1 .. i - 1 : p[j].do = "write" /\ r = p[j].record
      BY DEF Before
    <3>2. r \in Written(a) <=> \E j \in 1 .. m : a[j].do = "write" /\ r = a[j].record
      BY <1>1 DEF Written
    <3>3. r \in Before(b, k) <=> \E j \in 1 .. k - 1 : b[j].do = "write" /\ r = b[j].record
      BY DEF Before
    <3>4. ASSUME r \in Before(p, i) PROVE r \in Written(a) \/ r \in Before(b, k)
      <4>1. PICK j \in 1 .. i - 1 : p[j].do = "write" /\ r = p[j].record
        BY <3>1, <3>4
      <4>2. CASE j \in 1 .. m
        BY <1>1, <3>2, <4>1, <4>2
      <4>3. CASE \E h \in 1 .. k - 1 : j = m + h
        BY <1>1, <2>3, <3>3, <4>1, <4>3
      <4> QED
        BY <2>4, <4>2, <4>3
    <3>5. ASSUME r \in Written(a) PROVE r \in Before(p, i)
      BY <1>1, <2>2, <3>1, <3>2, <3>5
    <3>6. ASSUME r \in Before(b, k) PROVE r \in Before(p, i)
      <4>1. PICK j \in 1 .. k - 1 : b[j].do = "write" /\ r = b[j].record
        BY <3>3, <3>6
      <4>2. m + j \in 1 .. i - 1 /\ p[m + j] = b[j]
        BY <1>1, <2>3
      <4> QED
        BY <3>1, <4>1, <4>2
    <3> QED
      BY <3>4, <3>5, <3>6
  <2>9. S \cup Before(p, i) = (S \cup Written(a)) \cup Before(b, k)
    BY <2>8
  <2>10. p[i] = b[k]
    BY <1>1, <2>1
  <2> QED
    BY <2>7, <2>9, <2>10
<1> QED
  BY <1>1, <1>2, <1>3, Places

\* From S on, every step of p is sound whatever else is stored, and p adds X
\* unless it refuses.
Gives(c, U, S, X, p) ==
    /\ Listed(p) /\ \A T : S \subseteq T => Sound(c, U, T, p)
    /\ Runs(p) => X \subseteq Written(p)

\* What one list gives, the next may rest on.
LEMMA GivesJoin ==
    ASSUME NEW c, NEW U, NEW S, NEW X, NEW Y, NEW a, NEW b, NEW p, p = a \o b,
           Gives(c, U, S, X, a), Listed(b), Runs(a) => Gives(c, U, S \cup X, Y, b)
    PROVE  Gives(c, U, S, X \cup Y, p)
<1>1. Listed(a)
  BY DEF Gives
<1>2. /\ Listed(p) /\ Written(p) = Written(a) \cup Written(b)
      /\ Runs(p) <=> Runs(a) /\ Runs(b)
  BY <1>1, JoinedRuns
<1>3. ASSUME NEW T, S \subseteq T PROVE Sound(c, U, T, p)
  <2>1. Sound(c, U, T, a)
    BY <1>3 DEF Gives
  <2>2. ASSUME Runs(a) PROVE Sound(c, U, T \cup Written(a), b)
    <3>1. S \cup X \subseteq T \cup Written(a)
      BY <1>3, <2>2 DEF Gives
    <3> QED
      BY <2>2, <3>1 DEF Gives
  <2> QED
    BY <2>1, <2>2, SoundJoin
<1>4. Runs(p) => X \cup Y \subseteq Written(p)
  BY <1>2 DEF Gives
<1> QED
  BY <1>2, <1>3, <1>4 DEF Gives

\* More may be stored, and less be asked for.
LEMMA GivesMore ==
    ASSUME NEW c, NEW U, NEW S, NEW T, NEW X, NEW Y, NEW p, Gives(c, U, S, X, p),
           S \subseteq T, Y \subseteq X
    PROVE  Gives(c, U, T, Y, p)
  BY DEF Gives

\* The list that is done.
LEMMA GivesNothing ==
    ASSUME NEW c, NEW U, NEW S PROVE Gives(c, U, S, {}, <<>>)
<1>1. Listed(<<>>) /\ DOMAIN <<>> = {}
  BY DEF Listed
<1> QED
  BY <1>1 DEF Gives, Sound, Listed

\* A list of one step.
LEMMA GivesStep ==
    ASSUME NEW c, NEW U, NEW S, NEW x, \A T : S \subseteq T => StepSound(c, U, T, x)
    PROVE  Gives(c, U, S, IF x.do = "write" THEN {x.record} ELSE {}, <<x>>)
<1> DEFINE p == <<x>>
<1>1. ToSet(p) = {x} /\ DOMAIN p = 1 .. 1 /\ p[1] = x
  BY DEF ToSet
<1>2. Listed(p)
  BY <1>1 DEF Listed
<1> HIDE DEF p
<1>3. ASSUME NEW T, S \subseteq T PROVE Sound(c, U, T, p)
  <2>1. ASSUME NEW i \in DOMAIN p PROVE StepSound(c, U, T \cup Before(p, i), p[i])
    <3>1. p[i] = x /\ S \subseteq T \cup Before(p, i)
      BY <1>1, <1>3, <2>1
    <3>2. StepSound(c, U, T \cup Before(p, i), x)
      BY <3>1
    <3> QED
      BY <3>1, <3>2
  <2> QED
    BY <1>2, <2>1 DEF Sound, Listed
<1>4. x.do = "write" => Written(p) = {x.record}
  BY <1>1 DEF Written
<1> QED
  BY <1>2, <1>3, <1>4 DEF Gives, p

\* What is refused gives anything.
LEMMA GivesRefuse ==
    ASSUME NEW c, NEW U, NEW S, NEW X
    PROVE  Gives(c, U, S, X, Refuse) /\ ~Runs(Refuse)
<1>1. PICK x : x = [do |-> "refuse"]
  OBVIOUS
<1>2. x.do = "refuse" /\ Refuse = <<x>>
  BY <1>1 DEF Refuse
<1>3. Gives(c, U, S, IF x.do = "write" THEN {x.record} ELSE {}, <<x>>)
  BY <1>2, GivesStep DEF StepSound
<1>4. ~Runs(<<x>>)
  BY <1>2 DEF Runs
<1> QED
  BY <1>2, <1>3, <1>4 DEF Gives

\* An event changes nothing that another step rests on.
LEMMA GivesTell ==
    ASSUME NEW c, NEW U, NEW S, NEW kind, NEW r
    PROVE  Gives(c, U, S, {}, Tell(kind, r)) /\ Runs(Tell(kind, r))
<1>1. PICK x : x = [do |-> "append", kind |-> kind, record |-> r]
  OBVIOUS
<1>2. x.do = "append" /\ Tell(kind, r) = <<x>>
  BY <1>1 DEF Tell
<1>3. Gives(c, U, S, IF x.do = "write" THEN {x.record} ELSE {}, <<x>>)
  BY <1>2, GivesStep DEF StepSound
<1>4. Runs(<<x>>)
  BY <1>2 DEF Runs
<1> QED
  BY <1>2, <1>3, <1>4 DEF Gives

\* The claim and the resolution of a launch neither.
LEMMA GivesMark ==
    ASSUME NEW c, NEW U, NEW S, NEW mark \in {"claim", "resolve"}, NEW r
    PROVE  Gives(c, U, S, {}, <<[do |-> mark, run |-> r]>>)
<1>1. PICK x : x = [do |-> mark, run |-> r]
  OBVIOUS
<1>2. x.do \notin {"write", "remember"}
  BY <1>1
<1>3. Gives(c, U, S, IF x.do = "write" THEN {x.record} ELSE {}, <<x>>)
  BY <1>2, GivesStep DEF StepSound
<1> QED
  BY <1>1, <1>2, <1>3

\* A dataset is remembered that is stored, or none, and the number of a packet.
LEMMA GivesRemember ==
    ASSUME NEW c, NEW U, NEW S, NEW field, NEW value,
           field \in {"prepared", "resolved"} => Known(c, S, value),
           field = "packet" => Packet(S, value)
    PROVE  Gives(c, U, S, {}, Remember(field, value)) /\ Runs(Remember(field, value))
<1>1. PICK x : x = [do |-> "remember", field |-> field, value |-> value]
  OBVIOUS
<1>2. /\ x.do = "remember" /\ x.field = field /\ x.value = value
      /\ Remember(field, value) = <<x>>
  BY <1>1 DEF Remember
<1>3. \A T : S \subseteq T => StepSound(c, U, T, x)
  BY <1>2 DEF StepSound, Known, Packet, OfIn
<1>4. Gives(c, U, S, IF x.do = "write" THEN {x.record} ELSE {}, <<x>>)
  BY <1>3, GivesStep
<1>5. Runs(<<x>>)
  BY <1>2 DEF Runs
<1> QED
  BY <1>2, <1>4, <1>5 DEF Gives

\* What a record rests on stays there.
LEMMA WritableOn ==
    ASSUME NEW c, NEW U, NEW S, NEW T, NEW r, Writable(c, U, S, r), S \subseteq T,
           Counts(r) => r.no = 0
    PROVE  Writable(c, U, T, r)
  BY DEF Writable, Based, OfIn

\* A record is written over what it rests on.
LEMMA GivesWrite ==
    ASSUME NEW c, NEW U, NEW S, NEW r, Writable(c, U, S, r), Counts(r) => r.no = 0
    PROVE  Gives(c, U, S, {r}, Write(r)) /\ Runs(Write(r))
<1>1. PICK x : x = [do |-> "write", record |-> r]
  OBVIOUS
<1>2. x.do = "write" /\ x.record = r /\ Write(r) = <<x>>
  BY <1>1 DEF Write
<1>3. \A T : S \subseteq T => StepSound(c, U, T, x)
  BY <1>2, WritableOn DEF StepSound
<1>4. Gives(c, U, S, IF x.do = "write" THEN {x.record} ELSE {}, <<x>>)
  BY <1>3, GivesStep
<1>5. Runs(<<x>>)
  BY <1>2 DEF Runs
<1> QED
  BY <1>2, <1>4, <1>5

\* A record that is written over exactly what is stored.
LEMMA WriteSound ==
    ASSUME NEW c, NEW U, NEW S, NEW r, Writable(c, U, S, r)
    PROVE  Sound(c, U, S, Write(r))
<1>1. PICK x : x = [do |-> "write", record |-> r]
  OBVIOUS
<1> DEFINE p == <<x>>
<1>2. ToSet(p) = {x} /\ DOMAIN p = 1 .. 1 /\ p[1] = x
  BY DEF ToSet
<1>3. p \in Seq(ToSet(p)) /\ Write(r) = p
  BY <1>1, <1>2 DEF Write
<1> HIDE DEF p
<1>4. ASSUME NEW i \in DOMAIN p PROVE StepSound(c, U, S \cup Before(p, i), p[i])
  <2>1. p[i] = x /\ i = 1
    BY <1>2, <1>4
  <2>2. Before(p, i) = {}
    BY <2>1 DEF Before
  <2>3. StepSound(c, U, S, x)
    BY <1>1 DEF StepSound
  <2>4. S \cup Before(p, i) = S
    BY <2>2
  <2> QED
    BY <2>1, <2>3, <2>4
<1> QED
  BY <1>3, <1>4 DEF Sound

\* When a list of steps is one that refuses, and what a new record's list is.
LEMMA NewRuns ==
    ASSUME NEW r
    PROVE  /\ Listed(PersistNew(r)) /\ (Runs(PersistNew(r)) <=> ~Conflicting(r))
           /\ Listed(PersistRevision(r)) /\ Runs(PersistRevision(r))
           /\ Listed(Write(r))
<1>1. PICK x : x = [do |-> "write", record |-> r]
  OBVIOUS
<1>2. x.do = "write" /\ Write(r) = <<x>>
  BY <1>1 DEF Write
<1>3. Listed(Write(r)) /\ Runs(Write(r))
  <2>1. Listed(<<x>>)
    BY DEF Listed, ToSet
  <2>2. Runs(<<x>>)
    BY <1>2 DEF Runs
  <2> QED
    BY <1>2, <2>1, <2>2
<1>5. Listed(Tell("recorded", r)) /\ Runs(Tell("recorded", r))
  BY GivesTell DEF Gives
<1>6. Listed(Refuse) /\ ~Runs(Refuse)
  BY GivesRefuse DEF Gives
<1>7. PICK p : p = Write(r) \o Tell("recorded", r)
  OBVIOUS
<1>8. Listed(p) /\ Runs(p)
  <2>1. PICK a, b : a = Write(r) /\ b = Tell("recorded", r)
    OBVIOUS
  <2>2. Listed(a) /\ Listed(b) /\ Runs(a) /\ Runs(b) /\ p = a \o b
    BY <1>3, <1>5, <1>7, <2>1
  <2> QED
    BY <2>2, JoinedRuns
<1>9. PersistRevision(r) = p /\ PersistNew(r) = IF Conflicting(r) THEN Refuse ELSE p
  BY <1>7 DEF PersistNew, PersistRevision
<1>10. CASE Conflicting(r)
  BY <1>3, <1>6, <1>8, <1>9, <1>10
<1>11. CASE ~Conflicting(r)
  BY <1>3, <1>8, <1>9, <1>11
<1> QED
  BY <1>10, <1>11

\* A new record of a numbered kind, over exactly what is stored.
LEMMA NewSound ==
    ASSUME NEW c, NEW U, NEW S, NEW r, ~Conflicting(r) => Writable(c, U, S, r)
    PROVE  Sound(c, U, S, PersistNew(r))
<1>1. CASE Conflicting(r)
  <2>1. Gives(c, U, S, {}, Refuse)
    BY GivesRefuse
  <2> QED
    BY <1>1, <2>1 DEF Gives, PersistNew
<1>2. CASE ~Conflicting(r)
  <2>1. Sound(c, U, S, Write(r))
    BY <1>2, WriteSound
  <2>2. PICK T : T = S \cup Written(Write(r))
    OBVIOUS
  <2>3. Gives(c, U, T, {}, Tell("recorded", r))
    BY GivesTell
  <2>4. Sound(c, U, S \cup Written(Write(r)), Tell("recorded", r)) /\ Listed(Tell("recorded", r))
    BY <2>2, <2>3 DEF Gives
  <2>5. PICK p : p = Write(r) \o Tell("recorded", r)
    OBVIOUS
  <2>6. Sound(c, U, S, p)
    BY <2>1, <2>4, <2>5, SoundJoin
  <2> QED
    BY <1>2, <2>5, <2>6 DEF PersistNew
<1> QED
  BY <1>1, <1>2

\* A revision is there when its steps are done.
LEMMA GivesRevision ==
    ASSUME NEW c, NEW U, NEW S, NEW r, Writable(c, U, S, r), Counts(r) => r.no = 0
    PROVE  Gives(c, U, S, {r}, PersistRevision(r))
<1>1. Gives(c, U, S, {r}, Write(r))
  BY GivesWrite
<1>2. PICK T : T = S \cup {r}
  OBVIOUS
<1>3. Gives(c, U, T, {}, Tell("recorded", r)) /\ Listed(Tell("recorded", r))
  BY GivesTell DEF Gives
<1>4. PICK p : p = Write(r) \o Tell("recorded", r)
  OBVIOUS
<1>5. PICK Y : Y = {}
  OBVIOUS
<1>6. PICK X : X = {r}
  OBVIOUS
<1>7. Gives(c, U, S, X \cup Y, p)
  BY <1>1, <1>2, <1>3, <1>4, <1>5, <1>6, GivesJoin
<1>8. X \cup Y = {r}
  BY <1>5, <1>6
<1> QED
  BY <1>4, <1>7, <1>8 DEF PersistRevision

\* A new record is there when its steps are done, whatever was there before.
LEMMA GivesNew ==
    ASSUME NEW c, NEW U, NEW S, NEW r, ~Conflicting(r) => Writable(c, U, S, r),
           Counts(r) => r.no = 0
    PROVE  Gives(c, U, S, {r}, PersistNew(r))
<1>1. CASE Conflicting(r)
  BY <1>1, GivesRefuse DEF PersistNew
<1>2. CASE ~Conflicting(r)
  BY <1>2, GivesRevision DEF PersistNew, PersistRevision
<1> QED
  BY <1>1, <1>2

\* Two lists that rest on the same records.
LEMMA GivesBoth ==
    ASSUME NEW c, NEW U, NEW S, NEW a, NEW b, NEW p, p = a \o b,
           Gives(c, U, S, {}, a), Listed(b), Runs(a) => Gives(c, U, S, {}, b)
    PROVE  Gives(c, U, S, {}, p)
<1>1. PICK N : N = {}
  OBVIOUS
<1>2. S \cup N = S /\ N \cup N = N
  BY <1>1
<1>3. Gives(c, U, S, N \cup N, p)
  BY <1>1, <1>2, GivesJoin
<1> QED
  BY <1>1, <1>2, <1>3

\* Lists that write or tell, one after the other.
LEMMA ListedJoin ==
    ASSUME NEW a, NEW b, Listed(a), Listed(b) PROVE Listed(a \o b)
<1>1. PICK p : p = a \o b
  OBVIOUS
<1> QED
  BY <1>1, JoinedRuns

\* Setting up the project rests on nothing.
LEMMA GivesSetup ==
    ASSUME NEW c, NEW U, NEW S PROVE Gives(c, U, S, {Project}, SetupProject)
<1>1. PICK r : r = Project
  OBVIOUS
<1>2. /\ r.type = "project" /\ r.id = "fixture" /\ r.no = 0 /\ r = Project
  BY <1>1 DEF Project, Rec
<1>3. Writable(c, U, S, r) /\ ~Counts(r)
  BY <1>2 DEF Writable, Formed, Based, Derived, Counts, OfUse
<1>4. Gives(c, U, S, {r}, PersistNew(r))
  BY <1>3, GivesNew
<1> QED
  BY <1>1, <1>4 DEF SetupProject

\* The dataset that everything follows from may be written over the project.
LEMMA WritableDataset ==
    ASSUME NEW c, NEW U, NEW S, Project \in S
    PROVE  Writable(c, U, S, Dataset(c)) /\ ~Counts(Dataset(c))
<1>1. PICK r : r = Dataset(c)
  OBVIOUS
<1>2. /\ r.type = "dataset_version" /\ r.id = "fixture" /\ r.no = 0 /\ r = Dataset(c)
  BY <1>1 DEF Dataset, Rec
<1>3. Writable(c, U, S, r) /\ ~Counts(r)
  BY <1>2 DEF Writable, Formed, Based, Derived, Counts, OfUse
<1> QED
  BY <1>1, <1>3

\* An import stores the dataset, or is refused for another one.
LEMMA GivesStore ==
    ASSUME NEW c, NEW U, NEW S, NEW b, b = c \/ Conflicting(Dataset(b))
    PROVE  /\ Gives(c, U, S, {Project, Dataset(b)}, StoreDataset(b))
           /\ b # c => ~Runs(StoreDataset(b))
<1> DEFINE W == IF Conflicting(Dataset(b)) THEN Refuse ELSE Write(Dataset(b))
<1>a. PICK X : X = {Project}
  OBVIOUS
<1>b. PICK Y : Y = {Dataset(b)}
  OBVIOUS
<1>1. X = {Project} /\ Y = {Dataset(b)}
  BY <1>a, <1>b
<1>2. Gives(c, U, S, X, SetupProject) /\ Listed(SetupProject)
  BY <1>1, GivesSetup DEF Gives
<1>3. Gives(c, U, S \cup X, Y, W)
  <2>1. CASE Conflicting(Dataset(b))
    BY <2>1, GivesRefuse
  <2>2. CASE ~Conflicting(Dataset(b))
    <3>1. b = c /\ Project \in S \cup X
      BY <1>1, <2>2
    <3>2. Writable(c, U, S \cup X, Dataset(c)) /\ ~Counts(Dataset(c))
      BY <3>1, WritableDataset
    <3>3. Gives(c, U, S \cup X, {Dataset(c)}, Write(Dataset(c)))
      BY <3>2, GivesWrite
    <3> QED
      BY <1>1, <2>2, <3>1, <3>3
  <2> QED
    BY <2>1, <2>2
<1>4. b # c => ~Runs(W)
  BY GivesRefuse
<1>5. Listed(W)
  BY <1>3 DEF Gives
<1> HIDE DEF W
<1>6. PICK p : p = SetupProject \o W
  OBVIOUS
<1>7. Gives(c, U, S, X \cup Y, p)
  BY <1>2, <1>3, <1>5, <1>6, GivesJoin
<1>8. b # c => ~Runs(p)
  BY <1>2, <1>4, <1>5, <1>6, JoinedRuns
<1>9. X \cup Y = {Project, Dataset(b)} /\ p = StoreDataset(b)
  BY <1>1, <1>6 DEF StoreDataset, W
<1> QED
  BY <1>7, <1>8, <1>9

\* And is remembered when it is stored.
LEMMA GivesImport ==
    ASSUME NEW c, NEW U, NEW S, NEW b, b = c \/ Conflicting(Dataset(b))
    PROVE  Gives(c, U, S, {}, ImportDataset(b))
<1>a. PICK X : X = {Project, Dataset(b)}
  OBVIOUS
<1>b. PICK N : N = {}
  OBVIOUS
<1>1. PICK a, m : a = StoreDataset(b) /\ m = Remember("prepared", b)
  OBVIOUS
<1>2. Gives(c, U, S, X, a) /\ (b # c => ~Runs(a))
  BY <1>a, <1>1, GivesStore
<1>3. Listed(m)
  <2>1. Gives(b, U, {Dataset(b)}, {}, m)
    BY <1>1, GivesRemember DEF Known
  <2> QED
    BY <2>1 DEF Gives
<1>4. ASSUME Runs(a) PROVE Gives(c, U, S \cup X, N, m)
  <2>1. b = c /\ Dataset(c) \in S \cup X
    BY <1>a, <1>2, <1>4
  <2>2. Known(c, S \cup X, b)
    BY <2>1 DEF Known
  <2> QED
    BY <1>b, <1>1, <2>2, GivesRemember
<1>5. PICK p : p = a \o m
  OBVIOUS
<1>6. Gives(c, U, S, X \cup N, p)
  BY <1>2, <1>3, <1>4, <1>5, GivesJoin
<1>7. Gives(c, U, S, {}, p)
  BY <1>6, GivesMore
<1> QED
  BY <1>1, <1>5, <1>7 DEF ImportDataset

\* Without a dataset in memory a request sets the project up and is refused.
LEMMA GivesContext ==
    ASSUME NEW c, NEW U, NEW S
    PROVE  /\ Gives(c, U, S, {}, PreparedContext)
           /\ memory.prepared = None => ~Runs(PreparedContext)
<1>1. CASE memory.prepared = None
  <2>1. PICK a, b : a = SetupProject /\ b = Refuse
    OBVIOUS
  <2>2. Gives(c, U, S, {}, a)
    BY <2>1, GivesSetup, GivesMore
  <2>3. Gives(c, U, S, {}, b) /\ ~Runs(b)
    BY <2>1, GivesRefuse
  <2>4. PICK p : p = a \o b
    OBVIOUS
  <2>5. Listed(a) /\ Listed(b)
    BY <2>2, <2>3 DEF Gives
  <2>6. Gives(c, U, S, {}, p)
    BY <2>2, <2>3, <2>4, <2>5, GivesBoth
  <2>7. ~Runs(p)
    BY <2>3, <2>4, <2>5, JoinedRuns
  <2> QED
    BY <1>1, <2>1, <2>4, <2>6, <2>7 DEF PreparedContext
<1>2. CASE memory.prepared # None
  BY <1>2, GivesNothing DEF PreparedContext
<1> QED
  BY <1>1, <1>2

\* The resolution remembers the dataset it was made from.
LEMMA GivesResolve ==
    ASSUME NEW c, NEW U, NEW S, Known(c, S, memory.prepared)
    PROVE  Gives(c, U, S, {}, ResolveCandidates)
<1>1. PICK a, b : a = PreparedContext /\ b = Remember("resolved", memory.prepared)
  OBVIOUS
<1>2. Gives(c, U, S, {}, a)
  BY <1>1, GivesContext
<1>3. Gives(c, U, S, {}, b)
  BY <1>1, GivesRemember
<1>4. PICK p : p = a \o b
  OBVIOUS
<1>5. Gives(c, U, S, {}, p)
  BY <1>2, <1>3, <1>4, GivesBoth DEF Gives
<1> QED
  BY <1>1, <1>4, <1>5 DEF ResolveCandidates

\* The steps of a launch are a list, whatever is launched.
LEMMA ListedTrain ==
    ASSUME NEW run
    PROVE  Listed(Train(run)) /\ Listed(<<>>) /\ Listed(Refuse)
<1>1. \A r : Listed(Write(r))
  BY NewRuns
<1>2. \A kind, r : Listed(Tell(kind, r))
  BY GivesTell DEF Gives
<1>3. PICK N : N = {}
  OBVIOUS
<1>4. \A mark \in {"claim", "resolve"} : Listed(<<[do |-> mark, run |-> run]>>)
  BY GivesMark DEF Gives
<1>5. PICK t1, t2 : t1 = "claim" /\ t2 = "resolve"
  OBVIOUS
<1>6. PICK x, y : x = <<[do |-> t1, run |-> run]>> /\ y = <<[do |-> t2, run |-> run]>>
  OBVIOUS
<1>7. Listed(x) /\ Listed(y)
  BY <1>4, <1>5, <1>6
<1>8. Train(run) = x \o Write(run) \o Tell("run_launched", run)
          \o Write(Artifact(run)) \o Write(Availability(Artifact(run)))
          \o Tell("run_completed", run) \o y
  BY <1>5, <1>6 DEF Train
<1>9. Listed(x \o Write(run) \o Tell("run_launched", run)
             \o Write(Artifact(run)) \o Write(Availability(Artifact(run)))
             \o Tell("run_completed", run) \o y)
  BY <1>1, <1>2, <1>7, ListedJoin
<1>10. Listed(Refuse)
  BY GivesRefuse DEF Gives
<1>11. Listed(<<>>)
  BY GivesNothing DEF Gives
<1> QED
  BY <1>8, <1>9, <1>10, <1>11

\* And so are those of a candidate.
LEMMA ListedLaunch ==
    ASSUME NEW k, NEW prepared, NEW resolved
    PROVE  Listed(LaunchCandidate(k, prepared, resolved))
<1>1. PICK run : run = Run(k, prepared, resolved)
  OBVIOUS
<1> DEFINE t == IF ~Begun(k) /\ claims[k] # "claimed" THEN Train(run)
                ELSE IF Of("run", k) = {run} /\ <<"run_completed", run>> \in events THEN <<>>
                ELSE Refuse
<1>2. Listed(t)
  BY ListedTrain
<1>3. Listed(PersistNew(Experiment(k, prepared)))
  BY NewRuns
<1>4. LaunchCandidate(k, prepared, resolved) = PersistNew(Experiment(k, prepared)) \o t
  BY <1>1 DEF LaunchCandidate
<1> HIDE DEF t
<1>5. Listed(PersistNew(Experiment(k, prepared)) \o t)
  BY <1>2, <1>3, ListedJoin
<1> QED
  BY <1>4, <1>5

\* A run of the dataset's rests on the dataset, its artifact on its experiment.
LEMMA WritableRun ==
    ASSUME NEW c, NEW U, NEW S, Dataset(c) \in S, NEW k \in Candidate
    PROVE  /\ Writable(c, U, S, Experiment(k, c)) /\ ~Counts(Experiment(k, c))
           /\ Writable(c, U, S, RunOf(k, c)) /\ ~Counts(RunOf(k, c))
           /\ Experiment(k, c) \in S =>
                  Writable(c, U, S, ArtifactFrom(k, c)) /\ ~Counts(ArtifactFrom(k, c))
           /\ Writable(c, U, S, Availability(ArtifactFrom(k, c)))
           /\ ~Counts(Availability(ArtifactFrom(k, c)))
<1>1. PICK e : e = Experiment(k, c)
  OBVIOUS
<1>2. e.type = "experiment" /\ e.id = k /\ e.no = 0
  BY <1>1 DEF Experiment, Rec
<1>3. Writable(c, U, S, e) /\ ~Counts(e)
  BY <1>1, <1>2 DEF Writable, Formed, Based, Derived, Counts, OfUse
<1>4. PICK r : r = RunOf(k, c)
  OBVIOUS
<1>5. r.type = "run" /\ r.id = k /\ r.no = 0
  BY <1>4 DEF RunOf, Run, Rec
<1>6. Writable(c, U, S, r) /\ ~Counts(r)
  BY <1>4, <1>5 DEF Writable, Formed, Based, Derived, Counts, OfUse
<1>7. PICK a : a = ArtifactFrom(k, c)
  OBVIOUS
<1>8. a.type = "artifact" /\ a.id = k /\ a.no = 0
  BY <1>4, <1>5, <1>7 DEF ArtifactFrom, Artifact, Rec
<1>9. e \in S => Writable(c, U, S, a) /\ ~Counts(a)
  <2>1. Formed(c, a)
    BY <1>7, <1>8 DEF Formed
  <2>2. e \in S => Based(c, S, a)
    BY <1>2, <1>8 DEF Based, Derived
  <2>3. ~OfUse(a) /\ ~Counts(a)
    BY <1>8 DEF OfUse, Counts
  <2> QED
    BY <2>1, <2>2, <2>3 DEF Writable
<1>10. PICK v : v = Availability(a)
  OBVIOUS
<1>11. v.type = "artifact_availability" /\ v.id = k /\ v.no = 0
  BY <1>8, <1>10 DEF Availability, Rec
<1>12. Writable(c, U, S, v) /\ ~Counts(v)
  BY <1>10, <1>11 DEF Writable, Formed, Based, Derived, Counts, OfUse
<1> QED
  BY <1>1, <1>3, <1>4, <1>6, <1>7, <1>9, <1>10, <1>12

\* Two lists of which neither needs the other.
LEMMA GivesPair ==
    ASSUME NEW c, NEW U, NEW S, NEW a, NEW b, Gives(c, U, S, {}, a), Gives(c, U, S, {}, b)
    PROVE  Gives(c, U, S, {}, a \o b)
<1>1. PICK p : p = a \o b
  OBVIOUS
<1>2. Listed(b)
  BY DEF Gives
<1>3. Gives(c, U, S, {}, p)
  BY <1>1, <1>2, GivesBoth
<1> QED
  BY <1>1, <1>3

\* A record of which nothing is asked later.
LEMMA GivesOnly ==
    ASSUME NEW c, NEW U, NEW S, NEW r, Writable(c, U, S, r), ~Counts(r)
    PROVE  Gives(c, U, S, {}, Write(r))
  BY GivesWrite, GivesMore

\* A launch rests on the experiment and its dataset.
LEMMA GivesTrain ==
    ASSUME NEW c, NEW U, NEW S, NEW k \in Candidate, Dataset(c) \in S, Experiment(k, c) \in S
    PROVE  Gives(c, U, S, {}, Train(RunOf(k, c)))
<1>1. PICK run : run = RunOf(k, c)
  OBVIOUS
<1>2. PICK t1, t2 : t1 = "claim" /\ t2 = "resolve"
  OBVIOUS
<1>3. PICK x, y : x = <<[do |-> t1, run |-> run]>> /\ y = <<[do |-> t2, run |-> run]>>
  OBVIOUS
<1>4. Gives(c, U, S, {}, x) /\ Gives(c, U, S, {}, y)
  BY <1>2, <1>3, GivesMark
<1>5. Artifact(run) = ArtifactFrom(k, c)
  BY <1>1 DEF ArtifactFrom
<1>6. /\ Gives(c, U, S, {}, Write(run)) /\ Gives(c, U, S, {}, Write(Artifact(run)))
      /\ Gives(c, U, S, {}, Write(Availability(Artifact(run))))
  BY <1>1, <1>5, WritableRun, GivesOnly
<1>7. \A kind : Gives(c, U, S, {}, Tell(kind, run))
  BY GivesTell
<1>8. Train(run) = x \o Write(run) \o Tell("run_launched", run)
          \o Write(Artifact(run)) \o Write(Availability(Artifact(run)))
          \o Tell("run_completed", run) \o y
  BY <1>2, <1>3 DEF Train
<1>9. Gives(c, U, S, {}, x \o Write(run) \o Tell("run_launched", run))
  BY <1>4, <1>6, <1>7, GivesPair
<1>10. Gives(c, U, S, {}, x \o Write(run) \o Tell("run_launched", run)
             \o Write(Artifact(run)) \o Write(Availability(Artifact(run))))
  BY <1>6, <1>9, GivesPair
<1>11. Gives(c, U, S, {}, x \o Write(run) \o Tell("run_launched", run)
             \o Write(Artifact(run)) \o Write(Availability(Artifact(run)))
             \o Tell("run_completed", run) \o y)
  BY <1>4, <1>7, <1>10, GivesPair
<1> QED
  BY <1>1, <1>8, <1>11

\* A candidate is launched over its dataset.
LEMMA GivesLaunch ==
    ASSUME NEW c, NEW U, NEW S, NEW k \in Candidate, Dataset(c) \in S
    PROVE  Gives(c, U, S, {}, LaunchCandidate(k, c, c))
<1>1. PICK run : run = Run(k, c, c)
  OBVIOUS
<1> DEFINE t == IF ~Begun(k) /\ claims[k] # "claimed" THEN Train(run)
                ELSE IF Of("run", k) = {run} /\ <<"run_completed", run>> \in events THEN <<>>
                ELSE Refuse
<1>2. PICK X : X = {Experiment(k, c)}
  OBVIOUS
<1>3. PICK N : N = {}
  OBVIOUS
<1>4. Gives(c, U, S, X, PersistNew(Experiment(k, c)))
  <2>1. Writable(c, U, S, Experiment(k, c)) /\ ~Counts(Experiment(k, c))
    BY WritableRun
  <2> QED
    BY <1>2, <2>1, GivesNew
<1>5. Gives(c, U, S \cup X, N, t)
  <2>1. Gives(c, U, S \cup X, N, Train(run))
    BY <1>1, <1>2, <1>3, GivesTrain DEF RunOf
  <2>2. Gives(c, U, S \cup X, N, <<>>) /\ Gives(c, U, S \cup X, N, Refuse)
    BY <1>3, GivesNothing, GivesRefuse
  <2> QED
    BY <2>1, <2>2
<1>6. LaunchCandidate(k, c, c) = PersistNew(Experiment(k, c)) \o t
  BY <1>1 DEF LaunchCandidate
<1> HIDE DEF t
<1>7. PICK p : p = PersistNew(Experiment(k, c)) \o t
  OBVIOUS
<1>8. Listed(t)
  BY <1>5 DEF Gives
<1>9. Gives(c, U, S, X \cup N, p)
  BY <1>4, <1>5, <1>7, <1>8, GivesJoin
<1> QED
  BY <1>6, <1>7, <1>9, GivesMore

\* The launch of both, of the dataset that is remembered.
LEMMA GivesLaunches ==
    ASSUME NEW c, NEW U, NEW S, Known(c, S, memory.prepared), Known(c, S, memory.resolved)
    PROVE  Gives(c, U, S, {}, LaunchCandidates)
<1>1. PICK v : v = memory.prepared
  OBVIOUS
<1>2. PICK w : w = IF memory.resolved = None THEN memory.prepared ELSE memory.resolved
  OBVIOUS
<1>3. PICK a : a = PreparedContext
  OBVIOUS
<1>4. PICK e, s : e = LaunchCandidate("ember", v, w) /\ s = LaunchCandidate("slate", v, w)
  OBVIOUS
<1>5. PICK m : m = Remember("resolved", w)
  OBVIOUS
<1>6. Gives(c, U, S, {}, a) /\ (v = None => ~Runs(a))
  BY <1>1, <1>3, GivesContext
<1>7. Gives(c, U, S, {}, m)
  BY <1>2, <1>5, GivesRemember
<1>8. Listed(e) /\ Listed(s) /\ Listed(m) /\ Listed(a)
  BY <1>4, <1>6, <1>7, ListedLaunch DEF Gives
<1>9. PICK p : p = a \o m \o e \o s
  OBVIOUS
<1>10. p = LaunchCandidates
  BY <1>1, <1>2, <1>3, <1>4, <1>5, <1>9 DEF LaunchCandidates
<1>11. PICK am : am = a \o m
  OBVIOUS
<1>12. PICK ame : ame = am \o e
  OBVIOUS
<1>13. Gives(c, U, S, {}, am) /\ (v = None => ~Runs(am)) /\ Listed(am)
  <2>1. Gives(c, U, S, {}, am)
    BY <1>6, <1>7, <1>8, <1>11, GivesBoth
  <2>2. v = None => ~Runs(am)
    BY <1>6, <1>8, <1>11, JoinedRuns
  <2> QED
    BY <2>1, <2>2 DEF Gives
<1>14. v # None => v = c /\ w = c /\ Dataset(c) \in S
  BY <1>1, <1>2 DEF Known
<1>15. v # None => Gives(c, U, S, {}, e) /\ Gives(c, U, S, {}, s)
  BY <1>4, <1>14, GivesLaunch DEF Candidate
<1>16. Gives(c, U, S, {}, ame) /\ (v = None => ~Runs(ame)) /\ Listed(ame)
  <2>1. Gives(c, U, S, {}, ame)
    BY <1>8, <1>12, <1>13, <1>15, GivesBoth
  <2>2. v = None => ~Runs(ame)
    BY <1>8, <1>12, <1>13, JoinedRuns
  <2> QED
    BY <2>1, <2>2 DEF Gives
<1>17. p = ame \o s
  BY <1>9, <1>11, <1>12
<1>18. Gives(c, U, S, {}, p)
  BY <1>8, <1>15, <1>16, <1>17, GivesBoth
<1> QED
  BY <1>10, <1>18

\* A record that no stage rests on and that rests on no other.
LEMMA WritableLoose ==
    ASSUME NEW c, NEW U, NEW S, NEW r, r.no = 0,
           r.type \in {"evaluation_suite", "recommendation_policy", "local_use_session",
                       "adapter_export"},
           r.type = "evaluation_suite" => r.id # "confirmation" \/ r \in {Unsealed, SealedSuite},
           r.type = "recommendation_policy" => r = Policy,
           r.type \in {"local_use_session", "adapter_export"} => r.id \in {"focused", "runtime"}
    PROVE  Writable(c, U, S, r)
<1>1. r.id \in {"focused", "runtime"} => r.id \notin Candidate
  BY DEF Candidate
<1>2. Formed(c, r)
  BY <1>1 DEF Formed
<1>3. Based(c, S, r)
  BY <1>1 DEF Based, Derived
<1>4. ~OfUse(r)
  BY DEF OfUse
<1> QED
  BY <1>2, <1>3, <1>4 DEF Writable

\* The command that does without a decision rests on the built-in dataset, and
\* its session and its export are not among those the UI asks for.
LEMMA GivesLegacy ==
    ASSUME NEW c, NEW U, NEW S, Fixture = c \/ Conflicting(Dataset(Fixture))
    PROVE  Gives(c, U, S, {}, LegacyWorkflow)
<1>1. PICK run : run = Run("ember", Fixture, Fixture)
  OBVIOUS
<1>2. PICK r : r = Rec("local_use_session", "focused", 0, "session", {Artifact(run)})
  OBVIOUS
<1>3. PICK x : x = Rec("adapter_export", "runtime", 0, "bundle", {Artifact(run)})
  OBVIOUS
<1>4. PICK a : a = StoreDataset(Fixture)
  OBVIOUS
<1>5. PICK l : l = LaunchCandidate("ember", Fixture, Fixture)
  OBVIOUS
<1>6. PICK X : X = {Project, Dataset(Fixture)}
  OBVIOUS
<1>7. PICK N : N = {}
  OBVIOUS
<1>8. Gives(c, U, S, X, a) /\ (Fixture # c => ~Runs(a))
  BY <1>4, <1>6, GivesStore
<1>9. Listed(l) /\ Listed(a)
  BY <1>5, <1>8, ListedLaunch DEF Gives
<1>10. Runs(a) => Gives(c, U, S \cup X, N, l)
  <2>1. Runs(a) => Fixture = c /\ Dataset(c) \in S \cup X
    BY <1>6, <1>8
  <2>2. "ember" \in Candidate
    BY DEF Candidate
  <2> QED
    BY <1>5, <1>7, <2>1, <2>2, GivesLaunch
<1>11. PICK al : al = a \o l
  OBVIOUS
<1>12. Gives(c, U, S, {}, al) /\ Listed(al)
  <2>1. Gives(c, U, S, X \cup N, al)
    BY <1>8, <1>9, <1>10, <1>11, GivesJoin
  <2> QED
    BY <2>1, GivesMore DEF Gives
<1>13. Gives(c, U, S, {}, PersistNew(r)) /\ Gives(c, U, S, {}, PersistNew(x))
  <2>1. r.type = "local_use_session" /\ r.id = "focused" /\ r.no = 0
    BY <1>2 DEF Rec
  <2>2. x.type = "adapter_export" /\ x.id = "runtime" /\ x.no = 0
    BY <1>3 DEF Rec
  <2>3. Writable(c, U, S, r) /\ Writable(c, U, S, x)
    BY <2>1, <2>2, WritableLoose
  <2> QED
    BY <2>1, <2>2, <2>3, GivesNew, GivesMore DEF Counts
<1>14. LegacyWorkflow = a \o l \o PersistNew(r) \o PersistNew(x)
  BY <1>1, <1>2, <1>3, <1>4, <1>5 DEF LegacyWorkflow
<1>15. Gives(c, U, S, {}, al \o PersistNew(r) \o PersistNew(x))
  BY <1>12, <1>13, GivesPair
<1> QED
  BY <1>11, <1>14, <1>15

\* The artifact of a candidate is the one its dataset makes.
LEMMA OneArtifact ==
    ASSUME NEW c, Stored(c), NEW k \in Candidate, Of("artifact", k) # {}
    PROVE  /\ Of("artifact", k) = {ArtifactFrom(k, c)} /\ ArtifactOf(k) = ArtifactFrom(k, c)
           /\ Dataset(c) \in records /\ \E e \in records : e.type = "experiment"
<1>1. \A r \in Of("artifact", k) : r = ArtifactFrom(k, c)
  <2>1. ASSUME NEW r \in Of("artifact", k) PROVE r = ArtifactFrom(k, c)
    <3>1. r \in records /\ r.type = "artifact" /\ r.id = k
      BY DEF Of
    <3>2. PICK h \in Candidate : r = ArtifactFrom(h, c)
      BY <3>1 DEF Stored, Formed
    <3>3. r.id = h
      BY <3>2 DEF ArtifactFrom, Artifact, RunOf, Run, Rec
    <3> QED
      BY <3>1, <3>2, <3>3
  <2> QED
    BY <2>1
<1>2. Of("artifact", k) = {ArtifactFrom(k, c)}
  BY <1>1
<1>3. ArtifactOf(k) = ArtifactFrom(k, c)
  BY <1>2 DEF ArtifactOf
<1>4. PICK r \in records : r.type = "artifact"
  BY DEF Of
<1>5. Dataset(c) \in records /\ \E e \in records : e.type = "experiment"
  BY <1>4 DEF Stored, Based, Derived
<1> QED
  BY <1>2, <1>3, <1>5

\* The confirmation suite is registered, or sealed.
LEMMA TwoRevisions ==
    ASSUME NEW c, Stored(c)
    PROVE  /\ CurrentSuite("confirmation") \in {Unsealed, SealedSuite}
           /\ Confirmation = SealedSuite
           /\ Unsealed.no = 0 /\ SealedSuite.no = 1
           /\ Unsealed.type = "evaluation_suite" /\ SealedSuite.type = "evaluation_suite"
           /\ Unsealed.body = "unsealed" /\ SealedSuite.body = "sealed"
           /\ Unsealed.id = "confirmation" /\ SealedSuite.id = "confirmation"
<1>1. PICK u : u = Unsealed
  OBVIOUS
<1>2. u.no = 0 /\ u.type = "evaluation_suite" /\ u.body = "unsealed" /\ u.id = "confirmation"
  BY <1>1 DEF Unsealed, Suite, Rec
<1>3. PICK s : s = SealedSuite
  OBVIOUS
<1>4. s.no = 1 /\ s.type = "evaluation_suite" /\ s.body = "sealed" /\ s.id = "confirmation"
  BY <1>1, <1>2, <1>3 DEF SealedSuite, Revised, Suite, Rec
<1>5. s = Revised(u, "sealed", {})
  BY <1>1, <1>3 DEF SealedSuite
<1>6. \A r \in Of("evaluation_suite", "confirmation") : r \in {u, s}
  BY <1>1, <1>3 DEF Stored, Formed, Of
<1>7. CurrentSuite("confirmation") \in {u, s}
  <2>1. CASE Of("evaluation_suite", "confirmation") = {}
    BY <1>1, <2>1 DEF CurrentSuite, Unsealed
  <2>2. CASE Of("evaluation_suite", "confirmation") # {}
    <3>1. PICK R : R = Of("evaluation_suite", "confirmation")
      OBVIOUS
    <3>2. \E t \in R : \A r \in R : r.no <= t.no
      <4>1. CASE s \in R
        BY <1>2, <1>4, <1>6, <3>1, <4>1
      <4>2. CASE s \notin R
        BY <1>2, <1>6, <2>2, <3>1, <4>2
      <4> QED
        BY <4>1, <4>2
    <3>3. CurrentSuite("confirmation") = CHOOSE t \in R : \A r \in R : r.no <= t.no
      BY <2>2, <3>1 DEF CurrentSuite
    <3>4. CurrentSuite("confirmation") \in R
      BY <3>2, <3>3
    <3> QED
      BY <1>6, <3>1, <3>4
  <2> QED
    BY <2>1, <2>2
<1>8. Confirmation = s
  BY <1>2, <1>4, <1>5, <1>7 DEF Confirmation
<1> QED
  BY <1>1, <1>2, <1>3, <1>4, <1>7, <1>8

\* A comparison writes nothing.
LEMMA GivesCompare ==
    ASSUME NEW c, NEW U, NEW S PROVE Gives(c, U, S, {}, Compare)
<1>1. Gives(c, U, S, {}, Remember("compared", TRUE)) /\ Gives(c, U, S, {}, Refuse)
  BY GivesRemember, GivesRefuse
<1> QED
  BY <1>1 DEF Compare

\* A suite that is not there is registered.
LEMMA GivesSuite ==
    ASSUME NEW c, NEW U, NEW S, NEW kind
    PROVE  Gives(c, U, S, {}, EnsureSuite(kind))
<1>1. CASE Of("evaluation_suite", kind) = {}
  <2>1. PICK s : s = Suite(kind, 0, "unsealed", {})
    OBVIOUS
  <2>2. s.type = "evaluation_suite" /\ s.id = kind /\ s.no = 0
    BY <2>1 DEF Suite, Rec
  <2>3. kind = "confirmation" => s = Unsealed
    BY <2>1 DEF Unsealed
  <2>4. Writable(c, U, S, s) /\ ~Counts(s)
    BY <2>2, <2>3, WritableLoose DEF Counts
  <2>5. Gives(c, U, S, {}, PersistNew(s))
    BY <2>4, GivesNew, GivesMore
  <2> QED
    BY <1>1, <2>1, <2>5 DEF EnsureSuite, CurrentSuite
<1>2. CASE Of("evaluation_suite", kind) # {}
  BY <1>2, GivesNothing DEF EnsureSuite
<1> QED
  BY <1>1, <1>2

\* The policy and the results rest on artifacts that are there, and so does the
\* recommendation.
LEMMA WritableVerdicts ==
    ASSUME NEW c, NEW U, Stored(c), \A k \in Candidate : Inspectable(k), NEW S, S = records
    PROVE  /\ Writable(c, U, S, SealedSuite) /\ ~Counts(SealedSuite)
           /\ Writable(c, U, S, Policy) /\ ~Counts(Policy)
           /\ \A k \in Candidate : Writable(c, U, S, Result(k)) /\ ~Counts(Result(k))
           /\ Writable(c, U, S, Recommendation) /\ ~Counts(Recommendation)
<1>1. /\ SealedSuite.no \in Nat /\ SealedSuite.type = "evaluation_suite"
      /\ SealedSuite.id = "confirmation" /\ Confirmation = SealedSuite
  BY TwoRevisions
<1>2. Writable(c, U, S, SealedSuite) /\ ~Counts(SealedSuite)
  BY <1>1 DEF Writable, Formed, Based, Derived, Counts, OfUse
<1>3. PICK p : p = Policy
  OBVIOUS
<1>4. p.type = "recommendation_policy" /\ p.id = "fixture" /\ p.no = 0
  BY <1>3 DEF Policy, Rec
<1>5. Writable(c, U, S, p) /\ ~Counts(p)
  BY <1>3, <1>4, WritableLoose DEF Counts
<1>6. \A k \in Candidate : ArtifactOf(k) = ArtifactFrom(k, c) /\ Dataset(c) \in S
  BY OneArtifact DEF Inspectable
<1>7. Dataset(c) \in S
  <2>1. "ember" \in Candidate
    BY DEF Candidate
  <2> QED
    BY <1>6, <2>1
<1>8. \A k \in Candidate : Result(k) = ResultFrom(k, c)
  BY <1>1, <1>6 DEF Result, ResultFrom
<1>9. ASSUME NEW k \in Candidate PROVE Writable(c, U, S, Result(k)) /\ ~Counts(Result(k))
  <2>1. PICK r : r = Result(k)
    OBVIOUS
  <2>2. r.type = "evaluation_result" /\ r.id = k /\ r.no = 0
    BY <2>1 DEF Result, Rec
  <2>3. r = ResultFrom(k, c)
    BY <1>8, <2>1
  <2>4. Writable(c, U, S, r) /\ ~Counts(r)
    BY <1>7, <2>2, <2>3 DEF Writable, Formed, Based, Derived, Counts, OfUse
  <2> QED
    BY <2>1, <2>4
<1>10. PICK w : w = Recommendation
  OBVIOUS
<1>11. w.type = "recommendation" /\ w.id = "fixture" /\ w.no = 0
  BY <1>10 DEF Recommendation, Rec
<1>12. w = RecommendationFrom(c)
  <2>1. {Result(k) : k \in Candidate} = {ResultFrom(k, c) : k \in Candidate}
    BY <1>8
  <2> QED
    BY <1>10, <2>1 DEF Recommendation, RecommendationFrom
<1>13. \A k \in Candidate :
          OfIn(S, "artifact", k) # {} /\ OfIn(S, "artifact_availability", k) # {}
  BY DEF Inspectable, Of, OfIn
<1>14. Writable(c, U, S, w) /\ ~Counts(w)
  BY <1>7, <1>11, <1>12, <1>13 DEF Writable, Formed, Based, Derived, Counts, OfUse
<1> QED
  BY <1>2, <1>3, <1>5, <1>9, <1>10, <1>14

\* The evaluation rests on the artifacts it inspected.
LEMMA GivesEvaluation ==
    ASSUME NEW c, NEW U, Stored(c)
    PROVE  Gives(c, U, records, {}, EvaluateCandidates)
<1>1. CASE \E k \in Candidate : ~Inspectable(k)
  BY <1>1, GivesRefuse DEF EvaluateCandidates
<1>2. CASE \A k \in Candidate : Inspectable(k)
  <2>1. PICK S : S = records
    OBVIOUS
  <2>2. /\ Writable(c, U, S, SealedSuite) /\ ~Counts(SealedSuite)
        /\ Writable(c, U, S, Policy) /\ ~Counts(Policy)
        /\ \A k \in Candidate : Writable(c, U, S, Result(k)) /\ ~Counts(Result(k))
        /\ Writable(c, U, S, Recommendation) /\ ~Counts(Recommendation)
    BY <1>2, <2>1, WritableVerdicts
  <2>3. Gives(c, U, S, {}, EnsureSuite("development"))
        /\ Gives(c, U, S, {}, EnsureSuite("confirmation"))
    BY GivesSuite
  <2>4. PICK m : m = IF CurrentSuite("confirmation").body = "unsealed"
                     THEN PersistRevision(Confirmation) ELSE <<>>
    OBVIOUS
  <2>5. Gives(c, U, S, {}, m)
    <3>1. Confirmation = SealedSuite
      BY TwoRevisions
    <3>2. Gives(c, U, S, {SealedSuite}, PersistRevision(SealedSuite))
      BY <2>2, GivesRevision
    <3>3. Gives(c, U, S, {}, PersistRevision(SealedSuite)) /\ Gives(c, U, S, {}, <<>>)
      BY <3>2, GivesMore, GivesNothing
    <3> QED
      BY <2>4, <3>1, <3>3
  <2>6. \A r : Writable(c, U, S, r) /\ ~Counts(r) => Gives(c, U, S, {}, PersistNew(r))
    BY GivesNew, GivesMore
  <2>7. "ember" \in Candidate /\ "slate" \in Candidate
    BY DEF Candidate
  <2>8. /\ Gives(c, U, S, {}, PersistNew(Policy))
        /\ Gives(c, U, S, {}, PersistNew(Result("ember")))
        /\ Gives(c, U, S, {}, PersistNew(Result("slate")))
        /\ Gives(c, U, S, {}, PersistNew(Recommendation))
    BY <2>2, <2>6, <2>7
  <2>9. Gives(c, U, S, {}, EnsureSuite("development") \o EnsureSuite("confirmation") \o m)
    BY <2>3, <2>5, GivesPair
  <2>10. Gives(c, U, S, {}, EnsureSuite("development") \o EnsureSuite("confirmation") \o m
             \o PersistNew(Policy) \o PersistNew(Result("ember")))
    BY <2>8, <2>9, GivesPair
  <2>11. Gives(c, U, S, {}, EnsureSuite("development") \o EnsureSuite("confirmation") \o m
             \o PersistNew(Policy) \o PersistNew(Result("ember"))
             \o PersistNew(Result("slate")) \o PersistNew(Recommendation))
    BY <2>8, <2>10, GivesPair
  <2>12. EvaluateCandidates = EnsureSuite("development") \o EnsureSuite("confirmation") \o m
             \o PersistNew(Policy) \o PersistNew(Result("ember"))
             \o PersistNew(Result("slate")) \o PersistNew(Recommendation)
    BY <1>2, <2>4 DEF EvaluateCandidates
  <2> QED
    BY <2>1, <2>11, <2>12
<1> QED
  BY <1>1, <1>2

\* A revision of a suite that is not the confirmation's.
LEMMA WritableSuite ==
    ASSUME NEW c, NEW U, NEW S, NEW r, r.no \in Nat,
           r.type = "evaluation_suite", r.id # "confirmation"
    PROVE  Writable(c, U, S, r) /\ ~Counts(r)
  BY DEF Writable, Formed, Based, Derived, Counts, OfUse

\* The number of a new record.
LEMMA NextNumber ==
    ASSUME NEW c, Stored(c), NEW type, NEW id
    PROVE  /\ IsFiniteSet(Of(type, id)) /\ Cardinality(Of(type, id)) \in Nat
           /\ NextLogicalId(type, id) \in Nat \ {0}
           /\ NextLogicalId(type, id) = Cardinality(Of(type, id)) + 1
<1>1. IsFiniteSet(records) /\ Of(type, id) \subseteq records
  BY DEF Stored, Of
<1>2. IsFiniteSet(Of(type, id))
  BY <1>1, FS_Subset
<1>3. Cardinality(Of(type, id)) \in Nat
  BY <1>2, FS_CardinalityType
<1> QED
  BY <1>2, <1>3 DEF NextLogicalId

\* A revision over exactly what is stored, and the record it adds.
LEMMA RevisionSound ==
    ASSUME NEW c, NEW U, NEW S, NEW r, Writable(c, U, S, r)
    PROVE  Sound(c, U, S, PersistRevision(r)) /\ r \in Written(PersistRevision(r))
<1>1. PICK a, b : a = Write(r) /\ b = Tell("recorded", r)
  OBVIOUS
<1>2. Sound(c, U, S, a) /\ Listed(a) /\ r \in Written(a)
  <2>1. Sound(c, U, S, a)
    BY <1>1, WriteSound
  <2>2. 1 \in DOMAIN a /\ a[1].do = "write" /\ a[1].record = r
    BY <1>1 DEF Write
  <2> QED
    BY <1>1, <2>1, <2>2, NewRuns DEF Written
<1>3. PICK T : T = S \cup Written(a)
  OBVIOUS
<1>4. Gives(c, U, T, {}, b)
  BY <1>1, GivesTell
<1>5. Listed(b) /\ Sound(c, U, S \cup Written(a), b)
  BY <1>3, <1>4 DEF Gives
<1>6. PICK p : p = a \o b
  OBVIOUS
<1>7. Sound(c, U, S, p)
  BY <1>2, <1>5, <1>6, SoundJoin
<1>8. Written(p) = Written(a) \cup Written(b)
  BY <1>2, <1>5, <1>6, JoinedRuns
<1>9. p = PersistRevision(r)
  BY <1>1, <1>6 DEF PersistRevision
<1> QED
  BY <1>2, <1>7, <1>8, <1>9

\* A review may be written whose number is not beyond the next one.
LEMMA WritableReview ==
    ASSUME NEW c, NEW U, Stored(c), NEW r, r.type = "review", r.no \in Nat,
           r.no <= NextLogicalId("review", r.id)
    PROVE  Writable(c, U, records, r)
<1>1. OfIn(records, r.type, r.id) = Of("review", r.id)
  BY DEF OfIn, Of
<1>2. r.no <= Cardinality(Of("review", r.id)) + 1
  BY NextNumber
<1>3. Formed(c, r) /\ Based(c, records, r) /\ ~OfUse(r)
  BY DEF Formed, Based, Derived, OfUse
<1> QED
  BY <1>1, <1>2, <1>3 DEF Writable

\* The packet that is remembered is among the reviews that are counted.
LEMMA PacketCounted ==
    ASSUME NEW c, Stored(c), Remembered(c), memory.packet # 0
    PROVE  memory.packet \in Nat /\ memory.packet <= NextLogicalId("review", "blind")
<1>1. PICK r \in OfIn(records, "review", "blind") : r.no = memory.packet
  BY DEF Remembered, Packet
<1>2. r \in records /\ r.type = "review" /\ r.id = "blind"
  BY DEF OfIn
<1>3. r.no \in Nat /\ r.no <= Cardinality(Of("review", "blind"))
  BY <1>2 DEF Stored, Formed, Counts
<1> QED
  BY <1>1, <1>3, NextNumber

\* The reviews are numbered after those that are stored; a blind one is sealed and
\* revealed under the number of its packet.
LEMMA SoundReviews ==
    ASSUME NEW c, NEW U, Stored(c), Remembered(c)
    PROVE  /\ Sound(c, U, records, RecordSoloReview)
           /\ Sound(c, U, records, PrepareBlindReview)
           /\ Sound(c, U, records, SealBlindReview)
           /\ Sound(c, U, records, RevealBlindReview)
<1>1. Sound(c, U, records, Refuse)
  BY GivesRefuse DEF Gives
<1>2. \A id, no, stage, refs :
          /\ Review(id, no, stage, refs).type = "review" /\ Review(id, no, stage, refs).id = id
          /\ Review(id, no, stage, refs).no = no
  BY DEF Review, Rec
<1>3. \A id, no, stage, refs : no \in Nat /\ no <= NextLogicalId("review", id) =>
          Writable(c, U, records, Review(id, no, stage, refs))
  BY <1>2, WritableReview
<1>4. \A id : NextLogicalId("review", id) \in Nat
  BY NextNumber
<1>5. Sound(c, U, records, RecordSoloReview)
  <2>1. PICK r : r = Review("solo", NextLogicalId("review", "solo"), "recorded",
                            {ArtifactOf(k) : k \in Candidate})
    OBVIOUS
  <2>2. Writable(c, U, records, r)
    BY <1>3, <1>4, <2>1
  <2>3. Sound(c, U, records, PersistNew(r))
    BY <2>2, NewSound
  <2> QED
    BY <1>1, <2>1, <2>3 DEF RecordSoloReview
<1>6. Sound(c, U, records, PrepareBlindReview)
  <2>1. PICK no : no = NextLogicalId("review", "blind")
    OBVIOUS
  <2>2. PICK r : r = Preparation(no)
    OBVIOUS
  <2>3. Writable(c, U, records, r) /\ r.type = "review" /\ r.id = "blind" /\ r.no = no
    BY <1>2, <1>3, <1>4, <2>1, <2>2 DEF Preparation
  <2>4. PICK a : a = PersistNew(r)
    OBVIOUS
  <2>5. PICK m, z : m = Remember("packet", no) /\ z = Remember("sealed", 0)
    OBVIOUS
  <2>6. Sound(c, U, records, a) /\ Listed(a)
    BY <2>3, <2>4, NewSound, NewRuns
  <2>7. PICK T : T = records \cup Written(a)
    OBVIOUS
  <2>8. ASSUME Runs(a) PROVE Packet(T, no)
    <3>1. a = PersistRevision(r)
      BY <2>4, <2>8, NewRuns DEF PersistNew, PersistRevision
    <3>2. r \in T
      BY <2>3, <2>7, <3>1, RevisionSound
    <3> QED
      BY <2>3, <3>2 DEF Packet, OfIn
  <2>9. Listed(m) /\ Listed(z)
    <3>1. \A x : Listed(<<x>>)
      BY DEF Listed, ToSet
    <3> QED
      BY <2>5, <3>1 DEF Remember
  <2>10. ASSUME Runs(a) PROVE Sound(c, U, T, m)
    <3>1. Gives(c, U, T, {}, m)
      BY <2>5, <2>8, <2>10, GivesRemember
    <3> QED
      BY <3>1 DEF Gives
  <2>11. PICK am : am = a \o m
    OBVIOUS
  <2>12. Sound(c, U, records, am) /\ Listed(am)
    BY <2>6, <2>7, <2>9, <2>10, <2>11, SoundJoin, JoinedRuns
  <2>13. PICK V : V = records \cup Written(am)
    OBVIOUS
  <2>14. Gives(c, U, V, {}, z)
    BY <2>5, GivesRemember
  <2>15. Sound(c, U, records \cup Written(am), z)
    BY <2>13, <2>14 DEF Gives
  <2>16. PICK p : p = am \o z
    OBVIOUS
  <2>17. Sound(c, U, records, p)
    BY <2>9, <2>12, <2>15, <2>16, SoundJoin
  <2>18. memory.compared => PrepareBlindReview = a \o m \o z
    BY <2>1, <2>2, <2>4, <2>5 DEF PrepareBlindReview
  <2>19. ~memory.compared => PrepareBlindReview = Refuse
    BY DEF PrepareBlindReview
  <2> QED
    BY <1>1, <2>11, <2>16, <2>17, <2>18, <2>19
<1>7. ASSUME memory.packet # 0, NEW stage, NEW refs
      PROVE  Sound(c, U, records, PersistRevision(Review("blind", memory.packet, stage, refs)))
  <2>1. PICK r : r = Review("blind", memory.packet, stage, refs)
    OBVIOUS
  <2>2. Writable(c, U, records, r)
    BY <1>3, <1>7, <2>1, PacketCounted
  <2> QED
    BY <2>1, <2>2, RevisionSound
<1>8. Sound(c, U, records, SealBlindReview)
  <2>1. CASE memory.packet = 0
    BY <1>1, <2>1 DEF SealBlindReview
  <2>2. CASE memory.packet # 0
    <3>1. PICK a, z : /\ a = PersistRevision(Sealed(memory.packet))
                      /\ z = Remember("sealed", memory.packet)
      OBVIOUS
    <3>2. Sound(c, U, records, a)
      BY <1>7, <2>2, <3>1 DEF Sealed
    <3>3. PICK V : V = records \cup Written(a)
      OBVIOUS
    <3>4. Gives(c, U, V, {}, z)
      BY <3>1, GivesRemember
    <3>5. Sound(c, U, records \cup Written(a), z) /\ Listed(z)
      BY <3>3, <3>4 DEF Gives
    <3>6. PICK p : p = a \o z
      OBVIOUS
    <3>7. Sound(c, U, records, p)
      BY <3>2, <3>5, <3>6, SoundJoin
    <3> QED
      BY <2>2, <3>1, <3>6, <3>7 DEF SealBlindReview
  <2> QED
    BY <2>1, <2>2
<1>9. Sound(c, U, records, RevealBlindReview)
  BY <1>1, <1>7 DEF RevealBlindReview
<1> QED
  BY <1>5, <1>6, <1>8, <1>9

\* A set of records with numbers has one that is last.
LEMMA LastRevision ==
    ASSUME NEW R, R # {}, NEW n \in Nat, \A r \in R : r.no \in 0 .. n
    PROVE  \E s \in R : \A r \in R : r.no <= s.no
<1>1. PICK D : D = {n - r.no : r \in R}
  OBVIOUS
<1>2. D \in SUBSET Nat /\ D # {}
  BY <1>1
<1>3. PICK d \in D : \A m \in D : d <= m
  <2>1. PICK d \in D : \A m \in D : ~(<<m, d>> \in OpToRel(<, Nat))
    BY <1>2, WFMin, NatLessThanWellFounded
  <2>2. \A m \in D : m \in Nat /\ d \in Nat /\ ~(m < d)
    BY <1>2, <2>1 DEF OpToRel
  <2> QED
    BY <2>2
<1>4. PICK s \in R : d = n - s.no
  BY <1>1, <1>3
<1>5. \A r \in R : n - s.no <= n - r.no
  BY <1>1, <1>3, <1>4
<1>6. \A r \in R : r.no <= s.no
  BY <1>5
<1> QED
  BY <1>6

\* The current revision of a suite is of that suite.
LEMMA CurrentRevision ==
    ASSUME NEW c, Stored(c), NEW kind
    PROVE  /\ CurrentSuite(kind).type = "evaluation_suite" /\ CurrentSuite(kind).id = kind
           /\ CurrentSuite(kind).no \in Nat
<1>1. PICK R : R = Of("evaluation_suite", kind)
  OBVIOUS
<1>2. CASE R = {}
  BY <1>1, <1>2 DEF CurrentSuite, Suite, Rec
<1>3. CASE R # {}
  <2>1. PICK n \in Nat : \A r \in records : r.no \in 0 .. n
    BY DEF Stored
  <2>2. \A r \in R : r.type = "evaluation_suite" /\ r.id = kind /\ r.no \in 0 .. n
    BY <1>1, <2>1 DEF Of
  <2>3. \E s \in R : \A r \in R : r.no <= s.no
    BY <1>3, <2>2, LastRevision
  <2>4. CurrentSuite(kind) = CHOOSE s \in R : \A r \in R : r.no <= s.no
    BY <1>1, <1>3 DEF CurrentSuite
  <2>5. CurrentSuite(kind) \in R
    BY <2>3, <2>4
  <2> QED
    BY <2>2, <2>5
<1> QED
  BY <1>2, <1>3

\* A capture writes a revision of a suite that is not the confirmation's.
LEMMA GivesCapture ==
    ASSUME NEW c, NEW U, NEW S, Stored(c), NEW kind \in {"development", "regression"},
           NEW review
    PROVE  Gives(c, U, S, {}, CaptureReview(review, kind))
<1>1. PICK suite : suite = CurrentSuite(kind)
  OBVIOUS
<1>2. suite.id = kind /\ suite.no \in Nat
  BY <1>1, CurrentRevision
<1>3. PICK r : r = Revised(suite, "modified", Captured(suite) \cup {review})
  OBVIOUS
<1>4. r.type = "evaluation_suite" /\ r.id = kind /\ r.no \in Nat
  BY <1>2, <1>3 DEF Revised, Suite, Rec
<1>5. Writable(c, U, S, r) /\ ~Counts(r)
  BY <1>4, WritableSuite
<1>6. Gives(c, U, S, {}, PersistRevision(r)) /\ Gives(c, U, S, {}, Refuse)
  BY <1>5, GivesRevision, GivesRefuse, GivesMore
<1>7. Gives(c, U, S, {}, EnsureSuite(kind))
  BY GivesSuite
<1> DEFINE t == IF review \in Captured(suite) THEN Refuse ELSE PersistRevision(r)
<1>8. Gives(c, U, S, {}, t)
  BY <1>6
<1>9. CaptureReview(review, kind) = EnsureSuite(kind) \o t
  BY <1>1, <1>3 DEF CaptureReview
<1> HIDE DEF t
<1> QED
  BY <1>7, <1>8, <1>9, GivesPair

\* A decision is numbered after those that are stored.
LEMMA SoundDecision ==
    ASSUME NEW c, NEW U, Stored(c), NEW k, NEW status
    PROVE  Sound(c, U, records, RecordDecision(k, status))
<1>1. CASE Of("recommendation", "fixture") = {} \/ ~CandidateArtifacts
  <2>1. Gives(c, U, records, {}, Refuse)
    BY GivesRefuse
  <2> QED
    BY <1>1, <2>1 DEF RecordDecision, Gives
<1>2. CASE ~(Of("recommendation", "fixture") = {} \/ ~CandidateArtifacts)
  <2>1. PICK r : r = Rec("user_decision", "fixture",
                         NextLogicalId("user_decision", "fixture"), status,
                         Of("recommendation", "fixture") \cup {ArtifactOf(k)})
    OBVIOUS
  <2>2. /\ r.type = "user_decision" /\ r.id = "fixture"
        /\ r.no = NextLogicalId("user_decision", "fixture")
    BY <2>1 DEF Rec
  <2>3. /\ r.no \in Nat /\ r.no = Cardinality(Of("user_decision", "fixture")) + 1
        /\ Cardinality(Of("user_decision", "fixture")) \in Nat
    BY <2>2, NextNumber
  <2>4. OfIn(records, r.type, r.id) = Of("user_decision", "fixture")
        /\ OfIn(records, "recommendation", "fixture") = Of("recommendation", "fixture")
    BY <2>2 DEF OfIn, Of
  <2>5. Formed(c, r)
    BY <2>2, <2>3 DEF Formed
  <2>6. Based(c, records, r)
    BY <1>2, <2>2, <2>4 DEF Based, Derived
  <2>7. Writable(c, U, records, r)
    BY <2>2, <2>3, <2>4, <2>5, <2>6 DEF Writable, OfUse
  <2>8. Sound(c, U, records, PersistNew(r))
    BY <2>7, NewSound
  <2> QED
    BY <1>2, <2>1, <2>8 DEF RecordDecision
<1> QED
  BY <1>1, <1>2

\* The steps of a request that is to make no session and no export.
LEMMA PlannedPlain ==
    ASSUME NEW c, NEW N, N = {}, NEW p, Sound(c, N, records, p)
    PROVE  Planned(c, p)
<1>1. ASSUME NEW r \in Pending(p) PROVE FALSE
  <2>1. 1 \in DOMAIN p /\ p[1].do = "write" /\ OfUse(p[1].record)
    BY <1>1 DEF Pending
  <2>2. \A j \in 1 .. 1 - 1 : p[j].do # "refuse"
    OBVIOUS
  <2>3. StepSound(c, N, records \cup Before(p, 1), p[1])
    BY <2>1, <2>2 DEF Sound
  <2> QED
    BY <2>1, <2>3 DEF StepSound, Writable
<1>2. Pending(p) = N
  BY <1>1
<1> QED
  BY <1>1, <1>2 DEF Planned

\* A list that rests on what is stored.
LEMMA PlannedGives ==
    ASSUME NEW c, NEW p, \A U : Gives(c, U, records, {}, p)
    PROVE  Planned(c, p)
<1>1. PICK N : N = {}
  OBVIOUS
<1>2. Sound(c, N, records, p)
  BY DEF Gives
<1> QED
  BY <1>1, <1>2, PlannedPlain

\* The steps of a request that is to make one that the last decision selects.
LEMMA PlannedUse ==
    ASSUME NEW c, NEW r, Selected(r), Formed(c, r), Based(c, records, r),
           Counts(r) => r.no = 0 \/ r.no <= Cardinality(OfIn(records, r.type, r.id)) + 1
    PROVE  Planned(c, PersistNew(r))
<1>1. PICK p : p = PersistNew(r)
  OBVIOUS
<1>2. CASE Conflicting(r)
  <2>1. p = Refuse
    BY <1>1, <1>2 DEF PersistNew
  <2>2. \A U : Gives(c, U, records, {}, p)
    BY <2>1, GivesRefuse
  <2> QED
    BY <1>1, <2>2, PlannedGives
<1>3. CASE ~Conflicting(r)
  <2>1. PICK a, b : a = Write(r) /\ b = Tell("recorded", r)
    OBVIOUS
  <2>2. Listed(a) /\ Listed(b)
    BY <2>1, NewRuns, GivesTell DEF Gives
  <2>3. p = a \o b
    BY <1>1, <1>3, <2>1 DEF PersistNew
  <2>4. Follow(a, b, p)
    BY <2>2, <2>3, Joined
  <2>5. Len(a) = 1 /\ a[1] = [do |-> "write", record |-> r]
    BY <2>1 DEF Write
  <2>6. Len(b) = 1 /\ b[1].do = "append"
    BY <2>1 DEF Tell
  <2>7. DOMAIN p = 1 .. 2 /\ p[1].do = "write" /\ p[1].record = r /\ p[2].do = "append"
    BY <2>4, <2>5, <2>6 DEF Follow
  <2>8. OfUse(r) => r \in Pending(p)
    BY <2>7 DEF Pending
  <2>9. \A s \in Pending(p) : s = r
    BY <2>7 DEF Pending
  <2>10. PICK U : U = Pending(p)
    OBVIOUS
  <2>11. Writable(c, U, records, r)
    BY <2>8, <2>10 DEF Writable
  <2>12. Sound(c, U, records, p)
    BY <1>1, <2>11, NewSound
  <2>13. \A i \in DOMAIN p : p[i].do = "write" => i = 1
    BY <2>7
  <2> QED
    BY <1>1, <2>9, <2>10, <2>12, <2>13 DEF Planned
<1> QED
  BY <1>2, <1>3

\* A session of what is selected is numbered after those that are stored.
LEMMA PlannedLocalUse ==
    ASSUME NEW c, Stored(c), NEW k \in Candidate, NEW id
    PROVE  Planned(c, LocalUse(k, id))
<1>1. CASE ~Authorized(k) \/ ~Inspectable(k)
  <2>1. \A U : Gives(c, U, records, {}, LocalUse(k, id))
    BY <1>1, GivesRefuse DEF LocalUse
  <2> QED
    BY <2>1, PlannedGives
<1>2. CASE Authorized(k) /\ Inspectable(k)
  <2>1. PICK r : r = Session(id, NextLogicalId("local_use_session", id), k)
    OBVIOUS
  <2>2. /\ r.type = "local_use_session" /\ r.id = id /\ r.refs = {ArtifactOf(k)}
        /\ r.no = NextLogicalId("local_use_session", id)
    BY <2>1 DEF Session, Rec
  <2>3. Selected(r)
    BY <1>2, <2>2 DEF Selected, Authorized
  <2>4. r.no \in Nat /\ r.no = Cardinality(Of("local_use_session", id)) + 1
    BY <2>2, NextNumber
  <2>5. OfIn(records, r.type, r.id) = Of("local_use_session", id)
    BY <2>2 DEF OfIn, Of
  <2>6. Formed(c, r) /\ Based(c, records, r)
    BY <2>2, <2>4 DEF Formed, Based, Derived
  <2>7. Cardinality(Of("local_use_session", id)) \in Nat
    BY NextNumber
  <2>8. Planned(c, PersistNew(r))
    BY <2>3, <2>4, <2>5, <2>6, <2>7, PlannedUse
  <2> QED
    BY <1>2, <2>1, <2>8 DEF LocalUse
<1> QED
  BY <1>1, <1>2

\* There is one export of a candidate that the UI asks for.
LEMMA PlannedExport ==
    ASSUME NEW c, Stored(c), NEW k \in Candidate
    PROVE  Planned(c, ExportSelected(k))
<1>1. CASE ~Authorized(k) \/ ~Inspectable(k)
  <2>1. \A U : Gives(c, U, records, {}, ExportSelected(k))
    BY <1>1, GivesRefuse DEF ExportSelected
  <2> QED
    BY <2>1, PlannedGives
<1>2. CASE Authorized(k) /\ Inspectable(k)
  <2>1. PICK r : r = Rec("adapter_export", k, 0, "bundle", {ArtifactOf(k)})
    OBVIOUS
  <2>2. /\ r.type = "adapter_export" /\ r.id = k /\ r.refs = {ArtifactOf(k)} /\ r.no = 0
    BY <2>1 DEF Rec
  <2>3. Selected(r)
    BY <1>2, <2>2 DEF Selected, Authorized
  <2>4. ArtifactOf(k) = ArtifactFrom(k, c) /\ Dataset(c) \in records
    BY <1>2, OneArtifact DEF Inspectable
  <2>5. Formed(c, r) /\ Based(c, records, r) /\ ~Counts(r)
    BY <2>1, <2>2, <2>4 DEF Formed, Based, Derived, Counts
  <2>6. Planned(c, PersistNew(r))
    BY <2>3, <2>5, PlannedUse
  <2> QED
    BY <1>2, <2>1, <2>6 DEF ExportSelected
<1> QED
  BY <1>1, <1>2

-----------------------------------------------------------------------------
(* Requests                                                                *)

\* Until a dataset is stored everything may yet follow from any other: an
\* import meets its own dataset, or is refused.
LEMMA Rebase ==
    ASSUME NEW b \in Source, NEW c \in Source, Stored(c), Remembered(c)
    PROVE  \E d \in Source : Stored(d) /\ Remembered(d) /\ (b = d \/ Conflicting(Dataset(b)))
<1>1. /\ \A s : Dataset(s).type = "dataset_version" /\ Dataset(s).id = "fixture"
      /\ \A s : Dataset(s).no = 0 /\ Dataset(s).body = s
  BY DEF Dataset, Rec
<1>2. CASE Dataset(c) \in records
  <2>1. b # c => Conflicting(Dataset(b))
    BY <1>1, <1>2 DEF Conflicting, Of
  <2> QED
    BY <2>1
<1>3. CASE Dataset(c) \notin records
  <2>1. \A r \in records : r.type # "dataset_version" /\ ~Derived(r)
    BY <1>3 DEF Stored, Formed, Based
  <2>2. \A r \in records : Formed(b, r)
    <3> SUFFICES ASSUME NEW r \in records PROVE Formed(b, r)
      OBVIOUS
    <3>1. Formed(c, r) /\ r.type # "dataset_version" /\ ~Derived(r)
      BY <2>1 DEF Stored
    <3> QED
      BY <3>1 DEF Formed, Derived
  <2>3. \A r \in records : Based(b, records, r)
    BY <2>1 DEF Stored, Based
  <2>4. Stored(b)
    BY <2>2, <2>3 DEF Stored
  <2>5. Remembered(b)
    BY <1>3 DEF Remembered, Known
  <2> QED
    BY <2>4, <2>5
<1> QED
  BY <1>2, <1>3

\* A request that is accepted finds what its steps rest on.
LEMMA Accepted ==
    ASSUME NEW c \in Source, Stored(c), Remembered(c), NEW steps,
           plan' = steps,
           \/ Dispatch \/ RunLegacyWorkflow
    PROVE  /\ UNCHANGED <<records, events, decided, claims, memory, faults>>
           /\ \E d \in Source : Stored(d) /\ Remembered(d) /\ Planned(d, steps)
<1> DEFINE Fine(p) == \E d \in Source : Stored(d) /\ Remembered(d) /\ Planned(d, p)
<1>1. \A p : (\A U : Gives(c, U, records, {}, p)) => Fine(p)
  BY PlannedGives
<1>2. \A b \in Source : Fine(ImportDataset(b))
  <2> SUFFICES ASSUME NEW b \in Source PROVE Fine(ImportDataset(b))
    OBVIOUS
  <2>1. PICK d \in Source :
            Stored(d) /\ Remembered(d) /\ (b = d \/ Conflicting(Dataset(b)))
    BY Rebase
  <2>2. \A U : Gives(d, U, records, {}, ImportDataset(b))
    BY <2>1, GivesImport
  <2> QED
    BY <2>1, <2>2, PlannedGives
<1>3. Fine(LegacyWorkflow)
  <2>1. Fixture \in Source
    BY SourceAssumption
  <2>2. PICK d \in Source :
            Stored(d) /\ Remembered(d) /\ (Fixture = d \/ Conflicting(Dataset(Fixture)))
    BY <2>1, Rebase
  <2>3. \A U : Gives(d, U, records, {}, LegacyWorkflow)
    BY <2>2, GivesLegacy
  <2> QED
    BY <2>2, <2>3, PlannedGives
<1>4. Fine(SetupProject) /\ Fine(ResolveCandidates) /\ Fine(LaunchCandidates)
  <2>1. /\ Known(c, records, memory.prepared) /\ Known(c, records, memory.resolved)
    BY DEF Remembered
  <2>2. \A U : /\ Gives(c, U, records, {}, SetupProject)
               /\ Gives(c, U, records, {}, ResolveCandidates)
               /\ Gives(c, U, records, {}, LaunchCandidates)
    BY <2>1, GivesSetup, GivesResolve, GivesLaunches, GivesMore
  <2> QED
    BY <1>1, <2>2
<1>5. Fine(Compare) /\ Fine(EvaluateCandidates)
  <2>1. \A U : /\ Gives(c, U, records, {}, Compare)
               /\ Gives(c, U, records, {}, EvaluateCandidates)
    BY GivesCompare, GivesEvaluation
  <2> QED
    BY <1>1, <2>1
<1>6. /\ Fine(RecordSoloReview) /\ Fine(PrepareBlindReview)
      /\ Fine(SealBlindReview) /\ Fine(RevealBlindReview)
  <2>1. PICK N : N = {}
    OBVIOUS
  <2>2. /\ Sound(c, N, records, RecordSoloReview) /\ Sound(c, N, records, PrepareBlindReview)
        /\ Sound(c, N, records, SealBlindReview) /\ Sound(c, N, records, RevealBlindReview)
    BY SoundReviews
  <2> QED
    BY <2>1, <2>2, PlannedPlain
<1>7. \A r, kind : kind \in {"development", "regression"} => Fine(CaptureReview(r, kind))
  <2>1. \A r, kind : kind \in {"development", "regression"} =>
            \A U : Gives(c, U, records, {}, CaptureReview(r, kind))
    BY GivesCapture
  <2> QED
    BY <1>1, <2>1
<1>8. \A k, status : Fine(RecordDecision(k, status))
  <2>1. PICK N : N = {}
    OBVIOUS
  <2>2. \A k, status : Sound(c, N, records, RecordDecision(k, status))
    BY SoundDecision
  <2> QED
    BY <2>1, <2>2, PlannedPlain
<1>9. \A k, id : k \in Candidate => Fine(LocalUse(k, id)) /\ Fine(ExportSelected(k))
  BY PlannedLocalUse, PlannedExport
<1> HIDE DEF Fine
<1>10. /\ UNCHANGED <<records, events, decided, claims, memory, faults>> /\ Fine(steps)
  <2>1. CASE RunLegacyWorkflow
    BY <1>3, <2>1 DEF RunLegacyWorkflow, Handle
  <2>2. CASE Dispatch
    BY <1>2, <1>4, <1>5, <1>6, <1>7, <1>8, <1>9, <2>2 DEF Dispatch, Handle
  <2> QED
    BY <2>1, <2>2
<1> QED
  BY <1>10 DEF Fine

\* The steps q come after the first of p, and rest on T.
Leaves(c, U, S, T, p, q) ==
    /\ Sound(c, U, T, q) /\ StepSound(c, U, S, Head(p)) /\ Head(p) = p[1]
    /\ 1 \in DOMAIN p /\ DOMAIN q = 1 .. Len(q) /\ Len(q) \in Nat
    /\ \A i \in DOMAIN q : i + 1 \in DOMAIN p /\ q[i] = p[i + 1]

\* When the first step is done the others find what it has written.
LEMMA TailSound ==
    ASSUME NEW c, NEW U, NEW S, NEW T, NEW p, Sound(c, U, S, p), p # <<>>,
           Head(p).do # "refuse", NEW q, q = Tail(p),
           T = IF Head(p).do = "write" THEN S \cup {Head(p).record} ELSE S
    PROVE  Leaves(c, U, S, T, p, q)
<1>1. Listed(p)
  BY DEF Sound, Listed
<1>2. DOMAIN p = 1 .. Len(p) /\ Len(p) \in Nat
  BY <1>1, OwnSteps DEF Listed
<1>3. /\ q \in Seq(ToSet(p)) /\ Len(q) = Len(p) - 1 /\ Len(p) >= 1 /\ Head(p) = p[1]
      /\ \A i \in 1 .. Len(p) - 1 : q[i] = p[i + 1]
  <2>1. PICK Q : Q = ToSet(p)
    OBVIOUS
  <2>2. p \in Seq(Q)
    BY <1>1, <2>1 DEF Listed
  <2>3. /\ Head(p) = p[1] /\ Tail(p) \in Seq(Q) /\ Len(Tail(p)) = Len(p) - 1
        /\ \A i \in 1 .. Len(p) - 1 : Tail(p)[i] = p[i + 1]
    BY <2>2, HeadTailProperties
  <2>4. Len(p) # 0
    BY <2>2, EmptySeq
  <2> QED
    BY <1>2, <2>1, <2>3, <2>4
<1>4. /\ Listed(q) /\ DOMAIN q = 1 .. Len(p) - 1 /\ DOMAIN q = 1 .. Len(q)
      /\ Len(q) \in Nat
  BY <1>3, OwnSteps
<1>5. \A i \in DOMAIN q : i + 1 \in DOMAIN p /\ q[i] = p[i + 1]
  BY <1>2, <1>3, <1>4
<1>6. StepSound(c, U, S, Head(p))
  <2>1. 1 \in DOMAIN p /\ \A j \in 1 .. 1 - 1 : p[j].do # "refuse"
    BY <1>2, <1>3
  <2>2. StepSound(c, U, S \cup Before(p, 1), p[1])
    BY <2>1 DEF Sound
  <2>3. S \cup Before(p, 1) = S
    BY DEF Before
  <2> QED
    BY <1>3, <2>2, <2>3
<1>7. ASSUME NEW i \in DOMAIN q, \A j \in 1 .. i - 1 : q[j].do # "refuse"
      PROVE  StepSound(c, U, T \cup Before(q, i), q[i])
  <2>1. i + 1 \in DOMAIN p /\ q[i] = p[i + 1]
    BY <1>5
  <2>2. \A j \in 1 .. i : j = 1 \/ (j - 1 \in 1 .. i - 1 /\ j - 1 \in DOMAIN q)
    BY <1>4
  <2>3. \A j \in 1 .. i - 1 : j \in DOMAIN q /\ j + 1 \in 1 .. i
    BY <1>4
  <2>4. \A j \in 1 .. (i + 1) - 1 : p[j].do # "refuse"
    <3>1. ASSUME NEW j \in 1 .. i PROVE p[j].do # "refuse"
      <4>1. CASE j = 1
        BY <1>3, <4>1
      <4>2. CASE j # 1
        <5>1. j - 1 \in 1 .. i - 1 /\ j - 1 \in DOMAIN q
          BY <2>2, <4>2
        <5>2. q[j - 1] = p[(j - 1) + 1]
          BY <1>5, <5>1
        <5> QED
          BY <1>7, <5>1, <5>2
      <4> QED
        BY <4>1, <4>2
    <3> QED
      BY <1>4, <3>1
  <2>5. StepSound(c, U, S \cup Before(p, i + 1), p[i + 1])
    BY <2>1, <2>4 DEF Sound
  <2>6. ASSUME NEW r
        PROVE  r \in Before(p, i + 1) <=>
                   (p[1].do = "write" /\ r = p[1].record) \/ r \in Before(q, i)
    <3>1. r \in Before(p, i + 1) <=> \E j \in 1 .. i : p[j].do = "write" /\ r = p[j].record
      <4>1. PICK m : m = i + 1
        OBVIOUS
      <4>2. 1 .. m - 1 = 1 .. i
        BY <1>4, <4>1
      <4>3. r \in Before(p, m) <=> \E j \in 1 .. i : p[j].do = "write" /\ r = p[j].record
        BY <4>2 DEF Before
      <4> QED
        BY <4>1, <4>3
    <3>2. r \in Before(q, i) <=> \E j \in 1 .. i - 1 : q[j].do = "write" /\ r = q[j].record
      BY DEF Before
    <3>3. ASSUME NEW j \in 1 .. i, p[j].do = "write", r = p[j].record, j # 1
          PROVE  r \in Before(q, i)
      <4>1. j - 1 \in 1 .. i - 1 /\ j - 1 \in DOMAIN q
        BY <2>2, <3>3
      <4>2. q[j - 1] = p[(j - 1) + 1]
        BY <1>5, <4>1
      <4> QED
        BY <3>2, <3>3, <4>1, <4>2
    <3>4. ASSUME NEW j \in 1 .. i - 1, q[j].do = "write", r = q[j].record
          PROVE  r \in Before(p, i + 1)
      <4>1. j + 1 \in 1 .. i /\ q[j] = p[j + 1]
        BY <1>5, <2>3
      <4> QED
        BY <3>1, <3>4, <4>1
    <3>5. 1 \in 1 .. i
      BY <1>4
    <3> QED
      BY <3>1, <3>2, <3>3, <3>4, <3>5
  <2>7. S \cup Before(p, i + 1) = T \cup Before(q, i)
    BY <1>3, <2>6
  <2> QED
    BY <2>1, <2>5, <2>7
<1>8. Sound(c, U, T, q)
  BY <1>4, <1>7 DEF Sound, Listed
<1> QED
  BY <1>2, <1>3, <1>4, <1>5, <1>6, <1>8 DEF Leaves

\* The first step of p is sound, and after it the steps q rest on T.
Rests(c, p, q, T) ==
    /\ \E U : StepSound(c, U, records, Head(p)) /\ \A r \in U : Selected(r)
    /\ \A U : Sound(c, U, T, q)
    /\ Pending(q) = {}

\* And none of them is the session or the export of the request.
LEMMA TailPlanned ==
    ASSUME NEW c, NEW p, Planned(c, p), p # <<>>, Head(p).do # "refuse",
           NEW q, q = Tail(p), NEW T,
           T = IF Head(p).do = "write" THEN records \cup {Head(p).record} ELSE records
    PROVE  Rests(c, p, q, T)
<1>1. PICK U : U = Pending(p)
  OBVIOUS
<1>2. /\ Sound(c, U, records, p) /\ \A r \in U : Selected(r)
      /\ U # {} => \A i \in DOMAIN p : p[i].do = "write" => i = 1
  BY <1>1 DEF Planned
<1>3. /\ Sound(c, U, T, q) /\ StepSound(c, U, records, Head(p))
      /\ DOMAIN q = 1 .. Len(q) /\ Len(q) \in Nat
      /\ \A i \in DOMAIN q : i + 1 \in DOMAIN p /\ q[i] = p[i + 1]
  <2>1. Leaves(c, U, records, T, p, q)
    BY <1>2, TailSound
  <2> QED
    BY <2>1 DEF Leaves
<1>4. CASE U # {}
  <2>1. \A i \in DOMAIN q : q[i].do # "write"
    <3> SUFFICES ASSUME NEW i \in DOMAIN q, q[i].do = "write" PROVE FALSE
      OBVIOUS
    <3>1. i + 1 = 1
      BY <1>2, <1>3, <1>4
    <3> QED
      BY <1>3, <3>1
  <2>2. ASSUME NEW V, NEW S, NEW i \in DOMAIN q, StepSound(c, U, S, q[i])
        PROVE  StepSound(c, V, S, q[i])
    BY <2>1, <2>2 DEF StepSound
  <2>3. \A V : Sound(c, V, T, q)
    BY <1>3, <2>2 DEF Sound
  <2>4. Pending(q) = {}
    BY <2>1 DEF Pending
  <2> QED
    BY <1>2, <1>3, <2>3, <2>4 DEF Rests
<1>5. CASE U = {}
  <2>1. ASSUME NEW V, NEW S, NEW x, StepSound(c, U, S, x) PROVE StepSound(c, V, S, x)
    BY <1>5, <2>1 DEF StepSound, Writable
  <2>2. \A V : Sound(c, V, T, q)
    BY <1>3, <2>1 DEF Sound
  <2>3. ASSUME NEW r \in Pending(q) PROVE FALSE
    <3>1. 1 \in DOMAIN q /\ q[1].do = "write" /\ OfUse(q[1].record)
      BY <2>3 DEF Pending
    <3>2. \A j \in 1 .. 1 - 1 : q[j].do # "refuse"
      OBVIOUS
    <3>3. StepSound(c, U, T \cup Before(q, 1), q[1])
      BY <1>3, <3>1, <3>2 DEF Sound
    <3> QED
      BY <1>5, <3>1, <3>3 DEF StepSound, Writable
  <2> QED
    BY <1>2, <1>3, <2>2, <2>3 DEF Rests
<1> QED
  BY <1>4, <1>5

-----------------------------------------------------------------------------
(* Steps                                                                   *)

\* What a record rests on stays, and the numbers go up by one at most.
LEMMA StoredWrite ==
    ASSUME NEW c, NEW U, NEW r, Stored(c), Writable(c, U, records, r),
           records' = records \cup {r}
    PROVE  Stored(c)'
<1>1. PICK S : S = records
  OBVIOUS
<1>2. PICK T : T = S \cup {r}
  OBVIOUS
<1>3. IsFiniteSet(S) /\ IsFiniteSet(T)
  <2>1. IsFiniteSet(S)
    BY <1>1 DEF Stored
  <2> QED
    BY <1>2, <2>1, FS_AddElement
<1>4. \E n \in Nat : \A s \in T : s.no \in 0 .. n
  <2>1. PICK n \in Nat : \A s \in S : s.no \in 0 .. n
    BY <1>1 DEF Stored
  <2>2. r.no \in Nat
    BY DEF Writable, Formed
  <2>3. CASE r.no <= n
    BY <1>2, <2>1, <2>2, <2>3
  <2>4. CASE ~(r.no <= n)
    <3>1. \A s \in T : s.no \in 0 .. r.no
      BY <1>2, <2>1, <2>2, <2>4
    <3> QED
      BY <2>2, <3>1
  <2> QED
    BY <2>3, <2>4
<1>5. \A s \in T : Formed(c, s)
  BY <1>1, <1>2 DEF Stored, Writable
<1>6. \A s \in T : Based(c, T, s)
  <2>1. \A s : Based(c, S, s) => Based(c, T, s)
    BY <1>2 DEF Based, OfIn
  <2> QED
    BY <1>1, <1>2, <2>1 DEF Stored, Writable
<1>7. ASSUME NEW type, NEW id
      PROVE  /\ IsFiniteSet(OfIn(S, type, id)) /\ IsFiniteSet(OfIn(T, type, id))
             /\ Cardinality(OfIn(S, type, id)) \in Nat /\ Cardinality(OfIn(T, type, id)) \in Nat
             /\ Cardinality(OfIn(S, type, id)) <= Cardinality(OfIn(T, type, id))
  <2>1. /\ OfIn(S, type, id) \subseteq S /\ OfIn(T, type, id) \subseteq T
        /\ OfIn(S, type, id) \subseteq OfIn(T, type, id)
    BY <1>2 DEF OfIn
  <2>2. IsFiniteSet(OfIn(S, type, id)) /\ IsFiniteSet(OfIn(T, type, id))
    BY <1>3, <2>1, FS_Subset
  <2> QED
    BY <2>1, <2>2, FS_Subset, FS_CardinalityType
<1>8. ASSUME NEW s \in T, Counts(s) PROVE s.no <= Cardinality(OfIn(T, s.type, s.id))
  <2>1. PICK A : A = OfIn(S, s.type, s.id)
    OBVIOUS
  <2>2. PICK B : B = OfIn(T, s.type, s.id)
    OBVIOUS
  <2>3. /\ IsFiniteSet(A) /\ IsFiniteSet(B) /\ Cardinality(A) \in Nat /\ Cardinality(B) \in Nat
        /\ Cardinality(A) <= Cardinality(B)
    BY <1>7, <2>1, <2>2
  <2>4. s.no \in Nat
    BY <1>5 DEF Formed
  <2>5. CASE s \in S
    <3>1. s.no <= Cardinality(A)
      BY <1>1, <1>8, <2>1, <2>5 DEF Stored, Of, OfIn
    <3> QED
      BY <2>2, <2>3, <2>4, <3>1
  <2>6. CASE s \notin S
    <3>1. s = r
      BY <1>2, <2>6
    <3>2. s.no = 0 \/ s.no <= Cardinality(A) + 1
      BY <1>1, <1>8, <2>1, <3>1 DEF Writable
    <3>3. B = A \cup {s} /\ s \notin A
      BY <1>2, <2>1, <2>2, <2>6, <3>1 DEF OfIn
    <3>4. Cardinality(B) = Cardinality(A) + 1
      BY <2>3, <3>3, FS_AddElement
    <3> QED
      BY <2>2, <2>3, <2>4, <3>2, <3>4
  <2> QED
    BY <2>5, <2>6
<1>9. records' = T
  BY <1>1, <1>2
<1>10. \A s \in T : OfIn(T, s.type, s.id) = Of(s.type, s.id)'
  BY <1>9 DEF OfIn, Of
<1> QED
  BY <1>3, <1>4, <1>5, <1>6, <1>8, <1>9, <1>10 DEF Stored

\* A request that is done, refused or lost leaves no steps.
LEMMA PlannedDone ==
    ASSUME NEW c, plan' = <<>> PROVE Planned(c, plan)'
<1>1. PICK p : p = <<>>
  OBVIOUS
<1>2. p \in Seq(ToSet(p)) /\ DOMAIN p = {}
  BY <1>1
<1>3. plan' = p
  BY <1>1
<1>4. Pending(plan)' = {}
  BY <1>2, <1>3 DEF Pending
<1>5. Sound(c, Pending(plan)', records', plan')
  BY <1>2, <1>3 DEF Sound
<1> QED
  BY <1>4, <1>5 DEF Planned

\* The steps that are left rest on what is stored then.
LEMMA PlannedTail ==
    ASSUME NEW c, NEW q, plan' = q, \A U : Sound(c, U, records', q), Pending(q) = {}
    PROVE  Planned(c, plan)'
<1>1. Pending(plan)' = {}
  BY DEF Pending
<1>2. Sound(c, Pending(plan)', records', plan')
  OBVIOUS
<1> QED
  BY <1>1, <1>2 DEF Planned

\* What is stored and remembered stays so while neither changes.
LEMMA KeptStored ==
    ASSUME NEW c, Stored(c), records' = records PROVE Stored(c)'
  BY DEF Stored, Of, Based, OfIn

\* The stream of decisions is one.
LEMMA DecidedAppend ==
    ASSUME NEW s, s \in Seq(ToSet(s)), NEW r
    PROVE  Append(s, r) \in Seq(ToSet(Append(s, r)))
<1>1. PICK Q : Q = ToSet(s) \cup {r}
  OBVIOUS
<1>2. s \in Seq(Q)
  BY <1>1
<1>3. Append(s, r) \in Seq(Q)
  BY <1>1, <1>2, AppendProperties
<1> QED
  BY <1>3, OwnSteps DEF Listed

\* A step that writes: what it writes rests on what is stored.
LEMMA WritePreserves ==
    ASSUME NEW c \in Source, Stored(c), Remembered(c), Planned(c, plan), WriteRecord
    PROVE  Stored(c)' /\ Remembered(c)' /\ Planned(c, plan)'
<1>1. PICK q : q = Tail(plan)
  OBVIOUS
<1>2. PICK r : r = Head(plan).record
  OBVIOUS
<1>3. PICK T : T = records \cup {r}
  OBVIOUS
<1>4. /\ plan # <<>> /\ Head(plan).do = "write" /\ plan' = q /\ records' = T /\ memory' = memory
  BY <1>1, <1>2, <1>3 DEF WriteRecord, Next1
<1>5. T = IF Head(plan).do = "write" THEN records \cup {Head(plan).record} ELSE records
  BY <1>2, <1>3, <1>4
<1>6. PICK p : p = plan
  OBVIOUS
<1>7. /\ \E U : StepSound(c, U, records, Head(p))
      /\ \A U : Sound(c, U, T, q)
      /\ Pending(q) = {}
  <2>1. Rests(c, p, q, T)
    BY <1>1, <1>4, <1>5, <1>6, TailPlanned
  <2> QED
    BY <2>1 DEF Rests
<1>8. PICK U : StepSound(c, U, records, Head(plan))
  BY <1>6, <1>7
<1>9. Writable(c, U, records, r)
  BY <1>2, <1>4, <1>8 DEF StepSound
<1>10. Stored(c)'
  BY <1>3, <1>4, <1>9, StoredWrite
<1>11. Remembered(c)'
  BY <1>3, <1>4 DEF Remembered, Known, Packet, OfIn
<1>12. Planned(c, plan)'
  BY <1>4, <1>7, PlannedTail
<1> QED
  BY <1>10, <1>11, <1>12

\* A step that does not write, nor refuse.
LEMMA OtherPreserves ==
    ASSUME NEW c \in Source, Stored(c), Planned(c, plan), plan # <<>>,
           Head(plan).do \notin {"write", "refuse"}, plan' = Tail(plan), records' = records
    PROVE  /\ Stored(c)' /\ Planned(c, plan)'
           /\ \E U : StepSound(c, U, records, Head(plan))
<1>1. PICK q : q = Tail(plan)
  OBVIOUS
<1>2. PICK p : p = plan
  OBVIOUS
<1>3. PICK T : T = records
  OBVIOUS
<1>4. T = IF Head(p).do = "write" THEN records \cup {Head(p).record} ELSE records
  BY <1>2, <1>3
<1>5. /\ \E U : StepSound(c, U, records, Head(p))
      /\ \A U : Sound(c, U, T, q)
      /\ Pending(q) = {}
  <2>1. Rests(c, p, q, T)
    BY <1>1, <1>2, <1>4, TailPlanned
  <2> QED
    BY <2>1 DEF Rests
<1>6. plan' = q /\ records' = T
  BY <1>1, <1>3
<1>7. Planned(c, plan)'
  BY <1>5, <1>6, PlannedTail
<1> QED
  BY <1>2, <1>5, <1>7, KeptStored

\* The service remembers what its steps were made with.
LEMMA RememberPreserves ==
    ASSUME NEW c \in Source, Remembered(c), records' = records, NEW x, NEW U,
           StepSound(c, U, records, x), x.do = "remember",
           memory' = [memory EXCEPT ![x.field] = x.value]
    PROVE  Remembered(c)'
<1>1. PICK m : m = memory
  OBVIOUS
<1>2. PICK n : n = memory'
  OBVIOUS
<1>3. /\ n = [m EXCEPT ![x.field] = x.value] /\ DOMAIN m = DOMAIN Fresh
      /\ Known(c, records, m.prepared) /\ Known(c, records, m.resolved)
      /\ Packet(records, m.packet)
  BY <1>1, <1>2 DEF Remembered
<1>4. DOMAIN Fresh = {"prepared", "resolved", "compared", "packet", "sealed"}
  BY DEF Fresh
<1>5. /\ x.field \in {"prepared", "resolved"} => Known(c, records, x.value)
      /\ x.field = "packet" => Packet(records, x.value)
  BY DEF StepSound
<1>6. Known(c, records, n.prepared)
  BY <1>3, <1>4, <1>5
<1>7. Known(c, records, n.resolved)
  BY <1>3, <1>4, <1>5
<1>8. Packet(records, n.packet)
  BY <1>3, <1>4, <1>5
<1>9. DOMAIN n = DOMAIN Fresh
  BY <1>3
<1>10. \A v : Known(c, records, v) => Known(c, records', v)
  OBVIOUS
<1> QED
  BY <1>2, <1>6, <1>7, <1>8, <1>9, <1>10 DEF Remembered

\* Every request starts from what the store and the memory hold of one dataset,
\* and each of its steps finds what it rests on: the invariant is inductive.
THEOREM JourneyInductive == Spec => []JourneyInv
<1>1. Init => JourneyInv
  <2> SUFFICES ASSUME Init PROVE JourneyInv
    OBVIOUS
  <2>1. PICK c \in Source : c = Fixture
    BY SourceAssumption
  <2>2. Stored(c)
    <3>1. PICK N : N = {}
      OBVIOUS
    <3>2. IsFiniteSet(N)
      BY <3>1, FS_EmptySet
    <3>3. records = N
      BY <3>1 DEF Init
    <3> QED
      BY <3>1, <3>2, <3>3 DEF Stored
  <2>3. Remembered(c)
    BY DEF Init, Fresh, Remembered, Known, Packet
  <2>4. Planned(c, plan)
    <3>1. PICK p : p = <<>>
      OBVIOUS
    <3>2. p \in Seq(ToSet(p)) /\ DOMAIN p = {} /\ plan = p
      BY <3>1 DEF Init
    <3>3. Pending(plan) = {}
      BY <3>2 DEF Pending
    <3> QED
      BY <3>2, <3>3 DEF Planned, Sound
  <2>5. decided \in Seq(ToSet(decided))
    <3>1. decided = <<>>
      BY DEF Init
    <3> QED
      BY <3>1
  <2> QED
    BY <2>2, <2>3, <2>4, <2>5 DEF JourneyInv
<1>2. JourneyInv /\ [Next]_vars => JourneyInv'
  <2> SUFFICES ASSUME JourneyInv, [Next]_vars PROVE JourneyInv'
    OBVIOUS
  <2>1. PICK c \in Source : Stored(c) /\ Remembered(c) /\ Planned(c, plan)
    BY DEF JourneyInv
  <2>2. decided \in Seq(ToSet(decided))
    BY DEF JourneyInv
  <2>3. CASE Dispatch \/ RunLegacyWorkflow
    <3>1. PICK steps : steps = plan'
      OBVIOUS
    <3>2. /\ UNCHANGED <<records, events, decided, claims, memory, faults>>
          /\ \E d \in Source : Stored(d) /\ Remembered(d) /\ Planned(d, steps)
      BY <2>1, <2>3, <3>1, Accepted
    <3>3. PICK d \in Source : Stored(d) /\ Remembered(d) /\ Planned(d, steps)
      BY <3>2
    <3>4. Stored(d)' /\ Remembered(d)'
      BY <3>2, <3>3, KeptStored DEF Remembered
    <3>5. Planned(d, plan)'
      BY <3>1, <3>2, <3>3 DEF Planned, Selected, Selects, ArtifactOf, Of
    <3> QED
      BY <2>2, <3>2, <3>4, <3>5 DEF JourneyInv
  <2>4. CASE WriteRecord
    <3>1. Stored(c)' /\ Remembered(c)' /\ Planned(c, plan)'
      BY <2>1, <2>4, WritePreserves
    <3>2. decided' = decided
      BY <2>4 DEF WriteRecord
    <3> QED
      BY <2>2, <3>1, <3>2 DEF JourneyInv
  <2>5. CASE AppendEvent \/ ClaimRun \/ ResolveRun
    <3>1. /\ plan # <<>> /\ Head(plan).do \in {"append", "claim", "resolve"}
          /\ plan' = Tail(plan) /\ records' = records /\ memory' = memory
      BY <2>5 DEF AppendEvent, ClaimRun, ResolveRun, Next1
    <3>2. Head(plan).do \notin {"write", "refuse"}
      BY <3>1
    <3>3. Stored(c)' /\ Planned(c, plan)'
      BY <2>1, <3>1, <3>2, OtherPreserves
    <3>4. Remembered(c)'
      BY <2>1, <3>1 DEF Remembered
    <3>5. decided' \in Seq(ToSet(decided'))
      <4>1. \/ decided' = decided
            \/ decided' = Append(decided, Head(plan).record)
        BY <2>5 DEF AppendEvent, ClaimRun, ResolveRun
      <4>2. Append(decided, Head(plan).record) \in Seq(ToSet(Append(decided, Head(plan).record)))
        BY <2>2, DecidedAppend
      <4> QED
        BY <2>2, <4>1, <4>2
    <3> QED
      BY <3>3, <3>4, <3>5 DEF JourneyInv
  <2>6. CASE RememberState
    <3>1. /\ plan # <<>> /\ Head(plan).do = "remember"
          /\ plan' = Tail(plan) /\ records' = records /\ decided' = decided
          /\ memory' = [memory EXCEPT ![Head(plan).field] = Head(plan).value]
      BY <2>6 DEF RememberState, Next1
    <3>2. Head(plan).do \notin {"write", "refuse"}
      BY <3>1
    <3>3. Stored(c)' /\ Planned(c, plan)' /\ \E U : StepSound(c, U, records, Head(plan))
      BY <2>1, <3>1, <3>2, OtherPreserves
    <3>4. PICK x : x = Head(plan)
      OBVIOUS
    <3>5. PICK U : StepSound(c, U, records, x)
      BY <3>3, <3>4
    <3>6. Remembered(c)'
      BY <2>1, <3>1, <3>4, <3>5, RememberPreserves
    <3> QED
      BY <2>2, <3>1, <3>3, <3>6 DEF JourneyInv
  <2>7. CASE RefuseRequest \/ Fails \/ Restart
    <3>1. plan' = <<>> /\ records' = records /\ decided' = decided
          /\ (memory' = memory \/ memory' = Fresh)
      BY <2>7 DEF RefuseRequest, Fails, Restart
    <3>2. Stored(c)' /\ Planned(c, plan)'
      BY <2>1, <3>1, KeptStored, PlannedDone
    <3>3. Remembered(c)'
      <4>1. CASE memory' = memory
        BY <2>1, <3>1, <4>1 DEF Remembered
      <4>2. CASE memory' = Fresh
        BY <4>2 DEF Remembered, Known, Packet, Fresh
      <4> QED
        BY <3>1, <4>1, <4>2
    <3> QED
      BY <2>2, <3>1, <3>2, <3>3 DEF JourneyInv
  <2>8. CASE UNCHANGED vars
    <3>1. /\ records' = records /\ decided' = decided /\ memory' = memory /\ plan' = plan
      BY <2>8 DEF vars
    <3>2. Stored(c)' /\ Remembered(c)'
      BY <2>1, <3>1, KeptStored DEF Remembered
    <3>3. Planned(c, plan)'
      BY <2>1, <3>1 DEF Planned, Selected, Selects, ArtifactOf, Of
    <3> QED
      BY <2>2, <3>1, <3>2, <3>3 DEF JourneyInv
  <2> QED
    BY <2>3, <2>4, <2>5, <2>6, <2>7, <2>8 DEF Next
<1> QED
  BY <1>1, <1>2, PTL DEF Spec

-----------------------------------------------------------------------------
(* What follows                                                            *)

\* A run trains the dataset its memory estimate was made for, whatever was
\* resolved before another import or a restart.
THEOREM EstimatesStayCurrent == Spec => []EstimatesCurrent
<1>1. JourneyInv => EstimatesCurrent
  <2> SUFFICES ASSUME JourneyInv, NEW r \in records, r.type = "run"
               PROVE  \E e \in r.refs : \E d \in e.refs :
                          d.type = "dataset_version" /\ d.body = r.body
    BY DEF EstimatesCurrent
  <2>1. PICK c \in Source : Stored(c)
    BY DEF JourneyInv
  <2>2. PICK k \in Candidate : r = RunOf(k, c)
    BY <2>1 DEF Stored, Formed
  <2>3. PICK e : e = Experiment(k, c)
    OBVIOUS
  <2>4. PICK d : d = Dataset(c)
    OBVIOUS
  <2>5. r.refs = {e} /\ r.body = c
    BY <2>2, <2>3 DEF RunOf, Run, Rec
  <2>6. d \in e.refs
    BY <2>3, <2>4 DEF Experiment, Rec
  <2>7. d.type = "dataset_version" /\ d.body = c
    BY <2>4 DEF Dataset, Rec
  <2> QED
    BY <2>5, <2>6, <2>7
<1> QED
  BY <1>1, JourneyInductive, PTL

\* A session or an export that the UI asked for is of the candidate that the last
\* decision selects when it is stored.
THEOREM UseIsOfSelection == Spec => UseFollowsSelection
<1> DEFINE A == \A r \in records' \ records :
                    r.type \in {"local_use_session", "adapter_export"}
                    /\ r.id \notin {"focused", "runtime"} =>
                        decided # <<>> /\ \E k \in Candidate :
                            ArtifactOf(k) \in r.refs /\ Selects(Last(decided), k)
<1>1. JourneyInv /\ [Next]_vars => [A]_records
  <2> SUFFICES ASSUME JourneyInv, [Next]_vars, records' # records PROVE A
    OBVIOUS
  <2>1. WriteRecord
    BY DEF Next, vars, Dispatch, RunLegacyWorkflow, Handle, AppendEvent, ClaimRun, ResolveRun,
           RememberState, RefuseRequest, Fails, Restart
  <2>2. PICK c \in Source : Planned(c, plan)
    BY DEF JourneyInv
  <2>3. PICK p, q, w : p = plan /\ q = Tail(plan) /\ w = Head(plan).record
    OBVIOUS
  <2>4. PICK T : T = records \cup {w}
    OBVIOUS
  <2>5. p # <<>> /\ Head(p).do = "write" /\ Head(p).record = w /\ records' = T
    BY <2>1, <2>3, <2>4 DEF WriteRecord, Next1
  <2>6. T = IF Head(p).do = "write" THEN records \cup {Head(p).record} ELSE records
    BY <2>4, <2>5
  <2>7. Rests(c, p, q, T)
    BY <2>2, <2>3, <2>5, <2>6, TailPlanned
  <2>8. PICK U : StepSound(c, U, records, Head(p)) /\ \A r \in U : Selected(r)
    BY <2>7 DEF Rests
  <2>9. OfUse(w) => Selected(w)
    BY <2>5, <2>8 DEF StepSound, Writable
  <2>10. \A r \in records' \ records : r = w
    BY <2>4, <2>5
  <2> QED
    BY <2>9, <2>10 DEF OfUse, Selected
<1>2. Spec => [][A]_records
  BY <1>1, JourneyInductive, PTL DEF Spec
<1> QED
  BY <1>2 DEF UseFollowsSelection

\* A record of a kind of which there is one meets itself only.
LEMMA NoConflict ==
    ASSUME NEW c, Stored(c)
    PROVE  /\ ~Conflicting(Project) /\ ~Conflicting(Dataset(c)) /\ ~Conflicting(Policy)
           /\ \A k \in Candidate : ~Conflicting(Experiment(k, c))
           /\ \A k \in Candidate : ~Conflicting(ResultFrom(k, c))
           /\ ~Conflicting(RecommendationFrom(c))
<1>1. /\ Project.type = "project" /\ Dataset(c).type = "dataset_version"
      /\ Policy.type = "recommendation_policy"
      /\ RecommendationFrom(c).type = "recommendation"
  BY DEF Project, Dataset, Policy, RecommendationFrom, Rec
<1>2. \A k : Experiment(k, c).type = "experiment" /\ Experiment(k, c).id = k
  BY DEF Experiment, Rec
<1>3. \A k : ResultFrom(k, c).type = "evaluation_result" /\ ResultFrom(k, c).id = k
  BY DEF ResultFrom, Rec
<1>4. \A s \in records : Formed(c, s)
  BY DEF Stored
<1>5. ~Conflicting(Project) /\ ~Conflicting(Dataset(c)) /\ ~Conflicting(Policy)
  BY <1>1, <1>4 DEF Conflicting, Of, Formed
<1>6. ~Conflicting(RecommendationFrom(c))
  BY <1>1, <1>4 DEF Conflicting, Of, Formed
<1>7. ASSUME NEW k \in Candidate PROVE ~Conflicting(Experiment(k, c))
  <2>1. PICK e : e = Experiment(k, c)
    OBVIOUS
  <2>2. \A s \in Of(e.type, e.id) : s = e
    <3> SUFFICES ASSUME NEW s \in Of(e.type, e.id) PROVE s = e
      OBVIOUS
    <3>1. s \in records /\ s.type = "experiment" /\ s.id = k
      BY <1>2, <2>1 DEF Of
    <3>2. PICK h \in Candidate : s = Experiment(h, c)
      BY <1>4, <3>1 DEF Formed
    <3> QED
      BY <1>2, <2>1, <3>1, <3>2
  <2> QED
    BY <2>1, <2>2 DEF Conflicting
<1>8. ASSUME NEW k \in Candidate PROVE ~Conflicting(ResultFrom(k, c))
  <2>1. PICK e : e = ResultFrom(k, c)
    OBVIOUS
  <2>2. \A s \in Of(e.type, e.id) : s = e
    <3> SUFFICES ASSUME NEW s \in Of(e.type, e.id) PROVE s = e
      OBVIOUS
    <3>1. s \in records /\ s.type = "evaluation_result" /\ s.id = k
      BY <1>3, <2>1 DEF Of
    <3>2. PICK h \in Candidate : s = ResultFrom(h, c)
      BY <1>4, <3>1 DEF Formed
    <3> QED
      BY <1>3, <2>1, <3>1, <3>2
  <2> QED
    BY <2>1, <2>2 DEF Conflicting
<1> QED
  BY <1>5, <1>6, <1>7, <1>8

\* Lists of steps of which none refuses, one after the other.
LEMMA RunsJoin ==
    ASSUME NEW a, NEW b, Listed(a), Listed(b)
    PROVE  Listed(a \o b) /\ (Runs(a \o b) <=> Runs(a) /\ Runs(b))
<1>1. PICK p : p = a \o b
  OBVIOUS
<1> QED
  BY <1>1, JoinedRuns

\* What a request asks of the store besides writing is never refused.
LEMMA RunsSteps ==
    /\ \A field, value : Listed(Remember(field, value)) /\ Runs(Remember(field, value))
    /\ \A kind, r : Listed(Tell(kind, r)) /\ Runs(Tell(kind, r))
    /\ \A r : Listed(Write(r)) /\ Runs(Write(r))
    /\ \A r : Listed(Train(r)) /\ Runs(Train(r))
    /\ Listed(<<>>) /\ Runs(<<>>)
<1>1. \A field, value : Listed(Remember(field, value)) /\ Runs(Remember(field, value))
  <2> SUFFICES ASSUME NEW field, NEW value
               PROVE  Listed(Remember(field, value)) /\ Runs(Remember(field, value))
    OBVIOUS
  <2>1. PICK x : x = [do |-> "remember", field |-> field, value |-> value]
    OBVIOUS
  <2>2. Listed(<<x>>)
    BY DEF Listed, ToSet
  <2>3. Runs(<<x>>)
    BY <2>1 DEF Runs
  <2> QED
    BY <2>1, <2>2, <2>3 DEF Remember
<1>2. \A kind, r : Listed(Tell(kind, r)) /\ Runs(Tell(kind, r))
  BY GivesTell DEF Gives
<1>3. \A r : Listed(Write(r)) /\ Runs(Write(r))
  <2> SUFFICES ASSUME NEW r PROVE Listed(Write(r)) /\ Runs(Write(r))
    OBVIOUS
  <2>1. PICK x : x = [do |-> "write", record |-> r]
    OBVIOUS
  <2>2. Listed(<<x>>)
    BY DEF Listed, ToSet
  <2>3. Runs(<<x>>)
    BY <2>1 DEF Runs
  <2> QED
    BY <2>1, <2>2, <2>3 DEF Write
<1>4. ASSUME NEW r PROVE Listed(Train(r)) /\ Runs(Train(r))
  <2>1. PICK t1, t2 : t1 = "claim" /\ t2 = "resolve"
    OBVIOUS
  <2>2. PICK x, y : x = <<[do |-> t1, run |-> r]>> /\ y = <<[do |-> t2, run |-> r]>>
    OBVIOUS
  <2>3. Listed(x) /\ Listed(y)
    <3>1. \A mark \in {"claim", "resolve"} : Listed(<<[do |-> mark, run |-> r]>>)
      BY GivesMark DEF Gives
    <3> QED
      BY <2>1, <2>2, <3>1
  <2>4. Runs(x) /\ Runs(y)
    BY <2>1, <2>2 DEF Runs
  <2>5. Train(r) = x \o Write(r) \o Tell("run_launched", r)
            \o Write(Artifact(r)) \o Write(Availability(Artifact(r)))
            \o Tell("run_completed", r) \o y
    BY <2>1, <2>2 DEF Train
  <2>6. /\ Listed(x \o Write(r) \o Tell("run_launched", r))
        /\ Runs(x \o Write(r) \o Tell("run_launched", r))
    BY <1>2, <1>3, <2>3, <2>4, RunsJoin
  <2>7. /\ Listed(x \o Write(r) \o Tell("run_launched", r)
                  \o Write(Artifact(r)) \o Write(Availability(Artifact(r))))
        /\ Runs(x \o Write(r) \o Tell("run_launched", r)
                  \o Write(Artifact(r)) \o Write(Availability(Artifact(r))))
    BY <1>3, <2>6, RunsJoin
  <2>8. /\ Listed(x \o Write(r) \o Tell("run_launched", r)
                  \o Write(Artifact(r)) \o Write(Availability(Artifact(r)))
                  \o Tell("run_completed", r) \o y)
        /\ Runs(x \o Write(r) \o Tell("run_launched", r)
                  \o Write(Artifact(r)) \o Write(Availability(Artifact(r)))
                  \o Tell("run_completed", r) \o y)
    BY <1>2, <2>3, <2>4, <2>7, RunsJoin
  <2> QED
    BY <2>5, <2>8
<1>5. Listed(<<>>) /\ Runs(<<>>)
  BY GivesNothing DEF Gives, Runs
<1> QED
  BY <1>1, <1>2, <1>3, <1>4, <1>5

\* The dataset that is stored can be imported again.
LEMMA ImportResumes ==
    ASSUME NEW c, Stored(c), NEW d \in Of("dataset_version", "fixture")
    PROVE  Runs(ImportDataset(d.body))
<1>1. d = Dataset(c)
  BY DEF Stored, Formed, Of
<1>2. d.body = c
  BY <1>1 DEF Dataset, Rec
<1>3. ~Conflicting(Project) /\ ~Conflicting(Dataset(c))
  BY NoConflict
<1>4. Listed(SetupProject) /\ Runs(SetupProject)
  BY <1>3, NewRuns DEF SetupProject
<1>5. Listed(Write(Dataset(c))) /\ Runs(Write(Dataset(c)))
  BY RunsSteps
<1>6. StoreDataset(c) = SetupProject \o Write(Dataset(c))
  BY <1>3 DEF StoreDataset
<1>7. Listed(StoreDataset(c)) /\ Runs(StoreDataset(c))
  BY <1>4, <1>5, <1>6, RunsJoin
<1>8. Listed(Remember("prepared", c)) /\ Runs(Remember("prepared", c))
  BY RunsSteps
<1>9. ImportDataset(c) = StoreDataset(c) \o Remember("prepared", c)
  BY DEF ImportDataset
<1>10. Runs(ImportDataset(c))
  BY <1>7, <1>8, <1>9, RunsJoin
<1> QED
  BY <1>2, <1>10

\* A candidate is launched again, or its completed run is reopened.
LEMMA LaunchResumes ==
    ASSUME NEW c, Stored(c), NEW k \in Candidate, LaunchesWhole
    PROVE  Runs(LaunchCandidate(k, c, c))
<1>1. PICK run : run = Run(k, c, c)
  OBVIOUS
<1> DEFINE t == IF ~Begun(k) /\ claims[k] # "claimed" THEN Train(run)
                ELSE IF Of("run", k) = {run} /\ <<"run_completed", run>> \in events THEN <<>>
                ELSE Refuse
<1>2. Runs(t) /\ Listed(t)
  <2>1. CASE claims[k] # "claimed" /\ ~Begun(k)
    BY <2>1, RunsSteps
  <2>2. CASE \E r \in Of("run", k) : <<"run_completed", r>> \in events
    <3>1. PICK r \in Of("run", k) : <<"run_completed", r>> \in events
      BY <2>2
    <3>2. \A s \in Of("run", k) : s = run
      <4> SUFFICES ASSUME NEW s \in Of("run", k) PROVE s = run
        OBVIOUS
      <4>1. s \in records /\ s.type = "run" /\ s.id = k
        BY DEF Of
      <4>2. PICK h \in Candidate : s = RunOf(h, c)
        BY <4>1 DEF Stored, Formed
      <4>3. s.id = h
        BY <4>2 DEF RunOf, Run, Rec
      <4> QED
        BY <1>1, <4>1, <4>2, <4>3 DEF RunOf
    <3>3. Of("run", k) = {run} /\ <<"run_completed", run>> \in events /\ Begun(k)
      BY <3>1, <3>2 DEF Begun
    <3> QED
      BY <3>3, RunsSteps
  <2> QED
    BY <2>1, <2>2 DEF LaunchesWhole
<1>3. Listed(PersistNew(Experiment(k, c))) /\ Runs(PersistNew(Experiment(k, c)))
  BY NoConflict, NewRuns
<1>4. LaunchCandidate(k, c, c) = PersistNew(Experiment(k, c)) \o t
  BY <1>1 DEF LaunchCandidate
<1> HIDE DEF t
<1> QED
  BY <1>2, <1>3, <1>4, RunsJoin

\* A launch needs the dataset in memory, and nothing else that a failure or a
\* restart may have lost.
LEMMA LaunchesResume ==
    ASSUME NEW c, Stored(c), Remembered(c)
    PROVE  /\ memory.prepared # None /\ LaunchesWhole => Runs(LaunchCandidates)
           /\ memory.prepared = None => ~Runs(LaunchCandidates)
<1>1. PICK v : v = memory.prepared
  OBVIOUS
<1>2. PICK w : w = IF memory.resolved = None THEN memory.prepared ELSE memory.resolved
  OBVIOUS
<1>3. PICK a, m : a = PreparedContext /\ m = Remember("resolved", w)
  OBVIOUS
<1>4. PICK e, s : e = LaunchCandidate("ember", v, w) /\ s = LaunchCandidate("slate", v, w)
  OBVIOUS
<1>5. LaunchCandidates = a \o m \o e \o s
  BY <1>1, <1>2, <1>3, <1>4 DEF LaunchCandidates
<1>6. PICK N : N = {}
  OBVIOUS
<1>7. Listed(a) /\ (v = None => ~Runs(a))
  <2>1. Gives(c, N, N, {}, PreparedContext) /\ (v = None => ~Runs(PreparedContext))
    BY <1>1, GivesContext
  <2> QED
    BY <1>3, <2>1 DEF Gives
<1>8. Listed(m) /\ Runs(m)
  BY <1>3, RunsSteps
<1>9. Listed(e) /\ Listed(s)
  BY <1>4, ListedLaunch
<1>10. Listed(a \o m \o e) /\ (Runs(a \o m \o e) <=> Runs(a) /\ Runs(m) /\ Runs(e))
  BY <1>7, <1>8, <1>9, RunsJoin
<1>11. Runs(a \o m \o e \o s) <=> Runs(a) /\ Runs(m) /\ Runs(e) /\ Runs(s)
  BY <1>9, <1>10, RunsJoin
<1>12. CASE v = None
  BY <1>1, <1>5, <1>7, <1>11, <1>12
<1>13. CASE v # None
  <2>1. v = c /\ w = c
    BY <1>1, <1>2, <1>13 DEF Remembered, Known
  <2>2. Runs(a)
    BY <1>1, <1>3, <1>13, RunsSteps DEF PreparedContext
  <2>3. LaunchesWhole => Runs(e) /\ Runs(s)
    BY <1>4, <2>1, LaunchResumes DEF Candidate
  <2> QED
    BY <1>1, <1>5, <1>8, <1>11, <1>13, <2>2, <2>3
<1> QED
  BY <1>12, <1>13

\* Artifacts that can be inspected are evaluated again.
LEMMA EvaluationResumes ==
    ASSUME NEW c, Stored(c), \A k \in Candidate : Inspectable(k)
    PROVE  Runs(EvaluateCandidates)
<1>1. \A kind : Listed(EnsureSuite(kind)) /\ Runs(EnsureSuite(kind))
  <2> SUFFICES ASSUME NEW kind PROVE Listed(EnsureSuite(kind)) /\ Runs(EnsureSuite(kind))
    OBVIOUS
  <2>1. CASE Of("evaluation_suite", kind) = {}
    <3>1. PICK s : s = CurrentSuite(kind)
      OBVIOUS
    <3>2. s.type = "evaluation_suite" /\ s.id = kind
      BY <3>1, CurrentRevision
    <3>3. ~Conflicting(s)
      BY <2>1, <3>2 DEF Conflicting
    <3> QED
      BY <2>1, <3>1, <3>3, NewRuns DEF EnsureSuite
  <2>2. CASE Of("evaluation_suite", kind) # {}
    BY <2>2, RunsSteps DEF EnsureSuite
  <2> QED
    BY <2>1, <2>2
<1>2. PICK m : m = IF CurrentSuite("confirmation").body = "unsealed"
                   THEN PersistRevision(Confirmation) ELSE <<>>
  OBVIOUS
<1>3. Listed(m) /\ Runs(m)
  BY <1>2, NewRuns, RunsSteps
<1>4. \A k \in Candidate : Result(k) = ResultFrom(k, c)
  <2>1. \A k \in Candidate : ArtifactOf(k) = ArtifactFrom(k, c)
    BY OneArtifact DEF Inspectable
  <2>2. Confirmation = SealedSuite
    BY TwoRevisions
  <2> QED
    BY <2>1, <2>2 DEF Result, ResultFrom
<1>5. Recommendation = RecommendationFrom(c)
  <2>1. {Result(k) : k \in Candidate} = {ResultFrom(k, c) : k \in Candidate}
    BY <1>4
  <2> QED
    BY <2>1 DEF Recommendation, RecommendationFrom
<1>6. /\ ~Conflicting(Policy) /\ ~Conflicting(Recommendation)
      /\ ~Conflicting(Result("ember")) /\ ~Conflicting(Result("slate"))
  BY <1>4, <1>5, NoConflict DEF Candidate
<1>7. /\ Listed(PersistNew(Policy)) /\ Runs(PersistNew(Policy))
      /\ Listed(PersistNew(Recommendation)) /\ Runs(PersistNew(Recommendation))
      /\ Listed(PersistNew(Result("ember"))) /\ Runs(PersistNew(Result("ember")))
      /\ Listed(PersistNew(Result("slate"))) /\ Runs(PersistNew(Result("slate")))
  BY <1>6, NewRuns
<1>8. /\ Listed(EnsureSuite("development") \o EnsureSuite("confirmation") \o m)
      /\ Runs(EnsureSuite("development") \o EnsureSuite("confirmation") \o m)
  BY <1>1, <1>3, RunsJoin
<1>9. /\ Listed(EnsureSuite("development") \o EnsureSuite("confirmation") \o m
                \o PersistNew(Policy) \o PersistNew(Result("ember")))
      /\ Runs(EnsureSuite("development") \o EnsureSuite("confirmation") \o m
                \o PersistNew(Policy) \o PersistNew(Result("ember")))
  BY <1>7, <1>8, RunsJoin
<1>10. Runs(EnsureSuite("development") \o EnsureSuite("confirmation") \o m
                \o PersistNew(Policy) \o PersistNew(Result("ember"))
                \o PersistNew(Result("slate")) \o PersistNew(Recommendation))
  BY <1>7, <1>9, RunsJoin
<1>11. EvaluateCandidates = EnsureSuite("development") \o EnsureSuite("confirmation") \o m
                \o PersistNew(Policy) \o PersistNew(Result("ember"))
                \o PersistNew(Result("slate")) \o PersistNew(Recommendation)
  BY <1>2 DEF EvaluateCandidates
<1> QED
  BY <1>10, <1>11

\* A review that is not in the suite yet is captured.
LEMMA CaptureResumes ==
    ASSUME NEW c, Stored(c), NEW kind, NEW r, r \notin Captured(CurrentSuite(kind))
    PROVE  Runs(CaptureReview(r, kind))
<1>1. PICK suite : suite = CurrentSuite(kind)
  OBVIOUS
<1>2. Listed(EnsureSuite(kind)) /\ Runs(EnsureSuite(kind))
  <2>1. CASE Of("evaluation_suite", kind) = {}
    <3>1. suite.type = "evaluation_suite" /\ suite.id = kind
      BY <1>1, CurrentRevision
    <3>2. ~Conflicting(suite)
      BY <2>1, <3>1 DEF Conflicting
    <3> QED
      BY <1>1, <2>1, <3>2, NewRuns DEF EnsureSuite
  <2>2. CASE Of("evaluation_suite", kind) # {}
    BY <2>2, RunsSteps DEF EnsureSuite
  <2> QED
    BY <2>1, <2>2
<1>3. PICK s : s = Revised(suite, "modified", Captured(suite) \cup {r})
  OBVIOUS
<1>4. Listed(PersistRevision(s)) /\ Runs(PersistRevision(s))
  BY NewRuns
<1>5. CaptureReview(r, kind) = EnsureSuite(kind) \o PersistRevision(s)
  BY <1>1, <1>3 DEF CaptureReview
<1> QED
  BY <1>2, <1>4, <1>5, RunsJoin

\* Behind a recommendation there are the artifacts it ranks, and the view counts
\* them.
LEMMA RecommendedArtifacts ==
    ASSUME NEW c, Stored(c), NEW r \in records, r.type \in {"recommendation", "user_decision"}
    PROVE  /\ \A k \in Candidate : Inspectable(k)
           /\ Of("recommendation", "fixture") # {}
           /\ Cardinality({a \in records : a.type = "artifact"}) >= 2
<1>1. PICK w \in records : w.type = "recommendation"
  <2>1. CASE r.type = "recommendation"
    BY <2>1
  <2>2. CASE r.type = "user_decision"
    <3>1. OfIn(records, "recommendation", "fixture") # {}
      BY <2>2 DEF Stored, Based
    <3> QED
      BY <3>1 DEF OfIn
  <2> QED
    BY <2>1, <2>2
<1>2. w.id = "fixture"
  <2>1. w = RecommendationFrom(c)
    BY <1>1 DEF Stored, Formed
  <2> QED
    BY <2>1 DEF RecommendationFrom, Rec
<1>3. \A k \in Candidate :
          OfIn(records, "artifact", k) # {} /\ OfIn(records, "artifact_availability", k) # {}
  BY <1>1 DEF Stored, Based
<1>4. \A k \in Candidate : Inspectable(k)
  BY <1>3 DEF Inspectable, OfIn, Of
<1>5. PICK S : S = {a \in records : a.type = "artifact"}
  OBVIOUS
<1>6. PICK x \in S : x.id = "ember"
  BY <1>3, <1>5 DEF OfIn, Candidate
<1>7. PICK y \in S : y.id = "slate"
  BY <1>3, <1>5 DEF OfIn, Candidate
<1>8. IsFiniteSet(S)
  <2>1. IsFiniteSet(records) /\ S \subseteq records
    BY <1>5 DEF Stored
  <2> QED
    BY <2>1, FS_Subset
<1>9. PICK A : A = {x}
  OBVIOUS
<1>10. PICK B : B = A \cup {y}
  OBVIOUS
<1>11. IsFiniteSet(A) /\ Cardinality(A) = 1
  BY <1>9, FS_Singleton
<1>12. y \notin A
  BY <1>6, <1>7, <1>9
<1>13. Cardinality(B) = 1 + 1 /\ IsFiniteSet(B)
  BY <1>10, <1>11, <1>12, FS_AddElement
<1>14. B \subseteq S
  BY <1>6, <1>7, <1>9, <1>10
<1>15. Cardinality(B) <= Cardinality(S)
  BY <1>8, <1>14, FS_Subset
<1>16. Cardinality(S) \in Nat
  BY <1>8, FS_CardinalityType
<1>17. Cardinality(S) >= 2
  BY <1>13, <1>15, <1>16
<1> QED
  BY <1>1, <1>2, <1>4, <1>5, <1>17 DEF Of

\* A record with the next number meets no other.
LEMMA FreshNumber ==
    ASSUME NEW c, Stored(c), NEW r, Counts(r), r.no = NextLogicalId(r.type, r.id)
    PROVE  ~Conflicting(r)
<1> SUFFICES ASSUME NEW s \in Of(r.type, r.id), s.no = r.no PROVE FALSE
  BY DEF Conflicting
<1>1. s \in records /\ s.type = r.type /\ s.id = r.id
  BY DEF Of
<1>2. s.no <= Cardinality(Of(r.type, r.id)) /\ s.no \in Nat
  BY <1>1 DEF Stored, Counts, Formed
<1>3. /\ Cardinality(Of(r.type, r.id)) \in Nat
      /\ NextLogicalId(r.type, r.id) = Cardinality(Of(r.type, r.id)) + 1
  BY NextNumber
<1> QED
  BY <1>2, <1>3

\* What was compared may be reviewed again.
LEMMA ReviewResumes ==
    ASSUME NEW c, Stored(c), memory.compared
    PROVE  Runs(RecordSoloReview) /\ Runs(PrepareBlindReview)
<1>1. \A id, stage, refs :
          ~Conflicting(Review(id, NextLogicalId("review", id), stage, refs))
  <2> SUFFICES ASSUME NEW id, NEW stage, NEW refs
               PROVE  ~Conflicting(Review(id, NextLogicalId("review", id), stage, refs))
    OBVIOUS
  <2>1. PICK r : r = Review(id, NextLogicalId("review", id), stage, refs)
    OBVIOUS
  <2>2. Counts(r) /\ r.no = NextLogicalId(r.type, r.id)
    BY <2>1 DEF Counts, Review, Rec
  <2> QED
    BY <2>1, <2>2, FreshNumber
<1>2. Runs(RecordSoloReview)
  BY <1>1, NewRuns DEF RecordSoloReview
<1>3. Runs(PrepareBlindReview)
  <2>1. PICK no : no = NextLogicalId("review", "blind")
    OBVIOUS
  <2>2. PICK a, m, z : /\ a = PersistNew(Preparation(no)) /\ m = Remember("packet", no)
                       /\ z = Remember("sealed", 0)
    OBVIOUS
  <2>3. Listed(a) /\ Runs(a)
    BY <1>1, <2>1, <2>2, NewRuns DEF Preparation
  <2>4. Listed(m) /\ Runs(m) /\ Listed(z) /\ Runs(z)
    BY <2>2, RunsSteps
  <2>5. Listed(a \o m) /\ Runs(a \o m)
    BY <2>3, <2>4, RunsJoin
  <2>6. Runs(a \o m \o z)
    BY <2>4, <2>5, RunsJoin
  <2> QED
    BY <2>1, <2>2, <2>6 DEF PrepareBlindReview
<1> QED
  BY <1>2, <1>3

\* What is recommended may be decided on again.
LEMMA DecisionResumes ==
    ASSUME NEW c, Stored(c), Of("recommendation", "fixture") # {}, NEW k, NEW status
    PROVE  Runs(RecordDecision(k, status))
<1>1. PICK w \in records : w.type = "recommendation"
  BY DEF Of
<1>2. CandidateArtifacts
  BY <1>1, RecommendedArtifacts DEF CandidateArtifacts, Inspectable
<1>3. PICK r : r = Rec("user_decision", "fixture",
                       NextLogicalId("user_decision", "fixture"), status,
                       Of("recommendation", "fixture") \cup {ArtifactOf(k)})
  OBVIOUS
<1>4. Counts(r) /\ r.no = NextLogicalId(r.type, r.id)
  BY <1>3 DEF Counts, Rec
<1>5. ~Conflicting(r)
  BY <1>4, FreshNumber
<1> QED
  BY <1>2, <1>3, <1>5, NewRuns DEF RecordDecision

\* What the last decision of a history that can be read selects may be used.
LEMMA UseResumes ==
    ASSUME NEW c, Stored(c), decided \in Seq(ToSet(decided)), HistoryReadable, decided # <<>>,
           NEW k \in Candidate, Selects(Last(decided), k), NEW id
    PROVE  Runs(LocalUse(k, id)) /\ Runs(ExportSelected(k))
<1>1. Last(decided) \in Of("user_decision", "fixture")
  <2>1. PICK Q : Q = ToSet(decided)
    OBVIOUS
  <2>2. decided \in Seq(Q) /\ Len(decided) # 0 /\ Len(decided) \in Nat
    BY <2>1, EmptySeq, LenProperties
  <2>3. decided[Len(decided)] \in Q
    BY <2>2, ElementOfSeq
  <2> QED
    BY <2>1, <2>3 DEF Last, HistoryReadable
<1>2. PICK d \in records : d.type = "user_decision"
  BY <1>1 DEF Of
<1>3. \A h \in Candidate : Inspectable(h)
  BY <1>2, RecommendedArtifacts
<1>4. Authorized(k) /\ Inspectable(k)
  BY <1>3 DEF Authorized, CandidateArtifacts, Inspectable
<1>5. Runs(LocalUse(k, id))
  <2>1. PICK r : r = Session(id, NextLogicalId("local_use_session", id), k)
    OBVIOUS
  <2>2. Counts(r) /\ r.no = NextLogicalId(r.type, r.id)
    BY <2>1 DEF Counts, Session, Rec
  <2>3. ~Conflicting(r)
    BY <2>2, FreshNumber
  <2> QED
    BY <1>4, <2>1, <2>3, NewRuns DEF LocalUse
<1>6. Runs(ExportSelected(k))
  <2>1. PICK r : r = Rec("adapter_export", k, 0, "bundle", {ArtifactOf(k)})
    OBVIOUS
  <2>2. r.type = "adapter_export" /\ r.id = k
    BY <2>1 DEF Rec
  <2>3. ArtifactOf(k) = ArtifactFrom(k, c)
    BY <1>4, OneArtifact DEF Inspectable
  <2>4. \A s \in Of(r.type, r.id) : s = r
    <3> SUFFICES ASSUME NEW s \in Of(r.type, r.id) PROVE s = r
      OBVIOUS
    <3>1. s \in records /\ s.type = "adapter_export" /\ s.id = k
      BY <2>2 DEF Of
    <3>2. Formed(c, s)
      BY <3>1 DEF Stored
    <3>3. s = Rec("adapter_export", s.id, 0, "bundle", {ArtifactFrom(s.id, c)})
      BY <3>1, <3>2 DEF Formed
    <3> QED
      BY <2>1, <2>3, <3>1, <3>3
  <2>5. ~Conflicting(r)
    BY <2>4 DEF Conflicting
  <2> QED
    BY <1>4, <2>1, <2>5, NewRuns DEF ExportSelected
<1> QED
  BY <1>5, <1>6

\* The stages that the view shows complete are so in their order.
LEMMA StagesInOrder ==
    ASSUME NEW c, Stored(c), decided \in Seq(ToSet(decided)), HistoryReadable
    PROVE  \A i \in 2 .. Len(Stages) : Workspace[Stages[i]] => Workspace[Stages[i - 1]]
<1> DEFINE A == {r \in records : r.type = "artifact"}
<1>1. PICK W : W = Workspace
  OBVIOUS
<1>2. /\ W["setup"] = (Of("project", "fixture") # {})
      /\ W["data"] = (Of("dataset_version", "fixture") # {})
      /\ W["recipe"] = ({r \in records : r.type = "experiment"} # {})
      /\ W["run"] = (Cardinality(A) >= 2)
      /\ W["evaluate"] = ({r \in records : r.type = "recommendation"} # {})
      /\ W["use"] = (decided # <<>> /\ Last(decided).body \in {"selected", "pinned"})
  BY <1>1 DEF Workspace
<1>3. W["data"] => W["setup"]
  <2>1. ASSUME NEW d \in records, d.type = "dataset_version"
        PROVE  Of("project", "fixture") # {}
    <3>1. Project \in records
      BY <2>1 DEF Stored, Based
    <3>2. Project.type = "project" /\ Project.id = "fixture"
      BY DEF Project, Rec
    <3> QED
      BY <3>1, <3>2 DEF Of
  <2> QED
    BY <1>2, <2>1 DEF Of
<1>4. W["recipe"] => W["data"]
  <2>1. ASSUME NEW e \in records, e.type = "experiment"
        PROVE  Of("dataset_version", "fixture") # {}
    <3>1. Dataset(c) \in records
      BY <2>1 DEF Stored, Based, Derived
    <3>2. Dataset(c).type = "dataset_version" /\ Dataset(c).id = "fixture"
      BY DEF Dataset, Rec
    <3> QED
      BY <3>1, <3>2 DEF Of
  <2> QED
    BY <1>2, <2>1
<1>5. W["run"] => W["recipe"]
  <2>1. ASSUME Cardinality(A) >= 2 PROVE A # {}
    <3>1. PICK B : B = A
      OBVIOUS
    <3>2. B = {} => Cardinality(B) = 0
      BY FS_EmptySet
    <3> QED
      BY <2>1, <3>1, <3>2
  <2>2. ASSUME NEW a \in A PROVE \E e \in records : e.type = "experiment"
    BY DEF Stored, Based
  <2> QED
    BY <1>2, <2>1, <2>2
<1>6. W["evaluate"] => W["run"]
  BY <1>2, RecommendedArtifacts
<1>7. W["use"] => W["evaluate"]
  <2>1. ASSUME decided # <<>> PROVE \E r \in records : r.type = "recommendation"
    <3>1. PICK Q : Q = ToSet(decided)
      OBVIOUS
    <3>2. decided \in Seq(Q) /\ Len(decided) # 0 /\ Len(decided) \in Nat
      BY <2>1, <3>1, EmptySeq, LenProperties
    <3>3. decided[Len(decided)] \in Q
      BY <3>2, ElementOfSeq
    <3>4. PICK d \in records : d.type = "user_decision"
      BY <3>1, <3>3 DEF HistoryReadable, Of
    <3> QED
      BY <3>4, RecommendedArtifacts DEF Of
  <2> QED
    BY <1>2, <2>1
<1>8. /\ Len(Stages) = 6 /\ Stages[1] = "setup" /\ Stages[2] = "data" /\ Stages[3] = "recipe"
      /\ Stages[4] = "run" /\ Stages[5] = "evaluate" /\ Stages[6] = "use"
  BY DEF Stages
<1>9. \A i \in 2 .. 6 : i = 2 \/ i = 3 \/ i = 4 \/ i = 5 \/ i = 6
  OBVIOUS
<1> QED
  BY <1>1, <1>3, <1>4, <1>5, <1>6, <1>7, <1>8, <1>9

\* Whatever failed, died half-way or was lost with the memory, each stage can be
\* asked for again and goes through, and the view shows the stages in order.
THEOREM StagesGoThrough == Spec => []StagesResume
<1>1. JourneyInv => StagesResume
  <2> SUFFICES ASSUME JourneyInv PROVE StagesResume
    OBVIOUS
  <2>1. PICK c \in Source : Stored(c) /\ Remembered(c)
    BY DEF JourneyInv
  <2>2. decided \in Seq(ToSet(decided))
    BY DEF JourneyInv
  <2>3. ShownTruly
    <3>1. Workspace.reimport => memory.prepared = None
      BY DEF Workspace
    <3> QED
      BY <2>1, <2>2, <3>1, StagesInOrder, LaunchesResume DEF ShownTruly
  <2>4. \A d \in Of("dataset_version", "fixture") : Runs(ImportDataset(d.body))
    BY <2>1, ImportResumes
  <2>5. memory.prepared # None /\ LaunchesWhole => Runs(LaunchCandidates)
    BY <2>1, LaunchesResume
  <2>6. (\A k \in Candidate : Inspectable(k)) => Runs(EvaluateCandidates)
    BY <2>1, EvaluationResumes
  <2>7. Of("recommendation", "fixture") # {} =>
            \A k \in Candidate, s \in Status : Runs(RecordDecision(k, s))
    BY <2>1, DecisionResumes
  <2>8. \A r \in Capturable \ Captured(CurrentSuite("development")) :
            Runs(CaptureReview(r, "development"))
    BY <2>1, CaptureResumes
  <2>9. HistoryReadable /\ decided # <<>> =>
            \A k \in Candidate : Selects(Last(decided), k) =>
                Runs(LocalUse(k, "focused-" \o k)) /\ Runs(ExportSelected(k))
    BY <2>1, <2>2, UseResumes
  <2>10. memory.compared => Runs(RecordSoloReview) /\ Runs(PrepareBlindReview)
    BY <2>1, ReviewResumes
  <2> QED
    BY <2>3, <2>4, <2>5, <2>6, <2>7, <2>8, <2>9, <2>10 DEF StagesResume
<1> QED
  BY <1>1, JourneyInductive, PTL

=============================================================================
