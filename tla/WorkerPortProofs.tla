-------------------------- MODULE WorkerPortProofs --------------------------
(***************************************************************************)
(* Proofs about WorkerPort, for any number of hosts, launches, workers,    *)
(* failed writes and training steps.                                       *)
(***************************************************************************)
EXTENDS WorkerPort, FiniteSetTheorems, SequenceTheorems, WellFoundedInduction, TLAPS

-----------------------------------------------------------------------------
(* Message files in the order of their numbers                             *)

DistinctIn(F) == \A f, g \in F : f.sequence = g.sequence => f = g

UpTo(F, n) == {f \in F : f.sequence <= n}

Rank(F, m) == Cardinality(UpTo(F, m.sequence))

\* A sequence of files whose positions are their numbers.
AlignedIn(F, q) == \A i \in DOMAIN q : q[i] \in F /\ q[i].sequence = i

\* Different files stand at different places, and each place is taken.
LEMMA Ranks ==
    ASSUME NEW F \in SUBSET Message, IsFiniteSet(F), DistinctIn(F)
    PROVE  /\ Cardinality(F) \in Nat
           /\ \A m \in F : Rank(F, m) \in 1 .. Cardinality(F)
           /\ \A m, n \in F : Rank(F, m) = Rank(F, n) => m = n
           /\ \A i \in 1 .. Cardinality(F) : \E m \in F : Rank(F, m) = i
<1>1. Cardinality(F) \in Nat
  BY FS_CardinalityType
<1>2. \A n : UpTo(F, n) \in SUBSET F
  BY DEF UpTo
<1>3. \A n : IsFiniteSet(UpTo(F, n)) /\ Cardinality(UpTo(F, n)) <= Cardinality(F)
             /\ Cardinality(UpTo(F, n)) \in Nat
  BY <1>2, FS_Subset, FS_CardinalityType
<1>4. ASSUME NEW m \in F PROVE Rank(F, m) \in 1 .. Cardinality(F)
  <2>1. m.sequence \in Nat
    BY DEF Message
  <2>2. m \in UpTo(F, m.sequence)
    BY <2>1 DEF UpTo
  <2>3. Cardinality(UpTo(F, m.sequence)) # 0
    BY <1>3, <2>2, FS_EmptySet
  <2> QED
    BY <1>1, <1>3, <2>3 DEF Rank
<1>5. ASSUME NEW m \in F, NEW n \in F, m.sequence < n.sequence PROVE Rank(F, m) # Rank(F, n)
  <2>1. m.sequence \in Nat /\ n.sequence \in Nat /\ \A f \in F : f.sequence \in Nat
    BY DEF Message
  <2>2. UpTo(F, m.sequence) \in SUBSET UpTo(F, n.sequence)
    BY <1>5, <2>1 DEF UpTo
  <2>3. n \in UpTo(F, n.sequence) /\ n \notin UpTo(F, m.sequence)
    BY <1>5, <2>1 DEF UpTo
  <2> QED
    BY <1>3, <2>2, <2>3, FS_Subset DEF Rank
<1>6. ASSUME NEW m \in F, NEW n \in F, Rank(F, m) = Rank(F, n) PROVE m = n
  <2>1. m.sequence \in Nat /\ n.sequence \in Nat
    BY DEF Message
  <2>2. m.sequence = n.sequence
    BY <1>5, <1>6, <2>1
  <2> QED
    BY <2>2 DEF DistinctIn
<1>7. ASSUME NEW i \in 1 .. Cardinality(F) PROVE \E m \in F : Rank(F, m) = i
  <2> DEFINE r == [m \in F |-> Rank(F, m)]
             I == 1 .. Cardinality(F)
  <2>1. r \in Injection(F, I)
    BY <1>4, <1>6 DEF Injection, IsInjective
  <2>2. IsFiniteSet(I) /\ Cardinality(I) = Cardinality(F)
    BY <1>1, FS_Interval
  <2> HIDE DEF I
  <2>3. r \in Surjection(F, I)
    BY <2>1, <2>2, FS_Injection
  <2> QED
    BY <2>3 DEF Surjection, I
<1> QED
  BY <1>1, <1>4, <1>6, <1>7

\* InOrder lists every file once.
LEMMA Listing ==
    ASSUME NEW F \in SUBSET Message, IsFiniteSet(F), DistinctIn(F)
    PROVE  /\ InOrder(F) \in Seq(Message) /\ Len(InOrder(F)) = Cardinality(F)
           /\ \A i \in DOMAIN InOrder(F) : InOrder(F)[i] \in F /\ Rank(F, InOrder(F)[i]) = i
           /\ \A m \in F : m = InOrder(F)[Rank(F, m)] /\ Rank(F, m) \in DOMAIN InOrder(F)
<1>1. InOrder(F) = [i \in 1 .. Cardinality(F) |-> CHOOSE m \in F : Rank(F, m) = i]
  BY DEF InOrder, Rank, UpTo
<1>2. \A i \in 1 .. Cardinality(F) : InOrder(F)[i] \in F /\ Rank(F, InOrder(F)[i]) = i
  BY <1>1, Ranks
<1>3. Cardinality(F) \in Nat
  BY Ranks
<1>4. InOrder(F) \in Seq(Message) /\ Len(InOrder(F)) = Cardinality(F)
  BY <1>1, <1>2, <1>3
<1>5. DOMAIN InOrder(F) = 1 .. Cardinality(F)
  BY <1>1
<1>6. \A m \in F : m = InOrder(F)[Rank(F, m)] /\ Rank(F, m) \in DOMAIN InOrder(F)
  BY <1>2, <1>5, Ranks
<1> QED
  BY <1>2, <1>4, <1>5, <1>6

\* What is aligned with the files is how their list begins.
LEMMA AlignedBegins ==
    ASSUME NEW F \in SUBSET Message, IsFiniteSet(F), DistinctIn(F),
           NEW q \in Seq(Message), AlignedIn(F, q)
    PROVE  /\ Len(q) <= Len(InOrder(F))
           /\ \A i \in 1 .. Len(q) : InOrder(F)[i] = q[i]
<1>1. Len(q) \in Nat /\ DOMAIN q = 1 .. Len(q)
  OBVIOUS
<1>2. ASSUME NEW i \in 1 .. Len(q) PROVE Rank(F, q[i]) = i
  <2> DEFINE U == UpTo(F, i)
             b == [k \in 1 .. i |-> q[k]]
  <2>1. q[i].sequence = i /\ i \in Nat
    BY <1>1 DEF AlignedIn
  <2>2. \A k \in 1 .. i : k \in DOMAIN q /\ q[k] \in F /\ q[k].sequence = k
    BY <1>1 DEF AlignedIn
  <2>3. \A k \in 1 .. i : q[k] \in U
    BY <2>1, <2>2 DEF UpTo
  <2>4. \A f \in U : f.sequence \in 1 .. i /\ f = q[f.sequence]
    <3> SUFFICES ASSUME NEW f \in U PROVE f.sequence \in 1 .. i /\ f = q[f.sequence]
      OBVIOUS
    <3>1. f \in F /\ f.sequence \in Nat \ {0} /\ f.sequence <= i
      BY DEF UpTo, Message
    <3>2. f.sequence \in 1 .. i
      BY <2>1, <3>1
    <3> QED
      BY <2>2, <3>1, <3>2 DEF DistinctIn
  <2>5. \A j, k \in 1 .. i : q[j] = q[k] => j = k
    BY <2>2
  <2> HIDE DEF U
  <2>6. b \in Bijection(1 .. i, U)
    BY <2>3, <2>4, <2>5 DEF IsInjective, Bijection, Injection, Surjection
  <2>7. Cardinality(U) = i
    BY <2>1, <2>6, FS_CountingElements DEF ExistsBijection
  <2> QED
    BY <2>1, <2>7 DEF Rank, U
<1>3. \A i \in 1 .. Len(q) : InOrder(F)[i] = q[i] /\ i \in DOMAIN InOrder(F)
  <2> SUFFICES ASSUME NEW i \in 1 .. Len(q)
               PROVE  InOrder(F)[i] = q[i] /\ i \in DOMAIN InOrder(F)
    OBVIOUS
  <2>1. q[i] \in F
    BY <1>1 DEF AlignedIn
  <2> QED
    BY <1>2, <2>1, Listing
<1>4. Len(q) <= Len(InOrder(F))
  <2>1. InOrder(F) \in Seq(Message)
    BY Listing
  <2>2. CASE Len(q) = 0
    BY <2>1, <2>2
  <2>3. CASE Len(q) # 0
    <3>1. Len(q) \in DOMAIN InOrder(F)
      BY <1>1, <1>3, <2>3
    <3> QED
      BY <1>1, <2>1, <3>1
  <2> QED
    BY <2>2, <2>3
<1> QED
  BY <1>3, <1>4

\* A list that is aligned with the files and misses none is their list.
LEMMA AlignedWhole ==
    ASSUME NEW F \in SUBSET Message, IsFiniteSet(F), DistinctIn(F),
           NEW q \in Seq(Message), AlignedIn(F, q),
           \A f \in F : f.sequence <= Len(q)
    PROVE  InOrder(F) = q
<1>1. /\ InOrder(F) \in Seq(Message)
      /\ Len(q) \in Nat /\ DOMAIN q = 1 .. Len(q)
      /\ Len(q) <= Len(InOrder(F)) /\ \A i \in 1 .. Len(q) : InOrder(F)[i] = q[i]
  BY Listing, AlignedBegins
<1>2. Len(InOrder(F)) \in Nat /\ DOMAIN InOrder(F) = 1 .. Len(InOrder(F))
  BY <1>1
<1>3. ASSUME NEW i \in DOMAIN InOrder(F) PROVE i <= Len(q)
  <2>1. InOrder(F)[i] \in F /\ Rank(F, InOrder(F)[i]) = i
    BY Listing
  <2> DEFINE k == InOrder(F)[i].sequence
  <2>2. k \in 1 .. Len(q)
    BY <1>1, <2>1 DEF Message
  <2>3. q[k] \in F /\ q[k].sequence = k
    BY <1>1, <2>2 DEF AlignedIn
  <2>4. q[k] = InOrder(F)[i]
    BY <2>1, <2>3 DEF DistinctIn
  <2>5. Rank(F, q[k]) = k
    <3>1. InOrder(F)[k] = q[k] /\ k \in DOMAIN InOrder(F)
      BY <1>1, <1>2, <2>2
    <3> QED
      BY <3>1, Listing
  <2> QED
    BY <2>1, <2>2, <2>4, <2>5
<1>4. Len(InOrder(F)) = Len(q)
  <2>1. CASE Len(InOrder(F)) = 0
    BY <1>1, <2>1
  <2>2. CASE Len(InOrder(F)) # 0
    <3>1. Len(InOrder(F)) \in DOMAIN InOrder(F)
      BY <1>2, <2>2
    <3>2. Len(InOrder(F)) <= Len(q)
      BY <1>3, <3>1, Zenon
    <3>3. Len(q) \in Nat /\ Len(InOrder(F)) \in Nat /\ Len(q) <= Len(InOrder(F))
      BY <1>1, <1>2
    <3> QED
      BY <3>2, <3>3
  <2> QED
    BY <2>1, <2>2
<1> QED
  BY <1>1, <1>2, <1>4

\* What passes the reader is aligned with the files.
LEMMA ReadableAligned ==
    ASSUME NEW F \in SUBSET Message, IsFiniteSet(F), DistinctIn(F), Readable(F)
    PROVE  AlignedIn(F, InOrder(F))
BY Listing DEF Readable, AlignedIn

-----------------------------------------------------------------------------
(* Rebuilding controllers.  The fold goes through the positions of the     *)
(* messages by a recursive function, which Folds says of g.                *)

Taken(cs, m) == {Transition(c, m) : c \in {d \in cs : Accepts(d, m)}}

Folds(messages, n, g) ==
    g = [t \in SUBSET (1 .. n) |->
            IF t = {} THEN {NewController} ELSE Taken(g[t \ {Max(t)}], messages[Max(t)])]

LEMMA GreatestIs ==
    ASSUME NEW n \in Nat, NEW t \in SUBSET (1 .. n), n \in t
    PROVE  Max(t) = n
<1>1. \A y \in t : n >= y
  OBVIOUS
<1>2. \A x \in t : (\A y \in t : x >= y) => x = n
  OBVIOUS
<1> QED
  BY <1>1, <1>2 DEF Max

LEMMA FoldStep ==
    ASSUME NEW messages, NEW n \in Nat, NEW g, Folds(messages, n, g)
    PROVE  \E f : Folds(messages, n + 1, f)
<1> DEFINE f == [t \in SUBSET (1 .. n + 1) |->
                    IF n + 1 \in t THEN Taken(g[t \ {n + 1}], messages[n + 1]) ELSE g[t]]
<1>1. ASSUME NEW t \in SUBSET (1 .. n + 1)
      PROVE  f[t] = IF t = {} THEN {NewController}
                    ELSE Taken(f[t \ {Max(t)}], messages[Max(t)])
  <2>1. CASE n + 1 \in t
    <3>1. Max(t) = n + 1 /\ t # {}
      BY <2>1, GreatestIs
    <3>2. t \ {n + 1} \in SUBSET (1 .. n + 1) /\ n + 1 \notin t \ {n + 1}
      OBVIOUS
    <3>3. f[t \ {n + 1}] = g[t \ {n + 1}]
      BY <3>2
    <3>4. f[t] = Taken(g[t \ {n + 1}], messages[n + 1])
      BY <2>1
    <3> HIDE DEF f
    <3> QED
      BY <3>1, <3>3, <3>4
  <2>2. CASE n + 1 \notin t
    <3>1. t \in SUBSET (1 .. n)
      BY <2>2
    <3>2. f[t] = g[t] /\ f[t \ {Max(t)}] = g[t \ {Max(t)}]
      BY <2>2
    <3>3. g[t] = IF t = {} THEN {NewController} ELSE Taken(g[t \ {Max(t)}], messages[Max(t)])
      BY <3>1 DEF Folds
    <3> HIDE DEF f
    <3> QED
      BY <3>2, <3>3
  <2> QED
    BY <2>1, <2>2
<1>2. f = [t \in SUBSET (1 .. n + 1) |-> f[t]]
  OBVIOUS
<1> HIDE DEF f
<1>3. f = [t \in SUBSET (1 .. n + 1) |->
              IF t = {} THEN {NewController} ELSE Taken(f[t \ {Max(t)}], messages[Max(t)])]
  BY <1>1, <1>2
<1> QED
  BY <1>3 DEF Folds

\* The recursive function exists: of the lengths for which it did not there
\* would be a least one.
LEMMA FoldExists ==
    ASSUME NEW messages, NEW n \in Nat
    PROVE  \E g : Folds(messages, n, g)
<1> DEFINE Bad == {k \in Nat : ~\E g : Folds(messages, k, g)}
<1> SUFFICES ASSUME n \in Bad PROVE FALSE
  OBVIOUS
<1>1. PICK k \in Bad : \A j \in Bad : ~(<<j, k>> \in OpToRel(<, Nat))
  BY WFMin, NatLessThanWellFounded
<1>2. k # 0
  <2>1. SUBSET (1 .. 0) = {{}}
    OBVIOUS
  <2>2. Folds(messages, 0, [t \in SUBSET (1 .. 0) |-> {NewController}])
    BY <2>1 DEF Folds
  <2> QED
    BY <2>2
<1>3. k - 1 \in Nat /\ k \in Nat /\ k - 1 < k /\ k = (k - 1) + 1
  BY <1>2
<1>4. <<k - 1, k>> \in OpToRel(<, Nat)
  BY <1>3 DEF OpToRel
<1>5. \E g : Folds(messages, k - 1, g)
  BY <1>1, <1>3, <1>4
<1>6. \E g : Folds(messages, k, g)
  BY <1>3, <1>5, FoldStep
<1> QED
  BY <1>6

\* The controllers that accepted all messages are those that accepted the last
\* one after the others.
LEMMA ReconstructedLast ==
    ASSUME NEW messages \in Seq(Message)
    PROVE  /\ Len(messages) = 0 => Reconstructed(messages) = {NewController}
           /\ Len(messages) # 0 =>
                \E cs : Reconstructed(messages) = Taken(cs, messages[Len(messages)])
<1> DEFINE n == Len(messages)
           g == CHOOSE g : Folds(messages, n, g)
<1>1. n \in Nat /\ DOMAIN messages = 1 .. n
  OBVIOUS
<1>2. Folds(messages, n, g)
  BY <1>1, FoldExists
<1>3. Reconstructed(messages) = g[1 .. n]
  BY <1>1 DEF Reconstructed, FoldLeft, MapThenFoldSet, Folds, Taken
<1> HIDE DEF n, g
<1>4. CASE n = 0
  <2>1. 1 .. n = {}
    BY <1>4
  <2> QED
    BY <1>2, <1>3, <1>4, <2>1 DEF Folds, n
<1>5. CASE n # 0
  <2>1. Max(1 .. n) = n /\ 1 .. n # {}
    BY <1>1, <1>5, GreatestIs
  <2>2. g[1 .. n] = Taken(g[(1 .. n) \ {n}], messages[n])
    BY <1>2, <2>1 DEF Folds
  <2> QED
    BY <1>3, <1>5, <2>2 DEF n
<1> QED
  BY <1>4, <1>5 DEF n

\* A controller in a terminal state took the message of that kind last.
LEMMA TerminalSaid ==
    ASSUME NEW messages \in Seq(Message), NEW status \in TerminalKind,
           TerminalEvidence(status, messages)
    PROVE  Len(messages) > 0 /\ messages[Len(messages)].kind = status
<1>1. PICK c \in Reconstructed(messages) : c.state = status
  BY DEF TerminalEvidence
<1>2. Len(messages) # 0
  BY <1>1, ReconstructedLast DEF NewController, TerminalKind
<1>3. PICK cs : c \in Taken(cs, messages[Len(messages)])
  BY <1>1, <1>2, ReconstructedLast
<1> DEFINE m == messages[Len(messages)]
<1>4. PICK d \in cs : Accepts(d, m) /\ c = Transition(d, m)
  BY <1>3 DEF Taken
<1>5. m \in Message
  BY <1>2
<1> HIDE DEF m
<1>6. c.state = Successor(d, m)
  BY <1>4 DEF Transition
<1>7. d.state \notin TerminalKind /\ (m.kind = "reconnected" => d.resume \in Live)
  BY <1>4 DEF Accepts, Admits, Terminal
<1>8. m.kind = status
  <2>1. m.kind \in Kind
    BY <1>5 DEF Message
  <2> QED
    BY <1>1, <1>6, <1>7, <2>1
       DEF Successor, Kind, Activity, Stepped, Link, TerminalKind, Live
<1> QED
  BY <1>2, <1>8 DEF m

-----------------------------------------------------------------------------
(* The inductive invariant                                                 *)

Working == {"launching", "checking", "asking", "measuring", "beating", "saving",
            "rechecking", "responding", "bundling", "ending"}
Ending == {"responding", "bundling", "ending"}
WorkerPoint == Working \cup {"unborn", "failing", "reporting", "exited", "dead"}
HostPoint == {"idle", "opening", "polling", "controlling", "clocking", "waiting",
              "collecting", "judging"}
Outcome == Status \cup {"none", "callback_failed", "ledger_invalid", "evidence_invalid",
                        "reconciliation", "timeout", "disconnected", "died"}

\* The variables the argument is about.
TypeOK ==
    /\ ledger \in SUBSET Message /\ IsFiniteSet(ledger)
    /\ response \in Status \cup {"none"}
    /\ wpc \in [Worker -> WorkerPoint]
    /\ wseq \in [Worker -> Nat] /\ wstep \in [Worker -> Nat]
    /\ wresult \in [Worker -> Status \cup {"none"}]
    /\ DOMAIN wctl = Worker /\ \A w \in Worker : wctl[w].messages \in Seq(Message)
    /\ hpc \in [Host -> HostPoint] /\ outcome \in [Host -> Outcome]
    /\ delivered \in [Host -> Seq(Message)] /\ seen \in [Host -> Seq(Message)]

\* No number is used twice, and none is left out below a message that is not
\* the last word of a worker that failed.
Numbered ==
    /\ DistinctIn(ledger)
    /\ \A f \in ledger : f.kind # "failed" =>
           \A k \in 1 .. f.sequence - 1 : \E g \in ledger : g.sequence = k

Told(w) == wctl[w].messages

\* A worker at work has on disk all it told, under its numbers.
InStep(w) ==
    /\ Len(Told(w)) = wseq[w]
    /\ \A k \in 1 .. wseq[w] :
         /\ Told(w)[k] \in ledger /\ Told(w)[k].sequence = k
         /\ Told(w)[k].kind \notin TerminalKind
         /\ Told(w)[k].kind = "cancellation_requested" =>
              wpc[w] \in Ending /\ wresult[w] = "cancelled"

\* Its last metric is that of the last step it trained.
Measured(w) ==
    wstep[w] > 0 =>
        \E k \in 1 .. wseq[w] :
            /\ Told(w)[k].kind = "metric" /\ Told(w)[k].value = wstep[w]
            /\ \A j \in 1 .. wseq[w] : Told(w)[j].kind = "metric" => j <= k

\* What is true of a worker wherever it is in its script.
Script(w) ==
    /\ wpc[w] \in {"unborn", "launching"} =>
         wseq[w] = 0 /\ wstep[w] = 0 /\ Told(w) = <<>>
    /\ wpc[w] \in Working => InStep(w) /\ wstep[w] <= TrainingSteps
    /\ wpc[w] \in Working \ {"measuring"} => Measured(w)
    /\ wpc[w] \in {"launching", "checking", "asking"} => wstep[w] < TrainingSteps
    /\ wpc[w] \in Ending => wresult[w] \in {"completed", "cancelled", "interrupted"}
    /\ wpc[w] \in Ending /\ wresult[w] = "completed" => wstep[w] = TrainingSteps
    /\ wpc[w] \in {"bundling", "ending"} => response = wresult[w]
    /\ wpc[w] = "bundling" => wresult[w] = "completed"
    /\ wpc[w] = "ending" /\ wresult[w] = "completed" =>
         wseq[w] > 0 /\ Told(w)[wseq[w]].kind = "artifact_ready"
    /\ wpc[w] = "reporting" => response = "failed"

\* A completed message is the last one and closes a whole training.
Whole ==
    \A m \in ledger : m.kind = "completed" =>
        /\ \A f \in ledger : f.sequence <= m.sequence /\ f.kind # "cancellation_requested"
        /\ \E f \in ledger : f.sequence = m.sequence - 1 /\ f.kind = "artifact_ready"
        /\ \E f \in ledger :
             /\ f.kind = "metric" /\ f.value = TrainingSteps
             /\ \A g \in ledger : g.kind = "metric" => g.sequence <= f.sequence

\* Every message was numbered by a worker; of one worker that was alone the
\* terminal message is the last, and it is gone.
Authored == \A f \in ledger : \E w \in Spawned : f.sequence <= wseq[w]

Alone == \A v, w \in Spawned : v = w

LastWord ==
    Alone => \A m \in ledger : m.kind \in TerminalKind =>
                 /\ \A w \in Worker : wpc[w] \in {"unborn", "exited"}
                 /\ \A f \in ledger : f.sequence <= m.sequence

EndsIn(q, status) == Len(q) > 0 /\ q[Len(q)].kind = status

\* What a host read and handed over is on disk; a status it reported is that
\* of the response, and messages on disk prove it.
Account(h) ==
    /\ AlignedIn(ledger, delivered[h])
    /\ hpc[h] \in {"opening", "judging"} => AlignedIn(ledger, seen[h])
    /\ hpc[h] = "opening" => delivered[h] = <<>>
    /\ hpc[h] = "judging" => delivered[h] = seen[h]
    /\ outcome[h] \in Status =>
         /\ response = outcome[h]
         /\ \E q \in Seq(Message) : /\ AlignedIn(ledger, q) /\ EndsIn(q, response)
                                     /\ TerminalEvidence(response, q)
    /\ outcome[h] = "completed" /\ hpc[h] = "idle" => EndsIn(delivered[h], "completed")

IInv ==
    /\ TypeOK /\ Numbered /\ TerminalMatchesResponse
    /\ \A w \in Worker : Script(w)
    /\ Whole /\ Authored /\ LastWord
    /\ \A h \in Host : Account(h)

-----------------------------------------------------------------------------
(* Steps                                                                   *)

SameWorker(w) ==
    /\ wpc'[w] = wpc[w] /\ wseq'[w] = wseq[w] /\ wstep'[w] = wstep[w]
    /\ wresult'[w] = wresult[w] /\ wctl'[w] = wctl[w]

SameHost(h) ==
    /\ hpc'[h] = hpc[h] /\ delivered'[h] = delivered[h]
    /\ seen'[h] = seen[h] /\ outcome'[h] = outcome[h]

\* What an actor knows is not undone by others: files are written once.
LEMMA Frame ==
    ASSUME IInv, ledger \subseteq ledger', response \in {"none", response'}
    PROVE  /\ \A w \in Worker : SameWorker(w) => Script(w)'
           /\ \A h \in Host : SameHost(h) => Account(h)'
<1>1. ASSUME NEW w \in Worker, SameWorker(w) PROVE Script(w)'
  <2>1. Script(w)
    BY DEF IInv
  <2>2. InStep(w) => InStep(w)'
    BY <1>1 DEF InStep, Told, SameWorker
  <2>3. Measured(w) => Measured(w)'
    BY <1>1 DEF Measured, Told, SameWorker
  <2>4. Told(w)' = Told(w)
    BY <1>1 DEF Told, SameWorker
  <2>5. response = "none" => wpc[w] \notin {"bundling", "ending", "reporting"}
    BY <2>1 DEF Script, Ending
  <2> QED
    BY <1>1, <2>1, <2>2, <2>3, <2>4, <2>5 DEF Script, SameWorker
<1>2. ASSUME NEW h \in Host, SameHost(h) PROVE Account(h)'
  <2>1. Account(h)
    BY DEF IInv
  <2>2. \A q : AlignedIn(ledger, q) => AlignedIn(ledger', q)
    BY DEF AlignedIn
  <2>3. outcome[h] \in Status => response = response'
    BY <2>1 DEF Account, Status, TerminalKind
  <2> QED
    BY <1>2, <2>1, <2>2, <2>3 DEF Account, SameHost
<1> QED
  BY <1>1, <1>2

\* A worker's step that writes no message.
LEMMA QuietWorker ==
    ASSUME IInv, TypeOK', NEW w \in Worker, Running(w),
           ledger' = ledger, response \in {"none", response'},
           \A v \in Worker \ {w} : SameWorker(v), \A h \in Host : SameHost(h),
           wseq[w] <= wseq'[w], wpc'[w] # "unborn", Script(w)'
    PROVE  IInv'
<1>1. (\A v \in Worker : Script(v)') /\ \A h \in Host : Account(h)'
  BY Frame
<1>2. TerminalMatchesResponse'
  BY DEF IInv, TypeOK, TerminalMatchesResponse, TerminalKind
<1>3. Numbered' /\ Whole'
  BY DEF IInv, Numbered, Whole
<1>4. Spawned' = Spawned
  BY DEF Spawned, SameWorker, Running
<1>5. Authored'
  <2>1. \A v \in Spawned : wseq[v] <= wseq'[v] /\ wseq[v] \in Nat /\ wseq'[v] \in Nat
    <3>1. wseq \in [Worker -> Nat] /\ wseq' \in [Worker -> Nat]
      BY DEF IInv, TypeOK
    <3>2. \A v \in Worker : v = w \/ wseq'[v] = wseq[v]
      BY DEF SameWorker
    <3> QED
      BY <3>1, <3>2 DEF Spawned
  <2>2. \A f \in ledger : f.sequence \in Nat
    BY DEF IInv, TypeOK, Message
  <2> QED
    BY <1>4, <2>1, <2>2 DEF IInv, Authored
<1>6. LastWord'
  <2>1. Alone' => Alone
    BY <1>4 DEF Alone
  <2>2. Alone => \A m \in ledger : m.kind \notin TerminalKind
    BY DEF IInv, LastWord, Running
  <2> QED
    BY <2>1, <2>2 DEF LastWord
<1> QED
  BY <1>1, <1>2, <1>3, <1>5, <1>6 DEF IInv

\* A worker's step that writes a message.
LEMMA WriteStep ==
    ASSUME IInv, TypeOK', NEW w \in Worker, NEW m \in Message,
           m.sequence = wseq[w] + 1, MayWrite(m), ledger' = ledger \cup {m},
           UNCHANGED response, wseq'[w] = wseq[w] + 1,
           \A v \in Worker \ {w} : SameWorker(v), \A h \in Host : SameHost(h),
           \/ wpc[w] \in Working /\ m.kind # "failed"
           \/ wpc[w] = "reporting" /\ m.kind = "failed",
           m.kind \in TerminalKind => m.kind = response /\ wpc'[w] = "exited",
           m.kind = "completed" => wpc[w] = "ending" /\ wresult[w] = "completed",
           wpc'[w] # "unborn", Script(w)'
    PROVE  IInv'
<1>1. (\A v \in Worker : Script(v)') /\ \A h \in Host : Account(h)'
  BY Frame
<1>2. TerminalMatchesResponse'
  BY DEF IInv, TerminalMatchesResponse
<1>3. /\ wseq[w] \in Nat /\ TrainingSteps \in Nat \ {0}
      /\ \A f \in ledger : f.sequence \in Nat \ {0}
  BY StepsAssumption DEF IInv, TypeOK, Message
<1>4. Running(w) /\ Script(w) /\ (wpc[w] \in Working => InStep(w))
  BY DEF IInv, Script, Running, Working
<1>5. Numbered'
  <2>1. DistinctIn(ledger)'
    BY DEF IInv, Numbered, DistinctIn, MayWrite
  <2>2. m.kind # "failed" => \A k \in 1 .. m.sequence - 1 : \E g \in ledger : g.sequence = k
    BY <1>3, <1>4 DEF InStep, Working
  <2> QED
    BY <2>1, <2>2 DEF IInv, Numbered
<1>6. \A k \in 1 .. wseq[w], f \in ledger :
         wpc[w] \in Working /\ f.sequence = k => f = Told(w)[k] /\ f.kind \notin TerminalKind
  BY <1>4 DEF IInv, Numbered, DistinctIn, InStep
<1>7. ASSUME NEW n \in ledger, n.kind = "completed" PROVE ledger' = ledger
  <2>1. response = "completed"
    BY <1>7 DEF IInv, TerminalMatchesResponse, TerminalKind
  <2>2. wpc[w] \in Working /\ m.kind # "failed"
    BY <1>4, <2>1 DEF Script
  <2>3. ~(n.sequence <= wseq[w])
    BY <1>3, <1>6, <1>7, <2>2 DEF TerminalKind
  <2>4. m.sequence \in 1 .. n.sequence
    BY <1>3, <2>3
  <2>5. CASE m.sequence = n.sequence
    BY <2>5 DEF MayWrite
  <2>6. CASE m.sequence # n.sequence
    <3>1. m.sequence \in 1 .. n.sequence - 1
      BY <1>3, <2>4, <2>6
    <3>2. PICK g \in ledger : g.sequence = m.sequence
      BY <1>7, <3>1 DEF IInv, Numbered
    <3> QED
      BY <3>2 DEF MayWrite
  <2> QED
    BY <2>5, <2>6
<1>8. Whole'
  <2>1. CASE \E n \in ledger : n.kind = "completed"
    <3>1. ledger' = ledger
      BY <1>7, <2>1
    <3> QED
      BY <3>1 DEF IInv, Whole
  <2>2. CASE (\A n \in ledger : n.kind # "completed") /\ m.kind # "completed"
    BY <2>2 DEF Whole
  <2>3. CASE (\A n \in ledger : n.kind # "completed") /\ m.kind = "completed"
    <3>1. /\ wpc[w] = "ending" /\ wresult[w] = "completed" /\ response = "completed"
          /\ wpc[w] \in Working \ {"measuring"}
      BY <2>3 DEF TerminalKind, Working
    <3>2. \A f \in ledger : f.kind # "failed"
      BY <3>1 DEF IInv, TerminalMatchesResponse, TerminalKind
    <3>3. ASSUME NEW f \in ledger PROVE f.sequence \in 1 .. wseq[w]
      <4>1. f.sequence # m.sequence
        BY <2>3 DEF MayWrite
      <4>2. ASSUME f.sequence > m.sequence PROVE FALSE
        <5>1. m.sequence \in 1 .. f.sequence - 1
          BY <1>3, <4>2
        <5>2. PICK g \in ledger : g.sequence = m.sequence
          BY <3>2, <5>1 DEF IInv, Numbered
        <5> QED
          BY <2>3, <5>2 DEF MayWrite
      <4> QED
        BY <1>3, <4>1, <4>2
    <3>4. \A f \in ledger : f = Told(w)[f.sequence]
      BY <1>6, <3>1, <3>3
    <3>5. \A f \in ledger' : f.sequence <= m.sequence
      BY <1>3, <3>3
    <3>6. \A f \in ledger' : f.kind # "cancellation_requested"
      BY <1>4, <2>3, <3>1, <3>3, <3>4 DEF InStep
    <3>7. \E f \in ledger : f.sequence = m.sequence - 1 /\ f.kind = "artifact_ready"
      <4>1. wseq[w] \in 1 .. wseq[w] /\ Told(w)[wseq[w]].kind = "artifact_ready"
        BY <1>3, <1>4, <3>1 DEF Script
      <4> QED
        BY <1>3, <1>4, <3>1, <4>1 DEF InStep
    <3>8. \E f \in ledger :
             /\ f.kind = "metric" /\ f.value = TrainingSteps
             /\ \A g \in ledger' : g.kind = "metric" => g.sequence <= f.sequence
      <4>1. Measured(w) /\ wstep[w] = TrainingSteps
        BY <1>4, <3>1 DEF Script, Ending
      <4>2. PICK k \in 1 .. wseq[w] :
               /\ Told(w)[k].kind = "metric" /\ Told(w)[k].value = TrainingSteps
               /\ \A j \in 1 .. wseq[w] : Told(w)[j].kind = "metric" => j <= k
        BY <1>3, <4>1 DEF Measured
      <4>3. Told(w)[k] \in ledger /\ Told(w)[k].sequence = k
        BY <1>4, <3>1 DEF InStep
      <4>4. \A g \in ledger' : g.kind = "metric" => g.sequence <= k
        BY <2>3, <3>3, <3>4, <4>2
      <4> QED
        BY <4>2, <4>3, <4>4
    <3> QED
      BY <2>3, <3>5, <3>6, <3>7, <3>8 DEF Whole
  <2> QED
    BY <2>1, <2>2, <2>3
<1>9. Spawned' = Spawned /\ w \in Spawned
  BY <1>4 DEF Spawned, SameWorker, Running
<1>10. Authored'
  <2>1. \A v \in Spawned : wseq[v] <= wseq'[v] /\ wseq[v] \in Nat /\ wseq'[v] \in Nat
    <3>1. wseq \in [Worker -> Nat] /\ wseq' \in [Worker -> Nat]
      BY DEF IInv, TypeOK
    <3>2. \A v \in Worker : v = w \/ wseq'[v] = wseq[v]
      BY DEF SameWorker
    <3> QED
      BY <1>3, <3>1, <3>2 DEF Spawned
  <2>2. m.sequence <= wseq'[w]
    BY <1>3
  <2> QED
    BY <1>3, <1>9, <2>1, <2>2 DEF IInv, Authored
<1>11. LastWord'
  <2> SUFFICES ASSUME Alone, NEW n \in ledger', n.kind \in TerminalKind
               PROVE  /\ \A v \in Worker : wpc'[v] \in {"unborn", "exited"}
                      /\ \A f \in ledger' : f.sequence <= n.sequence
    BY <1>9 DEF Alone, LastWord
  <2>1. n = m
    BY <1>4 DEF IInv, LastWord, Running
  <2>2. \A v \in Worker \ {w} : wpc'[v] = "unborn"
    BY <1>9 DEF Alone, Spawned, SameWorker
  <2>3. \A f \in ledger : f.sequence <= wseq[w]
    BY <1>9 DEF IInv, Authored, Alone
  <2> QED
    BY <1>3, <2>1, <2>2, <2>3
<1> QED
  BY <1>1, <1>2, <1>5, <1>8, <1>10, <1>11 DEF IInv

Places == <<hpc, delivered, seen, outcome>>

\* The message is on disk, and in the worker's own controller.
Wrote(w, m) ==
    /\ MayWrite(m) /\ ledger' = ledger \cup {m}
    /\ wseq'[w] = wseq[w] + 1 /\ Told(w)' = Append(Told(w), m)

LEMMA EmitCases ==
    ASSUME IInv, NEW w \in Worker, NEW kind \in Kind, NEW value \in Nat,
           NEW then, NEW otherwise, EmitOr(w, kind, value, then, otherwise),
           NEW m, m = Msg(wseq[w] + 1, kind, value)
    PROVE  /\ m \in Message /\ m.sequence = wseq[w] + 1 /\ m.kind = kind /\ m.value = value
           /\ wseq' = [wseq EXCEPT ![w] = @ + 1]
           /\ DOMAIN wctl' = Worker /\ \A v \in Worker : wctl'[v].messages \in Seq(Message)
           /\ \A v \in Worker \ {w} : wctl'[v] = wctl[v]
           /\ \/ Wrote(w, m) /\ wpc' = [wpc EXCEPT ![w] = then]
              \/ ledger' = ledger /\ wpc' = [wpc EXCEPT ![w] = otherwise]
<1>1. /\ wseq[w] \in Nat /\ DOMAIN wseq = Worker
      /\ DOMAIN wctl = Worker /\ \A v \in Worker : wctl[v].messages \in Seq(Message)
  BY DEF IInv, TypeOK
<1>2. m \in Message /\ m.sequence = wseq[w] + 1 /\ m.kind = kind /\ m.value = value
  BY <1>1 DEF Msg, Message
<1>3. wseq' = [wseq EXCEPT ![w] = @ + 1]
  BY DEF EmitOr
<1>4. CASE ~Accepts(wctl[w], m)
  <2>1. wctl' = wctl /\ ledger' = ledger /\ wpc' = [wpc EXCEPT ![w] = otherwise]
    BY <1>4 DEF EmitOr
  <2> QED
    BY <1>1, <1>2, <1>3, <2>1
<1>5. CASE Accepts(wctl[w], m)
  <2>1. Transition(wctl[w], m).messages = Append(wctl[w].messages, m)
    BY DEF Transition
  <2>2. wctl' = [wctl EXCEPT ![w] = Transition(@, m)]
    BY <1>5 DEF EmitOr
  <2>3. DOMAIN wctl' = Worker /\ wctl'[w] = Transition(wctl[w], m)
        /\ \A v \in Worker \ {w} : wctl'[v] = wctl[v]
    BY <1>1, <2>2
  <2>4. wctl'[w].messages \in Seq(Message)
    <3>1. wctl[w].messages \in Seq(Message)
      BY <1>1
    <3>2. Append(wctl[w].messages, m) \in Seq(Message)
      BY <1>2, <3>1, AppendProperties
    <3> QED
      BY <2>1, <2>3, <3>2
  <2>5. \A v \in Worker : wctl'[v].messages \in Seq(Message)
    BY <1>1, <2>3, <2>4
  <2>6. Told(w)' = Append(Told(w), m) /\ wseq'[w] = wseq[w] + 1
    BY <1>1, <1>3, <2>1, <2>3 DEF Told
  <2>7. \/ MayWrite(m) /\ ledger' = ledger \cup {m} /\ wpc' = [wpc EXCEPT ![w] = then]
        \/ ledger' = ledger /\ wpc' = [wpc EXCEPT ![w] = otherwise]
    BY <1>5 DEF EmitOr
  <2> QED
    BY <1>2, <1>3, <2>3, <2>5, <2>6, <2>7 DEF Wrote
<1> QED
  BY <1>4, <1>5

\* A worker that tells a message keeps IInv if it then stands where its script
\* says.
LEMMA EmitStep ==
    ASSUME IInv, NEW w \in Worker, NEW kind \in Kind, NEW value \in Nat,
           NEW then \in WorkerPoint \ {"unborn"}, NEW otherwise \in {"failing", "dead", "exited"},
           EmitOr(w, kind, value, then, otherwise), UNCHANGED <<response, Places>>,
           wstep' \in [Worker -> Nat] /\ wresult' \in [Worker -> Status \cup {"none"}],
           \A v \in Worker \ {w} : wstep'[v] = wstep[v] /\ wresult'[v] = wresult[v],
           \/ wpc[w] \in Working /\ kind # "failed"
           \/ wpc[w] = "reporting" /\ kind = "failed",
           kind \in TerminalKind => kind = response /\ then = "exited",
           kind = "completed" => wpc[w] = "ending" /\ wresult[w] = "completed",
           Wrote(w, Msg(wseq[w] + 1, kind, value)) /\ wpc'[w] = then => Script(w)'
    PROVE  IInv'
<1> DEFINE m == Msg(wseq[w] + 1, kind, value)
<1>1. /\ m \in Message /\ m.sequence = wseq[w] + 1 /\ m.kind = kind
      /\ wseq' = [wseq EXCEPT ![w] = @ + 1]
      /\ DOMAIN wctl' = Worker /\ \A v \in Worker : wctl'[v].messages \in Seq(Message)
      /\ \A v \in Worker \ {w} : wctl'[v] = wctl[v]
      /\ \/ Wrote(w, m) /\ wpc' = [wpc EXCEPT ![w] = then]
         \/ ledger' = ledger /\ wpc' = [wpc EXCEPT ![w] = otherwise]
  BY EmitCases
<1> HIDE DEF m
<1>2. /\ wpc \in [Worker -> WorkerPoint] /\ wseq \in [Worker -> Nat]
      /\ otherwise \in WorkerPoint
  BY DEF IInv, TypeOK, WorkerPoint
<1>3. IsFiniteSet(ledger') /\ ledger' \in SUBSET Message
  <2>1. IsFiniteSet(ledger) /\ ledger \in SUBSET Message
    BY DEF IInv, TypeOK
  <2>2. IsFiniteSet(ledger \cup {m})
    BY <2>1, FS_AddElement
  <2> QED
    BY <1>1, <2>1, <2>2 DEF Wrote
<1>4. TypeOK'
  <2>1. then \in WorkerPoint
    OBVIOUS
  <2>2. wpc' \in [Worker -> WorkerPoint]
    <3>1. wpc' = [wpc EXCEPT ![w] = then] \/ wpc' = [wpc EXCEPT ![w] = otherwise]
      BY <1>1
    <3> QED
      BY <1>2, <2>1, <3>1
  <2>3. wseq' \in [Worker -> Nat]
    BY <1>1, <1>2
  <2> QED
    BY <1>1, <1>3, <2>2, <2>3 DEF IInv, TypeOK, Places
<1>5. (\A h \in Host : SameHost(h)) /\ \A v \in Worker \ {w} : SameWorker(v)
  BY <1>1, <1>2 DEF SameHost, SameWorker, Places
<1>6. wseq'[w] = wseq[w] + 1 /\ wseq[w] \in Nat
  BY <1>1, <1>2
<1>7. CASE Wrote(w, m) /\ wpc' = [wpc EXCEPT ![w] = then]
  <2>1. wpc'[w] = then
    BY <1>2, <1>7
  <2>2. Script(w)'
    BY <1>7, <2>1 DEF m
  <2>3. m.kind \in TerminalKind => m.kind = response /\ wpc'[w] = "exited"
    BY <1>1, <2>1
  <2> QED
    BY <1>1, <1>4, <1>5, <1>6, <1>7, <2>1, <2>2, <2>3, WriteStep DEF Wrote
<1>8. CASE ledger' = ledger /\ wpc' = [wpc EXCEPT ![w] = otherwise]
  <2>1. wpc'[w] = otherwise
    BY <1>2, <1>8
  <2>2. Script(w)'
    BY <2>1 DEF Script, Working, Ending
  <2>3. Running(w) /\ wpc'[w] # "unborn"
    BY <2>1 DEF Running, Working
  <2>4. wseq[w] <= wseq'[w]
    BY <1>6
  <2> QED
    BY <1>4, <1>5, <1>8, <2>2, <2>3, <2>4, QuietWorker
<1> QED
  BY <1>1, <1>7, <1>8

\* What a worker at work tells is on disk under the next number.
LEMMA InStepAfter ==
    ASSUME IInv, NEW w \in Worker, wpc[w] \in Working, NEW m \in Message, Wrote(w, m),
           m.sequence = wseq[w] + 1, m.kind \notin TerminalKind,
           wpc[w] \in Ending => wpc'[w] \in Ending /\ wresult'[w] = wresult[w],
           m.kind = "cancellation_requested" => wpc'[w] \in Ending /\ wresult'[w] = "cancelled"
    PROVE  /\ InStep(w)'
           /\ Told(w)'[wseq'[w]] = m /\ wseq'[w] > 0
           /\ wstep'[w] = wstep[w] /\ Measured(w) /\ m.kind # "metric" => Measured(w)'
           /\ m.kind = "metric" /\ m.value = wstep'[w] => Measured(w)'
<1>1. InStep(w) /\ Told(w) \in Seq(Message) /\ wseq[w] \in Nat
  BY DEF IInv, Script, TypeOK, Told
<1>2. /\ Len(Told(w)') = wseq[w] + 1
      /\ \A k \in 1 .. wseq[w] : Told(w)'[k] = Told(w)[k]
      /\ Told(w)'[wseq[w] + 1] = m
  BY <1>1 DEF Wrote, InStep
<1>3. \A k \in 1 .. wseq'[w] : k \in 1 .. wseq[w] \/ k = wseq[w] + 1
  BY <1>1 DEF Wrote
<1>4. InStep(w)'
  BY <1>1, <1>2, <1>3 DEF Wrote, InStep
<1>5. ASSUME wstep'[w] = wstep[w], Measured(w), m.kind # "metric" PROVE Measured(w)'
  <2> SUFFICES ASSUME wstep[w] > 0
               PROVE  \E k \in 1 .. wseq'[w] :
                        /\ Told(w)'[k].kind = "metric" /\ Told(w)'[k].value = wstep[w]
                        /\ \A j \in 1 .. wseq'[w] : Told(w)'[j].kind = "metric" => j <= k
    BY <1>5 DEF Measured
  <2>1. PICK k \in 1 .. wseq[w] :
           /\ Told(w)[k].kind = "metric" /\ Told(w)[k].value = wstep[w]
           /\ \A j \in 1 .. wseq[w] : Told(w)[j].kind = "metric" => j <= k
    BY <1>5 DEF Measured
  <2>2. k \in 1 .. wseq'[w]
    BY <1>1 DEF Wrote
  <2> QED
    BY <1>2, <1>3, <1>5, <2>1, <2>2
<1>6. ASSUME m.kind = "metric", m.value = wstep'[w] PROVE Measured(w)'
  <2> DEFINE k == wseq[w] + 1
  <2>1. k \in 1 .. wseq'[w] /\ Told(w)'[k] = m /\ \A j \in 1 .. wseq'[w] : j <= k
    BY <1>1, <1>2 DEF Wrote
  <2> HIDE DEF k
  <2> QED
    BY <1>6, <2>1 DEF Measured
<1> QED
  BY <1>1, <1>2, <1>4, <1>5, <1>6 DEF Wrote

LEMMA WorkerFacts ==
    ASSUME IInv, NEW w \in Worker
    PROVE  /\ wpc \in [Worker -> WorkerPoint] /\ wseq \in [Worker -> Nat]
           /\ wstep \in [Worker -> Nat] /\ wresult \in [Worker -> Status \cup {"none"}]
           /\ TrainingSteps \in Nat /\ TrainingSteps > 0
           /\ Script(w)
BY StepsAssumption DEF IInv, TypeOK

LEMMA MessageFacts ==
    ASSUME IInv, NEW w \in Worker, NEW kind \in Kind, NEW value \in Nat,
           NEW m, m = Msg(wseq[w] + 1, kind, value)
    PROVE  m \in Message /\ m.sequence = wseq[w] + 1 /\ m.kind = kind /\ m.value = value
BY DEF Msg, Message, IInv, TypeOK

\* The steps on which a worker tells a message.
LEMMA TellingStep ==
    ASSUME IInv, NEW w \in Worker,
           \/ WorkerLaunched(w) \/ AcknowledgeCancel(w) \/ TrainStep(w) \/ EmitMetric(w)
           \/ EmitHeartbeat(w) \/ SaveCheckpoint(w) \/ EmitArtifact(w) \/ EmitTerminal(w)
           \/ ReportFailure(w)
    PROVE  IInv'
<1>1. /\ wpc \in [Worker -> WorkerPoint] /\ wseq \in [Worker -> Nat]
      /\ wstep \in [Worker -> Nat] /\ wresult \in [Worker -> Status \cup {"none"}]
      /\ TrainingSteps \in Nat /\ TrainingSteps > 0
      /\ Script(w)
  BY WorkerFacts
<1>2. {"launched", "cancellation_requested", "progress", "metric", "heartbeat", "checkpoint",
       "artifact_ready", "failed"} \cup TerminalKind \subseteq Kind
  BY DEF Kind, Activity, Stepped, Link, TerminalKind
<1>3. CASE WorkerLaunched(w)
  <2> DEFINE m == Msg(wseq[w] + 1, "launched", 0)
  <2>1. /\ wpc[w] = "launching" /\ EmitOr(w, "launched", 0, "checking", "dead")
        /\ UNCHANGED <<response, wstep, wresult, Places>>
    BY <1>3 DEF WorkerLaunched, Emit, Places, hostVars
  <2>2. 0 \in Nat /\ "launched" \in Kind
    BY <1>1, <1>2
  <2>3. m \in Message /\ m.sequence = wseq[w] + 1 /\ m.kind = "launched" /\ m.value = 0
    BY <2>2, MessageFacts
  <2> HIDE DEF m
  <2>5. ASSUME Wrote(w, m), wpc'[w] = "checking" PROVE Script(w)'
    <3>1. wstep'[w] = 0
      BY <1>1, <2>1 DEF Script
    <3>2. InStep(w)'
      BY <2>1, <2>3, <2>5, InStepAfter DEF Working, Ending, TerminalKind
    <3> QED
      BY <1>1, <2>5, <3>1, <3>2 DEF Script, Working, Ending, Measured
  <2> QED
    BY <1>1, <2>1, <2>2, <2>5, EmitStep DEF m, WorkerPoint, Working, TerminalKind
<1>4. CASE AcknowledgeCancel(w)
  <2> DEFINE m == Msg(wseq[w] + 1, "cancellation_requested", 0)
  <2>1. /\ wpc[w] = "asking" /\ EmitOr(w, "cancellation_requested", 0, "responding", "failing")
        /\ wresult' = [wresult EXCEPT ![w] = "cancelled"]
        /\ UNCHANGED <<response, wstep, Places>>
    BY <1>4 DEF AcknowledgeCancel, Emit, Places, hostVars
  <2>2. 0 \in Nat /\ "cancellation_requested" \in Kind
    BY <1>1, <1>2
  <2>3. m \in Message /\ m.sequence = wseq[w] + 1 /\ m.kind = "cancellation_requested" /\ m.value = 0
    BY <2>2, MessageFacts
  <2>4. /\ wresult' \in [Worker -> Status \cup {"none"}]
        /\ \A v \in Worker \ {w} : wresult'[v] = wresult[v]
    BY <1>1, <2>1 DEF Status, TerminalKind
  <2> HIDE DEF m
  <2>5. ASSUME Wrote(w, m), wpc'[w] = "responding" PROVE Script(w)'
    <3>1. wresult'[w] = "cancelled" /\ wstep'[w] = wstep[w]
      BY <1>1, <2>1
    <3>2. Measured(w) /\ wstep[w] < TrainingSteps
      BY <1>1, <2>1 DEF Script, Working
    <3>3. InStep(w)' /\ Measured(w)'
      BY <2>1, <2>3, <2>5, <3>1, <3>2, InStepAfter DEF Working, Ending, TerminalKind
    <3> QED
      BY <1>1, <2>5, <3>1, <3>2, <3>3 DEF Script, Working, Ending
  <2> QED
    BY <1>1, <2>1, <2>2, <2>5, EmitStep, <2>4 DEF m, WorkerPoint, Working, TerminalKind
<1>5. CASE TrainStep(w)
  <2> DEFINE m == Msg(wseq[w] + 1, "progress", wstep[w] + 1)
  <2>1. /\ wpc[w] = "asking" /\ EmitOr(w, "progress", wstep[w] + 1, "measuring", "failing")
        /\ wstep' = [wstep EXCEPT ![w] = @ + 1]
        /\ UNCHANGED <<response, wresult, Places>>
    BY <1>5 DEF TrainStep, Emit, Places, hostVars
  <2>2. wstep[w] + 1 \in Nat /\ "progress" \in Kind
    BY <1>1, <1>2
  <2>3. m \in Message /\ m.sequence = wseq[w] + 1 /\ m.kind = "progress" /\ m.value = wstep[w] + 1
    BY <2>2, MessageFacts
  <2>4. wstep' \in [Worker -> Nat] /\ \A v \in Worker \ {w} : wstep'[v] = wstep[v]
    BY <1>1, <2>1
  <2> HIDE DEF m
  <2>5. ASSUME Wrote(w, m), wpc'[w] = "measuring" PROVE Script(w)'
    <3>1. wstep'[w] <= TrainingSteps
      BY <1>1, <2>1 DEF Script
    <3>2. InStep(w)'
      BY <2>1, <2>3, <2>5, InStepAfter DEF Working, Ending, TerminalKind
    <3> QED
      BY <1>1, <2>5, <3>1, <3>2 DEF Script, Working, Ending
  <2> QED
    BY <1>1, <2>1, <2>2, <2>5, EmitStep, <2>4 DEF m, WorkerPoint, Working, TerminalKind
<1>6. CASE EmitMetric(w)
  <2> DEFINE m == Msg(wseq[w] + 1, "metric", wstep[w])
  <2>1. /\ wpc[w] = "measuring" /\ EmitOr(w, "metric", wstep[w], "beating", "failing")
        /\ UNCHANGED <<response, wstep, wresult, Places>>
    BY <1>6 DEF EmitMetric, Emit, Places, hostVars
  <2>2. wstep[w] \in Nat /\ "metric" \in Kind
    BY <1>1, <1>2
  <2>3. m \in Message /\ m.sequence = wseq[w] + 1 /\ m.kind = "metric" /\ m.value = wstep[w]
    BY <2>2, MessageFacts
  <2> HIDE DEF m
  <2>5. ASSUME Wrote(w, m), wpc'[w] = "beating" PROVE Script(w)'
    <3>1. wstep'[w] = wstep[w] /\ wstep[w] <= TrainingSteps
      BY <1>1, <2>1 DEF Script, Working
    <3>2. InStep(w)' /\ Measured(w)'
      BY <2>1, <2>3, <2>5, <3>1, InStepAfter DEF Working, Ending, TerminalKind
    <3> QED
      BY <1>1, <2>5, <3>1, <3>2 DEF Script, Working, Ending
  <2> QED
    BY <1>1, <2>1, <2>2, <2>5, EmitStep DEF m, WorkerPoint, Working, TerminalKind
<1>7. CASE EmitHeartbeat(w)
  <2> DEFINE m == Msg(wseq[w] + 1, "heartbeat", 0)
  <2>1. /\ wpc[w] = "beating" /\ EmitOr(w, "heartbeat", 0, (IF wstep[w] % Cadence = 0 \/ wstep[w] = TrainingSteps
                                  THEN "saving" ELSE "rechecking"), "failing")
        /\ UNCHANGED <<response, wstep, wresult, Places>>
    BY <1>7 DEF EmitHeartbeat, Emit, Places, hostVars
  <2>2. 0 \in Nat /\ "heartbeat" \in Kind
    BY <1>1, <1>2
  <2>3. m \in Message /\ m.sequence = wseq[w] + 1 /\ m.kind = "heartbeat" /\ m.value = 0
    BY <2>2, MessageFacts
  <2> HIDE DEF m
  <2>5. ASSUME Wrote(w, m), wpc'[w] = (IF wstep[w] % Cadence = 0 \/ wstep[w] = TrainingSteps
                                  THEN "saving" ELSE "rechecking") PROVE Script(w)'
    <3>1. wstep'[w] = wstep[w] /\ wstep[w] <= TrainingSteps /\ Measured(w)
      BY <1>1, <2>1 DEF Script, Working
    <3>2. InStep(w)' /\ Measured(w)'
      BY <2>1, <2>3, <2>5, <3>1, InStepAfter DEF Working, Ending, TerminalKind
    <3> QED
      BY <1>1, <2>5, <3>1, <3>2 DEF Script, Working, Ending
  <2> QED
    BY <1>1, <2>1, <2>2, <2>5, EmitStep DEF m, WorkerPoint, Working, TerminalKind
<1>8. CASE SaveCheckpoint(w)
  <2> DEFINE m == Msg(wseq[w] + 1, "checkpoint", wstep[w])
  <2>1. /\ wpc[w] = "saving" /\ EmitOr(w, "checkpoint", wstep[w], "rechecking", "failing")
        /\ UNCHANGED <<response, wstep, wresult, Places>>
    BY <1>8 DEF SaveCheckpoint, Emit, Places, hostVars
  <2>2. wstep[w] \in Nat /\ "checkpoint" \in Kind
    BY <1>1, <1>2
  <2>3. m \in Message /\ m.sequence = wseq[w] + 1 /\ m.kind = "checkpoint" /\ m.value = wstep[w]
    BY <2>2, MessageFacts
  <2> HIDE DEF m
  <2>5. ASSUME Wrote(w, m), wpc'[w] = "rechecking" PROVE Script(w)'
    <3>1. wstep'[w] = wstep[w] /\ wstep[w] <= TrainingSteps /\ Measured(w)
      BY <1>1, <2>1 DEF Script, Working
    <3>2. InStep(w)' /\ Measured(w)'
      BY <2>1, <2>3, <2>5, <3>1, InStepAfter DEF Working, Ending, TerminalKind
    <3> QED
      BY <1>1, <2>5, <3>1, <3>2 DEF Script, Working, Ending
  <2> QED
    BY <1>1, <2>1, <2>2, <2>5, EmitStep DEF m, WorkerPoint, Working, TerminalKind
<1>9. CASE EmitArtifact(w)
  <2> DEFINE m == Msg(wseq[w] + 1, "artifact_ready", 1)
  <2>1. /\ wpc[w] = "bundling" /\ EmitOr(w, "artifact_ready", 1, "ending", "failing")
        /\ UNCHANGED <<response, wstep, wresult, Places>>
    BY <1>9 DEF EmitArtifact, Emit, Places, hostVars
  <2>2. 1 \in Nat /\ "artifact_ready" \in Kind
    BY <1>1, <1>2
  <2>3. m \in Message /\ m.sequence = wseq[w] + 1 /\ m.kind = "artifact_ready" /\ m.value = 1
    BY <2>2, MessageFacts
  <2> HIDE DEF m
  <2>5. ASSUME Wrote(w, m), wpc'[w] = "ending" PROVE Script(w)'
    <3>1. /\ wstep'[w] = wstep[w] /\ wstep[w] = TrainingSteps /\ Measured(w)
          /\ wresult'[w] = "completed" /\ response' = "completed"
      BY <1>1, <2>1 DEF Script, Working, Ending
    <3>2. InStep(w)' /\ Measured(w)' /\ wseq'[w] > 0 /\ Told(w)'[wseq'[w]] = m
      BY <2>1, <2>3, <2>5, <3>1, InStepAfter DEF Working, Ending, TerminalKind
    <3> QED
      BY <1>1, <2>3, <2>5, <3>1, <3>2 DEF Script, Working, Ending
  <2> QED
    BY <1>1, <2>1, <2>2, <2>5, EmitStep DEF m, WorkerPoint, Working, TerminalKind
<1>10. CASE EmitTerminal(w)
  <2>1. /\ wpc[w] = "ending" /\ EmitOr(w, wresult[w], 0, "exited", "failing")
        /\ UNCHANGED <<response, wstep, wresult, Places>>
    BY <1>10 DEF EmitTerminal, Emit, Places, hostVars
  <2>2. wresult[w] = response /\ wresult[w] \in {"completed", "cancelled", "interrupted"}
    BY <1>1, <2>1 DEF Script, Ending
  <2>3. wresult[w] \in Kind
    BY <1>2, <2>2 DEF TerminalKind
  <2>4. wpc'[w] = "exited" => Script(w)'
    BY DEF Script, Working, Ending
  <2> QED
    BY <1>1, <2>1, <2>2, <2>3, <2>4, EmitStep DEF WorkerPoint, Working
<1>11. CASE ReportFailure(w)
  <2>1. /\ wpc[w] = "reporting" /\ EmitOr(w, "failed", 0, "exited", "exited")
        /\ UNCHANGED <<response, wstep, wresult, Places>>
    BY <1>11 DEF ReportFailure, Places, hostVars
  <2>2. response = "failed"
    BY <1>1, <2>1 DEF Script
  <2>3. wpc'[w] = "exited" => Script(w)'
    BY DEF Script, Working, Ending
  <2> QED
    BY <1>1, <1>2, <2>1, <2>2, <2>3, EmitStep DEF WorkerPoint
<1> QED
  BY <1>3, <1>4, <1>5, <1>6, <1>7, <1>8, <1>9, <1>10, <1>11

\* A worker that writes no message keeps what it told.
LEMMA StillInStep ==
    ASSUME NEW w \in Worker, wpc[w] \in Working, Script(w), UNCHANGED <<ledger, wctl, wseq, wstep>>,
           wpc[w] \in Ending => wpc'[w] \in Ending /\ wresult'[w] = wresult[w]
    PROVE  InStep(w)' /\ (Measured(w) => Measured(w)')
<1>1. InStep(w) /\ Told(w)' = Told(w)
  BY DEF Script, Told
<1>2. InStep(w)'
  BY <1>1 DEF InStep
<1> QED
  BY <1>1, <1>2 DEF Measured

\* The steps on which a worker tells nothing.
LEMMA SilentStep ==
    ASSUME IInv, NEW w \in Worker,
           \/ CheckInterrupt(w) \/ Recheck(w) \/ WriteResponse(w) \/ RecordFailure(w)
           \/ OperationFails(w) \/ WorkerDies(w)
    PROVE  IInv'
<1>1. /\ wpc \in [Worker -> WorkerPoint] /\ wseq \in [Worker -> Nat]
      /\ wstep \in [Worker -> Nat] /\ wresult \in [Worker -> Status \cup {"none"}]
      /\ TrainingSteps \in Nat /\ TrainingSteps > 0
      /\ Script(w)
  BY WorkerFacts
<1>2. UNCHANGED <<ledger, wctl, wseq, wstep, Places>>
  BY DEF CheckInterrupt, Recheck, WriteResponse, RecordFailure, OperationFails, WorkerDies,
         hostVars, files, Places
<1>3. /\ Running(w)
      /\ \E l \in WorkerPoint \ {"unborn"} : wpc' = [wpc EXCEPT ![w] = l]
      /\ \/ wresult' = wresult
         \/ \E s \in Status : wresult' = [wresult EXCEPT ![w] = s]
      /\ response' \in Status \cup {"none"} /\ response \in {"none", response'}
      /\ Script(w)'
  <2>1. CASE CheckInterrupt(w)
    <3>1. wpc[w] = "checking" /\ response' = response
      BY <2>1 DEF CheckInterrupt, files
    <3>2. \/ wpc' = [wpc EXCEPT ![w] = "asking"] /\ wresult' = wresult
          \/ /\ wpc' = [wpc EXCEPT ![w] = "responding"]
             /\ wresult' = [wresult EXCEPT ![w] = "interrupted"]
      BY <2>1 DEF CheckInterrupt, Conclude
    <3>3. InStep(w)' /\ Measured(w)' /\ wstep'[w] < TrainingSteps /\ wstep'[w] <= TrainingSteps
      <4>1. Measured(w) /\ wstep'[w] < TrainingSteps
        BY <1>1, <1>2, <3>1 DEF Script, Working
      <4> QED
        BY <1>1, <1>2, <3>1, <4>1, StillInStep DEF Working, Ending
    <3>4. \/ wpc'[w] = "asking"
          \/ wpc'[w] = "responding" /\ wresult'[w] = "interrupted"
      BY <1>1, <3>2
    <3>5. Script(w)'
      BY <3>3, <3>4 DEF Script, Working, Ending
    <3> QED
      BY <3>1, <3>2, <3>5 DEF IInv, TypeOK, Running, WorkerPoint, Working, Status, TerminalKind
  <2>2. CASE Recheck(w)
    <3>1. wpc[w] = "rechecking" /\ response' = response
      BY <2>2 DEF Recheck, files
    <3>2. \/ /\ wpc' = [wpc EXCEPT ![w] = "checking"] /\ wresult' = wresult
             /\ ~(wstep[w] >= TrainingSteps)
          \/ /\ wpc' = [wpc EXCEPT ![w] = "responding"]
             /\ wresult' = [wresult EXCEPT ![w] = "interrupted"]
          \/ /\ wpc' = [wpc EXCEPT ![w] = "responding"]
             /\ wresult' = [wresult EXCEPT ![w] = "completed"]
             /\ wstep[w] >= TrainingSteps
      BY <2>2 DEF Recheck, Conclude
    <3>3. InStep(w)' /\ Measured(w)' /\ wstep'[w] <= TrainingSteps
      <4>1. Measured(w) /\ wstep'[w] <= TrainingSteps
        BY <1>1, <1>2, <3>1 DEF Script, Working
      <4> QED
        BY <1>1, <1>2, <3>1, <4>1, StillInStep DEF Working, Ending
    <3>4. \/ wpc'[w] = "checking" /\ wstep'[w] < TrainingSteps
          \/ wpc'[w] = "responding" /\ wresult'[w] = "interrupted"
          \/ wpc'[w] = "responding" /\ wresult'[w] = "completed" /\ wstep'[w] = TrainingSteps
      BY <1>1, <1>2, <3>2, <3>3
    <3>5. Script(w)'
      BY <3>3, <3>4 DEF Script, Working, Ending
    <3> QED
      BY <3>1, <3>2, <3>5 DEF IInv, TypeOK, Running, WorkerPoint, Working, Status, TerminalKind
  <2>3. CASE WriteResponse(w)
    <3>1. wpc[w] = "responding" /\ wresult' = wresult
      BY <2>3 DEF WriteResponse
    <3>2. wresult[w] \in {"completed", "cancelled", "interrupted"}
      BY <1>1, <3>1 DEF Script, Ending
    <3>3. \/ /\ response \in {"none", wresult[w]} /\ response' = wresult[w]
             /\ \/ wresult[w] = "completed" /\ wpc' = [wpc EXCEPT ![w] = "bundling"]
                \/ wresult[w] # "completed" /\ wpc' = [wpc EXCEPT ![w] = "ending"]
          \/ response' = response /\ wpc' = [wpc EXCEPT ![w] = "failing"]
      BY <2>3 DEF WriteResponse
    <3>4. CASE response' = response /\ wpc' = [wpc EXCEPT ![w] = "failing"]
      <4>1. wpc'[w] = "failing"
        BY <1>1, <3>4
      <4>2. Script(w)'
        BY <4>1 DEF Script, Working, Ending
      <4> QED
        BY <3>1, <3>4, <4>2 DEF IInv, TypeOK, Running, WorkerPoint, Working
    <3>5. CASE /\ response \in {"none", wresult[w]} /\ response' = wresult[w]
               /\ \/ wresult[w] = "completed" /\ wpc' = [wpc EXCEPT ![w] = "bundling"]
                  \/ wresult[w] # "completed" /\ wpc' = [wpc EXCEPT ![w] = "ending"]
      <4>1. \/ wpc'[w] = "bundling" /\ wresult[w] = "completed"
            \/ wpc'[w] = "ending" /\ wresult[w] # "completed"
        BY <1>1, <3>5
      <4>2. /\ Measured(w) /\ wstep[w] <= TrainingSteps
            /\ wresult[w] = "completed" => wstep[w] = TrainingSteps
        BY <1>1, <3>1 DEF Script, Working, Ending
      <4>3. InStep(w)' /\ Measured(w)'
        BY <1>1, <1>2, <3>1, <4>1, <4>2, StillInStep DEF Working, Ending
      <4>4. Script(w)'
        BY <1>2, <3>1, <3>2, <3>5, <4>1, <4>2, <4>3 DEF Script, Working, Ending
      <4>5. response' \in Status \cup {"none"} /\ response \in {"none", response'}
        BY <1>1, <3>5
      <4> QED
        BY <3>1, <3>5, <4>4, <4>5 DEF Running, WorkerPoint, Working
    <3> QED
      BY <3>3, <3>4, <3>5
  <2>4. CASE RecordFailure(w)
    <3>1. wpc[w] = "failing" /\ wresult' = wresult
      BY <2>4 DEF RecordFailure
    <3>2. \/ /\ response \in {"none", "failed"} /\ response' = "failed"
             /\ wpc' = [wpc EXCEPT ![w] = "reporting"]
          \/ response' = response /\ wpc' = [wpc EXCEPT ![w] = "exited"]
      BY <2>4 DEF RecordFailure
    <3>3. wpc'[w] = "exited" \/ (wpc'[w] = "reporting" /\ response' = "failed")
      BY <1>1, <3>2
    <3>4. Script(w)'
      BY <3>3 DEF Script, Working, Ending
    <3>5. "reporting" \in WorkerPoint \ {"unborn"} /\ "exited" \in WorkerPoint \ {"unborn"}
      BY DEF WorkerPoint
    <3>6. \E l \in WorkerPoint \ {"unborn"} : wpc' = [wpc EXCEPT ![w] = l]
      BY <3>2, <3>5
    <3>7. response' \in Status \cup {"none"} /\ response \in {"none", response'}
      BY <3>2 DEF IInv, TypeOK, Status, TerminalKind
    <3> QED
      BY <3>1, <3>4, <3>6, <3>7 DEF Running
  <2>5. CASE OperationFails(w)
    <3>1. /\ Running(w) /\ response' = response /\ wresult' = wresult
          /\ wpc' = [wpc EXCEPT ![w] = "failing"]
      BY <2>5 DEF OperationFails, Running
    <3>2. wpc'[w] = "failing"
      BY <1>1, <3>1
    <3>3. Script(w)'
      BY <3>2 DEF Script, Working, Ending
    <3> QED
      BY <3>1, <3>3 DEF IInv, TypeOK, WorkerPoint
  <2>6. CASE WorkerDies(w)
    <3>1. /\ Running(w) /\ response' = response /\ wresult' = wresult
          /\ wpc' = [wpc EXCEPT ![w] = "dead"]
      BY <2>6 DEF WorkerDies, files
    <3>2. wpc'[w] = "dead"
      BY <1>1, <3>1
    <3>3. Script(w)'
      BY <3>2 DEF Script, Working, Ending
    <3> QED
      BY <3>1, <3>3 DEF IInv, TypeOK, WorkerPoint
  <2> QED
    BY <2>1, <2>2, <2>3, <2>4, <2>5, <2>6
<1>4. /\ wpc' \in [Worker -> WorkerPoint] /\ wresult' \in [Worker -> Status \cup {"none"}]
      /\ wpc'[w] # "unborn"
      /\ \A v \in Worker \ {w} : wpc'[v] = wpc[v] /\ wresult'[v] = wresult[v]
  BY <1>1, <1>3
<1>5. TypeOK'
  BY <1>2, <1>3, <1>4 DEF IInv, TypeOK, Places
<1>6. (\A h \in Host : SameHost(h)) /\ \A v \in Worker \ {w} : SameWorker(v)
  BY <1>2, <1>4 DEF SameHost, SameWorker, Places
<1>7. wseq[w] <= wseq'[w]
  BY <1>1, <1>2
<1> QED
  BY <1>2, <1>3, <1>4, <1>5, <1>6, <1>7, QuietWorker

LEMMA HostFacts ==
    ASSUME IInv, NEW h \in Host
    PROVE  /\ ledger \in SUBSET Message /\ IsFiniteSet(ledger) /\ DistinctIn(ledger)
           /\ InOrder(ledger) \in Seq(Message)
           /\ hpc \in [Host -> HostPoint] /\ outcome \in [Host -> Outcome]
           /\ delivered \in [Host -> Seq(Message)] /\ seen \in [Host -> Seq(Message)]
           /\ Account(h)
<1>1. ledger \in SUBSET Message /\ IsFiniteSet(ledger) /\ DistinctIn(ledger)
  BY DEF IInv, TypeOK, Numbered
<1>2. InOrder(ledger) \in Seq(Message)
  BY <1>1, Listing
<1> QED
  BY <1>1, <1>2 DEF IInv, TypeOK

\* Handing over what comes after the messages the caller has leaves it with a
\* beginning of the files, and with all that was read if it had no more.
LEMMA Handed ==
    ASSUME IInv, NEW h \in Host, NEW q \in Seq(Message), AlignedIn(ledger, q), Deliver(h, q)
    PROVE  /\ delivered' \in [Host -> Seq(Message)]
           /\ \A g \in Host \ {h} : delivered'[g] = delivered[g]
           /\ AlignedIn(ledger, delivered'[h])
           /\ Len(delivered[h]) <= Len(q) => delivered'[h] = q
<1> DEFINE d == delivered[h]
           e == d \o SubSeq(q, Len(d) + 1, Len(q))
<1>1. /\ delivered \in [Host -> Seq(Message)] /\ AlignedIn(ledger, d) /\ DistinctIn(ledger)
      /\ d \in Seq(Message)
  BY HostFacts DEF Account
<1>2. delivered' = [delivered EXCEPT ![h] = e]
  BY DEF Deliver
<1>3. /\ SubSeq(q, Len(d) + 1, Len(q)) \in Seq(Message)
      /\ Len(SubSeq(q, Len(d) + 1, Len(q))) = IF Len(d) + 1 <= Len(q) THEN Len(q) - Len(d) ELSE 0
      /\ \A i \in 1 .. Len(q) - Len(d) :
            SubSeq(q, Len(d) + 1, Len(q))[i] = q[Len(d) + i]
  BY <1>1
<1>4. e \in Seq(Message)
  BY <1>1, <1>3, ConcatProperties
<1>5. /\ Len(e) = IF Len(d) <= Len(q) THEN Len(q) ELSE Len(d)
      /\ \A i \in 1 .. Len(e) : e[i] = IF i <= Len(d) THEN d[i] ELSE q[i]
  <2> DEFINE r == SubSeq(q, Len(d) + 1, Len(q))
  <2>1. Len(d) \in Nat /\ Len(q) \in Nat
    BY <1>1
  <2>2. /\ Len(e) = Len(d) + Len(r)
        /\ \A i \in 1 .. Len(d) + Len(r) : e[i] = IF i <= Len(d) THEN d[i] ELSE r[i - Len(d)]
    BY <1>1, <1>3, ConcatProperties
  <2>3. \A i \in 1 .. Len(r) : r[i] = q[Len(d) + i]
    BY <1>3, <2>1
  <2>4. Len(r) = IF Len(d) + 1 <= Len(q) THEN Len(q) - Len(d) ELSE 0
    BY <1>3
  <2>5. Len(r) \in Nat
    BY <2>1, <2>4
  <2>6. Len(d) + Len(r) = IF Len(d) <= Len(q) THEN Len(q) ELSE Len(d)
    <3> HIDE DEF d, r
    <3> QED
      BY <2>1, <2>4
  <2> HIDE DEF d, e, r
  <2>7. Len(e) = IF Len(d) <= Len(q) THEN Len(q) ELSE Len(d)
    BY <2>2, <2>6
  <2>8. ASSUME NEW i \in 1 .. Len(e) PROVE e[i] = IF i <= Len(d) THEN d[i] ELSE q[i]
    <3>1. i \in 1 .. Len(d) + Len(r)
      BY <2>2
    <3>2. e[i] = IF i <= Len(d) THEN d[i] ELSE r[i - Len(d)]
      BY <2>2, <3>1
    <3>3. ASSUME ~(i <= Len(d)) PROVE r[i - Len(d)] = q[i]
      <4>1. i - Len(d) \in 1 .. Len(r) /\ Len(d) + (i - Len(d)) = i
        BY <2>1, <2>5, <3>1, <3>3
      <4> QED
        BY <2>3, <4>1
    <3> QED
      BY <3>2, <3>3
  <2> QED
    BY <2>7, <2>8
<1>6. delivered'[h] = e
  BY <1>1, <1>2
<1>7. Len(d) \in Nat /\ Len(q) \in Nat /\ DOMAIN d = 1 .. Len(d) /\ DOMAIN q = 1 .. Len(q)
      /\ DOMAIN e = 1 .. Len(e)
  BY <1>1, <1>4
<1> HIDE DEF d, e
<1>8. AlignedIn(ledger, e)
  BY <1>1, <1>5, <1>7 DEF AlignedIn
<1>9. ASSUME Len(d) <= Len(q) PROVE e = q
  <2>1. Len(e) = Len(q)
    BY <1>5, <1>9
  <2>2. \A i \in 1 .. Len(q) : e[i] = q[i]
    BY <1>1, <1>7, <1>8, <2>1 DEF AlignedIn, DistinctIn
  <2> QED
    BY <1>4, <2>1, <2>2
<1> QED
  BY <1>1, <1>2, <1>4, <1>6, <1>8, <1>9 DEF d

\* The handler raises: what it was given is a beginning all the same.
LEMMA Raised ==
    ASSUME IInv, NEW h \in Host, NEW q \in Seq(Message), AlignedIn(ledger, q),
           HandlerRaises(h, q)
    PROVE  /\ delivered' \in [Host -> Seq(Message)]
           /\ \A g \in Host \ {h} : delivered'[g] = delivered[g]
           /\ AlignedIn(ledger, delivered'[h])
           /\ hpc' = [hpc EXCEPT ![h] = "idle"]
           /\ outcome' = [outcome EXCEPT ![h] = "callback_failed"]
<1>1. PICK n \in Len(delivered[h]) .. Len(q) - 1 : Deliver(h, SubSeq(q, 1, n))
  BY DEF HandlerRaises
<1>2. Len(delivered[h]) \in Nat /\ Len(q) \in Nat
  BY HostFacts
<1>3. n \in 0 .. Len(q)
  BY <1>2
<1>4. /\ SubSeq(q, 1, n) \in Seq(Message) /\ DOMAIN SubSeq(q, 1, n) = 1 .. n
      /\ \A i \in 1 .. n : SubSeq(q, 1, n)[i] = q[i] /\ i \in DOMAIN q
  BY <1>2, <1>3
<1>5. AlignedIn(ledger, SubSeq(q, 1, n))
  BY <1>4 DEF AlignedIn
<1>6. hpc' = [hpc EXCEPT ![h] = "idle"] /\ outcome' = [outcome EXCEPT ![h] = "callback_failed"]
  BY DEF HandlerRaises, Returns, HostTo
<1> QED
  BY <1>1, <1>4, <1>5, <1>6, Handed

workerLogs == <<wctl, wseq, wstep, wresult>>

\* A worker may have been killed, and nothing else became of any worker.
AtMostKilled ==
    wpc' = wpc \/ \E w \in Worker : Running(w) /\ wpc' = [wpc EXCEPT ![w] = "dead"]

LEMMA Killing ==
    ASSUME IInv, NEW w, Kill(w)
    PROVE  AtMostKilled
<1>1. wpc \in [Worker -> WorkerPoint]
  BY DEF IInv, TypeOK
<1>2. wpc' = wpc \/ (Running(w) /\ wpc' = [wpc EXCEPT ![w] = "dead"])
  BY DEF Kill
<1>3. w \notin Worker => [wpc EXCEPT ![w] = "dead"] = wpc
  BY <1>1
<1> QED
  BY <1>2, <1>3 DEF AtMostKilled

\* A host's step touches no file that counts and no other host.
LEMMA QuietHost ==
    ASSUME IInv, NEW h \in Host, UNCHANGED <<ledger, response, workerLogs>>, AtMostKilled,
           hpc' \in [Host -> HostPoint], outcome' \in [Host -> Outcome],
           delivered' \in [Host -> Seq(Message)], seen' \in [Host -> Seq(Message)],
           \A g \in Host \ {h} : SameHost(g), Account(h)'
    PROVE  IInv'
<1>1. wpc \in [Worker -> WorkerPoint]
  BY DEF IInv, TypeOK
<1>2. /\ wpc' \in [Worker -> WorkerPoint]
      /\ \A w \in Worker : wpc'[w] = wpc[w] \/ (Running(w) /\ wpc'[w] = "dead")
  BY <1>1 DEF AtMostKilled, WorkerPoint
<1>3. TypeOK'
  BY <1>2 DEF IInv, TypeOK, workerLogs
<1>4. \A g \in Host : Account(g)'
  BY Frame
<1>5. \A w \in Worker : Script(w)'
  <2> SUFFICES ASSUME NEW w \in Worker PROVE Script(w)'
    OBVIOUS
  <2>1. CASE wpc'[w] = wpc[w]
    <3>1. SameWorker(w)
      BY <2>1 DEF SameWorker, workerLogs
    <3> QED
      BY <3>1, Frame
  <2>2. CASE wpc'[w] = "dead"
    BY <2>2 DEF Script, Working, Ending
  <2> QED
    BY <1>2, <2>1, <2>2
<1>6. Spawned' = Spawned
  BY <1>2 DEF Spawned, Running
<1>7. Authored'
  BY <1>6 DEF IInv, Authored, workerLogs
<1>8. LastWord'
  <2>1. Alone' => Alone
    BY <1>6 DEF Alone
  <2> QED
    BY <1>2, <2>1 DEF IInv, LastWord, Running
<1>9. Numbered' /\ Whole' /\ TerminalMatchesResponse'
  BY DEF IInv, Numbered, Whole, TerminalMatchesResponse
<1> QED
  BY <1>3, <1>4, <1>5, <1>7, <1>8, <1>9 DEF IInv

\* A host on its way, or back without a status of its worker.
LEMMA AccountAfter ==
    ASSUME IInv, NEW h \in Host, UNCHANGED <<ledger, response>>,
           AlignedIn(ledger, delivered'[h]),
           \/ hpc'[h] \notin {"idle", "opening", "judging"} /\ outcome'[h] = outcome[h]
           \/ hpc'[h] = "idle" /\ outcome'[h] \notin Status
    PROVE  Account(h)'
<1>1. Account(h)
  BY DEF IInv
<1>2. AlignedIn(ledger, delivered[h])' = AlignedIn(ledger, delivered'[h])
  BY DEF AlignedIn
<1>3. "completed" \in Status
  BY DEF Status, TerminalKind
<1> QED
  BY <1>1, <1>2, <1>3 DEF Account, AlignedIn

\* A host back with the status of the response, proved by what it read.
LEMMA Believed ==
    ASSUME IInv, NEW h \in Host, UNCHANGED <<ledger, response>>, response # "none",
           NEW q \in Seq(Message), AlignedIn(ledger, q), TerminalEvidence(response, q),
           delivered'[h] = q, hpc'[h] = "idle", outcome'[h] = response
    PROVE  Account(h)'
<1>1. response \in Status
  BY DEF IInv, TypeOK
<1>2. EndsIn(q, response)
  BY <1>1, TerminalSaid DEF EndsIn, Status
<1>3. \E p \in Seq(Message) : /\ AlignedIn(ledger, p)' /\ EndsIn(p, response')
                              /\ TerminalEvidence(response', p)
  BY <1>2 DEF AlignedIn
<1> QED
  BY <1>2, <1>3 DEF Account, AlignedIn

\* The steps of a host that spawn no worker.
LEMMA HostStep ==
    ASSUME IInv, NEW h \in Host,
           \/ Launch(h) \/ Reopen(h) \/ Poll(h) \/ RequestCancel(h) \/ RequestInterrupt(h)
           \/ PollAborts(h) \/ Timeout(h) \/ WaitEnds(h) \/ Collect(h) \/ Judge(h) \/ HostDies(h)
    PROVE  IInv'
<1> DEFINE all == InOrder(ledger)
<1>1. /\ ledger \in SUBSET Message /\ IsFiniteSet(ledger) /\ DistinctIn(ledger)
      /\ all \in Seq(Message)
      /\ hpc \in [Host -> HostPoint] /\ outcome \in [Host -> Outcome]
      /\ delivered \in [Host -> Seq(Message)] /\ seen \in [Host -> Seq(Message)]
      /\ Account(h)
  BY HostFacts
<1>2. UNCHANGED <<ledger, response, workerLogs>>
  BY DEF Launch, Reopen, Poll, RequestCancel, RequestInterrupt, PollAborts, Timeout, WaitEnds,
         Collect, Judge, HostDies, files, workerVars, workerLogs
<1>3. AtMostKilled
  <2>1. CASE PollAborts(h) \/ WaitEnds(h)
    <3>1. wpc' = wpc \/ Kill(child[h])
      BY <2>1 DEF PollAborts, WaitEnds
    <3> QED
      BY <3>1, Killing DEF AtMostKilled
  <2>2. CASE ~(PollAborts(h) \/ WaitEnds(h))
    BY <2>2 DEF AtMostKilled, Launch, Reopen, Poll, RequestCancel, RequestInterrupt, Timeout,
                Collect, Judge, HostDies, workerVars
  <2> QED
    BY <2>1, <2>2
<1>4. Readable(ledger) => AlignedIn(ledger, all)
  BY <1>1, ReadableAligned
<1>5. AlignedIn(ledger, delivered[h])
  BY <1>1 DEF Account
<1> HIDE DEF all
\* What is left to show of each action.
<1> DEFINE Moved == /\ \E l \in HostPoint : hpc' = [hpc EXCEPT ![h] = l]
                    /\ outcome' = outcome \/ \E o \in Outcome : outcome' = [outcome EXCEPT ![h] = o]
                    /\ seen' = seen \/ \E q \in Seq(Message) : seen' = [seen EXCEPT ![h] = q]
                    /\ delivered' \in [Host -> Seq(Message)]
                    /\ \A g \in Host \ {h} : delivered'[g] = delivered[g]
                    /\ Account(h)'
<1>6. {"callback_failed", "ledger_invalid", "evidence_invalid", "reconciliation", "timeout",
       "disconnected", "died"} \cap Status = {}
  BY DEF Status, TerminalKind
<1>7. ASSUME Launch(h) PROVE Moved
  <2>1. /\ delivered' = [delivered EXCEPT ![h] = <<>>] /\ seen' = [seen EXCEPT ![h] = all]
        /\ \/ Readable(ledger) /\ hpc' = [hpc EXCEPT ![h] = "opening"] /\ outcome' = outcome
           \/ /\ hpc' = [hpc EXCEPT ![h] = "idle"]
              /\ outcome' = [outcome EXCEPT ![h] = "ledger_invalid"]
    BY <1>7 DEF Launch, HostTo, Returns, all
  <2>2. delivered' \in [Host -> Seq(Message)] /\ delivered'[h] = <<>> /\ seen'[h] = all
    BY <1>1, <2>1
  <2>3. AlignedIn(ledger, delivered'[h])
    BY <2>2 DEF AlignedIn
  <2>4. CASE hpc' = [hpc EXCEPT ![h] = "opening"] /\ outcome' = outcome /\ Readable(ledger)
    <3>1. hpc'[h] = "opening"
      BY <1>1, <2>4
    <3>2. Account(h)'
      BY <1>1, <1>2, <1>4, <2>2, <2>3, <2>4, <3>1 DEF Account, AlignedIn
    <3>3. "opening" \in HostPoint
      BY DEF HostPoint
    <3> QED
      BY <1>1, <2>1, <2>2, <2>4, <3>2, <3>3
  <2>5. CASE /\ hpc' = [hpc EXCEPT ![h] = "idle"]
             /\ outcome' = [outcome EXCEPT ![h] = "ledger_invalid"]
    <3>1. hpc'[h] = "idle" /\ outcome'[h] = "ledger_invalid"
      BY <1>1, <2>5
    <3>2. Account(h)'
      BY <1>2, <1>6, <2>3, <3>1, AccountAfter
    <3>3. "idle" \in HostPoint /\ "ledger_invalid" \in Outcome
      BY DEF HostPoint, Outcome
    <3> QED
      BY <1>1, <2>1, <2>2, <2>5, <3>2, <3>3
  <2> QED
    BY <2>1, <2>4, <2>5
<1>8. ASSUME Reopen(h) PROVE Moved
  <2>1. hpc[h] = "opening" /\ seen' = seen
    BY <1>8 DEF Reopen, HostAt
  <2>2. /\ AlignedIn(ledger, seen[h]) /\ seen[h] \in Seq(Message)
        /\ delivered[h] = <<>> /\ Len(delivered[h]) <= Len(seen[h])
    BY <1>1, <2>1 DEF Account
  <2>3. CASE /\ Deliver(h, seen[h])
             /\ \/ /\ Returns(h, response) /\ response # "none"
                   /\ TerminalEvidence(response, seen[h])
                \/ Returns(h, "reconciliation")
    <3>1. /\ delivered' \in [Host -> Seq(Message)] /\ delivered'[h] = seen[h]
          /\ \A g \in Host \ {h} : delivered'[g] = delivered[g]
          /\ AlignedIn(ledger, delivered'[h])
      BY <2>2, <2>3, Handed
    <3>2. CASE Returns(h, "reconciliation")
      <4>1. /\ hpc' = [hpc EXCEPT ![h] = "idle"]
            /\ outcome' = [outcome EXCEPT ![h] = "reconciliation"]
        BY <3>2 DEF Returns, HostTo
      <4>2. hpc'[h] = "idle" /\ outcome'[h] = "reconciliation"
        BY <1>1, <4>1
      <4>3. Account(h)'
        BY <1>2, <1>6, <3>1, <4>2, AccountAfter
      <4>4. "idle" \in HostPoint /\ "reconciliation" \in Outcome
        BY DEF HostPoint, Outcome
      <4> QED
        BY <2>1, <3>1, <4>1, <4>3, <4>4
    <3>3. CASE /\ Returns(h, response) /\ response # "none"
               /\ TerminalEvidence(response, seen[h])
      <4>1. /\ hpc' = [hpc EXCEPT ![h] = "idle"]
            /\ outcome' = [outcome EXCEPT ![h] = response]
        BY <3>3 DEF Returns, HostTo
      <4>2. hpc'[h] = "idle" /\ outcome'[h] = response
        BY <1>1, <4>1
      <4>3. Account(h)'
        BY <1>2, <2>2, <3>1, <3>3, <4>2, Believed
      <4>4. "idle" \in HostPoint /\ response \in Outcome
        BY <3>3 DEF HostPoint, Outcome, IInv, TypeOK
      <4> QED
        BY <2>1, <3>1, <4>1, <4>3, <4>4
    <3> QED
      BY <2>3, <3>2, <3>3
  <2>4. CASE Returns(h, "evidence_invalid") /\ delivered' = delivered
    <3>1. /\ hpc' = [hpc EXCEPT ![h] = "idle"]
          /\ outcome' = [outcome EXCEPT ![h] = "evidence_invalid"]
      BY <2>4 DEF Returns, HostTo
    <3>2. hpc'[h] = "idle" /\ outcome'[h] = "evidence_invalid"
      BY <1>1, <3>1
    <3>3. Account(h)'
      BY <1>2, <1>5, <1>6, <2>4, <3>2, AccountAfter
    <3>4. "idle" \in HostPoint /\ "evidence_invalid" \in Outcome
      BY DEF HostPoint, Outcome
    <3> QED
      BY <1>1, <2>1, <2>4, <3>1, <3>3, <3>4
  <2>5. CASE HandlerRaises(h, seen[h])
    <3>1. /\ delivered' \in [Host -> Seq(Message)]
          /\ \A g \in Host \ {h} : delivered'[g] = delivered[g]
          /\ AlignedIn(ledger, delivered'[h])
          /\ hpc' = [hpc EXCEPT ![h] = "idle"]
          /\ outcome' = [outcome EXCEPT ![h] = "callback_failed"]
      BY <2>2, <2>5, Raised
    <3>2. hpc'[h] = "idle" /\ outcome'[h] = "callback_failed"
      BY <1>1, <3>1
    <3>3. Account(h)'
      BY <1>2, <1>6, <3>1, <3>2, AccountAfter
    <3>4. "idle" \in HostPoint /\ "callback_failed" \in Outcome
      BY DEF HostPoint, Outcome
    <3> QED
      BY <2>1, <3>1, <3>3, <3>4
  <2> QED
    BY <1>8, <2>3, <2>4, <2>5 DEF Reopen
<1>9. ASSUME Poll(h) PROVE Moved
  <2>1. /\ Readable(ledger) /\ Deliver(h, all)
        /\ hpc' = [hpc EXCEPT ![h] = "controlling"] /\ seen' = seen /\ outcome' = outcome
    BY <1>9 DEF Poll, HostTo, all
  <2>2. /\ delivered' \in [Host -> Seq(Message)]
        /\ \A g \in Host \ {h} : delivered'[g] = delivered[g]
        /\ AlignedIn(ledger, delivered'[h])
    BY <1>1, <1>4, <2>1, Handed
  <2>3. hpc'[h] = "controlling" /\ outcome'[h] = outcome[h]
    BY <1>1, <2>1
  <2>4. Account(h)'
    BY <1>2, <2>2, <2>3, AccountAfter
  <2>5. "controlling" \in HostPoint
    BY DEF HostPoint
  <2> QED
    BY <2>1, <2>2, <2>4, <2>5
<1>10. ASSUME RequestCancel(h) \/ RequestInterrupt(h) \/ Timeout(h) \/ WaitEnds(h) PROVE Moved
  <2>1. /\ \E l \in {"clocking", "polling", "waiting", "collecting"} : hpc' = [hpc EXCEPT ![h] = l]
        /\ seen' = seen /\ outcome' = outcome /\ delivered' = delivered
    BY <1>10 DEF RequestCancel, RequestInterrupt, Timeout, WaitEnds, HostTo
  <2>2. hpc'[h] \notin {"idle", "opening", "judging"} /\ outcome'[h] = outcome[h]
    BY <1>1, <2>1
  <2>3. Account(h)'
    BY <1>2, <1>5, <2>1, <2>2, AccountAfter
  <2>4. {"clocking", "polling", "waiting", "collecting"} \subseteq HostPoint
    BY DEF HostPoint
  <2> QED
    BY <1>1, <2>1, <2>3, <2>4
<1>11. ASSUME PollAborts(h) PROVE Moved
  <2>1. seen' = seen
    BY <1>11 DEF PollAborts
  <2>2. CASE Readable(ledger) /\ HandlerRaises(h, all)
    <3>1. /\ delivered' \in [Host -> Seq(Message)]
          /\ \A g \in Host \ {h} : delivered'[g] = delivered[g]
          /\ AlignedIn(ledger, delivered'[h])
          /\ hpc' = [hpc EXCEPT ![h] = "idle"]
          /\ outcome' = [outcome EXCEPT ![h] = "callback_failed"]
      BY <1>1, <1>4, <2>2, Raised
    <3>2. hpc'[h] = "idle" /\ outcome'[h] = "callback_failed"
      BY <1>1, <3>1
    <3>3. Account(h)'
      BY <1>2, <1>6, <3>1, <3>2, AccountAfter
    <3>4. "idle" \in HostPoint /\ "callback_failed" \in Outcome
      BY DEF HostPoint, Outcome
    <3> QED
      BY <2>1, <3>1, <3>3, <3>4
  <2>3. CASE Returns(h, "ledger_invalid") /\ delivered' = delivered
    <3>1. /\ hpc' = [hpc EXCEPT ![h] = "idle"]
          /\ outcome' = [outcome EXCEPT ![h] = "ledger_invalid"]
      BY <2>3 DEF Returns, HostTo
    <3>2. hpc'[h] = "idle" /\ outcome'[h] = "ledger_invalid"
      BY <1>1, <3>1
    <3>3. Account(h)'
      BY <1>2, <1>5, <1>6, <2>3, <3>2, AccountAfter
    <3>4. "idle" \in HostPoint /\ "ledger_invalid" \in Outcome
      BY DEF HostPoint, Outcome
    <3> QED
      BY <1>1, <2>1, <2>3, <3>1, <3>3, <3>4
  <2> QED
    BY <1>11, <2>2, <2>3 DEF PollAborts, all
<1>12. ASSUME Collect(h) PROVE Moved
  <2>1. CASE /\ Readable(ledger) /\ Deliver(h, all) /\ seen' = [seen EXCEPT ![h] = all]
             /\ hpc' = [hpc EXCEPT ![h] = "judging"] /\ outcome' = outcome
    <3>1. Len(delivered[h]) <= Len(all)
      BY <1>1, <1>5, AlignedBegins DEF all
    <3>2. /\ delivered' \in [Host -> Seq(Message)] /\ delivered'[h] = all
          /\ \A g \in Host \ {h} : delivered'[g] = delivered[g]
          /\ AlignedIn(ledger, delivered'[h])
      BY <1>1, <1>4, <2>1, <3>1, Handed
    <3>3. hpc'[h] = "judging" /\ seen'[h] = all /\ outcome'[h] = outcome[h]
      BY <1>1, <2>1
    <3>4. Account(h)'
      BY <1>1, <1>2, <3>2, <3>3 DEF Account, AlignedIn
    <3>5. "judging" \in HostPoint
      BY DEF HostPoint
    <3> QED
      BY <1>1, <2>1, <3>2, <3>4, <3>5
  <2>2. CASE Readable(ledger) /\ HandlerRaises(h, all) /\ seen' = seen
    <3>1. /\ delivered' \in [Host -> Seq(Message)]
          /\ \A g \in Host \ {h} : delivered'[g] = delivered[g]
          /\ AlignedIn(ledger, delivered'[h])
          /\ hpc' = [hpc EXCEPT ![h] = "idle"]
          /\ outcome' = [outcome EXCEPT ![h] = "callback_failed"]
      BY <1>1, <1>4, <2>2, Raised
    <3>2. hpc'[h] = "idle" /\ outcome'[h] = "callback_failed"
      BY <1>1, <3>1
    <3>3. Account(h)'
      BY <1>2, <1>6, <3>1, <3>2, AccountAfter
    <3>4. "idle" \in HostPoint /\ "callback_failed" \in Outcome
      BY DEF HostPoint, Outcome
    <3> QED
      BY <2>2, <3>1, <3>3, <3>4
  <2>3. CASE Returns(h, "ledger_invalid") /\ delivered' = delivered /\ seen' = seen
    <3>1. /\ hpc' = [hpc EXCEPT ![h] = "idle"]
          /\ outcome' = [outcome EXCEPT ![h] = "ledger_invalid"]
      BY <2>3 DEF Returns, HostTo
    <3>2. hpc'[h] = "idle" /\ outcome'[h] = "ledger_invalid"
      BY <1>1, <3>1
    <3>3. Account(h)'
      BY <1>2, <1>5, <1>6, <2>3, <3>2, AccountAfter
    <3>4. "idle" \in HostPoint /\ "ledger_invalid" \in Outcome
      BY DEF HostPoint, Outcome
    <3> QED
      BY <1>1, <2>3, <3>1, <3>3, <3>4
  <2> QED
    BY <1>12, <2>1, <2>2, <2>3 DEF Collect, HostTo, all
<1>13. ASSUME Judge(h) PROVE Moved
  <2>1. hpc[h] = "judging" /\ seen' = seen /\ delivered' = delivered
    BY <1>13 DEF Judge, HostAt
  <2>2. AlignedIn(ledger, seen[h]) /\ seen[h] \in Seq(Message) /\ delivered[h] = seen[h]
    BY <1>1, <2>1 DEF Account
  <2>3. CASE \E o \in {"timeout", "disconnected", "evidence_invalid"} : Returns(h, o)
    <3>1. PICK o \in {"timeout", "disconnected", "evidence_invalid"} :
             /\ hpc' = [hpc EXCEPT ![h] = "idle"]
             /\ outcome' = [outcome EXCEPT ![h] = o]
      BY <2>3 DEF Returns, HostTo
    <3>2. hpc'[h] = "idle" /\ outcome'[h] = o
      BY <1>1, <3>1
    <3>3. Account(h)'
      BY <1>2, <1>5, <1>6, <2>1, <3>2, AccountAfter
    <3>4. "idle" \in HostPoint /\ o \in Outcome
      BY DEF HostPoint, Outcome
    <3> QED
      BY <1>1, <2>1, <3>1, <3>3, <3>4
  <2>4. CASE Returns(h, response) /\ response # "none" /\ TerminalEvidence(response, seen[h])
    <3>1. /\ hpc' = [hpc EXCEPT ![h] = "idle"]
          /\ outcome' = [outcome EXCEPT ![h] = response]
      BY <2>4 DEF Returns, HostTo
    <3>2. hpc'[h] = "idle" /\ outcome'[h] = response
      BY <1>1, <3>1
    <3>3. Account(h)'
      BY <1>2, <2>1, <2>2, <2>4, <3>2, Believed
    <3>4. "idle" \in HostPoint /\ response \in Outcome
      BY <2>4 DEF HostPoint, Outcome, IInv, TypeOK
    <3> QED
      BY <1>1, <2>1, <3>1, <3>3, <3>4
  <2> QED
    BY <1>13, <2>3, <2>4 DEF Judge
<1>14. ASSUME HostDies(h) PROVE Moved
  <2>1. /\ hpc' = [hpc EXCEPT ![h] = "idle"] /\ outcome' = [outcome EXCEPT ![h] = "died"]
        /\ seen' = seen /\ delivered' = delivered
    BY <1>14 DEF HostDies, Returns, HostTo
  <2>2. hpc'[h] = "idle" /\ outcome'[h] = "died"
    BY <1>1, <2>1
  <2>3. Account(h)'
    BY <1>2, <1>5, <1>6, <2>1, <2>2, AccountAfter
  <2>4. "idle" \in HostPoint /\ "died" \in Outcome
    BY DEF HostPoint, Outcome
  <2>5. /\ \E l \in HostPoint : hpc' = [hpc EXCEPT ![h] = l]
        /\ \E o \in Outcome : outcome' = [outcome EXCEPT ![h] = o]
    BY <2>1, <2>4, Zenon
  <2>6. /\ delivered' \in [Host -> Seq(Message)]
        /\ \A g \in Host \ {h} : delivered'[g] = delivered[g]
    BY <1>1, <2>1
  <2>7. outcome' = outcome \/ \E o \in Outcome : outcome' = [outcome EXCEPT ![h] = o]
    BY <2>5, Zenon
  <2>8. seen' = seen \/ \E q \in Seq(Message) : seen' = [seen EXCEPT ![h] = q]
    BY <2>1, Zenon
  <2> QED
    BY <2>3, <2>5, <2>6, <2>7, <2>8, Zenon
<1>15. Moved
  BY <1>7, <1>8, <1>9, <1>10, <1>11, <1>12, <1>13, <1>14
<1>16. /\ hpc' \in [Host -> HostPoint] /\ outcome' \in [Host -> Outcome]
       /\ seen' \in [Host -> Seq(Message)] /\ delivered' \in [Host -> Seq(Message)]
       /\ \A g \in Host \ {h} : SameHost(g)
  <2>1. hpc' \in [Host -> HostPoint] /\ \A g \in Host \ {h} : hpc'[g] = hpc[g]
    <3>1. PICK l \in HostPoint : hpc' = [hpc EXCEPT ![h] = l]
      BY <1>15
    <3> QED
      BY <1>1, <3>1
  <2>2. outcome' \in [Host -> Outcome] /\ \A g \in Host \ {h} : outcome'[g] = outcome[g]
    <3>1. CASE \E o \in Outcome : outcome' = [outcome EXCEPT ![h] = o]
      BY <1>1, <3>1
    <3> QED
      BY <1>1, <1>15, <3>1
  <2>3. seen' \in [Host -> Seq(Message)] /\ \A g \in Host \ {h} : seen'[g] = seen[g]
    <3>1. CASE \E q \in Seq(Message) : seen' = [seen EXCEPT ![h] = q]
      BY <1>1, <3>1
    <3> QED
      BY <1>1, <1>15, <3>1
  <2> QED
    BY <1>15, <2>1, <2>2, <2>3 DEF SameHost
<1> QED
  BY <1>2, <1>3, <1>15, <1>16, QuietHost

\* A worker is spawned only while there is no response, so that no worker has
\* had its last word.
LEMMA SpawnStep ==
    ASSUME IInv, NEW h \in Host, Spawn(h)
    PROVE  IInv'
<1>1. PICK w \in Worker : wpc[w] = "unborn" /\ wpc' = [wpc EXCEPT ![w] = "launching"]
  BY DEF Spawn
<1>2. /\ response = "none" /\ hpc' = [hpc EXCEPT ![h] = "polling"]
      /\ UNCHANGED <<ledger, response, workerLogs, delivered, seen, outcome>>
  BY DEF Spawn, files, workerLogs, HostTo
<1>3. /\ wpc \in [Worker -> WorkerPoint] /\ wseq \in [Worker -> Nat]
      /\ wstep \in [Worker -> Nat] /\ TrainingSteps \in Nat /\ TrainingSteps > 0
      /\ Script(w)
  BY WorkerFacts
<1>4. hpc \in [Host -> HostPoint] /\ AlignedIn(ledger, delivered[h])
  BY HostFacts DEF Account
<1>5. TypeOK'
  <2>1. wpc' \in [Worker -> WorkerPoint]
    BY <1>1, <1>3 DEF WorkerPoint, Working
  <2>2. hpc' \in [Host -> HostPoint]
    BY <1>2, <1>4 DEF HostPoint
  <2> QED
    BY <1>2, <2>1, <2>2 DEF IInv, TypeOK, workerLogs
<1>6. \A v \in Worker : Script(v)'
  <2>1. \A v \in Worker \ {w} : SameWorker(v)
    BY <1>1, <1>2, <1>3 DEF SameWorker, workerLogs
  <2>2. \A v \in Worker \ {w} : Script(v)'
    BY <1>2, <2>1, Frame
  <2>3. wpc'[w] = "launching"
    BY <1>1, <1>3
  <2>4. wseq'[w] = 0 /\ wstep'[w] = 0 /\ Told(w)' = <<>>
    BY <1>1, <1>2, <1>3 DEF Script, workerLogs, Told
  <2>5. InStep(w)' /\ Measured(w)'
    BY <2>4 DEF InStep, Measured
  <2>6. Script(w)'
    BY <1>3, <2>3, <2>4, <2>5 DEF Script, Working, Ending
  <2> QED
    BY <2>2, <2>6
<1>7. \A g \in Host : Account(g)'
  <2>1. \A g \in Host \ {h} : SameHost(g)
    BY <1>2, <1>4 DEF SameHost
  <2>2. hpc'[h] = "polling"
    BY <1>2, <1>4
  <2>3. Account(h)'
    BY <1>2, <1>4, <2>2, AccountAfter
  <2> QED
    BY <1>2, <2>1, <2>3, Frame
<1>8. \A m \in ledger : m.kind \notin TerminalKind
  BY <1>2 DEF IInv, TerminalMatchesResponse, TerminalKind
<1>9. LastWord'
  BY <1>2, <1>8 DEF LastWord
<1>10. Authored'
  <2>1. Spawned \subseteq Spawned'
    BY <1>1, <1>3 DEF Spawned
  <2> QED
    BY <1>2, <2>1 DEF IInv, Authored, workerLogs
<1>11. Numbered' /\ Whole' /\ TerminalMatchesResponse'
  BY <1>2 DEF IInv, Numbered, Whole, TerminalMatchesResponse
<1> QED
  BY <1>5, <1>6, <1>7, <1>9, <1>10, <1>11 DEF IInv

LEMMA InitInv ==
    ASSUME Init
    PROVE  IInv
<1>1. TypeOK
  <2>1. IsFiniteSet({})
    BY FS_EmptySet
  <2>2. <<>> \in Seq(Message) /\ NewController.messages = <<>>
    BY DEF NewController
  <2> QED
    BY <2>1, <2>2 DEF Init, TypeOK, WorkerPoint, HostPoint, Outcome, Status, TerminalKind
<1>2. Numbered /\ TerminalMatchesResponse /\ Whole /\ Authored /\ LastWord
  BY DEF Init, Numbered, DistinctIn, TerminalMatchesResponse, Whole, Authored, LastWord
<1>3. \A w \in Worker : Script(w)
  BY DEF Init, Script, Told, NewController, Working, Ending
<1>4. \A h \in Host : Account(h)
  BY DEF Init, Account, AlignedIn, Status, TerminalKind
<1> QED
  BY <1>1, <1>2, <1>3, <1>4 DEF IInv

\* Every step keeps the inductive invariant: what a worker at work told is on
\* disk under its numbers, a terminal message has a response of its kind, and
\* what hosts read and reported has its proof among the files.
THEOREM Inductive == Spec => []IInv
<1>1. Init => IInv
  BY InitInv
<1>2. IInv /\ [Next]_vars => IInv'
  <2> SUFFICES ASSUME IInv, [Next]_vars PROVE IInv'
    OBVIOUS
  <2>1. CASE UNCHANGED vars
    <3>1. /\ UNCHANGED <<ledger, response, wpc, workerLogs, Places>>
      BY <2>1 DEF vars, workerVars, hostVars, workerLogs, Places
    <3>2. (\A w \in Worker : SameWorker(w)) /\ \A h \in Host : SameHost(h)
      BY <3>1 DEF SameWorker, SameHost, workerLogs, Places
    <3>3. (\A w \in Worker : Script(w)') /\ \A h \in Host : Account(h)'
      BY <3>1, <3>2, Frame
    <3>4. TypeOK'
      BY <3>1 DEF IInv, TypeOK, workerLogs, Places
    <3>5. Numbered' /\ TerminalMatchesResponse' /\ Whole'
      BY <3>1 DEF IInv, Numbered, TerminalMatchesResponse, Whole
    <3>6. Authored' /\ LastWord'
      BY <3>1 DEF IInv, Authored, LastWord, Alone, Spawned, workerLogs
    <3> QED
      BY <3>3, <3>4, <3>5, <3>6 DEF IInv
  <2>2. ASSUME NEW w \in Worker, WorkerStep(w) \/ OperationFails(w) \/ WorkerDies(w)
        PROVE  IInv'
    BY <2>2, TellingStep, SilentStep DEF WorkerStep
  <2>3. ASSUME NEW h \in Host, Spawn(h) PROVE IInv'
    BY <2>3, SpawnStep
  <2>4. ASSUME NEW h \in Host,
               \/ Launch(h) \/ Reopen(h) \/ Poll(h) \/ RequestCancel(h) \/ RequestInterrupt(h)
               \/ PollAborts(h) \/ Timeout(h) \/ WaitEnds(h) \/ Collect(h) \/ Judge(h) \/ HostDies(h)
        PROVE  IInv'
    BY <2>4, HostStep
  <2> QED
    BY <2>1, <2>2, <2>3, <2>4 DEF Next
<1> QED
  BY <1>1, <1>2, PTL DEF Spec

-----------------------------------------------------------------------------
(* What follows                                                            *)

\* No worker, however late or however many, adds a terminal message that
\* disagrees with the response.
THEOREM TerminalAgrees == Spec => []TerminalMatchesResponse
<1>1. IInv => TerminalMatchesResponse
  BY DEF IInv
<1> QED
  BY <1>1, Inductive, PTL

\* Callers are handed a beginning of the durable messages, whatever their
\* number, whatever was read meanwhile and whoever died.
THEOREM HandedInOrder == Spec => []DeliveredInOrder
<1>1. ASSUME IInv, NEW h \in Host PROVE IsPrefix(delivered[h], InOrder(ledger))
  <2> DEFINE d == delivered[h]
             q == InOrder(ledger)
  <2>1. /\ ledger \in SUBSET Message /\ IsFiniteSet(ledger) /\ DistinctIn(ledger)
        /\ q \in Seq(Message) /\ d \in Seq(Message) /\ AlignedIn(ledger, d)
    BY <1>1, HostFacts DEF Account
  <2>2. Len(d) <= Len(q) /\ \A i \in 1 .. Len(d) : q[i] = d[i]
    BY <2>1, AlignedBegins
  <2>3. d = SubSeq(q, 1, Len(d))
    BY <2>1, <2>2
  <2> HIDE DEF d, q
  <2>4. IsPrefix(d, q)
    BY <2>2, <2>3 DEF IsPrefix
  <2> QED
    BY <2>4 DEF d, q
<1>2. IInv => DeliveredInOrder
  BY <1>1 DEF DeliveredInOrder
<1> QED
  BY <1>2, Inductive, PTL

LEMMA AtMostOne ==
    ASSUME Cardinality(Spawned) <= 1
    PROVE  Alone
<1> SUFFICES ASSUME NEW v \in Spawned, NEW w \in Spawned, v # w PROVE FALSE
  BY DEF Alone
<1>1. IsFiniteSet(Spawned)
  <2>1. IsFiniteSet(1 .. MaxWorkers)
    BY BoundsAssumption, FS_Interval
  <2> QED
    BY <2>1, FS_Subset DEF Spawned, Worker
<1>2. /\ {v, w} \in SUBSET Spawned /\ IsFiniteSet({v}) /\ Cardinality({v}) = 1
      /\ {v, w} = {v} \cup {w}
  BY FS_Singleton
<1>3. Cardinality({v, w}) = 2
  BY <1>2, FS_AddElement
<1>4. Cardinality({v, w}) <= Cardinality(Spawned) /\ Cardinality(Spawned) \in Nat
  BY <1>1, <1>2, FS_Subset, FS_CardinalityType
<1> QED
  BY <1>3, <1>4

\* What a launch believed stays what every later reader finds: a worker that
\* was alone has nothing to add after its terminal message.
THEOREM EvidenceStays == Spec => []EvidenceEndures
<1>1. ASSUME IInv, NEW h \in Host, outcome[h] \in Status, Cardinality(Spawned) <= 1
      PROVE  /\ response = outcome[h]
             /\ Readable(ledger) /\ TerminalEvidence(response, InOrder(ledger))
  <2>1. /\ ledger \in SUBSET Message /\ IsFiniteSet(ledger) /\ DistinctIn(ledger)
        /\ Account(h)
    BY <1>1, HostFacts
  <2>2. response = outcome[h] /\ response \in TerminalKind
    BY <1>1, <2>1 DEF Account, Status
  <2>3. PICK q \in Seq(Message) : /\ AlignedIn(ledger, q) /\ EndsIn(q, response)
                                  /\ TerminalEvidence(response, q)
    BY <1>1, <2>1 DEF Account
  <2>4. /\ Len(q) \in DOMAIN q /\ q[Len(q)] \in ledger
        /\ q[Len(q)].sequence = Len(q) /\ q[Len(q)].kind \in TerminalKind
    BY <2>2, <2>3 DEF AlignedIn, EndsIn
  <2>5. Alone
    BY <1>1, AtMostOne
  <2>6. \A f \in ledger : f.sequence <= Len(q)
    BY <1>1, <2>4, <2>5 DEF IInv, LastWord
  <2>7. InOrder(ledger) = q
    BY <2>1, <2>3, <2>6, AlignedWhole
  <2>8. Readable(ledger)
    BY <2>3, <2>7 DEF Readable, AlignedIn, TerminalEvidence
  <2> QED
    BY <2>2, <2>3, <2>7, <2>8
<1>2. IInv => EvidenceEndures
  BY <1>1 DEF EvidenceEndures
<1> QED
  BY <1>2, Inductive, PTL

\* A host reports a completed worker only if the files prove the whole
\* training, with any number of hosts and workers writing them.
THEOREM CompletionIsProved == Spec => []NoFalseCompletion
<1>1. ASSUME IInv, NEW h \in Host, outcome[h] = "completed", hpc[h] = "idle"
      PROVE  /\ delivered[h] = InOrder(ledger)
             /\ Len(delivered[h]) > 1
             /\ delivered[h][Len(delivered[h])].kind = "completed"
             /\ delivered[h][Len(delivered[h]) - 1].kind = "artifact_ready"
             /\ StepIn(delivered[h]) = TrainingSteps
             /\ ~\E m \in ledger : m.kind = "cancellation_requested"
  <2> DEFINE d == delivered[h]
             n == Len(d)
             last == d[n]
  <2>1. /\ ledger \in SUBSET Message /\ IsFiniteSet(ledger) /\ DistinctIn(ledger)
        /\ d \in Seq(Message) /\ AlignedIn(ledger, d) /\ EndsIn(d, "completed")
    BY <1>1, HostFacts DEF Account
  <2>2. /\ n \in Nat /\ DOMAIN d = 1 .. n
        /\ last \in ledger /\ last.sequence = n /\ last.kind = "completed"
    BY <2>1 DEF AlignedIn, EndsIn
  <2> HIDE DEF d, n, last
  <2>3. /\ \A f \in ledger : f.sequence <= n /\ f.kind # "cancellation_requested"
        /\ \E f \in ledger : f.sequence = n - 1 /\ f.kind = "artifact_ready"
        /\ \E f \in ledger :
             /\ f.kind = "metric" /\ f.value = TrainingSteps
             /\ \A g \in ledger : g.kind = "metric" => g.sequence <= f.sequence
    BY <1>1, <2>2 DEF IInv, Whole
  <2>4. d = InOrder(ledger)
    BY <2>1, <2>3, AlignedWhole DEF n
  <2>5. \A f \in ledger : f.sequence \in 1 .. n /\ d[f.sequence] = f
    <3> SUFFICES ASSUME NEW f \in ledger PROVE f.sequence \in 1 .. n /\ d[f.sequence] = f
      OBVIOUS
    <3>1. f.sequence \in Nat \ {0}
      BY <2>1 DEF Message
    <3>2. f.sequence \in 1 .. n
      BY <2>2, <2>3, <3>1
    <3> QED
      BY <2>1, <2>2, <3>2 DEF AlignedIn, DistinctIn
  <2>6. n > 1 /\ d[n - 1].kind = "artifact_ready"
    <3>1. PICK f \in ledger : f.sequence = n - 1 /\ f.kind = "artifact_ready"
      BY <2>3
    <3>2. n - 1 \in 1 .. n /\ d[n - 1] = f
      BY <2>5, <3>1
    <3> QED
      BY <2>2, <3>1, <3>2
  <2>7. StepIn(d) = TrainingSteps
    <3> DEFINE metrics == {i \in DOMAIN d : d[i].kind = "metric"}
    <3>1. PICK f \in ledger : /\ f.kind = "metric" /\ f.value = TrainingSteps
                              /\ \A g \in ledger : g.kind = "metric" => g.sequence <= f.sequence
      BY <2>3
    <3>2. f.sequence \in metrics /\ f.sequence \in Nat /\ d[f.sequence] = f
      BY <2>2, <2>5, <3>1
    <3>3. \A i \in metrics : i \in 1 .. f.sequence
      BY <2>1, <2>2, <3>1, <3>2 DEF AlignedIn
    <3>4. Max(metrics) = f.sequence
      BY <3>2, <3>3, GreatestIs
    <3>5. StepIn(d) = IF metrics = {} THEN 0 ELSE d[Max(metrics)].value
      BY DEF StepIn
    <3> HIDE DEF metrics
    <3> QED
      BY <3>1, <3>2, <3>4, <3>5
  <2> QED
    BY <2>2, <2>3, <2>4, <2>6, <2>7 DEF d, n, last
<1>2. IInv => NoFalseCompletion
  BY <1>1 DEF NoFalseCompletion
<1> QED
  BY <1>2, Inductive, PTL
=============================================================================
